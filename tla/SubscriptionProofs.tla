-------------------------- MODULE SubscriptionProofs --------------------------
(***************************************************************************)
(* Theorems of the governed write path, for every set of customers,         *)
(* products and handlers, every product graph, every client and any number  *)
(* of faults: the records keep their shape, only what the policies permit   *)
(* is written, the audit log is truthful and misses no write, and a change  *)
(* of prices leaves a customer with the charges the policies say.            *)
(***************************************************************************)
EXTENDS SubscriptionProperties, BillingProofs

-----------------------------------------------------------------------------
(* The inductive invariant.  It follows an intent's id from the chain to the  *)
(* handler, to the ids that are written and to the audit log.                 *)

\* The policies permit the intent with this id to the caller that sent it.
Allowed(id) == issued[id].intent \in AllowedIntents(issued[id].caller)

(***************************************************************************)
(* What a handler's step relies on.  A request without an id did not come   *)
(* through the broker, and updates a line.  An addition that waits for its  *)
(* price holds a copy of a record that has no line of the product; a        *)
(* handler that has still to send its event has written; one that answers   *)
(* with success has written, unless it is a recalculation, which may find   *)
(* nobody.                                                                  *)
(***************************************************************************)
RequestFits(w) ==
    LET req == work[w].req
    IN  /\ req.id \in Ids
        /\ req.id # 0 => Allowed(req.id)
        /\ req.id = 0 => req.op = "update"
        /\ req.op \in {"add", "update", "recalculate", "price"}
        /\ req.sku \in Skus
        /\ req.op \in {"add", "update"} => req.cust \in Customers
        /\ req.op = "recalculate" => issued[req.id].intent = "recalculate_billing"
        /\ req.stat \in {Kept, "C"}

ProgressFits(w) ==
    LET req == work[w].req
    IN  /\ work[w].pc \in {"fetch", "fetched"} =>
              /\ req.op \in {"add", "recalculate"}
              /\ req.op = "add" => OnePerSku(work[w].raw) /\ ~Holds(work[w].raw, req.sku)
        /\ work[w].pc \in {"capture", "emit", "next", "announce"} => req.id \in written \cup {0}
        /\ work[w].pc = "done" /\ work[w].ok =>
              req.id \in written \cup {0} \/ issued[req.id].intent = "recalculate_billing"

WorkFits == \A w \in Tasks : work[w].pc # "idle" => RequestFits(w) /\ ProgressFits(w)

(***************************************************************************)
(* A chain carries the intent that was submitted with its id; it goes on    *)
(* only when that is permitted, and waits only for the handler of its own   *)
(* request.                                                                 *)
(***************************************************************************)
IntentFits(b) ==
    LET intent == chain[b].intent
    IN  /\ intent.id \in Ids \ {0}
        /\ issued[intent.id] = [caller |-> intent.caller, intent |-> intent.intent]
        /\ intent.sku \in Skus
        /\ intent.intent \in {"add_subscription", "cancel_subscription"} => intent.cust \in Customers
        /\ chain[b].pc # "permission" => Permitted(b)
        /\ chain[b].pc \in {"portfolio", "combination"} => intent.intent = "add_subscription"

HandlerFits(b) ==
    /\ chain[b].pc \notin {"idle", "wait"} => work[b].pc = "idle"
    /\ chain[b].pc = "wait" => work[b].pc # "idle" /\ work[b].req.id = chain[b].intent.id

ChainFits == \A b \in Tasks : chain[b].pc # "idle" => IntentFits(b) /\ HandlerFits(b)

(***************************************************************************)
(* Every chain has an id of its own; until it is forwarded no handler has   *)
(* it and nothing is written for it.                                        *)
(***************************************************************************)
OneChainPerId ==
    \A b, d \in Tasks :
        chain[b].pc # "idle" /\ chain[d].pc # "idle" /\ chain[b].intent.id = chain[d].intent.id
            => b = d

Unforwarded ==
    \A b \in Tasks :
        chain[b].pc \notin {"idle", "wait"} =>
            /\ chain[b].intent.id \notin written
            /\ \A w \in Tasks : work[w].pc # "idle" => work[w].req.id # chain[b].intent.id

\* What an entry of the audit log stands for.
EntryFits(entry) ==
    /\ entry.outcome = "denied" => ~Allowed(entry.id)
    /\ entry.outcome = "permitted" =>
          entry.id \in written \/ issued[entry.id].intent = "recalculate_billing"

AuditFits == \A i \in DOMAIN audit : EntryFits(audit[i])

IInv == /\ TypeOK /\ OneLinePerSku
        /\ WorkFits /\ ChainFits /\ OneChainPerId /\ Unforwarded
        /\ AuditFits /\ OnlyPermittedWrites

-----------------------------------------------------------------------------
(* The initial states.                                                        *)

LEMMA InitInvariant == Init => IInv
<1> SUFFICES ASSUME Init PROVE IInv
  OBVIOUS
<1> USE DEF Init, BillingInit
<1>1. \A w \in Tasks : work[w].pc = "idle" /\ chain[w].pc = "idle"
  BY DEF NoWork, NoChain
<1>2. TypeOK
  <2>1. book \in [Customers -> Seq(Line)]
    BY SeedParameters
  <2>2. price \in [Skus -> Nat]
    BY CatalogueParameters
  <2>3. work \in [Tasks -> Work]
    BY DEF NoWork, NoRequest, Work, Request, Line, Kept, KeptCharge, Nobody
  <2>4. chain \in [Tasks -> Chain]
    BY DEF NoChain, NoIntent, Chain, Intent, Nobody
  <2>5. /\ issued \in Seq([caller : Clients, intent : Intents])
        /\ written \subseteq Ids \ {0}
        /\ audit \in Seq([id : Ids \ {0}, outcome : {"permitted", "denied", "error"}])
        /\ Len(audit) <= AuditMax /\ faults \in Nat
    BY BrokerParameters
  <2> QED
    BY <2>1, <2>2, <2>3, <2>4, <2>5 DEF TypeOK
<1>3. OneLinePerSku
  BY SeedParameters DEF OneLinePerSku
<1>4. WorkFits /\ ChainFits /\ OneChainPerId /\ Unforwarded
  BY <1>1 DEF WorkFits, ChainFits, OneChainPerId, Unforwarded
<1>5. AuditFits /\ OnlyPermittedWrites
  BY DEF AuditFits, OnlyPermittedWrites
<1> QED
  BY <1>2, <1>3, <1>4, <1>5 DEF IInv

-----------------------------------------------------------------------------
(* The steps of the handlers.  None of them gives its request up or takes     *)
(* another one, none writes for any other id, and each leaves the records in  *)
(* shape.                                                                     *)

BooksFit == book \in [Customers -> Seq(Line)] /\ \A c \in Customers : OnePerSku(book[c])

HandlerMoves(w) ==
    /\ work[w].pc # "idle"
    /\ work' = [work EXCEPT ![w] = work'[w]]
    /\ work'[w] \in Work /\ work'[w].pc # "idle" /\ work'[w].req = work[w].req
    /\ written \subseteq written' /\ written' \subseteq written \cup ({work[w].req.id} \ {0})
    /\ price' \in [Skus -> Nat]
    /\ BooksFit'
    /\ ProgressFits(w)'

LEMMA BooksFitNow == TypeOK /\ OneLinePerSku <=> TypeOK /\ BooksFit
  BY DEF TypeOK, OneLinePerSku, BooksFit

\* A handler's record, for as long as it has a request.
HandlerKnown(w) == /\ TypeOK /\ BooksFit /\ work[w].pc # "idle"
                   /\ RequestFits(w) /\ ProgressFits(w) /\ UNCHANGED issued

LEMMA KnownRecord ==
    ASSUME NEW w \in Tasks, HandlerKnown(w)
    PROVE  /\ work \in [Tasks -> Work] /\ work[w] \in Work /\ work[w].req \in Request
           /\ work[w].raw \in Seq(Line) /\ work[w].list \in Nat /\ work[w].todo \subseteq Customers
           /\ price \in [Skus -> Nat]
<1>1. work \in [Tasks -> Work] /\ price \in [Skus -> Nat]
  BY DEF HandlerKnown, TypeOK
<1> QED
  BY <1>1 DEF Work

\* A handler that only goes on ...
LEMMA GoesOn ==
    ASSUME NEW w \in Tasks, HandlerKnown(w), UNCHANGED <<book, price, written>>,
           NEW h \in Work, work' = [work EXCEPT ![w] = h], h.req = work[w].req, h.pc # "idle",
           ProgressFits(w)'
    PROVE  HandlerMoves(w)
<1>1. work'[w] = h
  BY KnownRecord
<1>2. price' \in [Skus -> Nat] /\ BooksFit'
  BY KnownRecord DEF HandlerKnown, BooksFit
<1> QED
  BY <1>1, <1>2 DEF HandlerMoves, HandlerKnown

\* ... one that answers ...
LEMMA Answers ==
    ASSUME NEW w \in Tasks, HandlerKnown(w), UNCHANGED <<book, price, written>>,
           NEW ok \in BOOLEAN, Finish(w, ok),
           ok => work[w].req.id \in written \cup {0} \/ issued[work[w].req.id].intent = "recalculate_billing"
    PROVE  HandlerMoves(w)
<1>1. PICK req \in Request : req = work[w].req
  BY KnownRecord
<1>2. PICK h : h = [NoWork EXCEPT !.pc = "done", !.req = req, !.ok = ok]
  OBVIOUS
<1>3. h \in Work /\ h.req = req /\ h.pc = "done" /\ h.ok = ok
  <2>1. h = [pc |-> "done", req |-> req, cust |-> Nobody, raw |-> <<>>, list |-> 0, todo |-> {},
             ok |-> ok]
    BY <1>2 DEF NoWork
  <2>2. <<>> \in Seq(Line)
    OBVIOUS
  <2> QED
    BY <2>1, <2>2 DEF Work
<1>4. work' = [work EXCEPT ![w] = h]
  BY <1>1, <1>2 DEF Finish
<1>5. work'[w] = h
  BY <1>4, KnownRecord
<1>6. ProgressFits(w)'
  BY <1>1, <1>3, <1>5 DEF ProgressFits, HandlerKnown
<1> QED
  BY <1>1, <1>3, <1>4, <1>6, GoesOn

\* ... and one that writes.
LEMMA Commits ==
    ASSUME NEW w \in Tasks, HandlerKnown(w), NEW c \in Customers,
           NEW lines \in Seq(Line), OnePerSku(lines), NEW label \in {"capture", "emit"},
           NEW due \in SUBSET Customers, Commit(w, c, lines, label, due)
    PROVE  HandlerMoves(w)
<1>1. PICK h \in Work : h = work[w]
  BY KnownRecord
<1>2. PICK g : g = [h EXCEPT !.pc = label, !.cust = c, !.raw = lines, !.todo = due]
  OBVIOUS
<1>3. g \in Work /\ g.req = h.req /\ g.pc = label
  BY <1>2 DEF Work
<1>4. work' = [work EXCEPT ![w] = g] /\ work'[w] = g
  BY <1>1, <1>2, KnownRecord DEF Commit
<1>5. written' = written \cup ({h.req.id} \ {0})
  BY <1>1, KnownRecord DEF Commit
<1>6. BooksFit'
  <2>1. book' = [book EXCEPT ![c] = lines]
    BY DEF Commit
  <2> QED
    BY <2>1 DEF HandlerKnown, BooksFit
<1>7. price' \in [Skus -> Nat]
  BY KnownRecord DEF Commit
<1>8. ProgressFits(w)'
  BY <1>3, <1>4, <1>5 DEF ProgressFits
<1> QED
  BY <1>1, <1>3, <1>4, <1>5, <1>6, <1>7, <1>8 DEF HandlerMoves, HandlerKnown

\* PATCH /customers/{customer_id}.
LEMMA UpdateMoves ==
    ASSUME NEW w \in Tasks, HandlerKnown(w), UpdateLine(w)
    PROVE  /\ HandlerMoves(w)
           /\ work[w].req.cust \in Customers
           /\ \A c \in Customers : c # work[w].req.cust => book'[c] = book[c]
           /\ DOMAIN book'[work[w].req.cust] = DOMAIN book[work[w].req.cust]
           /\ \A i \in DOMAIN book[work[w].req.cust] :
                 /\ book'[work[w].req.cust][i].sku = book[work[w].req.cust][i].sku
                 /\ book'[work[w].req.cust][i].list = book[work[w].req.cust][i].list
                 /\ book'[work[w].req.cust][i].stat \in {book[work[w].req.cust][i].stat, "C", Kept}
<1>1. PICK req \in Request : req = work[w].req
  BY KnownRecord
<1>2. req.op = "update" /\ Holds(book[req.cust], req.sku)
  BY <1>1 DEF UpdateLine
<1>3. PICK c \in Customers : c = req.cust
  BY <1>1, <1>2 DEF HandlerKnown, RequestFits
<1>4. PICK lines \in Seq(Line) : lines = book[c] /\ OnePerSku(lines)
  BY DEF HandlerKnown, BooksFit
<1>5. PICK later : later = [lines EXCEPT ![LineOf(lines, req.sku)] = Updated(@, req)]
  OBVIOUS
<1>6. /\ later \in Seq(Line) /\ OnePerSku(later) /\ DOMAIN later = DOMAIN lines
      /\ \A i \in DOMAIN lines : /\ later[i].sku = lines[i].sku /\ later[i].list = lines[i].list
                                  /\ later[i].stat \in {lines[i].stat, req.stat}
  <2>1. req.stat \in {"A", "S", "C", Kept} /\ req.charge \in Nat \cup {KeptCharge}
    BY DEF Request
  <2> QED
    BY <1>2, <1>3, <1>4, <1>5, <2>1, UpdatedLines
<1>7. Commit(w, c, later, "capture", {})
  BY <1>1, <1>3, <1>4, <1>5 DEF UpdateLine
<1>8. req.stat \in {Kept, "C"}
  BY <1>1 DEF HandlerKnown, RequestFits
<1>9. HandlerMoves(w)
  BY <1>6, <1>7, Commits
<1>10. book' = [book EXCEPT ![c] = later]
  BY <1>7 DEF Commit
<1>11. book'[c] = later /\ \A d \in Customers : d # c => book'[d] = book[d]
  BY <1>10 DEF HandlerKnown, BooksFit
<1> QED
  BY <1>1, <1>3, <1>4, <1>6, <1>8, <1>9, <1>11

\* POST /customers/{customer_id}/subscriptions: the line goes to the copy.
LEMMA AddMoves ==
    ASSUME NEW w \in Tasks, HandlerKnown(w), AddCommit(w)
    PROVE  /\ HandlerMoves(w)
           /\ work[w].req.cust \in Customers
           /\ Charged(book'[work[w].req.cust])
           /\ \A c \in Customers : c # work[w].req.cust => book'[c] = book[c]
           /\ ActiveSkus(book'[work[w].req.cust]) = ActiveSkus(work[w].raw) \cup {work[w].req.sku}
           /\ \A i \in DOMAIN work[w].raw :
                 /\ i \in DOMAIN book'[work[w].req.cust]
                 /\ book'[work[w].req.cust][i].sku = work[w].raw[i].sku
                 /\ book'[work[w].req.cust][i].stat = work[w].raw[i].stat
<1>1. PICK h \in Work : h = work[w]
  BY KnownRecord
<1>2. PICK req \in Request : req = h.req
  BY <1>1, KnownRecord
<1>3. req.op = "add" /\ h.pc = "fetched"
  BY <1>1, <1>2 DEF AddCommit
<1>4. PICK c \in Customers : c = req.cust
  BY <1>1, <1>2, <1>3 DEF HandlerKnown, RequestFits
<1>5. PICK raw \in Seq(Line) : raw = h.raw
  BY <1>1, KnownRecord
<1>6. OnePerSku(raw) /\ ~Holds(raw, req.sku) /\ req.sku \in Skus
  BY <1>1, <1>2, <1>3, <1>5 DEF HandlerKnown, ProgressFits, RequestFits
<1>7. req.term \in Nat /\ h.list \in Nat
  BY DEF Request, Work
<1>8. PICK longer : longer = Append(raw, NewLine(req.sku, h.list, req.term))
  OBVIOUS
<1>9. /\ longer \in Seq(Line) /\ OnePerSku(longer)
      /\ ActiveSkus(longer) = ActiveSkus(raw) \cup {req.sku}
      /\ \A i \in DOMAIN raw : i \in DOMAIN longer /\ longer[i] = raw[i]
  BY <1>6, <1>7, <1>8, AppendedLine
<1>10. PICK later : later = Reevaluated(longer)
  OBVIOUS
<1>11. later \in Seq(Line) /\ Alike(longer, later) /\ OnePerSku(later) /\ Charged(later)
  BY <1>9, <1>10, ReevaluatedLines
<1>12. Commit(w, c, later, "capture", {})
  BY <1>1, <1>2, <1>4, <1>5, <1>8, <1>10 DEF AddCommit
<1>13. HandlerMoves(w)
  BY <1>11, <1>12, Commits
<1>14. book' = [book EXCEPT ![c] = later]
  BY <1>12 DEF Commit
<1>15. book'[c] = later /\ \A d \in Customers : d # c => book'[d] = book[d]
  BY <1>14 DEF HandlerKnown, BooksFit
<1>16. ActiveSkus(later) = ActiveSkus(raw) \cup {req.sku}
  BY <1>9, <1>11, AlikeActive
<1>17. \A i \in DOMAIN raw : /\ i \in DOMAIN later
                            /\ later[i].sku = raw[i].sku /\ later[i].stat = raw[i].stat
  BY <1>9, <1>11 DEF Alike
<1> QED
  BY <1>1, <1>2, <1>4, <1>5, <1>11, <1>13, <1>15, <1>16, <1>17

\* POST /recalculate: one customer.
LEMMA RecalculationMoves ==
    ASSUME NEW w \in Tasks, HandlerKnown(w), NEW c \in Customers,
           NEW due \in SUBSET Customers, RecalcCustomer(w, c, due)
    PROVE  /\ HandlerMoves(w)
           /\ Charged(book'[c]) /\ Similar(book[c], book'[c])
           /\ \A d \in Customers : d # c => book'[d] = book[d]
<1>1. PICK h \in Work : h = work[w]
  BY KnownRecord
<1>2. PICK lines \in Seq(Line) : lines = book[c] /\ OnePerSku(lines)
  BY DEF HandlerKnown, BooksFit
<1>3. h.list \in Nat
  BY DEF Work
<1>4. PICK later : later = Repriced(lines, h.req.sku, h.list)
  OBVIOUS
<1>5. later \in Seq(Line) /\ OnePerSku(later) /\ Similar(lines, later) /\ Charged(later)
  BY <1>2, <1>3, <1>4, RepricedLines
<1>6. Commit(w, c, later, "emit", due \ {c})
  BY <1>1, <1>2, <1>4 DEF RecalcCustomer
<1>7. HandlerMoves(w)
  <2>1. PICK left \in SUBSET Customers : left = due \ {c}
    OBVIOUS
  <2> QED
    BY <1>5, <1>6, <2>1, Commits
<1>8. book' = [book EXCEPT ![c] = later]
  BY <1>6 DEF Commit
<1>9. book'[c] = later /\ \A d \in Customers : d # c => book'[d] = book[d]
  BY <1>8 DEF HandlerKnown, BooksFit
<1> QED
  BY <1>2, <1>5, <1>7, <1>9

LEMMA RecalculationSteps ==
    ASSUME NEW w \in Tasks, HandlerKnown(w), NEW c \in Customers,
           RecalcFirst(w, c) \/ RecalcNext(w, c)
    PROVE  \E due \in SUBSET Customers : RecalcCustomer(w, c, due)
<1>1. CASE RecalcFirst(w, c)
  BY <1>1 DEF RecalcFirst, Affected
<1>2. CASE RecalcNext(w, c)
  BY <1>2, KnownRecord DEF RecalcNext
<1> QED
  BY <1>1, <1>2

\* The steps that go on without a write.
LEMMA WaitMoves ==
    ASSUME NEW w \in Tasks, HandlerKnown(w),
           AddStart(w) \/ FetchPrice(w) \/ RecalcStart(w) \/ Emit(w)
    PROVE  HandlerMoves(w)
<1>1. PICK h \in Work : h = work[w]
  BY KnownRecord
<1>2. PICK req \in Request : req = h.req
  BY <1>1, KnownRecord
<1>3. CASE AddStart(w)
  <2>1. req.op = "add" /\ ~Holds(book[req.cust], req.sku)
    BY <1>1, <1>2, <1>3 DEF AddStart
  <2>2. PICK c \in Customers : c = req.cust
    BY <1>1, <1>2, <2>1 DEF HandlerKnown, RequestFits
  <2>3. PICK lines \in Seq(Line) : lines = book[c] /\ OnePerSku(lines)
    BY DEF HandlerKnown, BooksFit
  <2>4. PICK g : g = [h EXCEPT !.pc = "fetch", !.raw = lines]
    OBVIOUS
  <2>5. g \in Work /\ g.req = h.req /\ g.pc = "fetch" /\ g.raw = lines
    BY <2>4 DEF Work
  <2>6. work' = [work EXCEPT ![w] = g] /\ work'[w] = g
    BY <1>1, <1>2, <1>3, <2>2, <2>3, <2>4, KnownRecord DEF AddStart
  <2>7. ProgressFits(w)'
    BY <1>1, <1>2, <2>1, <2>2, <2>3, <2>5, <2>6 DEF ProgressFits
  <2> QED
    BY <1>1, <1>3, <2>5, <2>6, <2>7, GoesOn DEF AddStart
<1>4. CASE FetchPrice(w)
  <2>1. h.pc = "fetch" /\ price[req.sku] \in Nat
    BY <1>1, <1>2, <1>4, KnownRecord DEF FetchPrice, HandlerKnown, RequestFits
  <2>2. PICK g : g = [h EXCEPT !.pc = "fetched", !.list = price[req.sku]]
    OBVIOUS
  <2>3. g \in Work /\ g.req = h.req /\ g.pc = "fetched" /\ g.raw = h.raw
    BY <2>1, <2>2 DEF Work
  <2>4. work' = [work EXCEPT ![w] = g] /\ work'[w] = g
    BY <1>1, <1>2, <1>4, <2>2, KnownRecord DEF FetchPrice
  <2>5. ProgressFits(w)'
    BY <1>1, <2>1, <2>3, <2>4 DEF ProgressFits, HandlerKnown
  <2> QED
    BY <1>1, <1>4, <2>3, <2>4, <2>5, GoesOn DEF FetchPrice
<1>5. CASE RecalcStart(w)
  <2>1. PICK g : g = [h EXCEPT !.pc = "fetch"]
    OBVIOUS
  <2>2. g \in Work /\ g.req = h.req /\ g.pc = "fetch"
    BY <2>1 DEF Work
  <2>3. work' = [work EXCEPT ![w] = g] /\ work'[w] = g
    BY <1>1, <1>5, <2>1, KnownRecord DEF RecalcStart
  <2>4. ProgressFits(w)'
    BY <1>1, <1>5, <2>2, <2>3 DEF ProgressFits, RecalcStart
  <2> QED
    BY <1>1, <1>5, <2>2, <2>3, <2>4, GoesOn DEF RecalcStart
<1>6. CASE Emit(w)
  <2>1. PICK g : g = [h EXCEPT !.pc = "next", !.cust = Nobody, !.raw = <<>>]
    OBVIOUS
  <2>2. g \in Work /\ g.req = h.req /\ g.pc = "next"
    <3>1. <<>> \in Seq(Line)
      OBVIOUS
    <3> QED
      BY <2>1, <3>1 DEF Work
  <2>3. work' = [work EXCEPT ![w] = g] /\ work'[w] = g
    BY <1>1, <1>6, <2>1, KnownRecord DEF Emit
  <2>4. ProgressFits(w)'
    BY <1>1, <1>6, <2>2, <2>3 DEF ProgressFits, Emit, HandlerKnown
  <2> QED
    BY <1>1, <1>6, <2>2, <2>3, <2>4, GoesOn DEF Emit
<1> QED
  BY <1>3, <1>4, <1>5, <1>6

\* The steps that answer.
LEMMA AnswerMoves ==
    ASSUME NEW w \in Tasks, HandlerKnown(w),
           \/ UpdateUnknown(w) \/ AddKnown(w) \/ FetchFails(w) \/ Capture(w, TRUE) \/ Capture(w, FALSE)
           \/ RecalcNobody(w) \/ RecalcDone(w) \/ AnnounceProduct(w)
    PROVE  HandlerMoves(w)
<1>1. CASE UpdateUnknown(w) \/ AddKnown(w) \/ FetchFails(w)
  <2>1. Refuse(w)
    BY <1>1 DEF UpdateUnknown, AddKnown, FetchFails
  <2> QED
    BY <2>1, Answers DEF Refuse
<1>2. ASSUME NEW ok \in BOOLEAN, Capture(w, ok) PROVE HandlerMoves(w)
  <2>1. work[w].req.id \in written \cup {0}
    BY <1>2 DEF Capture, HandlerKnown, ProgressFits
  <2> QED
    BY <1>2, <2>1, Answers DEF Capture
<1>3. CASE RecalcNobody(w)
  <2>1. issued[work[w].req.id].intent = "recalculate_billing"
    BY <1>3 DEF RecalcNobody, HandlerKnown, RequestFits
  <2> QED
    BY <1>3, <2>1, Answers DEF RecalcNobody
<1>4. CASE RecalcDone(w)
  <2>1. work[w].req.id \in written \cup {0}
    BY <1>4 DEF RecalcDone, HandlerKnown, ProgressFits
  <2> QED
    BY <1>4, <2>1, Answers DEF RecalcDone
<1>5. CASE AnnounceProduct(w)
  <2>1. work[w].req.id \in written \cup {0}
    BY <1>5 DEF AnnounceProduct, HandlerKnown, ProgressFits
  <2> QED
    BY <1>5, <2>1, Answers DEF AnnounceProduct
<1> QED
  BY <1>1, <1>2, <1>3, <1>4, <1>5

\* PATCH /products/{sku} at the catalogue.
LEMMA ProductMoves ==
    ASSUME NEW w \in Tasks, HandlerKnown(w), UpdateProduct(w)
    PROVE  HandlerMoves(w)
<1>1. PICK h \in Work : h = work[w]
  BY KnownRecord
<1>2. PICK req \in Request : req = h.req
  BY <1>1, KnownRecord
<1>3. PICK g : g = [h EXCEPT !.pc = "announce"]
  OBVIOUS
<1>4. g \in Work /\ g.req = req /\ g.pc = "announce"
  BY <1>2, <1>3 DEF Work
<1>5. work' = [work EXCEPT ![w] = g] /\ work'[w] = g
  BY <1>1, <1>3, KnownRecord DEF UpdateProduct
<1>6. written' = written \cup ({req.id} \ {0})
  BY <1>1, <1>2, KnownRecord DEF UpdateProduct
<1>7. price' \in [Skus -> Nat]
  <2>1. req.list \in Nat
    BY DEF Request
  <2> QED
    BY <1>1, <1>2, <2>1, KnownRecord DEF UpdateProduct
<1>8. BooksFit'
  BY DEF UpdateProduct, HandlerKnown, BooksFit
<1>9. ProgressFits(w)'
  BY <1>4, <1>5, <1>6 DEF ProgressFits
<1> QED
  BY <1>1, <1>2, <1>4, <1>5, <1>6, <1>7, <1>8, <1>9 DEF HandlerMoves, HandlerKnown

LEMMA HandlersMove ==
    ASSUME NEW w \in Tasks, HandlerKnown(w), Write(w) \/ FetchFails(w) \/ Capture(w, FALSE)
    PROVE  HandlerMoves(w)
<1>1. CASE UpdateLine(w)
  BY <1>1, UpdateMoves
<1>2. CASE AddCommit(w)
  BY <1>2, AddMoves
<1>3. ASSUME NEW c \in Customers, RecalcFirst(w, c) \/ RecalcNext(w, c) PROVE HandlerMoves(w)
  BY <1>3, RecalculationSteps, RecalculationMoves
<1>4. CASE UpdateProduct(w)
  BY <1>4, ProductMoves
<1> QED
  BY <1>1, <1>2, <1>3, <1>4, WaitMoves, AnswerMoves DEF Write, Serve

-----------------------------------------------------------------------------
(* The audit log and the intents submitted.                                   *)

Entry == [id : Ids \ {0}, outcome : {"permitted", "denied", "error"}]

\* A record adds the newest entry, and the others were there before.
LEMMA RecordAdds ==
    ASSUME TypeOK, NEW b \in Tasks, NEW outcome \in {"permitted", "denied", "error"},
           Record(b, outcome), chain[b].intent.id \in Ids \ {0}
    PROVE  LET entry == [id |-> chain[b].intent.id, outcome |-> outcome]
           IN  /\ entry \in Entry
               /\ audit' \in Seq(Entry) /\ Len(audit') <= AuditMax
               /\ audit' # <<>> /\ audit'[Len(audit')] = entry
               /\ \A i \in DOMAIN audit' :
                     audit'[i] = entry \/ \E j \in DOMAIN audit : audit'[i] = audit[j]
<1>1. PICK entry \in Entry : entry = [id |-> chain[b].intent.id, outcome |-> outcome]
  BY DEF Entry
<1>2. PICK log \in Seq(Entry) : log = audit /\ Len(log) <= AuditMax
  BY DEF TypeOK, Entry
<1>3. AuditMax \in Nat /\ AuditMax # 0
  BY BrokerParameters
<1>4. PICK kept : kept = IF Len(log) = AuditMax THEN Tail(log) ELSE log
  OBVIOUS
<1>5. /\ kept \in Seq(Entry) /\ Len(kept) < AuditMax
      /\ \A i \in DOMAIN kept : \E j \in DOMAIN log : kept[i] = log[j]
  <2>1. CASE Len(log) = AuditMax
    <3>1. kept = Tail(log) /\ log # <<>>
      BY <1>3, <1>4, <2>1
    <3>2. kept \in Seq(Entry) /\ Len(kept) = Len(log) - 1
      BY <3>1
    <3>3. \A i \in DOMAIN kept : i + 1 \in DOMAIN log /\ kept[i] = log[i + 1]
      BY <3>1, <3>2
    <3> QED
      BY <1>3, <2>1, <3>2, <3>3
  <2>2. CASE Len(log) # AuditMax
    BY <1>2, <1>3, <1>4, <2>2
  <2> QED
    BY <2>1, <2>2
<1>6. PICK later : later = Append(kept, entry)
  OBVIOUS
<1>7. audit' = later
  BY <1>1, <1>2, <1>4, <1>6 DEF Record
<1>8. /\ later \in Seq(Entry) /\ Len(later) = Len(kept) + 1
      /\ later[Len(later)] = entry
      /\ \A i \in DOMAIN later : (i \in DOMAIN kept /\ later[i] = kept[i]) \/ later[i] = entry
  BY <1>5, <1>6
<1>9. /\ Len(later) <= AuditMax /\ later # <<>>
      /\ \A i \in DOMAIN later : later[i] = entry \/ \E j \in DOMAIN log : later[i] = log[j]
  BY <1>3, <1>5, <1>8
<1> QED
  BY <1>1, <1>2, <1>7, <1>8, <1>9

\* The intents submitted are kept, and so is what their ids stand for.
IssuedKept == /\ Ids \subseteq Ids'
              /\ \A id \in Ids \ {0} : issued'[id] = issued[id]

LEMMA SameIssued == ASSUME UNCHANGED issued PROVE IssuedKept
  BY DEF IssuedKept, Ids

LEMMA AllowedKept ==
    ASSUME IssuedKept, NEW id \in Ids \ {0}
    PROVE  Allowed(id)' <=> Allowed(id)
  BY DEF IssuedKept, Allowed

LEMMA EntriesKept ==
    ASSUME IssuedKept, written \subseteq written', NEW entry \in Entry, EntryFits(entry)
    PROVE  entry \in Entry' /\ EntryFits(entry)'
<1>1. PICK id : id = entry.id
  OBVIOUS
<1>2. id \in Ids \ {0}
  BY <1>1 DEF Entry
<1>3. (Allowed(id)' <=> Allowed(id)) /\ issued'[id] = issued[id]
  BY <1>2, AllowedKept DEF IssuedKept
<1>4. EntryFits(entry)'
  BY <1>1, <1>3 DEF EntryFits
<1>5. entry \in Entry'
  BY DEF Entry, IssuedKept
<1> QED
  BY <1>4, <1>5

\* The log is true after a step that records nothing ...
AuditSound == AuditFits /\ audit \in Seq(Entry) /\ Len(audit) <= AuditMax

LEMMA AuditStays ==
    ASSUME TypeOK, AuditFits, IssuedKept, written \subseteq written', UNCHANGED audit
    PROVE  AuditSound'
<1>1. PICK log : log = audit
  OBVIOUS
<1>2. log \in Seq(Entry) /\ Len(log) <= AuditMax
  BY <1>1 DEF TypeOK, Entry
<1>3. \A i \in DOMAIN log : log[i] \in Entry /\ EntryFits(log[i])
  BY <1>1, <1>2 DEF AuditFits
<1>4. \A i \in DOMAIN log : log[i] \in Entry' /\ EntryFits(log[i])'
  BY <1>3, EntriesKept
<1>5. log \in Seq(Entry')
  BY <1>2, <1>4
<1> QED
  BY <1>1, <1>2, <1>4, <1>5 DEF AuditSound, AuditFits

\* ... and after one that records what is true.
LEMMA AuditRecords ==
    ASSUME TypeOK, AuditFits, IssuedKept, written \subseteq written',
           NEW b \in Tasks, NEW outcome \in {"permitted", "denied", "error"}, Record(b, outcome),
           chain[b].intent.id \in Ids \ {0}, EntryFits([id |-> chain[b].intent.id, outcome |-> outcome])
    PROVE  AuditSound'
<1>1. PICK entry : entry = [id |-> chain[b].intent.id, outcome |-> outcome]
  OBVIOUS
<1>2. PICK log : log = audit
  OBVIOUS
<1>3. PICK later : later = audit'
  OBVIOUS
<1>4. /\ entry \in Entry /\ later \in Seq(Entry) /\ Len(later) <= AuditMax
      /\ \A i \in DOMAIN later : later[i] = entry \/ \E j \in DOMAIN log : later[i] = log[j]
  BY <1>1, <1>2, <1>3, RecordAdds
<1>5. \A i \in DOMAIN log : log[i] \in Entry /\ EntryFits(log[i])
  <2>1. log \in Seq(Entry)
    BY <1>2 DEF TypeOK, Entry
  <2> QED
    BY <1>2, <2>1 DEF AuditFits
<1>6. \A i \in DOMAIN log : log[i] \in Entry' /\ EntryFits(log[i])'
  BY <1>5, EntriesKept
<1>7. entry \in Entry' /\ EntryFits(entry)'
  <2>1. EntryFits(entry)
    BY <1>1
  <2> QED
    BY <1>4, <2>1, EntriesKept
<1>8. \A i \in DOMAIN later : later[i] \in Entry' /\ EntryFits(later[i])'
  BY <1>4, <1>6, <1>7
<1>9. later \in Seq(Entry')
  BY <1>4, <1>8
<1> QED
  BY <1>3, <1>4, <1>8, <1>9 DEF AuditSound, AuditFits

LEMMA RequestKept ==
    ASSUME IssuedKept, NEW w \in Tasks, RequestFits(w), work'[w].req = work[w].req
    PROVE  RequestFits(w)'
<1>1. PICK req : req = work[w].req
  OBVIOUS
<1>2. PICK id : id = req.id
  OBVIOUS
<1>3. id \in Ids /\ (id # 0 => Allowed(id))
  BY <1>1, <1>2 DEF RequestFits
<1>4. id \in Ids' /\ (id # 0 => Allowed(id)' /\ issued'[id] = issued[id])
  BY <1>3, AllowedKept DEF IssuedKept
<1> QED
  BY <1>1, <1>2, <1>4 DEF RequestFits, Allowed

-----------------------------------------------------------------------------
(* The invariant is preserved.                                                *)

\* By a handler's step, which leaves the chains and the log alone.
LEMMA HandlersKeep ==
    ASSUME IInv, NEW w \in Tasks, HandlerMoves(w), UNCHANGED <<chain, audit, issued>>, faults' \in Nat
    PROVE  IInv'
<1>1. IssuedKept /\ Ids' = Ids
  BY SameIssued DEF Ids
<1>2. PICK id : id = work[w].req.id
  OBVIOUS
<1>3. /\ work \in [Tasks -> Work] /\ RequestFits(w) /\ id \in Ids /\ (id # 0 => Allowed(id))
  BY <1>2 DEF IInv, TypeOK, WorkFits, HandlerMoves, RequestFits
<1>4. /\ work' \in [Tasks -> Work]
      /\ \A v \in Tasks : v # w => work'[v] = work[v]
      /\ \A v \in Tasks : work'[v].req = work[v].req
      /\ \A v \in Tasks : work'[v].pc = "idle" <=> work[v].pc = "idle"
  BY <1>3 DEF HandlerMoves
<1>5. written \subseteq written' /\ written' \subseteq written \cup ({id} \ {0})
  BY <1>2 DEF HandlerMoves
<1>6. AuditSound'
  BY <1>1, <1>5, AuditStays DEF IInv
<1>7. TypeOK' /\ OneLinePerSku'
  <2>1. BooksFit' /\ price' \in [Skus -> Nat]
    BY DEF HandlerMoves
  <2>2. Work' = Work
    BY DEF Work, Request, Line
  <2>3. TypeOK'
    BY <1>1, <1>3, <1>4, <1>5, <1>6, <2>1 DEF IInv, TypeOK, AuditSound, Entry, BooksFit
  <2> QED
    BY <2>1, <2>3 DEF BooksFit, OneLinePerSku
<1>8. WorkFits'
  <2> SUFFICES ASSUME NEW v \in Tasks, work'[v].pc # "idle"
               PROVE  RequestFits(v)' /\ ProgressFits(v)'
    BY DEF WorkFits
  <2>1. work[v].pc # "idle"
    BY <1>4
  <2>2. RequestFits(v) /\ ProgressFits(v)
    BY <2>1 DEF IInv, WorkFits
  <2>3. RequestFits(v)'
    BY <1>1, <1>4, <2>2, RequestKept
  <2>4. ProgressFits(v)'
    <3>1. CASE v = w
      BY <3>1 DEF HandlerMoves
    <3>2. CASE v # w
      BY <1>4, <1>5, <2>2, <3>2 DEF ProgressFits
    <3> QED
      BY <3>1, <3>2
  <2> QED
    BY <2>3, <2>4
<1>9. ChainFits'
  <2> SUFFICES ASSUME NEW b \in Tasks, chain[b].pc # "idle" PROVE IntentFits(b)' /\ HandlerFits(b)'
    BY DEF ChainFits
  <2>1. IntentFits(b) /\ HandlerFits(b)
    BY DEF IInv, ChainFits
  <2> QED
    BY <1>1, <1>4, <2>1 DEF IntentFits, HandlerFits, Permitted
<1>10. OneChainPerId'
  BY DEF IInv, OneChainPerId
<1>11. Unforwarded'
  BY <1>2, <1>3, <1>4, <1>5 DEF IInv, Unforwarded, HandlerMoves
<1>12. OnlyPermittedWrites'
  BY <1>3, <1>5 DEF IInv, OnlyPermittedWrites, Allowed
<1> QED
  BY <1>6, <1>7, <1>8, <1>9, <1>10, <1>11, <1>12 DEF IInv, AuditSound

(***************************************************************************)
(* By a step of the chain before the request is forwarded, which touches    *)
(* neither the records nor the handlers: it goes on with a permitted        *)
(* intent, or ends with a true record, or without one.                      *)
(***************************************************************************)
TrueOutcome(b, outcome) == EntryFits([id |-> chain[b].intent.id, outcome |-> outcome])

ChainMoves(b) ==
    /\ UNCHANGED <<billingVars, issued>>
    /\ chain[b].pc \notin {"idle", "wait"}
    /\ chain' = [chain EXCEPT ![b] = chain'[b]]
    /\ chain'[b] \in Chain /\ chain'[b].pc # "wait"
    /\ chain'[b].pc # "idle" => chain'[b].intent = chain[b].intent /\ Permitted(b)
    /\ chain'[b].pc \in {"portfolio", "combination"} => chain[b].intent.intent = "add_subscription"
    /\ UNCHANGED audit \/ \E outcome \in {"permitted", "denied", "error"} :
                              TrueOutcome(b, outcome) /\ Record(b, outcome)
    /\ faults' \in Nat

LEMMA ChainsKeep ==
    ASSUME IInv, NEW b \in Tasks, ChainMoves(b)
    PROVE  IInv'
<1>1. IssuedKept /\ Ids' = Ids
  BY SameIssued DEF ChainMoves, Ids
<1>2. UNCHANGED <<book, price, work, written, issued>>
  BY DEF ChainMoves, billingVars
<1>3. chain \in [Tasks -> Chain] /\ IntentFits(b) /\ HandlerFits(b)
  BY DEF IInv, TypeOK, ChainFits, ChainMoves
<1>4. chain' \in [Tasks -> Chain] /\ \A d \in Tasks : d # b => chain'[d] = chain[d]
  BY <1>3 DEF ChainMoves
<1>5. AuditSound'
  <2>1. CASE UNCHANGED audit
    BY <1>1, <1>2, <2>1, AuditStays DEF IInv
  <2>2. ASSUME NEW outcome \in {"permitted", "denied", "error"},
               TrueOutcome(b, outcome), Record(b, outcome)
        PROVE  AuditSound'
    BY <1>1, <1>2, <1>3, <2>2, AuditRecords DEF IInv, IntentFits, TrueOutcome
  <2> QED
    BY <2>1, <2>2 DEF ChainMoves
<1>6. TypeOK'
  BY <1>1, <1>2, <1>4, <1>5 DEF IInv, TypeOK, AuditSound, Entry, ChainMoves
<1>7. OneLinePerSku' /\ OnlyPermittedWrites'
  BY <1>2 DEF IInv, OneLinePerSku, OnlyPermittedWrites
<1>8. WorkFits'
  BY <1>1, <1>2 DEF IInv, WorkFits, RequestFits, ProgressFits, Allowed
<1>9. ChainFits'
  <2> SUFFICES ASSUME NEW d \in Tasks, chain'[d].pc # "idle" PROVE IntentFits(d)' /\ HandlerFits(d)'
    BY DEF ChainFits
  <2>1. CASE d = b
    <3>1. chain'[b].intent = chain[b].intent /\ Permitted(b) /\ chain'[b].pc \notin {"idle", "wait"}
      BY <2>1 DEF ChainMoves
    <3> QED
      BY <1>1, <1>2, <1>3, <2>1, <3>1 DEF IntentFits, HandlerFits, Permitted, ChainMoves
  <2>2. CASE d # b
    <3>1. IntentFits(d) /\ HandlerFits(d) /\ chain'[d] = chain[d]
      BY <1>4, <2>2 DEF IInv, ChainFits
    <3> QED
      BY <1>1, <1>2, <3>1 DEF IntentFits, HandlerFits, Permitted
  <2> QED
    BY <2>1, <2>2
<1>10. OneChainPerId'
  <2>1. \A d \in Tasks : chain'[d].pc # "idle" =>
                            chain[d].pc # "idle" /\ chain'[d].intent = chain[d].intent
    BY <1>4 DEF ChainMoves
  <2> QED
    BY <2>1 DEF IInv, OneChainPerId
<1>11. Unforwarded'
  <2>1. \A d \in Tasks : chain'[d].pc \notin {"idle", "wait"} =>
                            /\ chain[d].pc \notin {"idle", "wait"}
                            /\ chain'[d].intent = chain[d].intent
    BY <1>4 DEF ChainMoves
  <2> QED
    BY <1>2, <2>1 DEF IInv, Unforwarded
<1> QED
  BY <1>5, <1>6, <1>7, <1>8, <1>9, <1>10, <1>11 DEF IInv, AuditSound

\* By a step after which the chain b is idle, and its handler too or unchanged.
LEMMA EndsKeep ==
    ASSUME IInv, NEW b \in Tasks, UNCHANGED <<book, price, written, issued>>, faults' \in Nat,
           chain' = [chain EXCEPT ![b] = NoChain] \/ (UNCHANGED chain /\ chain[b].pc = "idle"),
           work' = [work EXCEPT ![b] = NoWork] \/ UNCHANGED work,
           AuditSound'
    PROVE  IInv'
<1>1. IssuedKept /\ Ids' = Ids
  BY SameIssued DEF Ids
<1>2. NoChain \in Chain /\ NoChain.pc = "idle"
  BY DEF NoChain, NoIntent, Chain, Intent, Nobody
<1>3. NoWork \in Work /\ NoWork.pc = "idle"
  BY DEF NoWork, NoRequest, Work, Request, Line, Kept, KeptCharge, Nobody
<1>4. /\ chain' \in [Tasks -> Chain] /\ chain'[b].pc = "idle"
      /\ \A d \in Tasks : d # b => chain'[d] = chain[d]
  BY <1>2 DEF IInv, TypeOK
<1>5. /\ work' \in [Tasks -> Work]
      /\ \A w \in Tasks : w # b => work'[w] = work[w]
      /\ \A w \in Tasks : work'[w].pc # "idle" => work'[w] = work[w]
  BY <1>3 DEF IInv, TypeOK
<1>6. TypeOK' /\ OneLinePerSku' /\ OnlyPermittedWrites'
  BY <1>1, <1>4, <1>5 DEF IInv, TypeOK, AuditSound, Entry, OneLinePerSku, OnlyPermittedWrites
<1>7. WorkFits'
  BY <1>1, <1>5 DEF IInv, WorkFits, RequestFits, ProgressFits, Allowed
<1>8. ChainFits'
  <2> SUFFICES ASSUME NEW d \in Tasks, chain'[d].pc # "idle" PROVE IntentFits(d)' /\ HandlerFits(d)'
    BY DEF ChainFits
  <2>1. IntentFits(d) /\ HandlerFits(d) /\ chain'[d] = chain[d] /\ work'[d] = work[d]
    BY <1>4, <1>5 DEF IInv, ChainFits
  <2> QED
    BY <1>1, <2>1 DEF IntentFits, HandlerFits, Permitted
<1>9. OneChainPerId' /\ Unforwarded'
  BY <1>4, <1>5 DEF IInv, OneChainPerId, Unforwarded
<1> QED
  BY <1>6, <1>7, <1>8, <1>9 DEF IInv, AuditSound

\* By an intent that arrives, whose id is new.
LEMMA SubmitIntentKeeps ==
    ASSUME IInv, NEW b \in Tasks, NEW caller \in Clients, NEW kind \in Intents,
           NEW c \in Customers \cup {Nobody}, NEW sku \in Skus, NEW term \in Nat, NEW list \in Nat,
           kind \in {"add_subscription", "cancel_subscription"} => c \in Customers,
           SubmitIntent(b, caller, kind, c, sku, term, list)
    PROVE  IInv'
<1>1. PICK n \in Nat : n = Len(issued)
  BY DEF IInv, TypeOK
<1>2. PICK intent : intent = [id |-> n + 1, caller |-> caller, intent |-> kind, cust |-> c,
                              sku |-> sku, term |-> term, list |-> list]
  OBVIOUS
<1>3. intent \in Intent
  BY <1>2 DEF Intent
<1>4. PICK entry : entry = [NoChain EXCEPT !.pc = "permission", !.intent = intent]
  OBVIOUS
<1>5. entry \in Chain /\ entry.pc = "permission" /\ entry.intent = intent
  BY <1>3, <1>4 DEF Chain, NoChain
<1>6. /\ UNCHANGED <<book, price, work, written, audit, faults>>
       /\ chain[b].pc = "idle" /\ work[b].pc = "idle"
       /\ issued' = Append(issued, [caller |-> caller, intent |-> kind])
       /\ chain' = [chain EXCEPT ![b] = entry]
  BY <1>1, <1>2, <1>4 DEF SubmitIntent, billingVars
<1>7. /\ chain' \in [Tasks -> Chain] /\ chain'[b] = entry
       /\ \A d \in Tasks : d # b => chain'[d] = chain[d]
  BY <1>5, <1>6 DEF IInv, TypeOK
<1>8. /\ issued' \in Seq([caller : Clients, intent : Intents])
       /\ Len(issued') = n + 1 /\ issued'[n + 1] = [caller |-> caller, intent |-> kind]
       /\ \A id \in 1 .. n : issued'[id] = issued[id]
  BY <1>1, <1>6 DEF IInv, TypeOK
<1>9. IssuedKept /\ Ids = 0 .. n /\ Ids' = 0 .. n + 1
  BY <1>1, <1>8 DEF IssuedKept, Ids
<1>10. AuditSound'
  BY <1>6, <1>9, AuditStays DEF IInv
<1>11. TypeOK'
  BY <1>6, <1>7, <1>8, <1>9, <1>10 DEF IInv, TypeOK, AuditSound, Entry
<1>12. OneLinePerSku'
  BY <1>6 DEF IInv, OneLinePerSku
<1>13. OnlyPermittedWrites'
  BY <1>6, <1>9 DEF IInv, TypeOK, OnlyPermittedWrites, IssuedKept
<1>14. WorkFits'
  <2> SUFFICES ASSUME NEW v \in Tasks, work[v].pc # "idle"
               PROVE  RequestFits(v)' /\ ProgressFits(v)'
    BY <1>6 DEF WorkFits
  <2>1. RequestFits(v) /\ ProgressFits(v)
    BY DEF IInv, WorkFits
  <2>2. RequestFits(v)'
    BY <1>6, <1>9, <2>1, RequestKept
  <2>3. ProgressFits(v)'
    <3>1. work[v].req.id # 0 => issued'[work[v].req.id] = issued[work[v].req.id]
      BY <1>9, <2>1 DEF RequestFits, IssuedKept
    <3> QED
      BY <1>6, <2>1, <3>1 DEF ProgressFits
  <2> QED
    BY <2>2, <2>3
<1>15. ChainFits'
  <2> SUFFICES ASSUME NEW d \in Tasks, chain'[d].pc # "idle" PROVE IntentFits(d)' /\ HandlerFits(d)'
    BY DEF ChainFits
  <2>1. CASE d = b
    <3>1. IntentFits(b)'
      BY <1>2, <1>5, <1>7, <1>8, <1>9 DEF IntentFits
    <3>2. HandlerFits(b)'
      BY <1>5, <1>6, <1>7 DEF HandlerFits
    <3> QED
      BY <2>1, <3>1, <3>2
  <2>2. CASE d # b
    <3>1. IntentFits(d) /\ HandlerFits(d) /\ chain'[d] = chain[d]
      BY <1>7, <2>2 DEF IInv, ChainFits
    <3>2. issued'[chain[d].intent.id] = issued[chain[d].intent.id]
      BY <1>9, <3>1 DEF IntentFits, IssuedKept
    <3>3. Ids \subseteq Ids'
      BY <1>9
    <3>4. IntentFits(d)'
      BY <3>1, <3>2, <3>3 DEF IntentFits, Permitted
    <3>5. HandlerFits(d)'
      BY <1>6, <3>1 DEF HandlerFits
    <3> QED
      BY <3>4, <3>5
  <2> QED
    BY <2>1, <2>2
<1>16. \A d \in Tasks : chain[d].pc # "idle" => chain[d].intent.id \in 1 .. n
  <2> SUFFICES ASSUME NEW d \in Tasks, chain[d].pc # "idle" PROVE chain[d].intent.id \in 1 .. n
    OBVIOUS
  <2>1. chain[d].intent.id \in Ids \ {0}
    BY DEF IInv, ChainFits, IntentFits
  <2> QED
    BY <1>9, <2>1
<1>17. OneChainPerId'
  BY <1>2, <1>5, <1>7, <1>16 DEF IInv, OneChainPerId
<1>18. Unforwarded'
  <2>1. n + 1 \notin written /\ \A w \in Tasks : work[w].pc # "idle" => work[w].req.id # n + 1
    BY <1>9 DEF IInv, TypeOK, WorkFits, RequestFits
  <2> QED
    BY <1>2, <1>5, <1>6, <1>7, <2>1 DEF IInv, Unforwarded
<1> QED
  BY <1>10, <1>11, <1>12, <1>13, <1>14, <1>15, <1>17, <1>18 DEF IInv, AuditSound

LEMMA SubmitKeeps ==
    ASSUME IInv, NEW b \in Tasks, Submit(b)
    PROVE  IInv'
<1>1. PICK caller \in DOMAIN Requests, c \in Customers \cup {Nobody}, sku \in Skus :
          \E kind \in Requests[caller], term \in Terms \cup {0}, list \in NewPrices[sku] \cup {0} :
              /\ Requested(kind, c, sku, term, list)
              /\ SubmitIntent(b, caller, kind, c, sku, term, list)
  BY DEF Submit
<1>2. PICK kind \in Requests[caller], term \in Terms \cup {0}, list \in NewPrices[sku] \cup {0} :
          /\ Requested(kind, c, sku, term, list)
          /\ SubmitIntent(b, caller, kind, c, sku, term, list)
  BY <1>1
<1>3. kind \in Intents /\ term \in Nat /\ list \in Nat /\ caller \in Clients
  BY CatalogueParameters
<1>4. kind \in {"add_subscription", "cancel_subscription"} => c \in Customers
  BY <1>2 DEF Requested
<1> QED
  BY <1>2, <1>3, <1>4, SubmitIntentKeeps

(***************************************************************************)
(* By a request to update a line that arrives past the broker.              *)
(***************************************************************************)
DirectUpdate(req) == /\ req \in Request /\ req.id = 0 /\ req.op = "update" /\ req.stat = Kept
                     /\ req.cust \in Customers /\ req.sku \in Skus

LEMMA ArriveKeeps ==
    ASSUME IInv, NEW b \in Tasks, NEW req, DirectUpdate(req), Arrive(b, req),
           chain[b].pc = "idle", UNCHANGED brokerVars
    PROVE  IInv'
<1>1. UNCHANGED <<book, price, written, chain, audit, issued, faults>> /\ work[b].pc = "idle"
  BY DEF Arrive, brokerVars
<1>2. IssuedKept /\ Ids' = Ids
  BY <1>1, SameIssued DEF Ids
<1>3. PICK h : h = [NoWork EXCEPT !.pc = "arrived", !.req = req]
  OBVIOUS
<1>4. h \in Work /\ h.pc = "arrived" /\ h.req = req
  <2>1. h = [pc |-> "arrived", req |-> req, cust |-> Nobody, raw |-> <<>>, list |-> 0,
             todo |-> {}, ok |-> FALSE]
    BY <1>3 DEF NoWork
  <2>2. <<>> \in Seq(Line) /\ req \in Request
    BY DEF DirectUpdate
  <2> QED
    BY <2>1, <2>2 DEF Work
<1>5. /\ work' \in [Tasks -> Work] /\ work'[b] = h
      /\ \A w \in Tasks : w # b => work'[w] = work[w]
  BY <1>3, <1>4 DEF Arrive, IInv, TypeOK
<1>6. TypeOK' /\ OneLinePerSku' /\ AuditFits' /\ OnlyPermittedWrites'
  BY <1>1, <1>2, <1>5
     DEF IInv, TypeOK, OneLinePerSku, AuditFits, EntryFits, Allowed, OnlyPermittedWrites
<1>7. WorkFits'
  <2> SUFFICES ASSUME NEW w \in Tasks, work'[w].pc # "idle"
               PROVE  RequestFits(w)' /\ ProgressFits(w)'
    BY DEF WorkFits
  <2>1. CASE w = b
    <3>1. RequestFits(b)'
      BY <1>2, <1>4, <1>5 DEF RequestFits, DirectUpdate, Ids, IInv, TypeOK
    <3>2. ProgressFits(b)'
      BY <1>4, <1>5 DEF ProgressFits
    <3> QED
      BY <2>1, <3>1, <3>2
  <2>2. CASE w # b
    BY <1>1, <1>2, <1>5, <2>2 DEF IInv, WorkFits, RequestFits, ProgressFits, Allowed
  <2> QED
    BY <2>1, <2>2
<1>8. ChainFits'
  <2> SUFFICES ASSUME NEW d \in Tasks, chain[d].pc # "idle" PROVE IntentFits(d)' /\ HandlerFits(d)'
    BY <1>1 DEF ChainFits
  <2>1. IntentFits(d) /\ HandlerFits(d) /\ work'[d] = work[d]
    BY <1>5 DEF IInv, ChainFits
  <2> QED
    BY <1>1, <1>2, <2>1 DEF IntentFits, HandlerFits, Permitted
<1>9. OneChainPerId'
  BY <1>1 DEF IInv, OneChainPerId
<1>10. Unforwarded'
  <2> SUFFICES ASSUME NEW d \in Tasks, chain[d].pc \notin {"idle", "wait"}
               PROVE  /\ chain[d].intent.id \notin written
                      /\ \A w \in Tasks : work'[w].pc # "idle" => work'[w].req.id # chain[d].intent.id
    BY <1>1 DEF Unforwarded
  <2>1. chain[d].intent.id # 0
    BY DEF IInv, ChainFits, IntentFits
  <2> QED
    BY <1>4, <1>5, <2>1 DEF IInv, Unforwarded, DirectUpdate
<1> QED
  BY <1>6, <1>7, <1>8, <1>9, <1>10 DEF IInv

\* By a request that is forwarded.
LEMMA ForwardKeeps ==
    ASSUME IInv, NEW b \in Tasks, Forward(b)
    PROVE  IInv'
<1>1. IssuedKept /\ Ids' = Ids
  BY SameIssued DEF Forward, Ids
<1>2. PICK old \in Chain : old = chain[b]
  BY DEF IInv, TypeOK
<1>3. PICK intent \in Intent : intent = old.intent
  BY DEF Chain
<1>4. old.pc = "forward" /\ work[b].pc = "idle" /\ IntentFits(b) /\ Permitted(b)
  BY <1>2 DEF Forward, Arrive, IInv, ChainFits, IntentFits
<1>5. PICK req : req = [NoRequest EXCEPT
                          !.id = intent.id, !.op = Operation(intent), !.cust = intent.cust,
                          !.sku = intent.sku, !.term = intent.term, !.list = intent.list,
                          !.stat = IF intent.intent = "cancel_subscription" THEN "C" ELSE Kept]
  OBVIOUS
<1>6. /\ req.id = intent.id /\ req.op = Operation(intent) /\ req.cust = intent.cust
      /\ req.sku = intent.sku /\ req.stat \in {Kept, "C"}
  BY <1>5 DEF NoRequest
<1>7. /\ Operation(intent) \in {"add", "update", "recalculate", "price"}
      /\ Operation(intent) \in {"add", "update"} =>
            intent.intent \in {"add_subscription", "cancel_subscription"}
      /\ Operation(intent) = "recalculate" => intent.intent = "recalculate_billing"
  BY DEF Operation
<1>8. req \in Request
  <2>1. req = [id |-> intent.id, op |-> Operation(intent), cust |-> intent.cust,
               sku |-> intent.sku, term |-> intent.term, list |-> intent.list,
               stat |-> req.stat, charge |-> KeptCharge]
    BY <1>5 DEF NoRequest
  <2> QED
    BY <1>6, <1>7, <2>1 DEF Request, Intent
<1>9. PICK h : h = [NoWork EXCEPT !.pc = "arrived", !.req = req]
  OBVIOUS
<1>10. h \in Work /\ h.pc = "arrived" /\ h.req = req
  <2>1. h = [pc |-> "arrived", req |-> req, cust |-> Nobody, raw |-> <<>>, list |-> 0,
             todo |-> {}, ok |-> FALSE]
    BY <1>9 DEF NoWork
  <2>2. <<>> \in Seq(Line)
    OBVIOUS
  <2> QED
    BY <1>8, <2>1, <2>2 DEF Work
<1>11. /\ UNCHANGED <<book, price, written, audit, issued, faults>>
       /\ work' = [work EXCEPT ![b] = h]
       /\ chain' = [chain EXCEPT ![b].pc = "wait"]
  BY <1>2, <1>3, <1>5, <1>9 DEF Forward, Arrive, Goto
<1>12. PICK new : new = [old EXCEPT !.pc = "wait"]
  OBVIOUS
<1>13. new \in Chain /\ new.pc = "wait" /\ new.intent = intent
  BY <1>3, <1>12 DEF Chain
<1>14. /\ chain' \in [Tasks -> Chain] /\ chain'[b] = new
       /\ \A d \in Tasks : d # b => chain'[d] = chain[d]
  BY <1>2, <1>11, <1>12, <1>13 DEF IInv, TypeOK
<1>15. /\ work' \in [Tasks -> Work] /\ work'[b] = h
       /\ \A w \in Tasks : w # b => work'[w] = work[w]
  BY <1>10, <1>11 DEF IInv, TypeOK
<1>16. AuditSound'
  BY <1>1, <1>11, AuditStays DEF IInv
<1>17. TypeOK' /\ OneLinePerSku' /\ OnlyPermittedWrites'
  BY <1>1, <1>11, <1>14, <1>15, <1>16
     DEF IInv, TypeOK, AuditSound, Entry, OneLinePerSku, OnlyPermittedWrites
<1>18. WorkFits'
  <2> SUFFICES ASSUME NEW w \in Tasks, work'[w].pc # "idle"
               PROVE  RequestFits(w)' /\ ProgressFits(w)'
    BY DEF WorkFits
  <2>1. CASE w = b
    <3>1. Allowed(intent.id)
      BY <1>2, <1>3, <1>4 DEF IntentFits, Permitted, Allowed
    <3>2. RequestFits(b)'
      BY <1>1, <1>2, <1>3, <1>4, <1>6, <1>7, <1>10, <1>11, <1>15, <3>1
         DEF RequestFits, IntentFits, Allowed
    <3>3. ProgressFits(b)'
      BY <1>10, <1>15 DEF ProgressFits
    <3> QED
      BY <2>1, <3>2, <3>3
  <2>2. CASE w # b
    BY <1>1, <1>11, <1>15, <2>2 DEF IInv, WorkFits, RequestFits, ProgressFits, Allowed
  <2> QED
    BY <2>1, <2>2
<1>19. ChainFits'
  <2> SUFFICES ASSUME NEW d \in Tasks, chain'[d].pc # "idle" PROVE IntentFits(d)' /\ HandlerFits(d)'
    BY DEF ChainFits
  <2>1. CASE d = b
    <3>1. IntentFits(b)'
      BY <1>1, <1>2, <1>3, <1>4, <1>11, <1>13, <1>14 DEF IntentFits, Permitted
    <3>2. HandlerFits(b)'
      BY <1>6, <1>10, <1>13, <1>14, <1>15 DEF HandlerFits
    <3> QED
      BY <2>1, <3>1, <3>2
  <2>2. CASE d # b
    <3>1. IntentFits(d) /\ HandlerFits(d) /\ chain'[d] = chain[d] /\ work'[d] = work[d]
      BY <1>14, <1>15, <2>2 DEF IInv, ChainFits
    <3> QED
      BY <1>1, <1>11, <3>1 DEF IntentFits, HandlerFits, Permitted
  <2> QED
    BY <2>1, <2>2
<1>20. \A d \in Tasks : chain'[d].pc # "idle" =>
                          chain[d].pc # "idle" /\ chain'[d].intent = chain[d].intent
  BY <1>2, <1>3, <1>4, <1>13, <1>14
<1>21. OneChainPerId'
  BY <1>20 DEF IInv, OneChainPerId
<1>22. Unforwarded'
  <2> SUFFICES ASSUME NEW d \in Tasks, chain'[d].pc \notin {"idle", "wait"}
               PROVE  /\ chain[d].intent.id \notin written
                      /\ \A w \in Tasks : work'[w].pc # "idle" => work'[w].req.id # chain[d].intent.id
    BY <1>11, <1>20 DEF Unforwarded
  <2>1. d # b /\ chain[d].pc \notin {"idle", "wait"}
    BY <1>13, <1>14
  <2>2. intent.id # chain[d].intent.id
    BY <1>2, <1>3, <1>4, <2>1 DEF IInv, OneChainPerId
  <2> QED
    BY <1>6, <1>10, <1>15, <2>1, <2>2 DEF IInv, Unforwarded
<1> QED
  BY <1>16, <1>17, <1>18, <1>19, <1>21, <1>22 DEF IInv, AuditSound

\* Every step of the chain before the request is forwarded is one of these.
LEMMA ChainsMove ==
    ASSUME IInv, NEW b \in Tasks,
           \/ Deny(b) \/ PolicyEngineDown(b) \/ RejectPayload(b) \/ Allow(b) \/ ReadPortfolio(b)
           \/ CombinationRejected(b) \/ CombinationAccepted(b) \/ CombinationUnknown(b)
    PROVE  ChainMoves(b)
<1>1. PICK old \in Chain : old = chain[b]
  BY DEF IInv, TypeOK
<1>2. chain \in [Tasks -> Chain] /\ faults \in Nat
  BY DEF IInv, TypeOK
<1>3. old.pc # "idle" => IntentFits(b)
  BY <1>1 DEF IInv, ChainFits
<1>4. NoChain \in Chain /\ NoChain.pc = "idle"
  BY DEF NoChain, NoIntent, Chain, Intent, Nobody
<1>5. ASSUME NEW new \in Chain, chain' = [chain EXCEPT ![b] = new], UNCHANGED <<billingVars, issued>>,
             old.pc \notin {"idle", "wait"}, new.pc # "wait",
             new.pc # "idle" => new.intent = old.intent /\ Permitted(b),
             new.pc \in {"portfolio", "combination"} => old.intent.intent = "add_subscription",
             UNCHANGED audit \/ \E outcome \in {"permitted", "denied", "error"} :
                                   TrueOutcome(b, outcome) /\ Record(b, outcome),
             faults' \in Nat
      PROVE  ChainMoves(b)
  <2>1. chain'[b] = new
    BY <1>2, <1>5
  <2> QED
    BY <1>1, <1>5, <2>1 DEF ChainMoves
<1>6. ASSUME NEW outcome \in {"denied", "error"}, Answer(b, outcome), UNCHANGED <<billingVars, issued>>,
             old.pc \notin {"idle", "wait"}, TrueOutcome(b, outcome), faults' \in Nat
      PROVE  ChainMoves(b)
  BY <1>4, <1>5, <1>6 DEF Answer
<1>7. CASE Deny(b)
  <2>1. ~Permitted(b) /\ old.pc = "permission" /\ Answer(b, "denied")
        /\ UNCHANGED <<billingVars, issued, faults>>
    BY <1>1, <1>7 DEF Deny
  <2>2. TrueOutcome(b, "denied")
    BY <1>1, <1>3, <2>1 DEF TrueOutcome, EntryFits, Allowed, IntentFits, Permitted
  <2> QED
    BY <1>2, <1>6, <2>1, <2>2
<1>8. TrueOutcome(b, "error")
  BY DEF TrueOutcome, EntryFits
<1>9. CASE PolicyEngineDown(b)
  BY <1>1, <1>2, <1>6, <1>8, <1>9 DEF PolicyEngineDown, Fault
<1>10. CASE CombinationRejected(b)
  BY <1>1, <1>2, <1>6, <1>8, <1>10 DEF CombinationRejected
<1>11. CASE RejectPayload(b)
  BY <1>1, <1>2, <1>4, <1>5, <1>11 DEF RejectPayload
<1>12. old.pc \notin {"idle", "permission"} => Permitted(b)
  BY <1>1, <1>3 DEF IntentFits
<1>13. CASE Allow(b)
  <2>1. PICK label \in {"portfolio", "forward"} :
            label = IF chain[b].intent.intent = "add_subscription" THEN "portfolio" ELSE "forward"
    OBVIOUS
  <2>2. PICK new : new = [old EXCEPT !.pc = label]
    OBVIOUS
  <2>3. new \in Chain /\ new.pc = label /\ new.intent = old.intent
    BY <2>2 DEF Chain
  <2>4. chain' = [chain EXCEPT ![b] = new]
    BY <1>1, <1>2, <1>13, <2>1, <2>2 DEF Allow, Goto
  <2>5. label = "portfolio" => old.intent.intent = "add_subscription"
    BY <1>1, <2>1
  <2> QED
    BY <1>1, <1>2, <1>5, <1>13, <2>3, <2>4, <2>5 DEF Allow
<1>14. CASE ReadPortfolio(b)
  <2>1. old.pc = "portfolio" /\ old.intent.intent = "add_subscription"
    BY <1>1, <1>3, <1>14 DEF ReadPortfolio, IntentFits
  <2>2. PICK c \in Customers : c = old.intent.cust
    BY <1>1, <1>3, <2>1 DEF IntentFits
  <2>3. PICK held \in SUBSET Skus : held = ActiveSkus(book[c])
    <3>1. PICK lines \in Seq(Line) : lines = book[c]
      BY DEF IInv, TypeOK
    <3>2. \A i \in DOMAIN lines : lines[i].sku \in Skus
      <4>1. \A i \in DOMAIN lines : lines[i] \in Line
        OBVIOUS
      <4> QED
        BY <4>1 DEF Line
    <3>3. ActiveSkus(lines) \subseteq Skus
      BY <3>2 DEF ActiveSkus, Active
    <3> QED
      BY <3>1, <3>3
  <2>4. PICK new : new = [old EXCEPT !.pc = "combination", !.held = held]
    OBVIOUS
  <2>5. new \in Chain /\ new.pc = "combination" /\ new.intent = old.intent
    BY <2>4 DEF Chain
  <2>6. chain' = [chain EXCEPT ![b] = new]
    BY <1>1, <1>2, <1>14, <2>2, <2>3, <2>4 DEF ReadPortfolio
  <2> QED
    BY <1>2, <1>5, <1>12, <1>14, <2>1, <2>5, <2>6 DEF ReadPortfolio
<1>15. CASE CombinationAccepted(b)
  <2>1. old.pc = "combination"
    BY <1>1, <1>15 DEF CombinationAccepted
  <2>2. PICK new : new = [old EXCEPT !.pc = "forward", !.checked = TRUE]
    OBVIOUS
  <2>3. new \in Chain /\ new.pc = "forward" /\ new.intent = old.intent
    BY <2>2 DEF Chain
  <2>4. chain' = [chain EXCEPT ![b] = new]
    BY <1>1, <1>2, <1>15, <2>2 DEF CombinationAccepted
  <2> QED
    BY <1>2, <1>5, <1>12, <1>15, <2>1, <2>3, <2>4 DEF CombinationAccepted
<1>16. CASE CombinationUnknown(b)
  <2>1. old.pc \in {"portfolio", "combination"}
    BY <1>1, <1>16 DEF CombinationUnknown
  <2>2. PICK new : new = [old EXCEPT !.pc = "forward"]
    OBVIOUS
  <2>3. new \in Chain /\ new.pc = "forward" /\ new.intent = old.intent
    BY <2>2 DEF Chain
  <2>4. chain' = [chain EXCEPT ![b] = new]
    BY <1>1, <1>2, <1>16, <2>2 DEF CombinationUnknown, Goto
  <2>5. UNCHANGED <<billingVars, audit, issued>> /\ faults' = faults + 1
    BY <1>16 DEF CombinationUnknown, Fault
  <2>6. Permitted(b) /\ faults' \in Nat
    BY <1>2, <1>12, <2>1, <2>5
  <2> QED
    BY <1>5, <2>1, <2>3, <2>4, <2>5, <2>6
<1> QED
  BY <1>7, <1>9, <1>10, <1>11, <1>13, <1>14, <1>15, <1>16

(***************************************************************************)
(* The steps of the system, by what they may change.                        *)
(***************************************************************************)
HandlerTurn(w) == /\ Write(w) \/ FetchFails(w) \/ Capture(w, FALSE)
                  /\ UNCHANGED <<chain, audit, issued>> /\ faults' \in {faults, faults + 1}

ChainTurn(b) == \/ Deny(b) \/ PolicyEngineDown(b) \/ RejectPayload(b) \/ Allow(b) \/ ReadPortfolio(b)
                \/ CombinationRejected(b) \/ CombinationAccepted(b) \/ CombinationUnknown(b)

EndTurn(b) == SorAnswers(b) \/ BrokerTimeout(b) \/ AnswerUnread(b)

LEMMA Turns ==
    Next => \/ ReloadCatalogue
            \/ \E b \in Tasks : Submit(b) \/ Forward(b) \/ HandlerTurn(b) \/ ChainTurn(b) \/ EndTurn(b)
<1> SUFFICES ASSUME NEW b \in Tasks, Submit(b) \/ RejectPayload(b) \/ Handle(b) \/ BrokerFault(b)
             PROVE  Submit(b) \/ Forward(b) \/ HandlerTurn(b) \/ ChainTurn(b) \/ EndTurn(b)
  BY Zenon DEF Next
<1>1. CASE Handle(b)
  <2>1. Govern(b) => Forward(b) \/ ChainTurn(b) \/ EndTurn(b)
    BY Zenon DEF Govern, ChainTurn, EndTurn
  <2>2. Write(b) /\ UNCHANGED brokerVars => HandlerTurn(b)
    BY DEF HandlerTurn, brokerVars
  <2> QED
    BY <1>1, <2>1, <2>2, Zenon DEF Handle
<1>2. CASE BrokerFault(b)
  <2>1. BillingFault(b) => HandlerTurn(b)
    BY DEF BillingFault, HandlerTurn, Fault
  <2> QED
    BY <1>2, <2>1, Zenon DEF BrokerFault, ChainTurn, EndTurn
<1> QED
  BY <1>1, <1>2, Zenon DEF ChainTurn

\* What a handler's step starts from.
LEMMA HandlerStarts ==
    ASSUME IInv, NEW w \in Tasks, HandlerTurn(w)
    PROVE  HandlerKnown(w)
<1>1. work[w].pc # "idle"
  BY DEF HandlerTurn, Write, Serve, FetchFails, Capture, UpdateLine, UpdateUnknown, AddKnown, AddStart,
         AddCommit, FetchPrice, RecalcStart, RecalcNobody, Emit, RecalcDone, RecalcFirst, RecalcNext,
         UpdateProduct, AnnounceProduct
<1> QED
  BY <1>1, BooksFitNow DEF HandlerKnown, IInv, WorkFits, HandlerTurn

LEMMA HandlerTurns ==
    ASSUME IInv, NEW w \in Tasks, HandlerTurn(w)
    PROVE  HandlerMoves(w)
  BY HandlerStarts, HandlersMove DEF HandlerTurn

LEMMA EndTurnsKeep ==
    ASSUME IInv, NEW b \in Tasks, EndTurn(b)
    PROVE  IInv'
<1>1. IssuedKept
  BY SameIssued DEF EndTurn, SorAnswers, BrokerTimeout, AnswerUnread, brokerVars
<1>2. ASSUME NEW outcome \in {"permitted", "error"}, Answer(b, outcome), chain[b].pc = "wait",
             TrueOutcome(b, outcome), UNCHANGED <<written, issued>>
      PROVE  AuditSound' /\ chain' = [chain EXCEPT ![b] = NoChain]
  <2>1. chain[b].intent.id \in Ids \ {0}
    BY <1>2 DEF IInv, ChainFits, IntentFits
  <2>2. Record(b, outcome) /\ chain' = [chain EXCEPT ![b] = NoChain]
    BY <1>2 DEF Answer
  <2> QED
    BY <1>1, <1>2, <2>1, <2>2, AuditRecords DEF IInv, TrueOutcome
<1>3. TrueOutcome(b, "error")
  BY DEF TrueOutcome, EntryFits
<1>4. CASE SorAnswers(b)
  <2>1. PICK outcome \in {"permitted", "error"} : outcome = IF work[b].ok THEN "permitted" ELSE "error"
    OBVIOUS
  <2>2. Answer(b, outcome) /\ chain[b].pc = "wait" /\ work[b].pc = "done"
    BY <1>4, <2>1 DEF SorAnswers
  <2>3. HandlerFits(b) /\ ProgressFits(b)
    BY <2>2 DEF IInv, ChainFits, WorkFits
  <2>4. TrueOutcome(b, outcome)
    <3>1. CASE work[b].ok
      <4>1. IntentFits(b)
        BY <2>2 DEF IInv, ChainFits
      <4> QED
        BY <2>1, <2>2, <2>3, <3>1, <4>1 DEF HandlerFits, ProgressFits, IntentFits, TrueOutcome, EntryFits
    <3>2. CASE ~work[b].ok
      BY <1>3, <2>1, <3>2
    <3> QED
      BY <3>1, <3>2
  <2>5. AuditSound' /\ chain' = [chain EXCEPT ![b] = NoChain]
    BY <1>2, <1>4, <2>2, <2>4 DEF SorAnswers
  <2>6. faults \in Nat
    BY DEF IInv, TypeOK
  <2> QED
    BY <1>4, <2>5, <2>6, EndsKeep DEF SorAnswers
<1>5. CASE BrokerTimeout(b)
  <2>1. AuditSound' /\ chain' = [chain EXCEPT ![b] = NoChain]
    BY <1>2, <1>3, <1>5 DEF BrokerTimeout, billingVars
  <2>2. faults' \in Nat
    BY <1>5 DEF IInv, TypeOK, BrokerTimeout, Fault
  <2> QED
    BY <1>5, <2>1, <2>2, EndsKeep DEF BrokerTimeout, billingVars
<1>6. CASE AnswerUnread(b)
  <2>1. AuditSound'
    BY <1>1, <1>6, AuditStays DEF IInv, AnswerUnread, brokerVars
  <2>2. faults \in Nat
    BY DEF IInv, TypeOK
  <2> QED
    BY <1>6, <2>1, <2>2, EndsKeep DEF AnswerUnread, brokerVars
<1> QED
  BY <1>4, <1>5, <1>6 DEF EndTurn

LEMMA ReloadKeeps ==
    ASSUME IInv, UNCHANGED <<book, work, written, brokerVars>>, price' \in [Skus -> Nat]
    PROVE  IInv'
<1>1. UNCHANGED <<book, work, written, chain, audit, issued, faults>> /\ Ids' = Ids
  BY DEF brokerVars, Ids
<1>2. TypeOK' /\ OneLinePerSku' /\ AuditFits' /\ OnlyPermittedWrites'
  BY <1>1 DEF IInv, TypeOK, OneLinePerSku, AuditFits, EntryFits, Allowed, OnlyPermittedWrites
<1>3. WorkFits' /\ OneChainPerId' /\ Unforwarded'
  BY <1>1 DEF IInv, WorkFits, RequestFits, ProgressFits, Allowed, OneChainPerId, Unforwarded
<1>4. ChainFits'
  BY <1>1 DEF IInv, ChainFits, IntentFits, HandlerFits, Permitted
<1> QED
  BY <1>2, <1>3, <1>4 DEF IInv

LEMMA StepInvariant == IInv /\ [Next]_vars => IInv'
<1> SUFFICES ASSUME IInv, [Next]_vars PROVE IInv'
  OBVIOUS
<1>1. CASE UNCHANGED vars
  BY <1>1, ReloadKeeps DEF vars, billingVars, brokerVars, IInv, TypeOK
<1>2. CASE ReloadCatalogue
  BY <1>2, ReloadKeeps, CatalogueParameters DEF ReloadCatalogue
<1>3. ASSUME NEW b \in Tasks, Submit(b) \/ Forward(b) \/ ChainTurn(b) \/ EndTurn(b) PROVE IInv'
  BY <1>3, SubmitKeeps, ForwardKeeps, ChainsMove, ChainsKeep, EndTurnsKeep DEF ChainTurn
<1>4. ASSUME NEW b \in Tasks, HandlerTurn(b) PROVE IInv'
  <2>1. faults' \in Nat
    BY <1>4 DEF HandlerTurn, IInv, TypeOK
  <2> QED
    BY <1>4, <2>1, HandlerTurns, HandlersKeep DEF HandlerTurn
<1> QED
  BY <1>1, <1>2, <1>3, <1>4, Turns

LEMMA Invariant == Spec => []IInv
  BY InitInvariant, StepInvariant, PTL DEF Spec

-----------------------------------------------------------------------------
(* The theorems about states.                                                 *)

(***************************************************************************)
(* The records, the handlers, the chains and the log keep their types:      *)
(* above all, no charge becomes negative, and the log never outgrows its    *)
(* deque.                                                                   *)
(***************************************************************************)
THEOREM RecordsWellTyped == Spec => []TypeOK
<1>1. IInv => TypeOK
  BY DEF IInv
<1> QED
  BY <1>1, Invariant, PTL

(***************************************************************************)
(* No customer ever has two lines of one product, although an addition      *)
(* checks a copy of the record before it waits for the catalogue: what it   *)
(* writes back is that copy with one line more, whatever was written to the *)
(* record meanwhile.                                                        *)
(***************************************************************************)
THEOREM OneLineEach == Spec => []OneLinePerSku
<1>1. IInv => OneLinePerSku
  BY DEF IInv
<1> QED
  BY <1>1, Invariant, PTL

(***************************************************************************)
(* Whatever the broker's handlers write was permitted to its caller,        *)
(* through any failure of the policy engine and any timeout.                *)
(***************************************************************************)
THEOREM WritesPermitted == Spec => []OnlyPermittedWrites
<1>1. IInv => OnlyPermittedWrites
  BY DEF IInv
<1> QED
  BY <1>1, Invariant, PTL

(***************************************************************************)
(* The audit log is truthful: what it calls permitted took effect, what it  *)
(* calls denied never does.                                                 *)
(***************************************************************************)
THEOREM AuditTells == Spec => []AuditTruthful
<1>1. IInv => AuditTruthful
  <2> SUFFICES ASSUME IInv, NEW i \in DOMAIN audit
               PROVE  /\ audit[i].outcome = "permitted" =>
                            \/ audit[i].id \in written
                            \/ issued[audit[i].id].intent = "recalculate_billing"
                      /\ audit[i].outcome = "denied" => audit[i].id \notin written
    BY DEF AuditTruthful
  <2>1. EntryFits(audit[i])
    BY DEF IInv, AuditFits
  <2> QED
    BY <2>1 DEF EntryFits, Allowed, IInv, OnlyPermittedWrites
<1> QED
  BY <1>1, Invariant, PTL

-----------------------------------------------------------------------------
(* The theorems about steps.                                                  *)

\* The answer to an intent is its record.
LEMMA AnswerRecords ==
    ASSUME IInv, NEW b \in Tasks, chain[b].pc # "idle",
           NEW outcome \in {"permitted", "denied", "error"}, Answer(b, outcome)
    PROVE  audit' # <<>> /\ audit'[Len(audit')].id = chain[b].intent.id
<1>1. chain[b].intent.id \in Ids \ {0}
  BY DEF IInv, ChainFits, IntentFits
<1>2. PICK entry : entry = [id |-> chain[b].intent.id, outcome |-> outcome]
  OBVIOUS
<1>3. audit' # <<>> /\ audit'[Len(audit')] = entry
  BY <1>1, <1>2, RecordAdds DEF IInv, Answer
<1> QED
  BY <1>2, <1>3

\* A step of one chain leaves the others where they are.
LEMMA OnlyOwnChain ==
    ASSUME IInv, NEW b \in Tasks, NEW d \in Tasks, d # b,
           Submit(d) \/ Forward(d) \/ ChainTurn(d) \/ EndTurn(d)
    PROVE  chain'[b] = chain[b]
<1>1. chain \in [Tasks -> Chain]
  BY DEF IInv, TypeOK
<1>2. CASE Submit(d)
  <2>1. \E new : chain' = [chain EXCEPT ![d] = new]
    BY <1>2 DEF Submit, SubmitIntent
  <2> QED
    BY <1>1, <2>1
<1>3. CASE Forward(d)
  BY <1>1, <1>3 DEF Forward, Goto
<1>4. CASE ChainTurn(d)
  <2>1. chain' = [chain EXCEPT ![d] = chain'[d]]
    BY <1>4, ChainsMove DEF ChainTurn, ChainMoves
  <2> QED
    BY <1>1, <2>1
<1>5. CASE EndTurn(d)
  <2>1. chain' = chain \/ chain' = [chain EXCEPT ![d] = NoChain]
    BY <1>5 DEF EndTurn, SorAnswers, BrokerTimeout, AnswerUnread, Answer, brokerVars
  <2> QED
    BY <1>1, <2>1
<1> QED
  BY <1>2, <1>3, <1>4, <1>5

LEMMA LeavesAudited ==
    ASSUME IInv, [Next]_vars, NEW b \in Tasks, LeavesChain(b)
    PROVE  \/ audit' # <<>> /\ audit'[Len(audit')].id = chain[b].intent.id
           \/ chain[b].intent.id \notin written' /\ work'[b].pc = "idle"
<1> DEFINE Goal == \/ audit' # <<>> /\ audit'[Len(audit')].id = chain[b].intent.id
                   \/ chain[b].intent.id \notin written' /\ work'[b].pc = "idle"
<1>1. chain[b].pc # "idle" /\ chain'[b] # chain[b] /\ chain'[b].pc = "idle"
  BY DEF LeavesChain
<1>2. \A outcome \in {"permitted", "denied", "error"} : Answer(b, outcome) => Goal
  BY <1>1, AnswerRecords
<1>3. chain \in [Tasks -> Chain]
  BY DEF IInv, TypeOK
<1>4. CASE ChainTurn(b)
  <2>1. CASE RejectPayload(b)
    <3>1. chain[b].pc = "permission" /\ UNCHANGED <<work, written>>
      BY <2>1 DEF RejectPayload, billingVars
    <3>2. work[b].pc = "idle" /\ chain[b].intent.id \notin written
      BY <3>1 DEF IInv, ChainFits, HandlerFits, Unforwarded
    <3> QED
      BY <3>1, <3>2
  <2>2. CASE Allow(b)
    BY <1>1, <1>3, <2>2 DEF Allow, Goto
  <2>3. CASE ReadPortfolio(b)
    BY <1>1, <1>3, <2>3 DEF ReadPortfolio
  <2>4. CASE CombinationAccepted(b)
    BY <1>1, <1>3, <2>4 DEF CombinationAccepted
  <2>5. CASE CombinationUnknown(b)
    BY <1>1, <1>3, <2>5 DEF CombinationUnknown, Goto
  <2> QED
    BY <1>2, <1>4, <2>1, <2>2, <2>3, <2>4, <2>5
       DEF ChainTurn, Deny, PolicyEngineDown, CombinationRejected
<1>5. CASE EndTurn(b)
  BY <1>1, <1>2, <1>5 DEF EndTurn, SorAnswers, BrokerTimeout, AnswerUnread, brokerVars
<1>6. CASE Forward(b)
  BY <1>1, <1>3, <1>6 DEF Forward, Goto
<1>7. CASE Submit(b)
  BY <1>1, <1>7 DEF Submit, SubmitIntent
<1>8. ASSUME NEW d \in Tasks, d # b, Submit(d) \/ Forward(d) \/ ChainTurn(d) \/ EndTurn(d) PROVE FALSE
  BY <1>1, <1>8, OnlyOwnChain
<1>9. ASSUME NEW d \in Tasks, HandlerTurn(d) PROVE FALSE
  BY <1>1, <1>9 DEF HandlerTurn
<1>10. CASE ReloadCatalogue \/ UNCHANGED vars
  BY <1>1, <1>10 DEF ReloadCatalogue, vars, brokerVars
<1> QED
  BY <1>4, <1>5, <1>6, <1>7, <1>8, <1>9, <1>10, Turns

(***************************************************************************)
(* An intent leaves the chain as the newest entry of the log, or without a  *)
(* trace at the systems of record.                                          *)
(***************************************************************************)
THEOREM EveryWriteAudited == Spec => WritesAudited
<1>1. IInv /\ [Next]_vars =>
          \A b \in Tasks :
              LeavesChain(b) => LET id == chain[b].intent.id
                                IN  \/ audit' # <<>> /\ audit'[Len(audit')].id = id
                                    \/ id \notin written' /\ work'[b].pc = "idle"
  BY LeavesAudited
<1> QED
  BY <1>1, Invariant, PTL DEF Spec, WritesAudited

\* What a step may do to a record.
LEMMA BookSteps ==
    ASSUME IInv, [Next]_vars, NEW c \in Customers
    PROVE  \/ book'[c] = book[c]
           \/ \E w \in Tasks : HandlerKnown(w) /\ work[w].req.cust = c /\ UpdateLine(w)
           \/ \E w \in Tasks : HandlerKnown(w) /\ work[w].req.cust = c /\ AddCommit(w)
           \/ Similar(book[c], book'[c]) /\ Charged(book'[c])
<1> DEFINE Goal == \/ book'[c] = book[c]
                   \/ \E w \in Tasks : HandlerKnown(w) /\ work[w].req.cust = c /\ UpdateLine(w)
                   \/ \E w \in Tasks : HandlerKnown(w) /\ work[w].req.cust = c /\ AddCommit(w)
                   \/ Similar(book[c], book'[c]) /\ Charged(book'[c])
<1>1. ASSUME NEW w \in Tasks, HandlerTurn(w) PROVE Goal
  <2>1. HandlerKnown(w)
    BY <1>1, HandlerStarts
  <2>2. CASE UpdateLine(w)
    BY <2>1, <2>2, UpdateMoves
  <2>3. CASE AddCommit(w)
    BY <2>1, <2>3, AddMoves
  <2>4. ASSUME NEW d \in Customers, RecalcFirst(w, d) \/ RecalcNext(w, d) PROVE Goal
    <3>1. PICK due \in SUBSET Customers : RecalcCustomer(w, d, due)
      BY <2>1, <2>4, RecalculationSteps
    <3>2. /\ Charged(book'[d]) /\ Similar(book[d], book'[d])
          /\ \A e \in Customers : e # d => book'[e] = book[e]
      BY <2>1, <3>1, RecalculationMoves
    <3> QED
      BY <3>2
  <2>5. CASE UNCHANGED book
    BY <2>5
  <2> QED
    BY <1>1, <2>2, <2>3, <2>4, <2>5
       DEF HandlerTurn, Write, Serve, FetchFails, Capture, UpdateUnknown, AddKnown, AddStart, FetchPrice,
           RecalcStart, RecalcNobody, Emit, RecalcDone, UpdateProduct, AnnounceProduct, Refuse
<1>2. ASSUME NEW b \in Tasks, Submit(b) \/ Forward(b) \/ ChainTurn(b) \/ EndTurn(b) PROVE Goal
  <2>1. CASE Submit(b)
    BY <2>1 DEF Submit, SubmitIntent, billingVars
  <2>2. CASE Forward(b)
    BY <2>2 DEF Forward, Arrive
  <2>3. CASE ChainTurn(b)
    BY <2>3, ChainsMove DEF ChainTurn, ChainMoves, billingVars
  <2>4. CASE EndTurn(b)
    BY <2>4 DEF EndTurn, SorAnswers, BrokerTimeout, AnswerUnread, billingVars
  <2> QED
    BY <1>2, <2>1, <2>2, <2>3, <2>4
<1>3. CASE ReloadCatalogue \/ UNCHANGED vars
  BY <1>3 DEF ReloadCatalogue, vars, billingVars
<1> QED
  BY <1>1, <1>2, <1>3, Turns

(***************************************************************************)
(* A step that adds a product to a record or changes a list price in it     *)
(* leaves every active line of the customer charged what the policies say   *)
(* of the whole record.                                                     *)
(***************************************************************************)
THEOREM RepricingConsistent == Spec => ChargesFollowPolicies
<1>1. ASSUME IInv, [Next]_vars, NEW c \in Customers, Prices(book'[c]) # Prices(book[c])
      PROVE  Charged(book'[c])
  <2>1. ASSUME NEW w \in Tasks, HandlerKnown(w), work[w].req.cust = c, UpdateLine(w) PROVE FALSE
    <3>1. PICK lines : lines = book[c]
      OBVIOUS
    <3>2. PICK later : later = book'[c]
      OBVIOUS
    <3>3. DOMAIN later = DOMAIN lines /\ \A i \in DOMAIN lines : later[i].list = lines[i].list
      BY <2>1, <3>1, <3>2, UpdateMoves
    <3>4. Prices(later) = Prices(lines)
      BY <3>3 DEF Prices
    <3> QED
      BY <1>1, <3>1, <3>2, <3>4
  <2>2. ASSUME NEW w \in Tasks, HandlerKnown(w), work[w].req.cust = c, AddCommit(w)
        PROVE  Charged(book'[c])
    BY <2>2, AddMoves
  <2> QED
    BY <1>1, <2>1, <2>2, BookSteps
<1>2. IInv /\ [Next]_vars =>
          \A c \in Customers :
              Prices(book'[c]) # Prices(book[c]) =>
                  \A i \in Active(book'[c]) :
                      book'[c][i].charge = DiscountedPrice(Policies, book'[c], i)
  BY <1>1 DEF Charged
<1> QED
  BY <1>2, Invariant, PTL DEF Spec, ChargesFollowPolicies
=============================================================================
