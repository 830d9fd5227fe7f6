----------------------------- MODULE BillingSor -----------------------------
(***************************************************************************)
(* billing/billing_app.py: the customers' subscription lines and the three  *)
(* writes to them: the update of a line, the addition of a line and the     *)
(* recalculation after a price change.  The service is one asyncio process: *)
(* a handler runs alone between two awaits, so a step is what it does from  *)
(* one await (of the catalogue, or of the assembly service) to the next.    *)
(* The service's events are modelled in SorFeeds; here only whether the     *)
(* event was accepted counts, since the handler fails when it was not.      *)
(***************************************************************************)
EXTENDS CommercialRules

CONSTANTS Customers, Skus,
          Tasks,     \* bound: requests in flight at once
          Seed       \* the lines of each customer in the seed file

Line == [sku : Skus, stat : {"A", "S", "C"}, list : Nat, term : Nat, pct : Nat, charge : Nat]

OnePerSku(lines) == \A i, j \in DOMAIN lines : lines[i].sku = lines[j].sku => i = j

ASSUME SeedParameters ==
    /\ Seed \in [Customers -> Seq(Line)]
    /\ \A c \in Customers : OnePerSku(Seed[c])

VARIABLES book,      \* billing_data: the lines of each customer
          price,     \* the catalogue's list price of each product
          work,      \* the handler of each task at the service its request went to
          written    \* history: the ids of the requests whose write took place

billingVars == <<book, price, work, written>>

Nobody == "nobody"

(***************************************************************************)
(* A request: id 0 is one that did not come through the broker; an update   *)
(* leaves alone what is Kept.                                               *)
(***************************************************************************)
Kept == "keep"
KeptCharge == -1

NoRequest == [id |-> 0, op |-> "none", cust |-> Nobody, sku |-> "none", term |-> 0, list |-> 0,
              stat |-> Kept, charge |-> KeptCharge]

(***************************************************************************)
(* raw: the handler's copy of the record of cust, which it checks, writes   *)
(* and then sends with its event; todo: customers still to recalculate.     *)
(***************************************************************************)
NoWork == [pc |-> "idle", req |-> NoRequest, cust |-> Nobody, raw |-> <<>>, list |-> 0,
           todo |-> {}, ok |-> FALSE]

BillingInit(prices) == /\ book = Seed
                       /\ price = prices
                       /\ work = [w \in Tasks |-> NoWork]
                       /\ written = {}

Holds(lines, sku) == \E i \in DOMAIN lines : lines[i].sku = sku

\* The first line of a product.
LineOf(lines, sku) ==
    CHOOSE i \in DOMAIN lines : lines[i].sku = sku /\ \A j \in 1 .. i - 1 : lines[j].sku # sku

NewLine(sku, list, term) ==
    [sku |-> sku, stat |-> "A", list |-> list, term |-> term, pct |-> 0, charge |-> list]

\* Mutant of Reevaluated: only the last line, the one just added, is priced.
ReevaluatedLast(lines) ==
    [i \in DOMAIN lines |->
        IF lines[i].stat = "A" /\ i = Len(lines)
        THEN [lines[i] EXCEPT !.pct = DiscountPct(Policies, lines, lines[i].sku),
                              !.charge = DiscountedPrice(Policies, lines, i)]
        ELSE lines[i]]

\* Discounts are evaluated over all active lines and every active line is priced.
Reevaluated(lines) ==
    [i \in DOMAIN lines |->
        IF lines[i].stat = "A"
        THEN [lines[i] EXCEPT !.pct = DiscountPct(Policies, lines, lines[i].sku),
                              !.charge = DiscountedPrice(Policies, lines, i)]
        ELSE lines[i]]

-----------------------------------------------------------------------------
(* A request arrives and is answered.                                         *)

Arrive(w, req) ==
    /\ work[w].pc = "idle"
    /\ work' = [work EXCEPT ![w] = [NoWork EXCEPT !.pc = "arrived", !.req = req]]
    /\ UNCHANGED <<book, price, written>>

Finish(w, ok) == work' = [work EXCEPT ![w] = [NoWork EXCEPT !.pc = "done", !.req = work[w].req,
                                                            !.ok = ok]]

Refuse(w) == Finish(w, FALSE) /\ UNCHANGED <<book, price, written>>

\* The handler writes the lines and goes on to send them.
Commit(w, c, lines, label, due) ==
    /\ book' = [book EXCEPT ![c] = lines]
    /\ written' = written \cup ({work[w].req.id} \ {0})
    /\ work' = [work EXCEPT ![w].pc = label, ![w].cust = c, ![w].raw = lines, ![w].todo = due]
    /\ UNCHANGED price

-----------------------------------------------------------------------------
(* PATCH /customers/{customer_id}: the update of a line is one step.          *)

\* Mutant of UpdateLine: a cancelled line is taken out of the record.
UpdateLineRemove(w) ==
    LET req   == work[w].req
        lines == book[req.cust]
    IN  /\ work[w].pc = "arrived"
        /\ req.op = "update"
        /\ Holds(lines, req.sku)
        /\ Commit(w, req.cust, SelectSeq(lines, LAMBDA line : line.sku # req.sku), "capture", {})

\* An update sets a status or a charge.  It never evaluates the discounts.
Updated(line, req) ==
    [line EXCEPT !.stat   = IF req.stat = Kept THEN @ ELSE req.stat,
                 !.charge = IF req.charge = KeptCharge THEN @ ELSE req.charge]

\* Mutant of UpdateLine: it is the last line of the record that changes.
UpdateLineLast(w) ==
    LET req   == work[w].req
        lines == book[req.cust]
    IN  /\ work[w].pc = "arrived"
        /\ req.op = "update"
        /\ Holds(lines, req.sku)
        /\ Commit(w, req.cust, [lines EXCEPT ![Len(lines)] = Updated(@, req)], "capture", {})

UpdateLine(w) ==
    LET req   == work[w].req
        lines == book[req.cust]
    IN  /\ work[w].pc = "arrived"
        /\ req.op = "update"
        /\ Holds(lines, req.sku)
        /\ Commit(w, req.cust, [lines EXCEPT ![LineOf(lines, req.sku)] = Updated(@, req)],
                  "capture", {})

UpdateUnknown(w) ==
    /\ work[w].pc = "arrived"
    /\ work[w].req.op = "update"
    /\ ~Holds(book[work[w].req.cust], work[w].req.sku)
    /\ Refuse(w)

(***************************************************************************)
(* The addition copies the record and checks it before it asks the          *)
(* catalogue for the price; what it writes back is the copy.                *)
(***************************************************************************)
AddKnown(w) ==
    /\ work[w].pc = "arrived"
    /\ work[w].req.op = "add"
    /\ Holds(book[work[w].req.cust], work[w].req.sku)
    /\ Refuse(w)

AddStart(w) ==
    LET req == work[w].req
    IN  /\ work[w].pc = "arrived"
        /\ req.op = "add"
        /\ ~Holds(book[req.cust], req.sku)
        /\ work' = [work EXCEPT ![w].pc = "fetch", ![w].raw = book[req.cust]]
        /\ UNCHANGED <<book, price, written>>

FetchPrice(w) ==
    /\ work[w].pc = "fetch"
    /\ work' = [work EXCEPT ![w].pc = "fetched", ![w].list = price[work[w].req.sku]]
    /\ UNCHANGED <<book, price, written>>

\* Mutant of AddCommit: the line goes to the record as it is now.
AddCommitAppend(w) ==
    LET req == work[w].req
    IN  /\ work[w].pc = "fetched"
        /\ req.op = "add"
        /\ Commit(w, req.cust, Reevaluated(Append(book[req.cust],
                                                  NewLine(req.sku, work[w].list, req.term))),
                  "capture", {})

AddCommit(w) ==
    LET req == work[w].req
    IN  /\ work[w].pc = "fetched"
        /\ req.op = "add"
        /\ Commit(w, req.cust, Reevaluated(Append(work[w].raw,
                                                  NewLine(req.sku, work[w].list, req.term))),
                  "capture", {})

\* POST /events: when it fails, so does the request, after the write.
Capture(w, ok) ==
    /\ work[w].pc = "capture"
    /\ Finish(w, ok)
    /\ UNCHANGED <<book, price, written>>

-----------------------------------------------------------------------------
(* POST /recalculate: the price is fetched once, then the holders of the      *)
(* product are repriced one after the other.  Between two of them the         *)
(* handler awaits the assembly service, whose failures it ignores.            *)

RecalcStart(w) ==
    /\ work[w].pc = "arrived"
    /\ work[w].req.op = "recalculate"
    /\ work' = [work EXCEPT ![w].pc = "fetch"]
    /\ UNCHANGED <<book, price, written>>

Affected(sku) ==
    {c \in Customers : \E i \in DOMAIN book[c] : book[c][i].sku = sku /\ book[c][i].stat # "C"}

Repriced(lines, sku, list) ==
    Reevaluated([i \in DOMAIN lines |-> IF lines[i].sku = sku /\ lines[i].stat # "C"
                                        THEN [lines[i] EXCEPT !.list = list] ELSE lines[i]])

\* Mutant of RecalcCustomer: the customer stays on the list.
RecalcCustomerAgain(w, c, due) ==
    /\ c \in due
    /\ Commit(w, c, Repriced(book[c], work[w].req.sku, work[w].list), "emit", due)

RecalcCustomer(w, c, due) ==
    /\ c \in due
    /\ Commit(w, c, Repriced(book[c], work[w].req.sku, work[w].list), "emit", due \ {c})

RecalcFirst(w, c) ==
    /\ work[w].pc = "fetched"
    /\ work[w].req.op = "recalculate"
    /\ RecalcCustomer(w, c, Affected(work[w].req.sku))

Emit(w) ==
    /\ work[w].pc = "emit"
    /\ work' = [work EXCEPT ![w].pc = "next", ![w].cust = Nobody, ![w].raw = <<>>]
    /\ UNCHANGED <<book, price, written>>

RecalcNext(w, c) ==
    /\ work[w].pc = "next"
    /\ RecalcCustomer(w, c, work[w].todo)

RecalcNobody(w) ==
    /\ work[w].pc = "fetched"
    /\ work[w].req.op = "recalculate"
    /\ Affected(work[w].req.sku) = {}
    /\ Finish(w, TRUE)
    /\ UNCHANGED <<book, price, written>>

\* Mutant of RecalcDone: the first holder is the only one.
RecalcDoneEarly(w) ==
    /\ work[w].pc = "next"
    /\ Finish(w, TRUE)
    /\ UNCHANGED <<book, price, written>>

RecalcDone(w) ==
    /\ work[w].pc = "next"
    /\ work[w].todo = {}
    /\ Finish(w, TRUE)
    /\ UNCHANGED <<book, price, written>>

\* The catalogue cannot be reached: the request fails before any write.
FetchFails(w) == work[w].pc = "fetch" /\ Refuse(w)

-----------------------------------------------------------------------------
Serve(w) ==
    \/ UpdateLine(w) \/ UpdateUnknown(w)
    \/ AddKnown(w)   \/ AddStart(w)   \/ AddCommit(w)
    \/ FetchPrice(w) \/ Capture(w, TRUE)
    \/ RecalcStart(w) \/ RecalcNobody(w) \/ Emit(w) \/ RecalcDone(w)
    \/ \E c \in Customers : RecalcFirst(w, c) \/ RecalcNext(w, c)
=============================================================================
