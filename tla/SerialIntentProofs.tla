------------------------- MODULE SerialIntentProofs --------------------------
(***************************************************************************)
(* Theorems of the customers whose intents are sent one at a time, for      *)
(* every catalogue, every number of handlers and of faults: the verdict of  *)
(* the catalogue still stands when the addition is written, and no write    *)
(* undoes another, although recalculations and other customers' intents go  *)
(* on meanwhile.                                                            *)
(***************************************************************************)
EXTENDS SerialIntents, SubscriptionProofs

-----------------------------------------------------------------------------
(* The inductive invariant.                                                   *)

\* The task has still an intent for the customer to govern or to write.
Occupied(b, c) ==
    \/ chain[b].pc # "idle" /\ chain[b].intent.cust = c
    \/ work[b].pc \in {"arrived", "fetch", "fetched"} /\ work[b].req.cust = c

LEMMA Customer == Undisturbed \subseteq Customers /\ Undisturbed \subseteq Serial
  BY BrokerParameters DEF Undisturbed

OneAtATime == \A c \in Undisturbed : \A b, d \in Tasks : Occupied(b, c) /\ Occupied(d, c) => b = d

\* What is waited for is the intent's own operation.
WaitsForOwn ==
    \A b \in Tasks :
        chain[b].pc = "wait" =>
            /\ work[b].req.op = Operation(chain[b].intent)
            /\ work[b].req.cust = chain[b].intent.cust
            /\ work[b].req.sku = chain[b].intent.sku

ChecksFit ==
    \A b \in Tasks :
        chain[b].checked => /\ chain[b].pc \in {"forward", "wait"}
                            /\ chain[b].intent.intent = "add_subscription"

\* Of the record an addition copied, only list prices and charges may have changed.
CopyFits(w) ==
    LET req == work[w].req
    IN  work[w].pc \in {"fetch", "fetched"} /\ req.op = "add" /\ req.cust \in Undisturbed =>
            Similar(work[w].raw, book[req.cust])

CopiesCurrent == \A w \in Tasks : CopyFits(w)

\* The verdict is about the products the customer still has.
Verdict(b) ==
    LET intent == chain[b].intent
    IN  intent.cust \in Undisturbed =>
            /\ chain[b].pc = "combination" => chain[b].held = ActiveSkus(book[intent.cust])
            /\ chain[b].checked /\ (chain[b].pc = "wait" => work[b].pc \in {"arrived", "fetch", "fetched"}) =>
                  IsCombinationValid(Graph, ActiveSkus(book[intent.cust]) \cup {intent.sku})

VerdictsStand == \A b \in Tasks : Verdict(b)

SerialInv == /\ IInv
             /\ OneAtATime /\ WaitsForOwn /\ ChecksFit /\ CopiesCurrent /\ VerdictsStand

LEMMA SerialStart == Init => SerialInv
<1> SUFFICES ASSUME Init PROVE SerialInv
  OBVIOUS
<1>1. \A b \in Tasks : chain[b].pc = "idle" /\ chain[b].checked = FALSE /\ work[b].pc = "idle"
  BY DEF Init, BillingInit, NoChain, NoWork
<1>2. OneAtATime /\ WaitsForOwn /\ ChecksFit /\ CopiesCurrent /\ VerdictsStand
  BY <1>1 DEF OneAtATime, Occupied, WaitsForOwn, ChecksFit, CopiesCurrent, CopyFits, VerdictsStand, Verdict
<1> QED
  BY <1>2, InitInvariant DEF SerialInv

-----------------------------------------------------------------------------
(* What the steps do to the chains and the handlers.                          *)

LEMMA SimilarSame == \A lines : Similar(lines, lines)
  BY DEF Similar

LEMMA SimilarOn ==
    ASSUME NEW lines, NEW others, NEW later, Similar(lines, others), Similar(others, later)
    PROVE  Similar(lines, later)
  BY DEF Similar

\* A handler that is waiting for its price got there by asking for it.
LEMMA WaitingHandlers ==
    ASSUME IInv, NEW w \in Tasks, HandlerTurn(w), work'[w].pc \in {"arrived", "fetch", "fetched"}
    PROVE  /\ work[w].pc \in {"arrived", "fetch", "fetched"}
           /\ ~UpdateLine(w) /\ ~AddCommit(w)
           /\ work[w].req.op = "add" =>
                 /\ UNCHANGED book
                 /\ \/ work'[w].raw = book[work[w].req.cust]
                    \/ work[w].pc = "fetch" /\ work'[w].raw = work[w].raw
<1>1. PICK h \in Work : h = work[w]
  BY DEF IInv, TypeOK
<1>2. work \in [Tasks -> Work]
  BY DEF IInv, TypeOK
<1>3. \A ok : ~Finish(w, ok)
  BY <1>2 DEF Finish, NoWork
<1>4. \A c, lines, due : ~Commit(w, c, lines, "capture", due) /\ ~Commit(w, c, lines, "emit", due)
  <2> SUFFICES ASSUME NEW c, NEW lines, NEW due, NEW label \in {"capture", "emit"},
                      Commit(w, c, lines, label, due)
               PROVE  FALSE
    OBVIOUS
  <2>1. work'[w].pc = label
    BY <1>1, <1>2 DEF Commit, Work
  <2> QED
    BY <2>1
<1>5. ~UpdateLine(w) /\ ~AddCommit(w)
  BY <1>4 DEF UpdateLine, AddCommit
<1>6. \A c \in Customers : ~RecalcFirst(w, c) /\ ~RecalcNext(w, c)
  BY <1>4 DEF RecalcFirst, RecalcNext, RecalcCustomer
<1>7. /\ ~UpdateUnknown(w) /\ ~AddKnown(w) /\ ~FetchFails(w) /\ ~Capture(w, TRUE) /\ ~Capture(w, FALSE)
      /\ ~RecalcNobody(w) /\ ~RecalcDone(w) /\ ~AnnounceProduct(w)
  BY <1>3 DEF UpdateUnknown, AddKnown, FetchFails, Capture, RecalcNobody, RecalcDone, AnnounceProduct, Refuse
<1>8. ~Emit(w) /\ ~UpdateProduct(w)
  BY <1>1, <1>2 DEF Emit, UpdateProduct, Work
<1>9. AddStart(w) \/ FetchPrice(w) \/ RecalcStart(w)
  BY <1>5, <1>6, <1>7, <1>8 DEF HandlerTurn, Write, Serve
<1>10. CASE AddStart(w)
  BY <1>1, <1>2, <1>5, <1>10 DEF AddStart, Work
<1>11. CASE FetchPrice(w)
  BY <1>1, <1>2, <1>5, <1>11 DEF FetchPrice, Work
<1>12. CASE RecalcStart(w)
  BY <1>1, <1>2, <1>5, <1>12 DEF RecalcStart, Work
<1> QED
  BY <1>9, <1>10, <1>11, <1>12

(***************************************************************************)
(* The record of a serial customer is changed by the handler of its own     *)
(* intent, or keeps its products and their status.                          *)
(***************************************************************************)
LEMMA SerialBooks ==
    ASSUME SerialInv, NEW w \in Tasks, HandlerTurn(w), NEW b \in Tasks, NEW c \in Undisturbed,
           Occupied(b, c)
    PROVE  \/ Similar(book[c], book'[c])
           \/ w = b /\ work[b].req.cust = c /\ (UpdateLine(b) \/ AddCommit(b))
<1>1. c \in Customers
  BY Customer
<1>2. HandlerMoves(w) /\ HandlerKnown(w)
  BY HandlerStarts, HandlerTurns DEF SerialInv
<1>3. CASE UpdateLine(w) \/ AddCommit(w)
  <2>1. CASE work[w].req.cust = c
    <3>1. Occupied(w, c)
      BY <1>3, <2>1 DEF Occupied, UpdateLine, AddCommit
    <3> QED
      BY <1>3, <2>1, <3>1 DEF SerialInv, OneAtATime
  <2>2. CASE work[w].req.cust # c
    <3>1. book'[c] = book[c]
      BY <1>1, <1>2, <1>3, <2>2, UpdateMoves, AddMoves
    <3> QED
      BY <3>1, SimilarSame
  <2> QED
    BY <2>1, <2>2
<1>4. ASSUME NEW d \in Customers, RecalcFirst(w, d) \/ RecalcNext(w, d)
      PROVE  Similar(book[c], book'[c])
  <2>1. PICK due \in SUBSET Customers : RecalcCustomer(w, d, due)
    BY <1>2, <1>4, RecalculationSteps
  <2>2. Similar(book[d], book'[d]) /\ \A e \in Customers : e # d => book'[e] = book[e]
    BY <1>2, <2>1, RecalculationMoves
  <2>3. CASE c = d
    BY <2>2, <2>3
  <2>4. CASE c # d
    <3>1. book'[c] = book[c]
      BY <1>1, <2>2, <2>4
    <3> QED
      BY <3>1, SimilarSame
  <2> QED
    BY <2>3, <2>4
<1>5. CASE UNCHANGED book
  BY <1>5, SimilarSame
<1> QED
  BY <1>3, <1>4, <1>5
     DEF HandlerTurn, Write, Serve, FetchFails, Capture, UpdateUnknown, AddKnown, AddStart, FetchPrice,
         RecalcStart, RecalcNobody, Emit, RecalcDone, UpdateProduct, AnnounceProduct, Refuse

LEMMA HandlersKeepSerial ==
    ASSUME SerialInv, NEW w \in Tasks, HandlerTurn(w), Undisturbed' = Undisturbed
    PROVE  (OneAtATime /\ WaitsForOwn /\ ChecksFit /\ CopiesCurrent /\ VerdictsStand)'
<1>1. HandlerMoves(w) /\ UNCHANGED chain
  BY HandlerTurns DEF HandlerTurn, SerialInv
<1>2. /\ \A v \in Tasks : v # w => work'[v] = work[v]
      /\ \A v \in Tasks : work'[v].req = work[v].req
      /\ \A v \in Tasks : work'[v].pc = "idle" <=> work[v].pc = "idle"
  BY <1>1 DEF HandlerMoves, SerialInv, IInv, TypeOK
<1>3. OneAtATime'
  <2>1. \A d \in Tasks, c \in Undisturbed : Occupied(d, c)' => Occupied(d, c)
    BY <1>1, <1>2, WaitingHandlers DEF Occupied, SerialInv
  <2> QED
    BY <2>1 DEF SerialInv, OneAtATime
<1>4. WaitsForOwn' /\ ChecksFit'
  BY <1>1, <1>2 DEF SerialInv, WaitsForOwn, ChecksFit
<1>5. CopiesCurrent'
  <2> SUFFICES ASSUME NEW v \in Tasks, work'[v].pc \in {"fetch", "fetched"},
                      work'[v].req.op = "add", work'[v].req.cust \in Undisturbed
               PROVE  Similar(work'[v].raw, book'[work'[v].req.cust])
    BY DEF CopiesCurrent, CopyFits
  <2>1. PICK c \in Undisturbed : c = work[v].req.cust /\ c = work'[v].req.cust
    BY <1>2
  <2>2. work[v].req.op = "add"
    BY <1>2
  <2>3. CASE v = w
    <3>1. /\ UNCHANGED book
          /\ work'[v].raw = book[c] \/ (work[v].pc = "fetch" /\ work'[v].raw = work[v].raw)
      BY <2>1, <2>2, <2>3, WaitingHandlers DEF SerialInv
    <3>2. CASE work'[v].raw = book[c]
      BY <2>1, <3>1, <3>2, SimilarSame
    <3>3. CASE work[v].pc = "fetch" /\ work'[v].raw = work[v].raw
      <4>1. Similar(work[v].raw, book[c])
        BY <2>1, <2>2, <3>3 DEF SerialInv, CopiesCurrent, CopyFits
      <4> QED
        BY <2>1, <3>1, <3>3, <4>1
    <3> QED
      BY <3>1, <3>2, <3>3
  <2>4. CASE v # w
    <3>1. work'[v] = work[v]
      BY <1>2, <2>4
    <3>2. Similar(work[v].raw, book[c])
      BY <2>1, <2>2, <3>1 DEF SerialInv, CopiesCurrent, CopyFits
    <3>3. Occupied(v, c)
      BY <2>1, <3>1 DEF Occupied
    <3>4. Similar(book[c], book'[c])
      BY <2>4, <3>3, SerialBooks
    <3>5. Similar(work[v].raw, book'[c])
      BY <3>2, <3>4, SimilarOn
    <3> QED
      BY <2>1, <3>1, <3>5
  <2> QED
    BY <2>3, <2>4
<1>6. VerdictsStand'
  <2> SUFFICES ASSUME NEW b \in Tasks PROVE Verdict(b)'
    BY DEF VerdictsStand
  <2>1. PICK intent : intent = chain[b].intent
    OBVIOUS
  <2>2. Verdict(b)
    BY DEF SerialInv, VerdictsStand
  <2>3. CASE intent.cust \in Undisturbed /\ chain[b].pc # "idle"
    <3>1. PICK c \in Undisturbed : c = intent.cust
      BY <2>3
    <3>2. Occupied(b, c)
      BY <2>1, <2>3, <3>1 DEF Occupied
    <3>3. CASE Similar(book[c], book'[c])
      <4>1. ActiveSkus(book'[c]) = ActiveSkus(book[c])
        BY <3>3, SimilarSkus
      <4>2. work'[b].pc \in {"arrived", "fetch", "fetched"} => work[b].pc \in {"arrived", "fetch", "fetched"}
        BY <1>2, WaitingHandlers DEF SerialInv
      <4> QED
        BY <1>1, <2>1, <2>2, <3>1, <4>1, <4>2 DEF Verdict
    <3>4. CASE w = b /\ (UpdateLine(b) \/ AddCommit(b))
      <4>1. work'[b].pc \notin {"arrived", "fetch", "fetched"}
        BY <3>4, WaitingHandlers DEF SerialInv
      <4>2. work[b].pc # "idle"
        BY <1>1, <3>4 DEF HandlerMoves
      <4>3. chain[b].pc = "wait"
        BY <2>3, <4>2 DEF SerialInv, IInv, ChainFits, HandlerFits
      <4> QED
        BY <1>1, <4>1, <4>3 DEF Verdict
    <3> QED
      BY <3>2, <3>3, <3>4, SerialBooks
  <2>4. CASE chain[b].pc = "idle"
    <3>1. ~chain[b].checked
      BY <2>4 DEF SerialInv, ChecksFit
    <3> QED
      BY <1>1, <2>4, <3>1 DEF Verdict
  <2>5. CASE intent.cust \notin Undisturbed
    BY <1>1, <2>1, <2>5 DEF Verdict
  <2> QED
    BY <2>3, <2>4, <2>5
<1> QED
  BY <1>3, <1>4, <1>5, <1>6

-----------------------------------------------------------------------------
(* The other steps leave the records alone.                                   *)

\* A chain that is new or has ended has no verdict.
LEMMA NoVerdict ==
    ASSUME NEW b \in Tasks, ~chain[b].checked, chain[b].pc # "combination"
    PROVE  Verdict(b)
  BY DEF Verdict

\* Nothing that holds for the chain and the handler of a task changes with those of another.
LEMMA OthersKeep ==
    ASSUME SerialInv, UNCHANGED book, Undisturbed' = Undisturbed,
           NEW d \in Tasks, chain'[d] = chain[d], work'[d] = work[d]
    PROVE  /\ CopyFits(d)' /\ Verdict(d)'
           /\ \A c : Occupied(d, c)' <=> Occupied(d, c)
  BY DEF SerialInv, CopiesCurrent, CopyFits, VerdictsStand, Verdict, Occupied

LEMMA ChainsKeepSerial ==
    ASSUME SerialInv, NEW b \in Tasks, ChainTurn(b), Undisturbed' = Undisturbed
    PROVE  (OneAtATime /\ WaitsForOwn /\ ChecksFit /\ CopiesCurrent /\ VerdictsStand)'
<1>1. /\ UNCHANGED <<book, work>>
      /\ chain[b].pc \notin {"idle", "wait"}
      /\ chain'[b] \in Chain /\ chain'[b].pc # "wait"
      /\ chain'[b].pc # "idle" => chain'[b].intent = chain[b].intent
  BY ChainsMove DEF ChainTurn, ChainMoves, billingVars, SerialInv
<1>2. chain \in [Tasks -> Chain] /\ chain' = [chain EXCEPT ![b] = chain'[b]]
  BY ChainsMove DEF ChainTurn, ChainMoves, SerialInv, IInv, TypeOK
<1>3. \A d \in Tasks : d # b => chain'[d] = chain[d]
  BY <1>2
<1>4. OneAtATime'
  <2>1. \A d \in Tasks, c \in Undisturbed : Occupied(d, c)' => Occupied(d, c)
    BY <1>1, <1>3 DEF Occupied
  <2> QED
    BY <2>1 DEF SerialInv, OneAtATime
<1>5. WaitsForOwn'
  BY <1>1, <1>3 DEF SerialInv, WaitsForOwn
<1>6. chain[b].checked => chain[b].pc = "forward"
  BY <1>1 DEF SerialInv, ChecksFit
<1>7. ASSUME chain'[b] = NoChain \/ (~chain'[b].checked /\ chain'[b].pc # "combination")
      PROVE  ~chain'[b].checked /\ Verdict(b)'
  <2>1. ~chain'[b].checked /\ chain'[b].pc # "combination"
    BY <1>7 DEF NoChain
  <2> QED
    BY <2>1 DEF Verdict
<1>8. /\ chain'[b].checked => chain'[b].pc = "forward" /\ chain'[b].intent.intent = "add_subscription"
      /\ Verdict(b)'
  <2>1. CASE Deny(b) \/ PolicyEngineDown(b) \/ RejectPayload(b) \/ CombinationRejected(b)
    <3>1. chain' = [chain EXCEPT ![b] = NoChain]
      BY <2>1 DEF Deny, PolicyEngineDown, RejectPayload, CombinationRejected, Answer
    <3> QED
      BY <1>2, <1>7, <3>1
  <2>2. CASE Allow(b)
    <3>1. chain[b].pc = "permission"
      BY <2>2 DEF Allow
    <3>2. chain'[b].checked = chain[b].checked /\ chain'[b].pc \in {"portfolio", "forward"}
      BY <1>2, <2>2 DEF Allow, Goto, Chain
    <3> QED
      BY <1>6, <1>7, <3>1, <3>2
  <2>3. CASE CombinationUnknown(b)
    <3>1. chain[b].pc \in {"portfolio", "combination"}
      BY <2>3 DEF CombinationUnknown
    <3>2. chain'[b].checked = chain[b].checked /\ chain'[b].pc = "forward"
      BY <1>2, <2>3 DEF CombinationUnknown, Goto, Chain
    <3> QED
      BY <1>6, <1>7, <3>1, <3>2
  <2>4. CASE ReadPortfolio(b)
    <3>1. chain[b].pc = "portfolio"
      BY <2>4 DEF ReadPortfolio
    <3>2. /\ chain'[b].checked = chain[b].checked /\ chain'[b].pc = "combination"
          /\ chain'[b].intent = chain[b].intent
          /\ chain'[b].held = ActiveSkus(book[chain[b].intent.cust])
      BY <1>2, <2>4 DEF ReadPortfolio, Chain
    <3> QED
      BY <1>1, <1>6, <3>1, <3>2 DEF Verdict
  <2>5. CASE CombinationAccepted(b)
    <3>1. chain[b].pc = "combination" /\ IsCombinationValid(Graph, chain[b].held \cup {chain[b].intent.sku})
      BY <2>5 DEF CombinationAccepted, Proposed
    <3>2. chain'[b].pc = "forward" /\ chain'[b].intent = chain[b].intent
      BY <1>2, <2>5 DEF CombinationAccepted, Chain
    <3>3. chain[b].intent.intent = "add_subscription"
      BY <3>1 DEF SerialInv, IInv, ChainFits, IntentFits
    <3>4. chain[b].intent.cust \in Undisturbed => chain[b].held = ActiveSkus(book[chain[b].intent.cust])
      BY <3>1 DEF SerialInv, VerdictsStand, Verdict
    <3>5. Verdict(b)'
      BY <1>1, <3>1, <3>2, <3>4 DEF Verdict
    <3> QED
      BY <3>2, <3>3, <3>5
  <2> QED
    BY <2>1, <2>2, <2>3, <2>4, <2>5 DEF ChainTurn
<1>9. ChecksFit'
  BY <1>3, <1>8 DEF SerialInv, ChecksFit
<1>10. CopiesCurrent'
  BY <1>1 DEF SerialInv, CopiesCurrent, CopyFits
<1>11. VerdictsStand'
  BY <1>1, <1>3, <1>8, OthersKeep DEF VerdictsStand
<1> QED
  BY <1>4, <1>5, <1>9, <1>10, <1>11

LEMMA ForwardKeepsSerial ==
    ASSUME SerialInv, NEW b \in Tasks, Forward(b), Undisturbed' = Undisturbed
    PROVE  (OneAtATime /\ WaitsForOwn /\ ChecksFit /\ CopiesCurrent /\ VerdictsStand)'
<1>1. chain \in [Tasks -> Chain] /\ work \in [Tasks -> Work]
  BY DEF SerialInv, IInv, TypeOK
<1>2. PICK intent : intent = chain[b].intent
  OBVIOUS
<1>3. /\ chain[b].pc = "forward" /\ UNCHANGED book
      /\ chain'[b].pc = "wait" /\ chain'[b].intent = intent /\ chain'[b].checked = chain[b].checked
      /\ \A d \in Tasks : d # b => chain'[d] = chain[d]
  BY <1>1, <1>2 DEF Forward, Goto, Chain, Arrive
<1>4. /\ work'[b].pc = "arrived"
      /\ work'[b].req.cust = intent.cust /\ work'[b].req.sku = intent.sku
      /\ work'[b].req.op = Operation(intent)
      /\ \A d \in Tasks : d # b => work'[d] = work[d]
  BY <1>1, <1>2 DEF Forward, Arrive, NoWork, NoRequest
<1>5. OneAtATime'
  <2>1. \A d \in Tasks, c \in Undisturbed : Occupied(d, c)' => Occupied(d, c)
    BY <1>2, <1>3, <1>4 DEF Occupied
  <2> QED
    BY <2>1 DEF SerialInv, OneAtATime
<1>6. WaitsForOwn' /\ ChecksFit'
  BY <1>2, <1>3, <1>4 DEF SerialInv, WaitsForOwn, ChecksFit
<1>7. CopyFits(b)'
  BY <1>4 DEF CopyFits
<1>8. Verdict(b)'
  BY <1>2, <1>3 DEF SerialInv, VerdictsStand, Verdict
<1> QED
  BY <1>3, <1>4, <1>5, <1>6, <1>7, <1>8, OthersKeep DEF CopiesCurrent, VerdictsStand

LEMMA EndsKeepSerial ==
    ASSUME SerialInv, NEW b \in Tasks, EndTurn(b), Undisturbed' = Undisturbed
    PROVE  (OneAtATime /\ WaitsForOwn /\ ChecksFit /\ CopiesCurrent /\ VerdictsStand)'
<1>1. chain \in [Tasks -> Chain] /\ work \in [Tasks -> Work]
  BY DEF SerialInv, IInv, TypeOK
<1>2. /\ UNCHANGED book
      /\ chain' = [chain EXCEPT ![b] = NoChain] \/ (UNCHANGED chain /\ chain[b].pc = "idle")
      /\ work' = [work EXCEPT ![b] = NoWork] \/ UNCHANGED work
  BY DEF EndTurn, SorAnswers, BrokerTimeout, AnswerUnread, Answer, brokerVars, billingVars
<1>3. /\ \A d \in Tasks : d # b => chain'[d] = chain[d] /\ work'[d] = work[d]
      /\ chain'[b].pc = "idle" /\ ~chain'[b].checked
  BY <1>1, <1>2 DEF NoChain, SerialInv, ChecksFit
<1>4. work'[b].pc # "idle" => work'[b] = work[b]
  BY <1>1, <1>2 DEF NoWork
<1>5. OneAtATime'
  <2>1. \A d \in Tasks, c \in Undisturbed : Occupied(d, c)' => Occupied(d, c)
    BY <1>3, <1>4 DEF Occupied
  <2> QED
    BY <2>1 DEF SerialInv, OneAtATime
<1>6. WaitsForOwn' /\ ChecksFit'
  BY <1>3 DEF SerialInv, WaitsForOwn, ChecksFit
<1>7. CopyFits(b)'
  BY <1>2, <1>4 DEF SerialInv, CopiesCurrent, CopyFits
<1>8. Verdict(b)'
  BY <1>3 DEF Verdict
<1> QED
  BY <1>2, <1>3, <1>5, <1>6, <1>7, <1>8, OthersKeep DEF CopiesCurrent, VerdictsStand

\* An intent is sent for a customer that is not busy.  The promises hold for it when no
\* handler has an earlier one to write.
LEMMA SubmitKeepsSerial ==
    ASSUME SerialInv, NEW b \in Tasks, Submit(b), Remember
    PROVE  (OneAtATime /\ WaitsForOwn /\ ChecksFit /\ CopiesCurrent /\ VerdictsStand)'
<1>1. chain \in [Tasks -> Chain]
  BY DEF SerialInv, IInv, TypeOK
<1>2. PICK c \in Customers \cup {Nobody} :
          /\ c \in Serial => ~Busy(c)
          /\ \E caller, kind, sku, term, list : SubmitIntent(b, caller, kind, c, sku, term, list)
  BY DEF Submit
<1>3. PICK new : /\ chain' = [chain EXCEPT ![b] = new]
                 /\ new.pc = "permission" /\ new.intent.cust = c /\ new.checked = FALSE
  <2>1. PICK caller, kind, sku, term, list : SubmitIntent(b, caller, kind, c, sku, term, list)
    BY <1>2
  <2>2. PICK intent : intent = [id |-> Len(issued) + 1, caller |-> caller, intent |-> kind,
                                cust |-> c, sku |-> sku, term |-> term, list |-> list]
    OBVIOUS
  <2>3. chain' = [chain EXCEPT ![b] = [NoChain EXCEPT !.pc = "permission", !.intent = intent]]
    BY <2>1, <2>2 DEF SubmitIntent
  <2>4. intent.cust = c
    BY <2>2
  <2>5. PICK new : new = [NoChain EXCEPT !.pc = "permission", !.intent = intent]
    OBVIOUS
  <2>6. new.pc = "permission" /\ new.intent.cust = c /\ new.checked = FALSE
    BY <2>4, <2>5 DEF NoChain
  <2> QED
    BY <2>3, <2>5, <2>6
<1>4. UNCHANGED <<book, work>> /\ work[b].pc = "idle"
  BY <1>2 DEF SubmitIntent, billingVars
<1>5. chain'[b] = new /\ \A d \in Tasks : d # b => chain'[d] = chain[d]
  BY <1>1, <1>3
<1>6. ASSUME NEW e \in Undisturbed', e # c PROVE e \in Undisturbed
  <2>1. ~Sent(e)
    BY <1>3, <1>5, <1>6 DEF Sent
  <2> QED
    BY <1>6, <2>1 DEF Remember, Undisturbed
<1>7. c \in Undisturbed' => \A d \in Tasks : ~Occupied(d, c)
  <2> SUFFICES ASSUME c \in Undisturbed' PROVE \A d \in Tasks : ~Occupied(d, c)
    OBVIOUS
  <2>1. c \in Serial /\ c \notin overtaken'
    BY DEF Undisturbed
  <2>2. Sent(c)
    BY <1>2, <1>3, <1>5 DEF Sent, SubmitIntent
  <2>3. ~Unwritten(c)
    BY <2>1, <2>2 DEF Remember
  <2> QED
    BY <1>2, <2>1, <2>3 DEF Busy, Unwritten, Occupied
<1>8. OneAtATime'
  <2>1. \A d \in Tasks, e \in Undisturbed' : Occupied(d, e)' => Occupied(d, e) \/ (d = b /\ e = c)
    BY <1>3, <1>4, <1>5 DEF Occupied
  <2> QED
    BY <1>6, <1>7, <2>1 DEF SerialInv, OneAtATime
<1>9. WaitsForOwn' /\ ChecksFit'
  BY <1>3, <1>4, <1>5 DEF SerialInv, WaitsForOwn, ChecksFit
<1>10. CopiesCurrent'
  <2> SUFFICES ASSUME NEW v \in Tasks, work[v].pc \in {"fetch", "fetched"},
                      work[v].req.op = "add", work[v].req.cust \in Undisturbed'
               PROVE  Similar(work[v].raw, book[work[v].req.cust])
    BY <1>4 DEF CopiesCurrent, CopyFits
  <2>1. Occupied(v, work[v].req.cust)
    BY DEF Occupied
  <2>2. work[v].req.cust \in Undisturbed
    BY <1>6, <1>7, <2>1
  <2> QED
    BY <2>2 DEF SerialInv, CopiesCurrent, CopyFits
<1>11. VerdictsStand'
  <2> SUFFICES ASSUME NEW d \in Tasks PROVE Verdict(d)'
    BY DEF VerdictsStand
  <2>1. CASE d = b
    BY <1>3, <1>5, <2>1 DEF Verdict
  <2>2. CASE d # b /\ chain[d].pc = "idle"
    <3>1. ~chain[d].checked
      BY <2>2 DEF SerialInv, ChecksFit
    <3> QED
      BY <1>5, <2>2, <3>1 DEF Verdict
  <2>3. CASE d # b /\ chain[d].pc # "idle"
    <3>1. Occupied(d, chain[d].intent.cust)
      BY <2>3 DEF Occupied
    <3>2. chain[d].intent.cust \in Undisturbed' => chain[d].intent.cust \in Undisturbed
      BY <1>6, <1>7, <3>1
    <3> QED
      BY <1>4, <1>5, <2>3, <3>2 DEF SerialInv, VerdictsStand, Verdict
  <2> QED
    BY <2>1, <2>2, <2>3
<1> QED
  BY <1>8, <1>9, <1>10, <1>11

\* No other step sends an intent.
LEMMA NothingSent ==
    ASSUME Remember, \A b \in Tasks : chain[b].pc = "idle" => chain'[b].pc = "idle"
    PROVE  Undisturbed' = Undisturbed
  BY DEF Remember, Sent, Undisturbed

LEMMA OnlySubmitSends ==
    ASSUME IInv, NEW b \in Tasks, Forward(b) \/ HandlerTurn(b) \/ ChainTurn(b) \/ EndTurn(b)
    PROVE  \A d \in Tasks : chain[d].pc = "idle" => chain'[d].pc = "idle"
<1>1. chain \in [Tasks -> Chain]
  BY DEF IInv, TypeOK
<1>2. CASE Forward(b)
  BY <1>1, <1>2 DEF Forward, Goto
<1>3. CASE HandlerTurn(b)
  BY <1>3 DEF HandlerTurn
<1>4. CASE ChainTurn(b)
  BY <1>1, <1>4, ChainsMove DEF ChainTurn, ChainMoves
<1>5. CASE EndTurn(b)
  BY <1>1, <1>5 DEF EndTurn, SorAnswers, BrokerTimeout, AnswerUnread, Answer, NoChain, brokerVars
<1> QED
  BY <1>2, <1>3, <1>4, <1>5

LEMMA SerialStep == SerialInv /\ [SNext]_svars => SerialInv'
<1> SUFFICES ASSUME SerialInv, [SNext]_svars PROVE SerialInv'
  OBVIOUS
<1>1. [Next]_vars
  BY DEF SNext, svars
<1>2. IInv'
  BY <1>1, StepInvariant DEF SerialInv
<1>3. ASSUME UNCHANGED <<book, work, chain>>, Undisturbed' = Undisturbed PROVE SerialInv'
  <2>1. (OneAtATime /\ WaitsForOwn /\ ChecksFit)'
    BY <1>3 DEF SerialInv, OneAtATime, Occupied, WaitsForOwn, ChecksFit
  <2>2. (CopiesCurrent /\ VerdictsStand)'
    BY <1>3, OthersKeep DEF CopiesCurrent, VerdictsStand
  <2> QED
    BY <1>2, <2>1, <2>2 DEF SerialInv
<1>4. ASSUME NEW b \in Tasks, Submit(b), Remember PROVE SerialInv'
  BY <1>2, <1>4, SubmitKeepsSerial DEF SerialInv
<1>5. ASSUME NEW b \in Tasks, Forward(b) \/ HandlerTurn(b) \/ ChainTurn(b) \/ EndTurn(b), Remember
      PROVE  SerialInv'
  <2>1. Undisturbed' = Undisturbed
    BY <1>5, OnlySubmitSends, NothingSent DEF SerialInv
  <2> QED
    BY <1>2, <1>5, <2>1, ForwardKeepsSerial, HandlersKeepSerial, ChainsKeepSerial, EndsKeepSerial
       DEF SerialInv
<1>6. CASE UNCHANGED svars
  <2>1. UNCHANGED <<book, work, chain>> /\ Undisturbed' = Undisturbed
    BY <1>6 DEF svars, vars, billingVars, brokerVars, Undisturbed
  <2> QED
    BY <1>3, <2>1
<1>7. CASE ReloadCatalogue /\ Remember
  <2>1. UNCHANGED <<book, work, chain>>
    BY <1>7 DEF ReloadCatalogue, brokerVars
  <2>2. Undisturbed' = Undisturbed
    BY <1>7, <2>1, NothingSent
  <2> QED
    BY <1>3, <2>1, <2>2
<1> QED
  BY <1>4, <1>5, <1>6, <1>7, Turns DEF SNext

LEMMA SerialInvariant == SSpec => []SerialInv
<1>1. SInit => SerialInv
  BY SerialStart DEF SInit
<1> QED
  BY <1>1, SerialStep, PTL DEF SSpec

-----------------------------------------------------------------------------
(* The verdict of the catalogue.                                              *)

\* A valid combination breaks none of the relationships of the graph.
LEMMA ValidAcceptable ==
    ASSUME NEW skus, IsCombinationValid(Graph, skus)
    PROVE  Acceptable(skus)
<1>1. ASSUME NEW pair \in Excluded, pair \subseteq skus PROVE FALSE
  <2>1. PICK e \in DOMAIN Graph.relation :
            /\ Graph.relation[e] \in {"UPGRADES_TO", "INCOMPATIBLE_WITH"}
            /\ pair = {e[1], e[2]}
    BY DEF Excluded
  <2>2. PICK x \in Graph.nodes, y \in Graph.nodes : e = <<x, y>>
    BY <2>1, CatalogueParameters
  <2>3. x \in skus /\ y \in skus
    BY <1>1, <2>1, <2>2
  <2>4. y \in Neighbours(Graph, x, Graph.relation[e])
    BY <2>1, <2>2 DEF Neighbours
  <2> QED
    BY <2>1, <2>3, <2>4 DEF IsCombinationValid
<1>2. ASSUME NEW sku \in skus, Neighbours(Graph, sku, "REQUIRES") # {}
      PROVE  \E other \in skus : other \in Neighbours(Graph, sku, "REQUIRES")
  BY <1>2 DEF IsCombinationValid
<1> QED
  BY <1>1, <1>2 DEF Acceptable

\* No intent is submitted in the same step as an addition is written.
LEMMA AddKnownHandler ==
    ASSUME IInv, [Next]_vars, NEW b \in Tasks, AddCommit(b)
    PROVE  HandlerKnown(b)
<1>1. work[b].pc = "fetched" /\ work' # work
  BY DEF AddCommit, Commit, IInv, TypeOK, Work
<1>2. RequestFits(b) /\ ProgressFits(b)
  BY <1>1 DEF IInv, WorkFits
<1>3. UNCHANGED issued
  <2>1. ASSUME NEW d \in Tasks, Submit(d) PROVE FALSE
    BY <1>1, <2>1 DEF Submit, SubmitIntent, billingVars
  <2>2. ASSUME NEW d \in Tasks, Forward(d) \/ HandlerTurn(d) \/ EndTurn(d) PROVE UNCHANGED issued
    BY <2>2 DEF Forward, HandlerTurn, EndTurn, SorAnswers, BrokerTimeout, AnswerUnread, brokerVars
  <2>3. ASSUME NEW d \in Tasks, ChainTurn(d) PROVE UNCHANGED issued
    BY <2>3, ChainsMove DEF ChainTurn, ChainMoves
  <2> QED
    BY <2>1, <2>2, <2>3, Turns DEF ReloadCatalogue, vars, brokerVars
<1> QED
  BY <1>1, <1>2, <1>3, BooksFitNow DEF HandlerKnown, IInv

(***************************************************************************)
(* What is added with the verdict of the catalogue makes an acceptable      *)
(* portfolio when it is written.                                            *)
(***************************************************************************)
THEOREM VerdictsHold == SSpec => AdditionsValid
<1>1. ASSUME SerialInv, [SNext]_svars,
             NEW b \in Tasks, work[b].req.cust \in Undisturbed, chain[b].checked, AddCommit(b)
      PROVE  Acceptable(ActiveSkus(book'[work[b].req.cust]))
  <2>1. PICK c \in Undisturbed : c = work[b].req.cust
    BY <1>1
  <2>2. work[b].pc = "fetched" /\ work[b].req.op = "add"
    BY <1>1 DEF AddCommit
  <2>3. chain[b].pc = "wait"
    BY <1>1, <2>2 DEF SerialInv, ChecksFit, IInv, ChainFits, HandlerFits
  <2>4. chain[b].intent.cust = c /\ chain[b].intent.sku = work[b].req.sku
    BY <1>1, <2>1, <2>3 DEF SerialInv, WaitsForOwn
  <2>5. IsCombinationValid(Graph, ActiveSkus(book[c]) \cup {work[b].req.sku})
    BY <1>1, <2>2, <2>3, <2>4 DEF SerialInv, VerdictsStand, Verdict
  <2>6. Similar(work[b].raw, book[c])
    BY <1>1, <2>1, <2>2 DEF SerialInv, CopiesCurrent, CopyFits
  <2>7. HandlerKnown(b)
    BY <1>1, AddKnownHandler DEF SerialInv, SNext, svars
  <2>8. ActiveSkus(book'[c]) = ActiveSkus(work[b].raw) \cup {work[b].req.sku}
    BY <1>1, <2>1, <2>7, AddMoves
  <2>9. ActiveSkus(book[c]) = ActiveSkus(work[b].raw)
    BY <2>6, SimilarSkus
  <2> QED
    BY <2>1, <2>5, <2>8, <2>9, ValidAcceptable
<1>2. SerialInv /\ [SNext]_svars =>
          \A b \in Tasks :
              LET c == work[b].req.cust
              IN  c \in Undisturbed /\ chain[b].checked /\ AddCommit(b) => Acceptable(ActiveSkus(book'[c]))
  BY <1>1
<1> QED
  BY <1>2, SerialInvariant, PTL DEF SSpec, AdditionsValid

-----------------------------------------------------------------------------
(* The changes of a record.                                                   *)

\* A record whose lines keep their places and products keeps its lines.
LEMMA KeptInPlace ==
    ASSUME NEW lines, NEW later, DOMAIN lines \subseteq DOMAIN later,
           \A i \in DOMAIN lines : /\ later[i].sku = lines[i].sku
                                   /\ later[i].stat \in {lines[i].stat, "C"}
    PROVE  LinesKept(lines, later)
  BY DEF LinesKept

(***************************************************************************)
(* No write to the record of a serial customer loses a line or revives a    *)
(* cancelled one: not the addition, which writes back a copy it took before *)
(* it waited, and not the recalculations that ran meanwhile.                *)
(***************************************************************************)
THEOREM SerialWritesKeep == SSpec => SerialChangesKept
<1>1. ASSUME SerialInv, [SNext]_svars, NEW c \in Undisturbed
      PROVE  LinesKept(book[c], book'[c])
  <2>0. [Next]_vars
    BY <1>1 DEF SNext, svars
  <2>1. c \in Customers
    BY Customer
  <2>2. PICK lines \in Seq(Line) : lines = book[c] /\ OnePerSku(lines)
    BY <1>1, <2>1 DEF SerialInv, IInv, TypeOK, OneLinePerSku
  <2>3. PICK later \in Seq(Line) : later = book'[c] /\ OnePerSku(later)
    <3>1. IInv'
      BY <1>1, <2>0, StepInvariant DEF SerialInv
    <3>2. book'[c] \in Seq(Line) /\ OnePerSku(book'[c])
      BY <2>1, <3>1 DEF IInv, TypeOK, OneLinePerSku
    <3> QED
      BY <3>2
  <2>4. ASSUME Similar(lines, later) PROVE LinesKept(lines, later)
    BY <2>4, KeptInPlace DEF Similar
  <2>5. ASSUME NEW w \in Tasks, HandlerKnown(w), work[w].req.cust = c, UpdateLine(w)
        PROVE  LinesKept(lines, later)
    <3>1. /\ DOMAIN later = DOMAIN lines
          /\ \A i \in DOMAIN lines : /\ later[i].sku = lines[i].sku
                                      /\ later[i].stat \in {lines[i].stat, "C", Kept}
      BY <2>2, <2>3, <2>5, UpdateMoves
    <3>2. \A i \in DOMAIN later : later[i].stat # Kept
      <4>1. \A i \in DOMAIN later : later[i] \in Line
        BY <2>3
      <4> QED
        BY <4>1 DEF Line, Kept
    <3>3. \A i \in DOMAIN lines : later[i].stat \in {lines[i].stat, "C"}
      BY <3>1, <3>2
    <3> QED
      BY <3>1, <3>3, KeptInPlace
  <2>6. ASSUME NEW w \in Tasks, HandlerKnown(w), work[w].req.cust = c, AddCommit(w)
        PROVE  LinesKept(lines, later)
    <3>1. PICK raw : raw = work[w].raw
      OBVIOUS
    <3>2. \A i \in DOMAIN raw : /\ i \in DOMAIN later
                                /\ later[i].sku = raw[i].sku /\ later[i].stat = raw[i].stat
      BY <2>3, <2>6, <3>1, AddMoves
    <3>3. Similar(raw, lines)
      BY <1>1, <2>2, <2>6, <3>1 DEF SerialInv, CopiesCurrent, CopyFits, AddCommit
    <3>4. DOMAIN lines = DOMAIN raw
          /\ \A i \in DOMAIN lines : later[i].sku = lines[i].sku /\ later[i].stat = lines[i].stat
      BY <3>2, <3>3 DEF Similar
    <3> QED
      BY <3>2, <3>4, KeptInPlace
  <2>7. lines = later => LinesKept(lines, later)
    BY <2>4, SimilarSame
  <2> QED
    BY <1>1, <2>0, <2>1, <2>2, <2>3, <2>4, <2>5, <2>6, <2>7, BookSteps DEF SerialInv
<1>2. SerialInv /\ [SNext]_svars => \A c \in Undisturbed : LinesKept(book[c], book'[c])
  BY <1>1
<1> QED
  BY <1>2, SerialInvariant, PTL DEF SSpec, SerialChangesKept
=============================================================================
