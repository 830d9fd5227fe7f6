------------------------ MODULE JourneyOutcomeProofs ------------------------
(***************************************************************************)
(* Theorems of what a journey has brought about when it ends: the purchase *)
(* is undone, the offer was bought, the price and the charges are back, and *)
(* the recalculation reached every holder.  Each of them rests on an        *)
(* invariant of its script that follows the handler the script waits for.   *)
(***************************************************************************)
EXTENDS JourneyProofs

-----------------------------------------------------------------------------
(* A step, as one script sees it.                                             *)

ScriptStep(s) == \/ ReadFails(s) \/ ClientTimeout(s)
                 \/ s = "purchase" /\ PurchaseJourney
                 \/ s = "pricing" /\ PricingJourney

\* A step is one of the services or of a script.
LEMMA JourneySteps ==
    ASSUME JInv, [JNext]_jvars
    PROVE  \/ \E b \in Tasks : ServiceStep(b)
           \/ \E s \in DOMAIN script : ScriptStep(s)
           \/ UNCHANGED jvars
<1>1. ASSUME PurchaseJourney PROVE "purchase" \in DOMAIN script
  BY <1>1 DEF PurchaseJourney, Start, ReadRecord, Browse, Purchase, Cancel, PurchaseDone, Replied, At
<1>2. ASSUME PricingJourney PROVE "pricing" \in DOMAIN script
  BY <1>2 DEF PricingJourney, Start, SnapshotPrice, SnapshotCharge, Snapshotted, UpdatePrice, Recalculate,
              RestorePrice, PricingOver, RestoreCharge, PricingDone, Replied, At
<1> QED
  BY <1>1, <1>2 DEF JNext, ServiceStep, ScriptStep

\* A script's step changes no record, and no handler that is at work.
Quiet == \A d \in Tasks : work'[d] = work[d] \/ work'[d].pc = "arrived"

Alone(s) ==
    /\ \A r \in DOMAIN script : r # s => script'[r] = script[r]
    /\ UNCHANGED <<book, price, sent>>
    /\ \A d \in Tasks : ~Free(d) => chain'[d] = chain[d] /\ work'[d] = work[d]
    /\ Quiet /\ faults' \in {faults, faults + 1}

\* A call touches the script that calls and a free handler only.
LEMMA CallsAlone ==
    ASSUME JInv, NEW s \in DOMAIN script, NEW label, NEW client, NEW kind, NEW c, NEW sku, NEW term, NEW list,
           Call(s, label, client, kind, c, sku, term, list)
    PROVE  Alone(s)
<1>1. NewTask \in Tasks /\ Free(NewTask)
  BY FreeTask DEF Call
<1>2. /\ UNCHANGED <<billingVars, faults, sent>>
      /\ chain' = [chain EXCEPT ![NewTask] = chain'[NewTask]]
  <2>1. PICK b \in Tasks : b = NewTask
    BY <1>1
  <2>2. PICK new : chain' = [chain EXCEPT ![b] = new]
    BY <2>1 DEF Call, SubmitIntent
  <2>3. chain'[b] = new
    BY <2>2, Known
  <2>4. UNCHANGED <<billingVars, faults, sent>>
    BY DEF Call, SubmitIntent, cacheVars
  <2> QED
    BY <2>1, <2>2, <2>3, <2>4
<1>3. \A d \in Tasks : ~Free(d) => chain'[d] = chain[d] /\ work'[d] = work[d]
  <2>1. \A d \in Tasks : d # NewTask => chain'[d] = chain[d]
    BY <1>1, <1>2, Known
  <2> QED
    BY <1>1, <1>2, <2>1 DEF billingVars
<1>4. \A r \in DOMAIN script : r # s => script'[r] = script[r]
  BY DEF Call, Wait, JInv, ScriptsTyped
<1> QED
  BY <1>2, <1>3, <1>4 DEF Alone, Quiet, billingVars

\* A local move touches its script only.
LEMMA LocalAlone ==
    ASSUME JInv, NEW s, UNCHANGED <<billingVars, chain, sent>>, faults' \in {faults, faults + 1},
           \A r \in DOMAIN script : r # s => script'[r] = script[r]
    PROVE  Alone(s)
  BY DEF Alone, Quiet, billingVars

\* A step of a script is its own.
LEMMA ScriptsAlone ==
    ASSUME JInv, NEW s \in DOMAIN script, ScriptStep(s)
    PROVE  Alone(s)
<1>1. script \in [DOMAIN script -> Script] /\ s \in {"purchase", "pricing"}
  BY KnownScript DEF JInv, ScriptsTyped
<1>2. ASSUME ReadFails(s) \/ ClientTimeout(s) PROVE Alone(s)
  <2>1. UNCHANGED <<billingVars, chain, sent>> /\ faults' \in {faults, faults + 1}
    BY <1>2 DEF ReadFails, ClientTimeout, Fault, cacheVars
  <2>2. \A r \in DOMAIN script : r # s => script'[r] = script[r]
    BY <1>1, <1>2 DEF ReadFails, ClientTimeout, Advance
  <2> QED
    BY <2>1, <2>2, LocalAlone
<1>3. ASSUME Local, \A r \in DOMAIN script : r # s => script'[r] = script[r] PROVE Alone(s)
  BY <1>3, ByItself, LocalAlone DEF cacheVars
<1>4. CASE s = "purchase" /\ PurchaseJourney
  <2>1. CASE Purchase \/ Cancel
    BY <1>4, <2>1, CallsAlone DEF Purchase, Cancel
  <2>2. CASE Start("purchase", "browse") \/ ReadRecord \/ Browse \/ PurchaseDone
    <3>1. Local
      BY <2>2 DEF Start, ReadRecord, Browse, PurchaseDone
    <3>2. \A r \in DOMAIN script : r # s => script'[r] = script[r]
      BY <1>1, <1>4, <2>2 DEF Start, ReadRecord, Browse, PurchaseDone, Advance
    <3> QED
      BY <1>3, <3>1, <3>2
  <2> QED
    BY <1>4, <2>1, <2>2 DEF PurchaseJourney
<1>5. CASE s = "pricing" /\ PricingJourney
  <2>1. CASE UpdatePrice \/ Recalculate \/ RestorePrice
    BY <1>5, <2>1, CallsAlone DEF UpdatePrice, Recalculate, RestorePrice
  <2>2. CASE Start("pricing", "snapshot") \/ SnapshotPrice \/ SnapshotCharge \/ Snapshotted \/ PricingDone
    <3>1. Local
      BY <2>2 DEF Start, SnapshotPrice, SnapshotCharge, Snapshotted, PricingDone
    <3>2. \A r \in DOMAIN script : r # s => script'[r] = script[r]
      BY <1>1, <1>5, <2>2 DEF Start, SnapshotPrice, SnapshotCharge, Snapshotted, PricingDone, Advance
    <3> QED
      BY <1>3, <3>1, <3>2
  <2>3. CASE RestoreCharge
    <3>1. PICK b \in Tasks : b = NewTask /\ Free(b)
      BY <2>3, FreeTask DEF RestoreCharge
    <3>2. PICK c : c = CHOOSE d \in Due : TRUE
      OBVIOUS
    <3>3. /\ Arrive(b, ChargeRequest(c)) /\ UNCHANGED <<brokerVars, cacheVars>>
          /\ script' = [script EXCEPT !["pricing"].task = b, !["pricing"].reply = "none",
                                      !["pricing"].charges[c] = KeptCharge]
      BY <2>3, <3>1, <3>2 DEF RestoreCharge
    <3>4. \A d \in Tasks : ~Free(d) => chain'[d] = chain[d] /\ work'[d] = work[d]
      BY <3>1, <3>3, Known DEF Arrive, brokerVars
    <3>5. \A r \in DOMAIN script : r # s => script'[r] = script[r]
      BY <1>1, <1>5, <3>3
    <3>6. Quiet
      <4>1. PICK new : new = [NoWork EXCEPT !.pc = "arrived", !.req = ChargeRequest(c)]
        OBVIOUS
      <4>2. new.pc = "arrived" /\ work' = [work EXCEPT ![b] = new]
        BY <3>3, <4>1 DEF Arrive, NoWork
      <4> QED
        BY <4>2, Known DEF Quiet
    <3> QED
      BY <3>3, <3>4, <3>5, <3>6 DEF Alone, Arrive, brokerVars, cacheVars
  <2> QED
    BY <1>5, <2>1, <2>2, <2>3 DEF PricingJourney
<1> QED
  BY <1>2, <1>4, <1>5 DEF ScriptStep

\* The script and the handler it waits for stay as they are.
Unmoved(s) ==
    LET b == script[s].task
    IN  /\ script'[s] = script[s]
        /\ b # NoTask => /\ b \in Tasks /\ ~Free(b)
                         /\ chain'[b] = chain[b] /\ work'[b] = work[b]

\* The four kinds of step there are for a script.
LEMMA Seen ==
    ASSUME JInv, [JNext]_jvars, NEW s \in DOMAIN script
    PROVE  /\ DOMAIN script' = DOMAIN script
           /\ faults \in Nat /\ faults' \in {faults, faults + 1}
           /\ \/ Unmoved(s) /\ UNCHANGED <<book, price>> /\ Quiet /\ UNCHANGED sent
              \/ Unmoved(s) /\ \E b \in Tasks : ServiceStep(b) /\ script[s].task # b
              \/ \E b \in Tasks : ServiceStep(b) /\ script[s].task = b
              \/ ScriptStep(s)
<1>1. PICK b : b = script[s].task
  OBVIOUS
<1>2. b # NoTask => b \in Tasks /\ ~Free(b)
  BY <1>1 DEF JInv, ScriptFits, Awaited
<1>3. faults \in Nat
  BY JInvFaults
<1>4. ASSUME NEW d \in Tasks, ServiceStep(d)
      PROVE  /\ DOMAIN script' = DOMAIN script /\ faults' \in {faults, faults + 1}
             /\ b # d => Unmoved(s)
  <2>1. Turn(d) /\ Learn(d)
    BY <1>4, ServiceSteps
  <2>2. DOMAIN script' = DOMAIN script /\ Told(s, d)
    BY <2>1, Learned
  <2>3. ASSUME b # d PROVE Unmoved(s)
    <3>1. script'[s] = script[s]
      BY <1>1, <2>2, <2>3 DEF Told
    <3>2. b # NoTask => chain'[b] = chain[b] /\ work'[b] = work[b]
      BY <1>2, <2>1, <2>3 DEF Turn, Others
    <3> QED
      BY <1>1, <1>2, <3>1, <3>2 DEF Unmoved
  <2> QED
    BY <2>1, <2>2, <2>3 DEF Turn
<1>5. ASSUME NEW r \in DOMAIN script, ScriptStep(r)
      PROVE  /\ DOMAIN script' = DOMAIN script /\ faults' \in {faults, faults + 1}
             /\ r # s => Unmoved(s) /\ Quiet /\ UNCHANGED <<book, price, sent>>
  <2>1. Alone(r)
    BY <1>5, ScriptsAlone
  <2>2. DOMAIN script' = DOMAIN script
    BY <1>5 DEF ScriptStep, ReadFails, ClientTimeout, Advance, PurchaseJourney, PricingJourney, Start,
                ReadRecord, Browse, Purchase, Cancel, PurchaseDone, SnapshotPrice, SnapshotCharge,
                Snapshotted, UpdatePrice, Recalculate, RestorePrice, RestoreCharge, PricingDone, Call, Wait
  <2> QED
    BY <1>1, <1>2, <2>1, <2>2 DEF Alone, Unmoved
<1>6. ASSUME UNCHANGED jvars
      PROVE  /\ DOMAIN script' = DOMAIN script /\ faults' \in {faults, faults + 1}
             /\ Unmoved(s) /\ UNCHANGED <<book, price, sent>> /\ Quiet
  BY <1>1, <1>2, <1>6 DEF jvars, cacheVars, vars, billingVars, brokerVars, Unmoved, Quiet
<1> QED
  BY <1>1, <1>3, <1>4, <1>5, <1>6, JourneySteps

\* The scripts that run are those that were started.
LEMMA SameScripts ==
    ASSUME JInv, [JNext]_jvars
    PROVE  DOMAIN script' = DOMAIN script
<1>1. CASE DOMAIN script = {}
  BY <1>1, JourneySteps, ServiceSteps, Learned, Zenon DEF jvars
<1>2. CASE DOMAIN script # {}
  BY <1>2, Seen
<1> QED
  BY <1>1, <1>2

-----------------------------------------------------------------------------
(* A step of a handler, by what it was asked for.                             *)

\* A handler works on the request of the intent it was called with.
LEMMA OwnRequest ==
    ASSUME JInv, NEW b \in Tasks, work[b].pc # "idle"
    PROVE  /\ chain[b].pc \in {"idle", "wait"}
           /\ OfPurchase(b) <=> Buys(work[b].req)
           /\ OfPurchase(b) => work[b].req.cust = Buyer
           /\ chain[b].pc = "wait" => work[b].req = RequestOf(chain[b].intent)
<1>1. chain[b].pc \in {"idle", "wait"} /\ Linked(b)
  BY Known
<1>2. Buys(RequestOf(chain[b].intent)) <=> chain[b].intent.intent \in Buying
  BY DEF Buys, RequestOf, NoRequest, Operation, Buying, Kept
<1>3. BuyersOnly(b) /\ ~Free(b)
  BY DEF JInv, TaskFits, Free
<1> QED
  BY <1>1, <1>2, <1>3 DEF OfPurchase, Linked, BuyersOnly

\* A handler fails when its own call to another service fails.
Fails(b) == (FetchFails(b) \/ Capture(b, FALSE)) /\ faults' = faults + 1

\* A step of the services writes, fails, checks, forwards or ends.
LEMMA HandlerSteps ==
    ASSUME NEW b \in Tasks, ServiceStep(b)
    PROVE  \/ (Write(b) \/ Fails(b)) /\ HandlerTurn(b)
           \/ ChainGoes(b) \/ Forward(b) \/ EndTurn(b)
<1>1. CASE Service(b)
  <2>1. Handle(b)
    BY <1>1 DEF Service
  <2>2. CASE Write(b) /\ UNCHANGED brokerVars
    BY <2>2 DEF HandlerTurn, brokerVars
  <2> QED
    BY <2>1, <2>2 DEF Handle, Govern, ChainGoes, EndTurn
<1>2. CASE ServiceFault(b)
  <2>1. CASE BillingFault(b)
    BY <2>1 DEF BillingFault, HandlerTurn, Fails, Fault
  <2> QED
    BY <1>2, <2>1 DEF ServiceFault, BrokerFault, ChainGoes, EndTurn
<1>3. CASE EventLost(b)
  BY <1>3 DEF EventLost, HandlerTurn, Write, Serve, Fault
<1> QED
  BY <1>1, <1>2, <1>3 DEF ServiceStep

Working(b) == HandlerTurn(b) /\ (Write(b) \/ Fails(b))

\* What is known of a handler that writes.
LEMMA WorkKnown ==
    ASSUME JInv, NEW b \in Tasks, Working(b)
    PROVE  /\ HandlerKnown(b) /\ Staged(b) /\ work[b].pc # "idle" /\ UNCHANGED chain
           /\ work[b].req.op \in {"add", "update", "recalculate", "price"}
           /\ work[b].pc \in {"fetch", "fetched"} => work[b].req.op \in {"add", "recalculate"}
<1>1. HandlerKnown(b)
  BY HandlerStarts DEF JInv, Working
<1> QED
  BY <1>1, Known DEF HandlerKnown, RequestFits, ProgressFits, Working, HandlerTurn

\* Which steps a handler of each kind of request may take.
LEMMA WorkKinds ==
    ASSUME JInv, NEW b \in Tasks, Working(b)
    PROVE  \/ /\ work[b].req.op = "add"
              /\ AddKnown(b) \/ AddStart(b) \/ FetchPrice(b) \/ AddCommit(b) \/ Capture(b, TRUE) \/ Fails(b)
           \/ /\ work[b].req.op = "update"
              /\ UpdateLine(b) \/ UpdateUnknown(b) \/ Capture(b, TRUE) \/ Fails(b)
           \/ /\ work[b].req.op = "recalculate"
              /\ \/ RecalcStart(b) \/ FetchPrice(b) \/ RecalcNobody(b) \/ Emit(b) \/ RecalcDone(b)
                 \/ Fails(b) /\ work[b].pc = "fetch"
                 \/ \E c \in Customers : RecalcFirst(b, c) \/ RecalcNext(b, c)
           \/ /\ work[b].req.op = "price"
              /\ UpdateProduct(b) \/ AnnounceProduct(b)
<1>1. /\ Staged(b) /\ work[b].req.op \in {"add", "update", "recalculate", "price"}
      /\ work[b].pc \in {"fetch", "fetched"} => work[b].req.op \in {"add", "recalculate"}
  BY WorkKnown
<1>2. CASE Fails(b)
  <2>1. work[b].pc \in {"fetch", "capture"}
    BY <1>2 DEF Fails, FetchFails, Capture
  <2> QED
    BY <1>1, <1>2, <2>1 DEF Staged
<1>3. CASE Write(b)
  <2>1. CASE AddKnown(b) \/ AddStart(b) \/ AddCommit(b)
    BY <2>1 DEF AddKnown, AddStart, AddCommit
  <2>2. CASE UpdateLine(b) \/ UpdateUnknown(b)
    BY <2>2 DEF UpdateLine, UpdateUnknown
  <2>3. CASE FetchPrice(b)
    BY <1>1, <2>3 DEF FetchPrice
  <2>4. CASE Capture(b, TRUE)
    BY <1>1, <2>4 DEF Capture, Staged
  <2>5. CASE RecalcStart(b) \/ RecalcNobody(b)
    BY <2>5 DEF RecalcStart, RecalcNobody
  <2>6. CASE Emit(b) \/ RecalcDone(b)
    BY <1>1, <2>6 DEF Emit, RecalcDone, Staged
  <2>7. CASE \E c \in Customers : RecalcFirst(b, c) \/ RecalcNext(b, c)
    BY <1>1, <2>7 DEF RecalcFirst, RecalcNext, Staged
  <2>8. CASE UpdateProduct(b) \/ AnnounceProduct(b)
    BY <1>1, <2>8 DEF UpdateProduct, AnnounceProduct, Staged
  <2> QED
    BY <1>3, <2>1, <2>2, <2>3, <2>4, <2>5, <2>6, <2>7, <2>8 DEF Write, Serve
<1> QED
  BY <1>2, <1>3 DEF Working

\* A handler that finishes has an answer.
LEMMA Finished ==
    ASSUME JInv, NEW b \in Tasks, NEW ok, Finish(b, ok)
    PROVE  work'[b].pc = "done" /\ work'[b].ok = ok
<1>1. PICK new : new = [NoWork EXCEPT !.pc = "done", !.req = work[b].req, !.ok = ok]
  OBVIOUS
<1>2. new.pc = "done" /\ new.ok = ok
  BY <1>1 DEF NoWork
<1>3. work'[b] = new
  BY <1>1, Known DEF Finish
<1> QED
  BY <1>2, <1>3

\* What a commit changes.
LEMMA Committed ==
    ASSUME JInv, NEW b \in Tasks, NEW c \in Customers, NEW lines, NEW label, NEW due,
           Commit(b, c, lines, label, due)
    PROVE  /\ work'[b].pc = label /\ work'[b].cust = c /\ work'[b].raw = lines
           /\ work'[b].todo = due /\ work'[b].list = work[b].list /\ UNCHANGED price
           /\ book'[c] = lines /\ \A d \in Customers : d # c => book'[d] = book[d]
<1>1. PICK h \in Work : h = work[b]
  BY Known
<1>2. PICK g : g = [h EXCEPT !.pc = label, !.cust = c, !.raw = lines, !.todo = due]
  OBVIOUS
<1>3. g.pc = label /\ g.cust = c /\ g.raw = lines /\ g.todo = due /\ g.list = h.list
  BY <1>2 DEF Work
<1>4. work'[b] = g
  BY <1>1, <1>2, Known DEF Commit
<1>5. book' = [book EXCEPT ![c] = lines] /\ UNCHANGED price
  BY DEF Commit
<1>6. book'[c] = lines /\ \A d \in Customers : d # c => book'[d] = book[d]
  BY <1>5 DEF JInv, IInv, TypeOK
<1> QED
  BY <1>1, <1>3, <1>4, <1>5, <1>6

\* An update writes one line of one customer.
LEMMA UpdateWrites ==
    ASSUME JInv, NEW b \in Tasks, Working(b), UpdateLine(b)
    PROVE  LET req == work[b].req
               n   == LineOf(book[req.cust], req.sku)
           IN  /\ req.cust \in Customers /\ n \in DOMAIN book[req.cust] /\ book[req.cust][n].sku = req.sku
               /\ \A c \in Customers : c # req.cust => book'[c] = book[c]
               /\ DOMAIN book'[req.cust] = DOMAIN book[req.cust]
               /\ \A i \in DOMAIN book[req.cust] :
                     book'[req.cust][i] = IF i = n THEN Updated(book[req.cust][n], req)
                                          ELSE book[req.cust][i]
               /\ UNCHANGED price /\ work'[b].pc = "capture"
<1>1. PICK req : req = work[b].req
  OBVIOUS
<1>2. HandlerKnown(b) /\ req.op = "update" /\ Holds(book[req.cust], req.sku)
  BY <1>1, WorkKnown DEF UpdateLine
<1>3. PICK c \in Customers : c = req.cust
  BY <1>1, <1>2 DEF HandlerKnown, RequestFits
<1>4. PICK lines \in Seq(Line) : lines = book[c] /\ OnePerSku(lines)
  BY <1>2 DEF HandlerKnown, BooksFit
<1>5. PICK n : n = LineOf(lines, req.sku)
  OBVIOUS
<1>6. n \in DOMAIN lines /\ lines[n].sku = req.sku
  BY <1>2, <1>3, <1>4, <1>5, FoundLine
<1>7. PICK line : line = Updated(lines[n], req)
  OBVIOUS
<1>8. PICK later : later = [lines EXCEPT ![n] = line]
  OBVIOUS
<1>9. Commit(b, c, later, "capture", {})
  <2>1. later = [lines EXCEPT ![LineOf(lines, req.sku)] = Updated(@, req)]
    BY <1>5, <1>7, <1>8
  <2> QED
    BY <1>1, <1>3, <1>4, <2>1 DEF UpdateLine
<1>10. /\ book'[c] = later /\ (\A d \in Customers : d # c => book'[d] = book[d])
       /\ UNCHANGED price /\ work'[b].pc = "capture"
  BY <1>9, Committed
<1>11. DOMAIN later = DOMAIN lines /\ \A i \in DOMAIN lines : later[i] = IF i = n THEN line ELSE lines[i]
  BY <1>6, <1>8
<1> QED
  BY <1>1, <1>3, <1>4, <1>5, <1>6, <1>7, <1>10, <1>11

\* Whoever repriced a product, the products and statuses of the records stay.
LEMMA PricingWrites ==
    ASSUME JInv, NEW b \in Tasks, ServiceStep(b), ~OfPurchase(b)
    PROVE  \A c \in Customers : Similar(book[c], book'[c])
<1>1. UNCHANGED book => \A c \in Customers : Similar(book[c], book'[c])
  BY DEF Similar
<1>2. CASE Working(b)
  <2>1. HandlerKnown(b) /\ ~Buys(work[b].req) /\ work[b].pc # "idle"
    BY <1>2, WorkKnown, OwnRequest
  <2>2. CASE UpdateLine(b)
    <3>1. PICK req : req = work[b].req
      OBVIOUS
    <3>2. req.op = "update" /\ req.stat = Kept
      BY <2>1, <2>2, <3>1 DEF UpdateLine, Buys, HandlerKnown, RequestFits
    <3>3. \A line : line \in Line => Updated(line, req).sku = line.sku /\ Updated(line, req).stat = line.stat
      BY <3>2 DEF Updated, Line
    <3>4. PICK c \in Customers : c = req.cust
      BY <1>2, <2>2, <3>1, UpdateWrites
    <3>5. PICK lines \in Seq(Line) : lines = book[c]
      BY DEF JInv, IInv, TypeOK
    <3>6. PICK later : later = book'[c]
      OBVIOUS
    <3>7. Similar(lines, later)
      <4>1. PICK n : n = LineOf(lines, req.sku)
        OBVIOUS
      <4>2. /\ DOMAIN later = DOMAIN lines
            /\ \A i \in DOMAIN lines : later[i] = IF i = n THEN Updated(lines[n], req) ELSE lines[i]
        BY <1>2, <2>2, <3>1, <3>4, <3>5, <3>6, <4>1, UpdateWrites
      <4>3. \A i \in DOMAIN lines : lines[i] \in Line
        OBVIOUS
      <4> QED
        BY <3>3, <4>2, <4>3 DEF Similar
    <3>8. \A d \in Customers : d # c => book'[d] = book[d]
      BY <1>2, <2>2, <3>1, <3>4, UpdateWrites
    <3> QED
      BY <3>5, <3>6, <3>7, <3>8 DEF Similar
  <2>3. ASSUME NEW c \in Customers, RecalcFirst(b, c) \/ RecalcNext(b, c)
        PROVE  \A d \in Customers : Similar(book[d], book'[d])
    <3>1. PICK due \in SUBSET Customers : RecalcCustomer(b, c, due)
      BY <2>1, <2>3, RecalculationSteps
    <3>2. Similar(book[c], book'[c]) /\ \A d \in Customers : d # c => book'[d] = book[d]
      BY <2>1, <3>1, RecalculationMoves
    <3> QED
      BY <3>2 DEF Similar
  <2>4. ~AddCommit(b)
    BY <2>1 DEF AddCommit, Buys
  <2>5. CASE UNCHANGED book
    BY <1>1, <2>5
  <2> QED
    BY <1>2, <2>2, <2>3, <2>4, <2>5
       DEF Working, Write, Serve, Fails, FetchFails, Capture, UpdateUnknown, AddKnown, AddStart,
           FetchPrice, RecalcStart, RecalcNobody, Emit, RecalcDone, UpdateProduct, AnnounceProduct, Refuse
<1>3. CASE ChainGoes(b) \/ Forward(b) \/ EndTurn(b)
  <2>1. Forward(b) => UNCHANGED book
    BY DEF Forward, Arrive
  <2>2. ChainGoes(b) => UNCHANGED book
    BY DEF ChainGoes, Deny, PolicyEngineDown, Allow, ReadPortfolio, CombinationRejected,
                CombinationAccepted, CombinationUnknown, billingVars
  <2>3. EndTurn(b) => UNCHANGED book
    BY DEF EndTurn, SorAnswers, BrokerTimeout, AnswerUnread, billingVars
  <2>4. UNCHANGED book
    BY <1>3, <2>1, <2>2, <2>3
  <2> QED
    BY <1>1, <2>4
<1> QED
  BY <1>2, <1>3, HandlerSteps DEF Working

\* Whatever is bought, nobody but the buyer is written.
LEMMA PurchaseWrites ==
    ASSUME JInv, NEW b \in Tasks, ServiceStep(b), OfPurchase(b)
    PROVE  UNCHANGED price /\ \A c \in Customers \ {Buyer} : book'[c] = book[c]
<1>1. CASE Working(b)
  <2>1. HandlerKnown(b) /\ Buys(work[b].req) /\ work[b].req.cust = Buyer
    BY <1>1, WorkKnown, OwnRequest
  <2>2. CASE UpdateLine(b)
    BY <1>1, <2>1, <2>2, UpdateWrites
  <2>3. CASE AddCommit(b)
    BY <2>1, <2>3, AddMoves DEF AddCommit, Commit
  <2>4. CASE UNCHANGED <<book, price>>
    BY <2>4
  <2>5. work[b].req.op \in {"add", "update"}
    BY <2>1 DEF Buys
  <2> QED
    BY <1>1, <2>2, <2>3, <2>4, <2>5, WorkKinds
       DEF Fails, FetchFails, Capture, UpdateUnknown, AddKnown, AddStart, FetchPrice, Refuse
<1>2. CASE ChainGoes(b) \/ Forward(b) \/ EndTurn(b)
  <2>1. Forward(b) => UNCHANGED <<book, price>>
    BY DEF Forward, Arrive
  <2>2. ChainGoes(b) => UNCHANGED <<book, price>>
    BY DEF ChainGoes, Deny, PolicyEngineDown, Allow, ReadPortfolio, CombinationRejected,
                CombinationAccepted, CombinationUnknown, billingVars
  <2>3. EndTurn(b) => UNCHANGED <<book, price>>
    BY DEF EndTurn, SorAnswers, BrokerTimeout, AnswerUnread, billingVars
  <2> QED
    BY <1>2, <2>1, <2>2, <2>3
<1> QED
  BY <1>1, <1>2, HandlerSteps DEF Working

-----------------------------------------------------------------------------
(* A purchase is undone.                                                      *)

\* What a step of its own makes of the purchase journey.
PurchaseMove(old, new) ==
    \/ /\ old.pc = "start" /\ new.pc = "browse" /\ new.before = book
       /\ new.task = NoTask /\ new.reply = old.reply
    \/ /\ old.pc = "browse"
       /\ \E lines \in sent : \E record \in Listings(lines) :
             new = [old EXCEPT !.pc = "offers", !.record = record]
    \/ /\ old.pc = "offers" /\ new.pc \in {"teardown", "purchase"} /\ new.task = NoTask
       /\ new.before = old.before /\ new.record = old.record
    \/ /\ old.pc \in {"browse", "offers"} /\ faults' = faults + 1
       /\ new = [old EXCEPT !.pc = "teardown"]
    \/ /\ old.pc = "purchase" /\ Free(NewTask) /\ NewTask \in Tasks
       /\ chain'[NewTask].pc = "permission"
       /\ new = [old EXCEPT !.pc = "purchasing", !.task = NewTask, !.reply = "none"]
    \/ /\ old.pc = "purchasing" /\ old.reply = "permitted" /\ Free(NewTask) /\ NewTask \in Tasks
       /\ new = [old EXCEPT !.pc = "cancelling", !.task = NewTask, !.reply = "none"]
    \/ /\ \/ old.pc \in {"teardown", "cancelling"}
          \/ old.pc = "purchasing" /\ old.reply # "permitted"
       /\ new = [old EXCEPT !.pc = "done"]

\* What a call changes.
LEMMA CallMoves ==
    ASSUME JInv, NEW s \in DOMAIN script, NEW label, NEW client, NEW kind, NEW c, NEW sku, NEW term,
           NEW list, Call(s, label, client, kind, c, sku, term, list)
    PROVE  /\ UNCHANGED <<billingVars, faults>> /\ NewTask \in Tasks /\ Free(NewTask)
           /\ chain'[NewTask].pc = "permission"
           /\ script'[s] = [script[s] EXCEPT !.pc = label, !.task = NewTask, !.reply = "none"]
<1>1. NewTask \in Tasks /\ Free(NewTask)
  BY FreeTask DEF Call
<1>2. PICK b \in Tasks : b = NewTask
  BY <1>1
<1>3. PICK intent : chain' = [chain EXCEPT ![b] = [NoChain EXCEPT !.pc = "permission", !.intent = intent]]
  BY <1>2 DEF Call, SubmitIntent
<1>4. PICK new : new = [NoChain EXCEPT !.pc = "permission", !.intent = intent]
  OBVIOUS
<1>5. new.pc = "permission"
  BY <1>4 DEF NoChain
<1>6. chain'[b] = new
  BY <1>3, <1>4, Known
<1> QED
  BY <1>1, <1>2, <1>5, <1>6 DEF Call, SubmitIntent, Wait, JInv, ScriptsTyped

\* The steps of the purchase journey are moves.
LEMMA PurchaseMoves ==
    ASSUME JInv, "purchase" \in DOMAIN script, ScriptStep("purchase"), NEW old, NEW new,
           old = script["purchase"], new = script'["purchase"]
    PROVE  /\ UNCHANGED <<book, price, work>>
           /\ \/ ~new.clean /\ faults' = faults + 1
              \/ old.task = NoTask /\ new.clean = old.clean /\ PurchaseMove(old, new)
<1>1. PICK s : s = "purchase"
  OBVIOUS
<1>2. old \in Script /\ old.pc \in PurchaseLabels /\ script \in [DOMAIN script -> Script]
  BY KnownScript DEF PhaseFits, JInv, ScriptsTyped
<1>3. CASE ClientTimeout(s)
  <2>1. new = [old EXCEPT !.task = NoTask, !.reply = "timeout", !.clean = FALSE]
    BY <1>1, <1>2, <1>3 DEF ClientTimeout
  <2>2. ~new.clean
    BY <1>2, <2>1 DEF Script
  <2> QED
    BY <1>3, <2>2 DEF ClientTimeout, Fault, billingVars
<1>4. CASE ReadFails(s)
  <2>1. old.pc \in {"browse", "offers"} /\ old.task = NoTask
    BY <1>1, <1>2, <1>4 DEF ReadFails, Replied, At, PurchaseLabels
  <2>2. new = [old EXCEPT !.pc = "teardown"]
    BY <1>1, <1>2, <1>4 DEF ReadFails, Advance
  <2>3. new.clean = old.clean
    BY <1>2, <2>2 DEF Script
  <2> QED
    BY <1>4, <2>1, <2>2, <2>3 DEF ReadFails, Fault, PurchaseMove, billingVars
<1>5. CASE Start(s, "browse")
  <2>1. PICK client \in ScriptClients : new = [old EXCEPT !.pc = "browse", !.client = client, !.before = book]
    BY <1>1, <1>2, <1>5 DEF Start
  <2>2. /\ new.pc = "browse" /\ new.before = book /\ new.task = old.task /\ new.reply = old.reply
        /\ new.clean = old.clean
    BY <1>2, <2>1 DEF Script
  <2>3. old.pc = "start" /\ old.task = NoTask
    BY <1>1, <1>5 DEF Start, At
  <2> QED
    BY <1>5, <2>2, <2>3, ByItself DEF Start, PurchaseMove, billingVars
<1>6. CASE ReadRecord
  <2>1. PICK lines \in sent : \E record \in Listings(lines) :
            new = [old EXCEPT !.pc = "offers", !.record = record]
    BY <1>2, <1>6 DEF ReadRecord
  <2>2. new.clean = old.clean
    BY <1>2, <2>1 DEF Script
  <2>3. old.pc = "browse" /\ old.task = NoTask
    BY <1>6 DEF ReadRecord, At
  <2> QED
    BY <1>6, <2>1, <2>2, <2>3, ByItself DEF ReadRecord, PurchaseMove, billingVars
<1>7. CASE Browse
  <2>0. PICK offers : offers = CompatibleOffers(Graph, price, old.record)
    OBVIOUS
  <2>1. PICK label, offer : /\ label = IF offers = <<>> THEN "teardown" ELSE "purchase"
                            /\ offer = IF offers = <<>> THEN old.offer ELSE Choice(offers[1])
    OBVIOUS
  <2>10. new = [old EXCEPT !.pc = label, !.offer = offer]
    BY <1>2, <1>7, <2>0, <2>1 DEF Browse
  <2>2. /\ new.pc = label /\ new.before = old.before /\ new.record = old.record
        /\ new.task = old.task /\ new.clean = old.clean
    BY <1>2, <2>10 DEF Script
  <2>3. old.pc = "offers" /\ old.task = NoTask
    BY <1>7 DEF Browse, At
  <2> QED
    BY <1>7, <2>1, <2>2, <2>3, ByItself DEF Browse, PurchaseMove, billingVars
<1>8. CASE Purchase
  <2>1. old.pc = "purchase" /\ old.task = NoTask
    BY <1>8 DEF Purchase, At
  <2>2. /\ UNCHANGED <<billingVars, faults>> /\ NewTask \in Tasks /\ Free(NewTask)
        /\ chain'[NewTask].pc = "permission"
        /\ new = [old EXCEPT !.pc = "purchasing", !.task = NewTask, !.reply = "none"]
    BY <1>8, CallMoves DEF Purchase
  <2>3. new.clean = old.clean
    BY <1>2, <2>2 DEF Script
  <2> QED
    BY <2>1, <2>2, <2>3 DEF PurchaseMove, billingVars
<1>9. CASE Cancel
  <2>1. old.pc = "purchasing" /\ old.reply = "permitted" /\ old.task = NoTask
    BY <1>9 DEF Cancel, Replied, At
  <2>2. /\ UNCHANGED <<billingVars, faults>> /\ NewTask \in Tasks /\ Free(NewTask)
        /\ new = [old EXCEPT !.pc = "cancelling", !.task = NewTask, !.reply = "none"]
    BY <1>9, CallMoves DEF Cancel
  <2>3. new.clean = old.clean
    BY <1>2, <2>2 DEF Script
  <2> QED
    BY <2>1, <2>2, <2>3 DEF PurchaseMove, billingVars
<1>10. CASE PurchaseDone
  <2>1. /\ \/ old.pc \in {"teardown", "cancelling"}
           \/ old.pc = "purchasing" /\ old.reply # "permitted"
        /\ old.task = NoTask
    <3>1. old.task = NoTask /\ (\/ old.pc = "teardown" \/ old.pc = "cancelling"
                                \/ old.pc = "purchasing" /\ old.reply \in NotPermitted)
      BY <1>10 DEF PurchaseDone, Replied, At
    <3>2. old.reply \in NotPermitted => old.reply # "permitted"
      BY DEF NotPermitted
    <3> QED
      BY <3>1, <3>2
  <2>2. new = [old EXCEPT !.pc = "done"]
    BY <1>2, <1>10 DEF PurchaseDone, Advance
  <2>3. new.clean = old.clean
    BY <1>2, <2>2 DEF Script
  <2> QED
    BY <1>10, <2>1, <2>2, <2>3, ByItself DEF PurchaseDone, PurchaseMove, billingVars
<1> QED
  BY <1>1, <1>3, <1>4, <1>5, <1>6, <1>7, <1>8, <1>9, <1>10 DEF ScriptStep, PurchaseJourney

(***************************************************************************)
(* How far a purchase has come: the products the buyer has are those of the *)
(* beginning, or the bought one as well.  The addition writes a copy of the *)
(* record back, which has the products of the beginning too.                *)
(***************************************************************************)
Unbought(journey) == ActiveSkus(book[Buyer]) = ActiveSkus(journey.before[Buyer])

Gained(journey) ==
    /\ journey.offer.sku \notin ActiveSkus(journey.before[Buyer])
    /\ ActiveSkus(book[Buyer]) = ActiveSkus(journey.before[Buyer]) \cup {journey.offer.sku}

Succeeding(b) == work[b].pc = "capture" \/ (work[b].pc = "done" /\ work[b].ok)

Adding(journey, b) ==
    /\ work[b].pc \in {"idle", "arrived", "fetch", "fetched"} => Unbought(journey)
    /\ work[b].pc \in {"fetch", "fetched"} =>
          ActiveSkus(work[b].raw) = ActiveSkus(journey.before[Buyer])
    /\ Succeeding(b) => Gained(journey)

Cancelling(journey, b) ==
    /\ work[b].pc \in {"idle", "arrived"} => Gained(journey)
    /\ Succeeding(b) => Unbought(journey)

Undoing(journey) ==
    /\ journey.pc \in {"browse", "offers", "purchase", "teardown", "done"} => Unbought(journey)
    /\ journey.pc = "purchasing" /\ journey.task # NoTask => Adding(journey, journey.task)
    /\ journey.pc = "purchasing" /\ journey.task = NoTask =>
          IF journey.reply = "permitted" THEN Gained(journey) ELSE Unbought(journey)
    /\ journey.pc = "cancelling" /\ journey.task # NoTask => Cancelling(journey, journey.task)
    /\ journey.pc = "cancelling" /\ journey.task = NoTask => Unbought(journey)

PurchaseSafe == "purchase" \in DOMAIN script /\ script["purchase"].clean => Undoing(script["purchase"])

\* The purchase does not see what leaves the active products alone.
LEMMA UndoingStays ==
    ASSUME NEW journey, Undoing(journey), ActiveSkus(book'[Buyer]) = ActiveSkus(book[Buyer]),
           journey.task # NoTask => work'[journey.task] = work[journey.task]
    PROVE  Undoing(journey)'
<1>1. ActiveSkus(book[Buyer])' = ActiveSkus(book[Buyer])
  BY DEF ActiveSkus, Active
<1>2. (Unbought(journey)' <=> Unbought(journey)) /\ (Gained(journey)' <=> Gained(journey))
  BY <1>1 DEF Unbought, Gained, ActiveSkus, Active
<1>3. ASSUME NEW b, work'[b] = work[b]
      PROVE  /\ Adding(journey, b) => Adding(journey, b)'
             /\ Cancelling(journey, b) => Cancelling(journey, b)'
  <2>1. Succeeding(b)' <=> Succeeding(b)
    BY <1>3 DEF Succeeding
  <2>2. ActiveSkus(work[b].raw)' = ActiveSkus(work[b].raw)
    BY <1>3 DEF ActiveSkus, Active
  <2>3. ActiveSkus(journey.before[Buyer])' = ActiveSkus(journey.before[Buyer])
    BY DEF ActiveSkus, Active
  <2> QED
    BY <1>2, <1>3, <2>1, <2>2, <2>3 DEF Adding, Cancelling
<1> QED
  BY <1>2, <1>3 DEF Undoing

\* A step of the purchase journey itself.
LEMMA PurchaseSafeAlone ==
    ASSUME JInv, "purchase" \in DOMAIN script, ScriptStep("purchase"), PurchaseSafe,
           script'["purchase"].clean
    PROVE  Undoing(script["purchase"])'
<1>1. PICK old : old = script["purchase"]
  OBVIOUS
<1>2. PICK new : new = script'["purchase"]
  OBVIOUS
<1>3. UNCHANGED <<book, price, work>> /\ old.task = NoTask /\ old.clean /\ PurchaseMove(old, new)
  BY <1>1, <1>2, PurchaseMoves
<1>4. old \in Script
  BY <1>1, KnownScript
<1>5. Undoing(old)
  BY <1>1, <1>3 DEF PurchaseSafe
<1>6. Undoing(new)'
  <2>1. \A j : (Unbought(j)' <=> Unbought(j)) /\ (Gained(j)' <=> Gained(j))
    BY <1>3 DEF Unbought, Gained, ActiveSkus, Active
  <2>2. CASE old.pc = "start" /\ new.pc = "browse" /\ new.before = book
    BY <1>3, <2>2 DEF Undoing, Unbought, ActiveSkus, Active
  <2>3. CASE old.pc = "browse" /\ \E record : new = [old EXCEPT !.pc = "offers", !.record = record]
    <3>1. new.pc = "offers" /\ new.before = old.before
      BY <1>4, <2>3 DEF Script
    <3> QED
      BY <1>5, <2>1, <2>3, <3>1 DEF Undoing, Unbought
  <2>4. CASE old.pc = "offers" /\ new.pc \in {"teardown", "purchase"} /\ new.before = old.before
    BY <1>5, <2>1, <2>4 DEF Undoing, Unbought
  <2>5. CASE old.pc \in {"browse", "offers"} /\ new = [old EXCEPT !.pc = "teardown"]
    <3>1. new.pc = "teardown" /\ new.before = old.before
      BY <1>4, <2>5 DEF Script
    <3> QED
      BY <1>5, <2>1, <2>5, <3>1 DEF Undoing, Unbought
  <2>6. CASE /\ old.pc = "purchase" /\ Free(NewTask) /\ NewTask \in Tasks
             /\ new = [old EXCEPT !.pc = "purchasing", !.task = NewTask, !.reply = "none"]
    <3>1. new.pc = "purchasing" /\ new.before = old.before /\ new.task = NewTask
      BY <1>4, <2>6 DEF Script
    <3>2. PICK b \in Tasks : b = new.task /\ work'[b].pc = "idle"
      BY <1>3, <2>6, <3>1 DEF Free
    <3>3. Unbought(new)'
      BY <1>5, <2>1, <2>6, <3>1 DEF Undoing, Unbought
    <3>4. Adding(new, b)'
      BY <3>2, <3>3 DEF Adding, Succeeding
    <3>5. b # NoTask
      BY JourneyParameters
    <3> QED
      BY <3>1, <3>2, <3>4, <3>5 DEF Undoing
  <2>7. CASE /\ old.pc = "purchasing" /\ old.reply = "permitted" /\ Free(NewTask) /\ NewTask \in Tasks
             /\ new = [old EXCEPT !.pc = "cancelling", !.task = NewTask, !.reply = "none"]
    <3>1. new.pc = "cancelling" /\ new.before = old.before /\ new.task = NewTask /\ new.offer = old.offer
      BY <1>4, <2>7 DEF Script
    <3>2. PICK b \in Tasks : b = new.task /\ work'[b].pc = "idle"
      BY <1>3, <2>7, <3>1 DEF Free
    <3>3. Gained(new)'
      BY <1>3, <1>5, <2>1, <2>7, <3>1 DEF Undoing, Gained
    <3>4. Cancelling(new, b)'
      BY <3>2, <3>3 DEF Cancelling, Succeeding
    <3>5. b # NoTask
      BY JourneyParameters
    <3> QED
      BY <3>1, <3>2, <3>4, <3>5 DEF Undoing
  <2>8. CASE /\ \/ old.pc \in {"teardown", "cancelling"}
                \/ old.pc = "purchasing" /\ old.reply # "permitted"
             /\ new = [old EXCEPT !.pc = "done"]
    <3>1. new.pc = "done" /\ new.before = old.before
      BY <1>4, <2>8 DEF Script
    <3> QED
      BY <1>3, <1>5, <2>1, <2>8, <3>1 DEF Undoing, Unbought
  <2> QED
    BY <1>3, <2>2, <2>3, <2>4, <2>5, <2>6, <2>7, <2>8 DEF PurchaseMove
<1> QED
  BY <1>2, <1>6

\* The handler a purchase journey waits for.
LEMMA PurchaseAsks ==
    ASSUME JInv, "purchase" \in DOMAIN script, NEW b \in Tasks, NEW journey,
           journey = script["purchase"], journey.task = b
    PROVE  /\ chain[b].pc # "idle" /\ OfPurchase(b) /\ ~Free(b)
           /\ journey.pc \in {"purchasing", "cancelling"}
           /\ chain[b].intent.cust = Buyer /\ chain[b].intent.sku = journey.offer.sku
           /\ journey.pc = "purchasing" => chain[b].intent.intent = "add_subscription"
           /\ journey.pc = "cancelling" => /\ chain[b].intent.intent = "cancel_subscription"
                                           /\ chain[b].intent.caller = "system-admin"
           /\ work[b].pc # "idle" =>
                 /\ chain[b].pc = "wait" /\ work[b].req = RequestOf(chain[b].intent)
                 /\ work[b].req.cust = Buyer /\ work[b].req.sku = journey.offer.sku
                 /\ journey.pc = "purchasing" => work[b].req.op = "add"
                 /\ journey.pc = "cancelling" => work[b].req.op = "update" /\ work[b].req.stat = "C"
<1>1. b # NoTask
  BY JourneyParameters
<1>2. ~Free(b) /\ Owner(b) = "purchase" /\ Asks(journey, b)
  BY <1>1 DEF JInv, ScriptFits, Awaited
<1>3. OfPurchase(b)
  BY <1>2 DEF Owner
<1>4. chain[b].pc # "idle" /\ Asked(journey, chain[b].intent)
  <2>1. chain[b].pc = "idle" => Buys(work[b].req) /\ DirectUpdate(work[b].req)
    BY <1>2, <1>3 DEF OfPurchase, Asks
  <2>2. ~(Buys(work[b].req) /\ DirectUpdate(work[b].req))
    BY DEF Buys, DirectUpdate, Kept
  <2> QED
    BY <1>2, <2>1, <2>2 DEF Asks
<1>5. chain[b].intent.intent \in Buying
  BY <1>3, <1>4 DEF OfPurchase
<1>6. /\ journey.pc \in {"purchasing", "cancelling"}
      /\ chain[b].intent.cust = Buyer /\ chain[b].intent.sku = journey.offer.sku
      /\ journey.pc = "purchasing" => chain[b].intent.intent = "add_subscription"
      /\ journey.pc = "cancelling" => /\ chain[b].intent.intent = "cancel_subscription"
                                      /\ chain[b].intent.caller = "system-admin"
  BY <1>4, <1>5 DEF Asked, Carries, Buying
<1>7. work[b].pc # "idle" => chain[b].pc = "wait" /\ work[b].req = RequestOf(chain[b].intent)
  BY <1>4, OwnRequest
<1>8. \A intent : /\ RequestOf(intent).cust = intent.cust /\ RequestOf(intent).sku = intent.sku
                  /\ intent.intent = "add_subscription" => RequestOf(intent).op = "add"
                  /\ intent.intent = "cancel_subscription" =>
                         RequestOf(intent).op = "update" /\ RequestOf(intent).stat = "C"
  BY DEF RequestOf, NoRequest, Operation
<1> QED
  BY <1>2, <1>3, <1>4, <1>6, <1>7, <1>8

\* How the checks of a chain end.
LEMMA ChainEnds ==
    ASSUME JInv, NEW b \in Tasks, ChainGoes(b)
    PROVE  /\ UNCHANGED billingVars
           /\ \/ Going(b)
              \/ Answered(b) /\ Outcome(b) = "denied" /\ ~Permitted(b)
              \/ Answered(b) /\ Outcome(b) = "error" /\ (faults' = faults + 1 \/ CombinationRejected(b))
<1>1. UNCHANGED billingVars
  BY DEF ChainGoes, Deny, PolicyEngineDown, Allow, ReadPortfolio, CombinationRejected,
         CombinationAccepted, CombinationUnknown
<1>2. Going(b) \/ Ending(b)
  BY ChainTurnGoes DEF Turn
<1>3. ASSUME Allow(b) \/ ReadPortfolio(b) \/ CombinationAccepted(b) \/ CombinationUnknown(b) PROVE Going(b)
  <2>1. chain'[b].pc # "idle"
    BY <1>3, Known DEF Allow, ReadPortfolio, CombinationAccepted, CombinationUnknown, Goto, Chain
  <2> QED
    BY <1>2, <2>1 DEF Ending
<1>4. ASSUME Deny(b) PROVE Answered(b) /\ Outcome(b) = "denied" /\ ~Permitted(b)
  BY <1>4, RecordedLast DEF Deny
<1>5. ASSUME PolicyEngineDown(b)
      PROVE  Answered(b) /\ Outcome(b) = "error" /\ faults' = faults + 1
  BY <1>5, RecordedLast DEF PolicyEngineDown, Fault
<1>6. ASSUME CombinationRejected(b) PROVE Answered(b) /\ Outcome(b) = "error"
  BY <1>6, RecordedLast DEF CombinationRejected
<1> QED
  BY <1>1, <1>3, <1>4, <1>5, <1>6 DEF ChainGoes

\* Nobody is told of a handler that goes on.
LEMMA GoingTold ==
    ASSUME JInv, NEW b \in Tasks, ServiceStep(b), NEW s \in DOMAIN script, Going(b)
    PROVE  script'[s] = script[s]
<1>1. Told(s, b)
  BY ServiceSteps, Learned
<1> QED
  BY <1>1 DEF Told, Going

\* The script that waits is told the outcome.
LEMMA EndingTold ==
    ASSUME JInv, NEW b \in Tasks, ServiceStep(b), NEW s \in DOMAIN script, script[s].task = b, Answered(b)
    PROVE  /\ script'[s].task = NoTask /\ script'[s].reply = Outcome(b)
           /\ script'[s].clean <=> script[s].clean /\ Outcome(b) # "error"
           /\ Remembers(script[s], script'[s])
<1>1. Told(s, b)
  BY ServiceSteps, Learned
<1> QED
  BY <1>1 DEF Told

\* The end of a request at its service.
LEMMA SorEnds ==
    ASSUME JInv, NEW b \in Tasks, EndTurn(b), chain[b].pc # "idle"
    PROVE  /\ UNCHANGED <<book, price>> /\ chain[b].pc = "wait" /\ Answered(b)
           /\ \/ Outcome(b) = "permitted" /\ work[b].pc = "done" /\ work[b].ok
              \/ Outcome(b) = "error" /\ (faults' = faults + 1 \/ (work[b].pc = "done" /\ ~work[b].ok))
<1>1. CASE SorAnswers(b)
  <2>1. PICK outcome : outcome = IF work[b].ok THEN "permitted" ELSE "error"
    OBVIOUS
  <2>2. chain[b].pc = "wait" /\ work[b].pc = "done" /\ Answer(b, outcome) /\ UNCHANGED <<book, price>>
    BY <1>1, <2>1 DEF SorAnswers
  <2>3. Answered(b) /\ Outcome(b) = outcome
    BY <2>1, <2>2, RecordedLast
  <2> QED
    BY <2>1, <2>2, <2>3
<1>2. CASE BrokerTimeout(b)
  <2>1. Answered(b) /\ Outcome(b) = "error"
    BY <1>2, RecordedLast DEF BrokerTimeout
  <2> QED
    BY <1>2, <2>1 DEF BrokerTimeout, Fault, billingVars
<1>3. ~AnswerUnread(b)
  BY DEF AnswerUnread
<1> QED
  BY <1>1, <1>2, <1>3 DEF EndTurn

\* Another handler's step leaves the products of the buyer alone.
LEMMA OthersSafe ==
    ASSUME JInv, "purchase" \in DOMAIN script, NEW b \in Tasks, ServiceStep(b),
           script["purchase"].task # b, script["purchase"].clean \/ faults = 0
    PROVE  ~OfPurchase(b) /\ Similar(book[Buyer], book'[Buyer])
           /\ ActiveSkus(book'[Buyer]) = ActiveSkus(book[Buyer])
<1>1. ~Free(b)
  BY ServiceSteps DEF Turn, Going, Ending
<1>2. ~OfPurchase(b)
  BY <1>1 DEF JInv, TaskFits, Accounted, Owner
<1>3. Similar(book[Buyer], book'[Buyer])
  BY <1>2, PricingWrites, JourneyParameters
<1> QED
  BY <1>2, <1>3, SimilarSkus

\* A cancelled product is the only one that is no longer active.
LEMMA CancelledSkus ==
    ASSUME NEW lines \in Seq(Line), OnePerSku(lines), NEW later, NEW n \in DOMAIN lines,
           DOMAIN later = DOMAIN lines, NEW req, req.stat = "C",
           \A i \in DOMAIN lines : later[i] = IF i = n THEN Updated(lines[n], req) ELSE lines[i]
    PROVE  ActiveSkus(later) = ActiveSkus(lines) \ {lines[n].sku}
<1>1. PICK line \in Line : line = lines[n]
  OBVIOUS
<1>2. PICK charge : charge = IF req.charge = KeptCharge THEN line.charge ELSE req.charge
  OBVIOUS
<1>3. later[n] = [line EXCEPT !.stat = "C", !.charge = charge]
  <2>1. "C" # Kept
    BY DEF Kept
  <2> QED
    BY <1>1, <1>2, <2>1 DEF Updated
<1>4. later[n].stat = "C"
  BY <1>1, <1>3 DEF Line
<1>5. Active(later) = Active(lines) \ {n}
  BY <1>4 DEF Active
<1>6. \A i \in Active(lines) : lines[i].sku = lines[n].sku <=> i = n
  BY DEF Active, OnePerSku
<1>7. \A i \in Active(later) : later[i] = lines[i]
  BY <1>5 DEF Active
<1> QED
  BY <1>5, <1>6, <1>7 DEF ActiveSkus

\* A step of the handler that the purchase waits for.
LEMMA OwnWorkSafe ==
    ASSUME JInv, "purchase" \in DOMAIN script, NEW b \in Tasks, NEW journey, journey = script["purchase"],
           journey.task = b, journey.clean, Undoing(journey), Working(b)
    PROVE  Undoing(journey)'
<1>1. b # NoTask
  BY JourneyParameters
<1>2. work[b].pc # "idle" /\ HandlerKnown(b)
  BY WorkKnown
<1>3. PICK sku : sku = journey.offer.sku
  OBVIOUS
<1>4. work[b].req.cust = Buyer /\ work[b].req.sku = sku /\ Buyer \in Customers
  BY <1>2, <1>3, PurchaseAsks, JourneyParameters
<1>5. ASSUME NEW j, UNCHANGED book
      PROVE (Unbought(j)' <=> Unbought(j)) /\ (Gained(j)' <=> Gained(j))
  BY <1>5 DEF Unbought, Gained, ActiveSkus, Active
<1>6. ASSUME Finish(b, FALSE) PROVE Undoing(journey)'
  <2>1. work'[b].pc = "done" /\ ~work'[b].ok
    BY <1>6, Finished
  <2>2. Adding(journey, b)' /\ Cancelling(journey, b)'
    BY <2>1 DEF Adding, Cancelling, Succeeding
  <2> QED
    BY <1>1, <2>2, PurchaseAsks DEF Undoing
<1>7. CASE journey.pc = "purchasing"
  <2>1. Adding(journey, b)
    BY <1>1, <1>7 DEF Undoing
  <2>2. SUFFICES ASSUME ~Finish(b, FALSE) PROVE Adding(journey, b)'
    BY <1>1, <1>6, <1>7 DEF Undoing
  <2>3. CASE AddStart(b)
    <3>1. PICK h \in Work : h = work[b]
      BY Known
    <3>2. PICK new : new = [h EXCEPT !.pc = "fetch", !.raw = book[Buyer]]
      OBVIOUS
    <3>3. new.pc = "fetch" /\ new.raw = book[Buyer]
      BY <3>2 DEF Work
    <3>4. work'[b] = new /\ UNCHANGED book /\ work[b].pc = "arrived"
      BY <1>4, <2>3, <3>1, <3>2, Known DEF AddStart
    <3>5. Unbought(journey)' /\ Unbought(journey)
      BY <1>5, <2>1, <3>4 DEF Adding
    <3>6. ActiveSkus(work[b].raw)' = ActiveSkus(book[Buyer])
      BY <3>3, <3>4 DEF ActiveSkus, Active
    <3>7. ActiveSkus(journey.before[Buyer])' = ActiveSkus(journey.before[Buyer])
      BY DEF ActiveSkus, Active
    <3> QED
      BY <3>3, <3>4, <3>5, <3>6, <3>7 DEF Adding, Succeeding, Unbought
  <2>4. CASE FetchPrice(b)
    <3>1. PICK h \in Work : h = work[b]
      BY Known
    <3>2. PICK list : list = price[h.req.sku]
      OBVIOUS
    <3>3. PICK new : new = [h EXCEPT !.pc = "fetched", !.list = list]
      OBVIOUS
    <3>4. new.pc = "fetched" /\ new.raw = h.raw
      BY <3>3 DEF Work
    <3>5. work'[b] = new /\ UNCHANGED book /\ work[b].pc = "fetch"
      BY <2>4, <3>1, <3>2, <3>3, Known DEF FetchPrice
    <3>6. Unbought(journey)'
      BY <1>5, <2>1, <3>5 DEF Adding
    <3>7. ActiveSkus(work[b].raw)' = ActiveSkus(work[b].raw)
      BY <3>1, <3>4, <3>5 DEF ActiveSkus, Active
    <3>8. ActiveSkus(journey.before[Buyer])' = ActiveSkus(journey.before[Buyer])
      BY DEF ActiveSkus, Active
    <3> QED
      BY <2>1, <3>4, <3>5, <3>6, <3>7, <3>8 DEF Adding, Succeeding
  <2>5. CASE AddCommit(b)
    <3>1. work[b].pc = "fetched" /\ work[b].req.op = "add"
      BY <2>5 DEF AddCommit
    <3>2. ActiveSkus(work[b].raw) = ActiveSkus(journey.before[Buyer])
      BY <2>1, <3>1 DEF Adding
    <3>3. ActiveSkus(book'[Buyer]) = ActiveSkus(work[b].raw) \cup {sku}
      BY <1>2, <1>4, <2>5, AddMoves
    <3>4. sku \notin ActiveSkus(work[b].raw)
      <4>1. ~Holds(work[b].raw, sku)
        BY <1>2, <1>4, <3>1 DEF HandlerKnown, ProgressFits
      <4> QED
        BY <4>1 DEF Holds, ActiveSkus, Active
    <3>5. Gained(journey)'
      BY <1>3, <3>2, <3>3, <3>4 DEF Gained, ActiveSkus, Active
    <3>6. work'[b].pc = "capture"
      <4>1. PICK lines : Commit(b, Buyer, lines, "capture", {})
        BY <1>4, <2>5 DEF AddCommit
      <4> QED
        BY <1>4, <4>1, Committed
    <3> QED
      BY <3>5, <3>6 DEF Adding
  <2>6. CASE Capture(b, TRUE)
    <3>1. Finish(b, TRUE) /\ UNCHANGED book /\ work[b].pc = "capture"
      BY <2>6 DEF Capture
    <3>2. work'[b].pc = "done"
      BY <3>1, Finished
    <3>3. Gained(journey)'
      BY <1>5, <2>1, <3>1 DEF Adding, Succeeding
    <3> QED
      BY <3>2, <3>3 DEF Adding
  <2> QED
    BY <1>2, <1>7, <2>2, <2>3, <2>4, <2>5, <2>6, PurchaseAsks, WorkKinds
       DEF AddKnown, Fails, FetchFails, Capture, Refuse
<1>8. CASE journey.pc = "cancelling"
  <2>1. Cancelling(journey, b)
    BY <1>1, <1>8 DEF Undoing
  <2>2. SUFFICES ASSUME ~Finish(b, FALSE) PROVE Cancelling(journey, b)'
    BY <1>1, <1>6, <1>8 DEF Undoing
  <2>3. CASE UpdateLine(b)
    <3>1. PICK req : req = work[b].req
      OBVIOUS
    <3>2. PICK lines \in Seq(Line) : lines = book[Buyer] /\ OnePerSku(lines)
      BY <1>2, <1>4 DEF HandlerKnown, BooksFit
    <3>3. PICK later : later = book'[Buyer]
      OBVIOUS
    <3>4. PICK n : n = LineOf(lines, sku)
      OBVIOUS
    <3>5. req.stat = "C" /\ req.cust = Buyer /\ req.sku = sku
      BY <1>2, <1>4, <1>8, <3>1, PurchaseAsks
    <3>6. /\ n \in DOMAIN lines /\ lines[n].sku = sku /\ DOMAIN later = DOMAIN lines
          /\ \A i \in DOMAIN lines : later[i] = IF i = n THEN Updated(lines[n], req) ELSE lines[i]
          /\ work'[b].pc = "capture"
      BY <2>3, <3>1, <3>2, <3>3, <3>4, <3>5, UpdateWrites
    <3>7. ActiveSkus(later) = ActiveSkus(lines) \ {sku}
      BY <3>2, <3>5, <3>6, CancelledSkus
    <3>8. Gained(journey)
      BY <2>1, <2>3 DEF Cancelling, UpdateLine
    <3>9. ActiveSkus(later) = ActiveSkus(journey.before[Buyer])
      BY <1>3, <3>2, <3>7, <3>8 DEF Gained
    <3>10. Unbought(journey)'
      BY <3>3, <3>9 DEF Unbought, ActiveSkus, Active
    <3> QED
      BY <3>6, <3>10 DEF Cancelling
  <2>4. CASE Capture(b, TRUE)
    <3>1. Finish(b, TRUE) /\ UNCHANGED book /\ work[b].pc = "capture"
      BY <2>4 DEF Capture
    <3>2. work'[b].pc = "done"
      BY <3>1, Finished
    <3>3. Unbought(journey)'
      BY <1>5, <2>1, <3>1 DEF Cancelling, Succeeding
    <3> QED
      BY <3>2, <3>3 DEF Cancelling
  <2> QED
    BY <1>2, <1>8, <2>2, <2>3, <2>4, PurchaseAsks, WorkKinds
       DEF UpdateUnknown, Fails, FetchFails, Capture, Refuse
<1> QED
  BY <1>7, <1>8, PurchaseAsks

\* Any step of the handler that the purchase waits for, the answer included.
LEMMA OwnServiceSafe ==
    ASSUME JInv, "purchase" \in DOMAIN script, NEW b \in Tasks, ServiceStep(b),
           script["purchase"].task = b, script["purchase"].clean, Undoing(script["purchase"]),
           script'["purchase"].clean
    PROVE  Undoing(script["purchase"])'
<1>1. PICK old : old = script["purchase"]
  OBVIOUS
<1>2. PICK new : new = script'["purchase"]
  OBVIOUS
<1>3. b # NoTask
  BY JourneyParameters
<1>4. chain[b].pc # "idle" /\ old.pc \in {"purchasing", "cancelling"}
  BY <1>1, PurchaseAsks
<1>5. ASSUME UNCHANGED book, UNCHANGED work PROVE Undoing(old)'
  BY <1>1, <1>5, UndoingStays
<1>6. ASSUME NEW j, UNCHANGED book
      PROVE  (Unbought(j)' <=> Unbought(j)) /\ (Gained(j)' <=> Gained(j))
  BY <1>6 DEF Unbought, Gained, ActiveSkus, Active
<1>7. ASSUME Going(b) PROVE new = old
  BY <1>1, <1>2, <1>7, GoingTold
<1>8. ASSUME Answered(b)
      PROVE  /\ new.task = NoTask /\ new.reply = Outcome(b) /\ Outcome(b) # "error"
             /\ Remembers(old, new)
  BY <1>1, <1>2, <1>8, EndingTold
<1>9. ASSUME Working(b) PROVE Undoing(new)'
  <2>1. Going(b)
    BY <1>9, HandlerTurnGoes DEF Working
  <2> QED
    BY <1>1, <1>7, <1>9, <2>1, OwnWorkSafe
<1>10. ASSUME ChainGoes(b) PROVE Undoing(new)'
  <2>1. UNCHANGED <<book, work>>
    BY <1>10, ChainEnds DEF billingVars
  <2>2. CASE Going(b)
    BY <1>5, <1>7, <2>1, <2>2
  <2>3. ASSUME Answered(b), Outcome(b) = "denied", ~Permitted(b) PROVE Undoing(new)'
    <3>1. new.pc = old.pc /\ new.before = old.before /\ new.reply = "denied" /\ new.task = NoTask
      BY <1>8, <2>3 DEF Remembers
    <3>2. old.pc # "cancelling"
      <4>1. old.pc = "cancelling" => /\ chain[b].intent.caller = "system-admin"
                                     /\ chain[b].intent.intent = "cancel_subscription"
        BY <1>1, PurchaseAsks
      <4> QED
        BY <2>3, <4>1 DEF Permitted, AllowedIntents, Intents
    <3>3. work[b].pc = "idle"
      BY <1>10, Known DEF ChainGoes, Deny, PolicyEngineDown, Allow, ReadPortfolio, CombinationRejected,
                          CombinationAccepted, CombinationUnknown
    <3>4. Unbought(old)
      BY <1>1, <1>3, <1>4, <3>2, <3>3 DEF Undoing, Adding
    <3>5. Unbought(new)'
      BY <1>6, <2>1, <3>1, <3>4 DEF Unbought
    <3> QED
      BY <1>4, <3>1, <3>2, <3>5 DEF Undoing
  <2> QED
    BY <1>8, <1>10, <2>2, <2>3, ChainEnds
<1>11. ASSUME Forward(b) PROVE Undoing(new)'
  <2>1. UNCHANGED book /\ Going(b)
    BY <1>11, ForwardGoes DEF Forward, Arrive
  <2>2. work[b].pc = "idle"
    BY <1>11, Known DEF Forward
  <2>3. PICK req : work'[b] = [NoWork EXCEPT !.pc = "arrived", !.req = req]
    BY <1>11, ForwardGoes
  <2>4. PICK h : h = [NoWork EXCEPT !.pc = "arrived", !.req = req]
    OBVIOUS
  <2>5. h.pc = "arrived" /\ work'[b] = h
    BY <2>3, <2>4 DEF NoWork
  <2>6. old.pc = "purchasing" => Adding(old, b)'
    <3>1. old.pc = "purchasing" => Unbought(old)'
      BY <1>1, <1>3, <1>6, <2>1, <2>2 DEF Undoing, Adding
    <3> QED
      BY <2>5, <3>1 DEF Adding, Succeeding
  <2>7. old.pc = "cancelling" => Cancelling(old, b)'
    <3>1. old.pc = "cancelling" => Gained(old)'
      BY <1>1, <1>3, <1>6, <2>1, <2>2 DEF Undoing, Cancelling
    <3> QED
      BY <2>5, <3>1 DEF Cancelling, Succeeding
  <2>8. old.task = b /\ new = old
    BY <1>1, <1>7, <2>1
  <2> QED
    BY <1>3, <1>4, <2>6, <2>7, <2>8 DEF Undoing
<1>12. ASSUME EndTurn(b) PROVE Undoing(new)'
  <2>1. /\ UNCHANGED book /\ Answered(b) /\ chain[b].pc = "wait"
        /\ Outcome(b) = "permitted" /\ work[b].pc = "done" /\ work[b].ok
    BY <1>4, <1>8, <1>12, SorEnds
  <2>2. /\ new.pc = old.pc /\ new.before = old.before /\ new.offer = old.offer
        /\ new.reply = "permitted" /\ new.task = NoTask
    BY <1>8, <2>1 DEF Remembers
  <2>3. old.pc = "purchasing" => Gained(new)'
    <3>1. old.pc = "purchasing" => Gained(old)
      BY <1>1, <1>3, <2>1 DEF Undoing, Adding, Succeeding
    <3> QED
      BY <1>6, <2>1, <2>2, <3>1 DEF Gained
  <2>4. old.pc = "cancelling" => Unbought(new)'
    <3>1. old.pc = "cancelling" => Unbought(old)
      BY <1>1, <1>3, <2>1 DEF Undoing, Cancelling, Succeeding
    <3> QED
      BY <1>6, <2>1, <2>2, <3>1 DEF Unbought
  <2> QED
    BY <1>4, <2>2, <2>3, <2>4 DEF Undoing
<1> QED
  BY <1>2, <1>9, <1>10, <1>11, <1>12, HandlerSteps DEF Working

\* Every step keeps what the purchase journey knows.
LEMMA PurchaseSafeKeeps ==
    ASSUME JInv, [JNext]_jvars, PurchaseSafe
    PROVE  PurchaseSafe'
<1>1. SUFFICES ASSUME "purchase" \in DOMAIN script', script'["purchase"].clean
               PROVE  Undoing(script["purchase"])'
  BY DEF PurchaseSafe
<1>2. PICK s : s = "purchase"
  OBVIOUS
<1>3. s \in DOMAIN script
  BY <1>1, <1>2, SameScripts
<1>4. PICK old : old = script[s]
  OBVIOUS
<1>5. ASSUME Unmoved(s), ActiveSkus(book'[Buyer]) = ActiveSkus(book[Buyer]) PROVE Undoing(script["purchase"])'
  <2>1. script'[s] = old /\ (old.task # NoTask => work'[old.task] = work[old.task])
    BY <1>4, <1>5 DEF Unmoved
  <2>2. Undoing(old)
    BY <1>1, <1>2, <1>3, <1>4, <2>1 DEF PurchaseSafe
  <2>3. Undoing(old)'
    BY <1>5, <2>1, <2>2, UndoingStays
  <2> QED
    BY <1>2, <2>1, <2>3
<1>6. ASSUME NEW b \in Tasks, ServiceStep(b), script[s].task # b, Unmoved(s) PROVE Undoing(script["purchase"])'
  <2>1. script[s].clean
    BY <1>1, <1>2, <1>6 DEF Unmoved
  <2> QED
    BY <1>2, <1>3, <1>5, <1>6, <2>1, OthersSafe
<1>7. ASSUME NEW b \in Tasks, ServiceStep(b), script[s].task = b PROVE Undoing(script["purchase"])'
  <2>1. script[s].clean
    <3>1. Told(s, b)
      BY <1>3, <1>7, ServiceSteps, Learned
    <3> QED
      BY <1>1, <1>2, <3>1 DEF Told
  <2>2. Undoing(script[s])
    BY <1>2, <1>3, <2>1 DEF PurchaseSafe
  <2> QED
    BY <1>1, <1>2, <1>3, <1>7, <2>1, <2>2, OwnServiceSafe
<1>8. ASSUME ScriptStep(s) PROVE Undoing(script["purchase"])'
  BY <1>1, <1>2, <1>3, <1>8, PurchaseSafeAlone
<1>9. UNCHANGED <<book, price>> => ActiveSkus(book'[Buyer]) = ActiveSkus(book[Buyer])
  OBVIOUS
<1> QED
  BY <1>3, <1>5, <1>6, <1>7, <1>8, <1>9, Seen

(***************************************************************************)
(* A purchase journey leaves no product behind, whatever the catalogue and  *)
(* the buyer's record are and however its steps meet those of a repricing:  *)
(* every recalculation keeps the products and their statuses, so that the   *)
(* copy that the addition writes back has the products of the record, and   *)
(* the cancellation ends the line that was added and no other.              *)
(***************************************************************************)
THEOREM PurchasesUndone == JSpec => []PurchaseUndone
<1>1. JInit => PurchaseSafe
  <2> SUFFICES ASSUME JInit, "purchase" \in DOMAIN script PROVE Undoing(script["purchase"])
    BY DEF PurchaseSafe
  <2>1. PICK new : new = NewScript
    OBVIOUS
  <2>2. script["purchase"] = new
    BY <2>1 DEF JInit
  <2>3. new.pc = "start"
    BY <2>1 DEF NewScript
  <2> QED
    BY <2>2, <2>3 DEF Undoing
<1>2. JInv /\ [JNext]_jvars /\ PurchaseSafe => PurchaseSafe'
  BY PurchaseSafeKeeps
<1>3. PurchaseSafe => PurchaseUndone
  BY DEF PurchaseSafe, PurchaseUndone, Undoing, Unbought, Ended
<1> QED
  BY <1>1, <1>2, <1>3, JourneyInvariant, PTL DEF JSpec

-----------------------------------------------------------------------------
(* An offer is accepted.                                                      *)

\* Records that differ in prices only.
LEMMA SimilarChain ==
    ASSUME NEW a, NEW b, NEW c, Similar(a, b), Similar(b, c)
    PROVE  Similar(a, c)
  BY DEF Similar

\* A handler that is about to send its event has the record it wrote last.
LEMMA WritesSent ==
    ASSUME JInv, NEW b \in Tasks, ServiceStep(b), work'[b].pc \in {"capture", "emit"}
    PROVE  \/ work'[b] = work[b] /\ UNCHANGED book
           \/ work'[b].cust \in Customers /\ work'[b].raw = book'[work'[b].cust]
<1>1. CASE Working(b)
  <2>1. work[b].pc # "idle" /\ HandlerKnown(b)
    BY <1>1, WorkKnown
  <2>2. ASSUME NEW c \in Customers, NEW lines, NEW label, NEW due, Commit(b, c, lines, label, due)
        PROVE  work'[b].cust \in Customers /\ work'[b].raw = book'[work'[b].cust]
    BY <2>2, Committed
  <2>3. CASE UpdateLine(b) \/ AddCommit(b)
    <3>1. work[b].req.cust \in Customers
      BY <2>1, <2>3 DEF UpdateLine, AddCommit, HandlerKnown, RequestFits
    <3> QED
      BY <2>2, <2>3, <3>1 DEF UpdateLine, AddCommit
  <2>4. ASSUME NEW c \in Customers, RecalcFirst(b, c) \/ RecalcNext(b, c)
        PROVE  work'[b].cust \in Customers /\ work'[b].raw = book'[work'[b].cust]
    BY <2>2, <2>4 DEF RecalcFirst, RecalcNext, RecalcCustomer
  <2>5. ASSUME NEW ok, Finish(b, ok) PROVE FALSE
    BY <2>5, Finished
  <2>6. ASSUME NEW label \in {"fetch", "fetched", "next", "announce"}, NEW h \in Work, h = work[b],
               NEW new, new.pc = label, work' = [work EXCEPT ![b] = new]
        PROVE  FALSE
    BY <2>6, Known
  <2>7. ~AddStart(b)
    <3> SUFFICES ASSUME AddStart(b) PROVE FALSE
      OBVIOUS
    <3>1. PICK h \in Work : h = work[b]
      BY Known
    <3>2. PICK raw : raw = book[h.req.cust]
      OBVIOUS
    <3>3. PICK new : new = [h EXCEPT !.pc = "fetch", !.raw = raw]
      OBVIOUS
    <3>4. new.pc = "fetch" /\ work' = [work EXCEPT ![b] = new]
      BY <3>1, <3>2, <3>3, Known DEF AddStart, Work
    <3> QED
      BY <2>6, <3>1, <3>4
  <2>8. ~FetchPrice(b)
    <3> SUFFICES ASSUME FetchPrice(b) PROVE FALSE
      OBVIOUS
    <3>1. PICK h \in Work : h = work[b]
      BY Known
    <3>2. PICK list : list = price[h.req.sku]
      OBVIOUS
    <3>3. PICK new : new = [h EXCEPT !.pc = "fetched", !.list = list]
      OBVIOUS
    <3>4. new.pc = "fetched" /\ work' = [work EXCEPT ![b] = new]
      BY <3>1, <3>2, <3>3, Known DEF FetchPrice, Work
    <3> QED
      BY <2>6, <3>1, <3>4
  <2>9. ~RecalcStart(b) /\ ~UpdateProduct(b)
    <3> SUFFICES ASSUME RecalcStart(b) \/ UpdateProduct(b) PROVE FALSE
      OBVIOUS
    <3>1. PICK h \in Work : h = work[b]
      BY Known
    <3>2. PICK label \in {"fetch", "announce"} : work' = [work EXCEPT ![b].pc = label]
      BY DEF RecalcStart, UpdateProduct
    <3>3. PICK new : new = [h EXCEPT !.pc = label]
      OBVIOUS
    <3>4. new.pc = label /\ work' = [work EXCEPT ![b] = new]
      BY <3>1, <3>2, <3>3, Known DEF Work
    <3> QED
      BY <2>6, <3>1, <3>4
  <2>10. ~Emit(b)
    <3> SUFFICES ASSUME Emit(b) PROVE FALSE
      OBVIOUS
    <3>1. PICK h \in Work : h = work[b]
      BY Known
    <3>2. PICK new : new = [h EXCEPT !.pc = "next", !.cust = Nobody, !.raw = <<>>]
      OBVIOUS
    <3>3. new.pc = "next" /\ work' = [work EXCEPT ![b] = new]
      BY <3>1, <3>2, Known DEF Emit, Work
    <3> QED
      BY <2>6, <3>1, <3>3
  <2> QED
    BY <1>1, <2>3, <2>4, <2>5, <2>7, <2>8, <2>9, <2>10, WorkKinds
       DEF AddKnown, Capture, UpdateUnknown, Fails, FetchFails, RecalcNobody, RecalcDone, AnnounceProduct, Refuse
<1>2. CASE ChainGoes(b)
  BY <1>2, ChainEnds DEF billingVars
<1>3. CASE Forward(b)
  <2>1. PICK req : work'[b] = [NoWork EXCEPT !.pc = "arrived", !.req = req]
    BY <1>3, ForwardGoes
  <2> QED
    BY <2>1 DEF NoWork
<1>4. CASE EndTurn(b)
  <2>1. work' = [work EXCEPT ![b] = NoWork] \/ UNCHANGED work
    BY <1>4 DEF EndTurn, SorAnswers, BrokerTimeout, AnswerUnread, billingVars
  <2>2. UNCHANGED book
    BY <1>4 DEF EndTurn, SorAnswers, BrokerTimeout, AnswerUnread, billingVars
  <2> QED
    BY <2>1, <2>2, Known DEF NoWork
<1> QED
  BY <1>1, <1>2, <1>3, <1>4, HandlerSteps DEF Working

\* What a step of the services sends.
LEMMA WhatIsSent ==
    ASSUME NEW b \in Tasks, ServiceStep(b)
    PROVE  \/ sent' = sent
           \/ /\ work[b].pc \in {"capture", "emit"} /\ work[b].cust = Buyer
              /\ sent' = sent \cup {work[b].raw}
<1>1. UNCHANGED sent \/ Deliver(b)
  BY DEF ServiceStep, Service, ServiceFault, EventLost, cacheVars
<1> QED
  BY <1>1 DEF Deliver

(***************************************************************************)
(* Until the purchase, the buyer has the products of the seed, in the       *)
(* record, in those that were sent and in every event that is under way.    *)
(***************************************************************************)
StillSeed(lines) == Similar(Seed[Buyer], lines)

SeedLapsed(sku) == RequiresLapsed(Seed[Buyer], sku)

Undisturbed ==
    /\ StillSeed(book[Buyer]) /\ (\A lines \in sent : StillSeed(lines))
    /\ \A w \in Tasks : work[w].pc \in {"capture", "emit"} /\ work[w].cust = Buyer => StillSeed(work[w].raw)

Pending(journey) ==
    \/ journey.pc \in {"start", "browse", "offers", "purchase"}
    \/ journey.pc = "purchasing" /\ journey.task = NoTask /\ journey.reply = "error"
    \/ journey.pc = "purchasing" /\ journey.task # NoTask
           /\ work[journey.task].pc \in {"idle", "arrived", "fetch", "fetched"}

Buyable(journey) ==
    /\ Pending(journey) => Undisturbed
    /\ journey.pc \in {"offers", "purchase", "purchasing"} => StillSeed(journey.record)
    /\ journey.pc = "purchasing" /\ journey.task # NoTask =>
          /\ chain[journey.task].pc = "combination" => chain[journey.task].held = ActiveSkus(Seed[Buyer])
          /\ work[journey.task].pc = "done" => work[journey.task].ok
    /\ journey.pc = "purchasing" /\ journey.task = NoTask /\ journey.reply = "error" =>
          SeedLapsed(journey.offer.sku)

OfferSafe == "purchase" \in DOMAIN script /\ faults = 0 => Buyable(script["purchase"])

\* A record that the cache may answer differs from the one that was sent in prices only.
LEMMA ListedSeed ==
    ASSUME JInv, NEW lines \in sent, StillSeed(lines), NEW record \in Listings(lines)
    PROVE  StillSeed(record)
<1>1. Similar(lines, record)
  BY ListingLines DEF JInv, CacheTyped
<1> QED
  BY <1>1, SimilarChain DEF StillSeed

\* A step that leaves the products of the buyer alone.
LEMMA UndisturbedStays ==
    ASSUME JInv, NEW b \in Tasks, ServiceStep(b), Undisturbed, Similar(book[Buyer], book'[Buyer])
    PROVE  Undisturbed'
<1>1. Buyer \in Customers
  BY JourneyParameters
<1>2. StillSeed(book[Buyer])'
  <2>1. Similar(Seed[Buyer], book'[Buyer])
    BY SimilarChain DEF Undisturbed, StillSeed
  <2> QED
    BY <2>1 DEF StillSeed, Similar
<1>3. ASSUME NEW lines \in sent' PROVE StillSeed(lines)'
  <2>1. CASE lines \in sent
    BY <2>1 DEF Undisturbed, StillSeed, Similar
  <2>2. CASE work[b].pc \in {"capture", "emit"} /\ work[b].cust = Buyer /\ lines = work[b].raw
    BY <2>2 DEF Undisturbed, StillSeed, Similar
  <2> QED
    BY <1>3, <2>1, <2>2, WhatIsSent
<1>4. ASSUME NEW w \in Tasks, work'[w].pc \in {"capture", "emit"}, work'[w].cust = Buyer
      PROVE  StillSeed(work[w].raw)'
  <2>1. PICK raw : raw = work'[w].raw
    OBVIOUS
  <2>2. CASE work'[w] = work[w]
    <3>1. StillSeed(raw)
      BY <1>4, <2>1, <2>2 DEF Undisturbed
    <3> QED
      BY <2>1, <3>1 DEF StillSeed, Similar
  <2>3. CASE w = b /\ work'[b].raw = book'[Buyer]
    BY <1>2, <2>3 DEF StillSeed, Similar
  <2>4. w # b => work'[w] = work[w]
    BY ServiceSteps DEF Turn, Others
  <2> QED
    BY <1>4, <2>2, <2>3, <2>4, WritesSent
<1> QED
  BY <1>2, <1>3, <1>4 DEF Undisturbed

\* Of the seed the same is true afterwards.
LEMMA SeedRigid ==
    /\ \A lines : StillSeed(lines)' <=> StillSeed(lines)
    /\ \A sku : SeedLapsed(sku)' <=> SeedLapsed(sku)
<1>1. \A lines : StillSeed(lines)' <=> StillSeed(lines)
  BY DEF StillSeed, Similar
<1>2. \A sku : SeedLapsed(sku)' <=> SeedLapsed(sku)
  BY DEF SeedLapsed, RequiresLapsed, LapsedSkus, ActiveSkus, Active, Neighbours
<1> QED
  BY <1>1, <1>2

\* Nothing but other handlers than the script's has moved.
LEMMA BuyableStays ==
    ASSUME NEW journey, Buyable(journey), Undisturbed => Undisturbed',
           journey.task # NoTask => /\ work'[journey.task] = work[journey.task]
                                    /\ chain'[journey.task] = chain[journey.task]
    PROVE  Buyable(journey)'
<1>1. Pending(journey)' <=> Pending(journey)
  BY DEF Pending
<1>2. ActiveSkus(Seed[Buyer])' = ActiveSkus(Seed[Buyer])
  BY DEF ActiveSkus, Active
<1> QED
  BY <1>1, <1>2, SeedRigid DEF Buyable

\* Records that differ in prices only have the same active products, and the same others.
LEMMA SimilarLapsed ==
    ASSUME NEW lines, NEW others, Similar(lines, others), NEW sku
    PROVE  /\ SkusOf(others) = SkusOf(lines)
           /\ RequiresLapsed(others, sku) <=> RequiresLapsed(lines, sku)
<1>1. /\ DOMAIN others = DOMAIN lines
      /\ \A i \in DOMAIN lines : others[i].sku = lines[i].sku /\ others[i].stat = lines[i].stat
  BY DEF Similar
<1>2. Active(others) = Active(lines)
  BY <1>1 DEF Active
<1>3. ActiveSkus(others) = ActiveSkus(lines) /\ LapsedSkus(others) = LapsedSkus(lines)
  BY <1>1, <1>2 DEF ActiveSkus, LapsedSkus, Active
<1>4. SkusOf(others) = SkusOf(lines)
  BY <1>1 DEF SkusOf
<1> QED
  BY <1>3, <1>4 DEF RequiresLapsed

(***************************************************************************)
(* What is offered on the buyer's record goes with all of the buyer's       *)
(* products; if it does not go with the active ones, it is because          *)
(* something that is required is among the others.                          *)
(***************************************************************************)
LEMMA SeedOffers ==
    ASSUME NEW lines, StillSeed(lines), NEW offer, Offered(lines, offer)
    PROVE  /\ \A others : StillSeed(others) => ~Holds(others, offer.sku)
           /\ \/ IsCombinationValid(Graph, ActiveSkus(Seed[Buyer]) \cup {offer.sku})
              \/ SeedLapsed(offer.sku)
<1>1. ASSUME NEW others, StillSeed(others) PROVE ~Holds(others, offer.sku)
  BY <1>1 DEF StillSeed, Similar, Offered, Holds
<1>2. ASSUME ~IsCombinationValid(Graph, ActiveSkus(Seed[Buyer]) \cup {offer.sku})
      PROVE  SeedLapsed(offer.sku)
  <2>1. PICK all, held : /\ all = SkusOf(Seed[Buyer]) \cup {offer.sku}
                         /\ held = ActiveSkus(Seed[Buyer]) \cup {offer.sku}
    OBVIOUS
  <2>2. IsCombinationValid(Graph, all) /\ ~IsCombinationValid(Graph, held)
    BY <1>2, <2>1, SimilarLapsed DEF Offered, StillSeed
  <2>3. held \subseteq all
    BY <2>1 DEF SkusOf, ActiveSkus, Active
  <2>4. PICK holder \in held :
            LET required == Neighbours(Graph, holder, "REQUIRES")
            IN  required \cap held = {} /\ required \cap all # {}
    BY <2>2, <2>3, Zenon DEF IsCombinationValid
  <2>5. all \subseteq held \cup LapsedSkus(Seed[Buyer])
    BY <2>1 DEF SkusOf, ActiveSkus, Active, LapsedSkus
  <2>6. Neighbours(Graph, holder, "REQUIRES") \cap LapsedSkus(Seed[Buyer]) # {}
    BY <2>4, <2>5
  <2> QED
    BY <2>1, <2>4, <2>6 DEF SeedLapsed, RequiresLapsed
<1> QED
  BY <1>1, <1>2

\* A script that goes on waiting for its handler.
LEMMA WaitingBuyable ==
    ASSUME NEW journey, journey.task # NoTask, Buyable(journey),
           Pending(journey)' => Undisturbed',
           chain'[journey.task].pc = "combination" => chain'[journey.task].held = ActiveSkus(Seed[Buyer]),
           work'[journey.task].pc = "done" => work'[journey.task].ok
    PROVE  Buyable(journey)'
<1>1. ActiveSkus(Seed[Buyer])' = ActiveSkus(Seed[Buyer])
  BY DEF ActiveSkus, Active
<1> QED
  BY <1>1, SeedRigid DEF Buyable

\* A step of the handler that the purchase waits for.
LEMMA OwnWorkBuyable ==
    ASSUME JInv, "purchase" \in DOMAIN script, NEW b \in Tasks, NEW journey, journey = script["purchase"],
           journey.task = b, Buyable(journey), ServiceStep(b), Working(b), faults = 0, faults' = 0
    PROVE  Buyable(journey)'
<1>1. b # NoTask
  BY JourneyParameters
<1>2. work[b].pc # "idle" /\ UNCHANGED chain
  BY WorkKnown
<1>3. /\ journey.pc \in {"purchasing", "cancelling"} /\ chain[b].pc = "wait"
      /\ work[b].req.cust = Buyer /\ work[b].req.sku = journey.offer.sku
      /\ journey.pc = "purchasing" => work[b].req.op = "add"
  BY <1>2, PurchaseAsks
<1>4. CASE journey.pc = "cancelling"
  BY <1>4 DEF Buyable, Pending
<1>5. CASE journey.pc = "purchasing"
  <2>1. chain'[b].pc # "combination"
    BY <1>2, <1>3
  <2>2. ASSUME UNCHANGED book, Pending(journey) PROVE Undisturbed'
    <3>1. Similar(book[Buyer], book'[Buyer]) /\ Undisturbed
      BY <2>2 DEF Similar, Buyable
    <3> QED
      BY <3>1, UndisturbedStays
  <2>3. SUFFICES ASSUME TRUE
                 PROVE  /\ Pending(journey)' => Undisturbed'
                        /\ work'[b].pc = "done" => work'[b].ok
    BY <1>1, <2>1, WaitingBuyable
  <2>4. ~Fails(b)
    BY DEF Fails
  <2>5. ~AddKnown(b)
    <3> SUFFICES ASSUME AddKnown(b) PROVE FALSE
      OBVIOUS
    <3>1. StillSeed(book[Buyer]) /\ StillSeed(journey.record)
      BY <1>1, <1>5 DEF AddKnown, Buyable, Pending, Undisturbed
    <3>2. Offered(journey.record, journey.offer)
      BY <1>5 DEF JInv, ScriptFits, PhaseFits
    <3> QED
      BY <1>3, <3>1, <3>2, SeedOffers DEF AddKnown
  <2>6. CASE AddStart(b)
    <3>1. PICK h \in Work : h = work[b]
      BY Known
    <3>2. PICK raw : raw = book[h.req.cust]
      OBVIOUS
    <3>3. PICK new : new = [h EXCEPT !.pc = "fetch", !.raw = raw]
      OBVIOUS
    <3>4. new.pc = "fetch" /\ work'[b] = new /\ UNCHANGED book
      BY <2>6, <3>1, <3>2, <3>3, Known DEF AddStart, Work
    <3>5. Pending(journey)
      BY <1>1, <1>5, <2>6 DEF AddStart, Pending
    <3> QED
      BY <2>2, <3>4, <3>5
  <2>7. CASE FetchPrice(b)
    <3>1. PICK h \in Work : h = work[b]
      BY Known
    <3>2. PICK list : list = price[h.req.sku]
      OBVIOUS
    <3>3. PICK new : new = [h EXCEPT !.pc = "fetched", !.list = list]
      OBVIOUS
    <3>4. new.pc = "fetched" /\ work'[b] = new /\ UNCHANGED book
      BY <2>7, <3>1, <3>2, <3>3, Known DEF FetchPrice, Work
    <3>5. Pending(journey)
      BY <1>1, <1>5, <2>7 DEF FetchPrice, Pending
    <3> QED
      BY <2>2, <3>4, <3>5
  <2>8. CASE AddCommit(b)
    <3>1. PICK lines : Commit(b, Buyer, lines, "capture", {})
      BY <1>3, <2>8 DEF AddCommit
    <3>2. work'[b].pc = "capture"
      BY <3>1, Committed, JourneyParameters
    <3> QED
      BY <1>1, <1>5, <3>2 DEF Pending
  <2>9. CASE Capture(b, TRUE)
    <3>1. work'[b].pc = "done" /\ work'[b].ok
      BY <2>9, Finished DEF Capture
    <3> QED
      BY <1>1, <1>5, <3>1 DEF Pending
  <2> QED
    BY <1>3, <1>5, <2>4, <2>5, <2>6, <2>7, <2>8, <2>9, WorkKinds
<1> QED
  BY <1>3, <1>4, <1>5

\* Any step of the handler that the purchase waits for, the answer included.
LEMMA OwnServiceBuyable ==
    ASSUME JInv, "purchase" \in DOMAIN script, NEW b \in Tasks, ServiceStep(b),
           script["purchase"].task = b, Buyable(script["purchase"]), faults = 0, faults' = 0
    PROVE  Buyable(script["purchase"])'
<1>1. PICK old : old = script["purchase"]
  OBVIOUS
<1>2. PICK new : new = script'["purchase"]
  OBVIOUS
<1>3. b # NoTask /\ Buyable(old) /\ old.task = b
  BY <1>1, JourneyParameters
<1>4. /\ chain[b].pc # "idle" /\ old.pc \in {"purchasing", "cancelling"}
      /\ chain[b].intent.sku = old.offer.sku
  BY <1>1, PurchaseAsks
<1>5. ASSUME UNCHANGED book, Undisturbed PROVE Undisturbed'
  <2>1. Similar(book[Buyer], book'[Buyer])
    BY <1>5 DEF Similar
  <2> QED
    BY <1>5, <2>1, UndisturbedStays
<1>6. ASSUME Going(b) PROVE new = old
  BY <1>1, <1>2, <1>6, GoingTold
<1>7. ASSUME Answered(b),
             Outcome(b) = "error" /\ old.pc = "purchasing" =>
                Undisturbed' /\ SeedLapsed(old.offer.sku)
      PROVE  Buyable(new)'
  <2>1. /\ new.task = NoTask /\ new.reply = Outcome(b) /\ new.pc = old.pc
        /\ new.record = old.record /\ new.offer = old.offer
    BY <1>1, <1>2, <1>7, EndingTold DEF Remembers
  <2>2. /\ \A lines : StillSeed(lines)' <=> StillSeed(lines)
        /\ \A sku : SeedLapsed(sku)' <=> SeedLapsed(sku)
    BY SeedRigid
  <2>3. old.pc = "purchasing" => StillSeed(old.record)
    BY <1>3 DEF Buyable
  <2>4. Pending(new)' => new.reply = "error" /\ new.pc = "purchasing"
    BY <1>4, <2>1 DEF Pending
  <2> QED
    BY <1>4, <1>7, <2>1, <2>2, <2>3, <2>4 DEF Buyable
<1>8. ASSUME Working(b) PROVE Buyable(new)'
  <2>1. Going(b)
    BY <1>8, HandlerTurnGoes DEF Working
  <2> QED
    BY <1>1, <1>3, <1>6, <1>8, <2>1, OwnWorkBuyable
<1>9. ASSUME ChainGoes(b) PROVE Buyable(new)'
  <2>1. UNCHANGED <<book, work>> /\ work[b].pc = "idle"
    BY <1>9, ChainEnds, Known
       DEF billingVars, ChainGoes, Deny, PolicyEngineDown, Allow, ReadPortfolio, CombinationRejected,
           CombinationAccepted, CombinationUnknown
  <2>2. old.pc = "purchasing" => Undisturbed /\ Undisturbed' /\ StillSeed(old.record)
    BY <1>3, <1>5, <2>1 DEF Buyable, Pending
  <2>3. CASE Going(b)
    <3>1. CASE old.pc = "cancelling"
      BY <1>6, <2>3, <3>1 DEF Buyable, Pending
    <3>2. CASE old.pc = "purchasing"
      <4>1. chain'[b].pc = "combination" => chain'[b].held = ActiveSkus(Seed[Buyer])
        <5> SUFFICES ASSUME chain'[b].pc = "combination" PROVE chain'[b].held = ActiveSkus(Seed[Buyer])
          OBVIOUS
        <5>1. PICK old0 \in Chain : old0 = chain[b]
          BY Known
        <5>2. CASE ReadPortfolio(b)
          <6>1. PICK held : held = ActiveSkus(book[Buyer])
            OBVIOUS
          <6>2. PICK now : now = [old0 EXCEPT !.pc = "combination", !.held = held]
            OBVIOUS
          <6>3. chain'[b] = now /\ now.held = held
            <7>1. chain[b].intent.cust = Buyer
              BY <1>1, <1>3, PurchaseAsks
            <7> QED
              BY <5>1, <5>2, <6>1, <6>2, <7>1, Known DEF ReadPortfolio, Chain
          <6>4. held = ActiveSkus(Seed[Buyer])
            BY <2>2, <3>2, <6>1, SimilarSkus DEF Undisturbed, StillSeed
          <6> QED
            BY <6>3, <6>4
        <5>3. ~Allow(b)
          <6> SUFFICES ASSUME Allow(b) PROVE FALSE
            OBVIOUS
          <6>1. PICK label \in {"portfolio", "forward"} : chain' = [chain EXCEPT ![b].pc = label]
            BY DEF Allow, Goto
          <6>2. chain'[b].pc = label
            BY <5>1, <6>1, Known DEF Chain
          <6> QED
            BY <6>2
        <5>4. ~CombinationAccepted(b) /\ ~CombinationUnknown(b)
          <6>1. ASSUME CombinationAccepted(b) PROVE FALSE
            <7>1. PICK now : now = [old0 EXCEPT !.pc = "forward", !.checked = TRUE]
              OBVIOUS
            <7>2. now.pc = "forward" /\ chain'[b] = now
              BY <5>1, <6>1, <7>1, Known DEF CombinationAccepted, Chain
            <7> QED
              BY <7>2
          <6> QED
            BY <6>1 DEF CombinationUnknown, Fault
        <5>5. Answered(b) => FALSE
          BY <2>3 DEF Going
        <5>6. ~Deny(b) /\ ~PolicyEngineDown(b) /\ ~CombinationRejected(b)
          BY <5>5, RecordedLast DEF Deny, PolicyEngineDown, CombinationRejected
        <5> QED
          BY <1>9, <5>2, <5>3, <5>4, <5>6 DEF ChainGoes
      <4>2. work'[b].pc # "done"
        BY <2>1
      <4>3. Buyable(old)'
        BY <1>3, <2>2, <3>2, <4>1, <4>2, WaitingBuyable
      <4> QED
        BY <1>6, <2>3, <4>3
    <3> QED
      BY <1>4, <3>1, <3>2
  <2>4. CASE Answered(b) /\ Outcome(b) = "denied"
    BY <1>7, <2>4
  <2>5. CASE Answered(b) /\ Outcome(b) = "error" /\ CombinationRejected(b)
    <3>1. old.pc = "purchasing" => SeedLapsed(old.offer.sku)
      <4> SUFFICES ASSUME old.pc = "purchasing", ~SeedLapsed(old.offer.sku)
                   PROVE  FALSE
        OBVIOUS
      <4>1. Offered(old.record, old.offer)
        BY <1>1 DEF JInv, ScriptFits, PhaseFits
      <4>2. chain[b].held = ActiveSkus(Seed[Buyer])
        BY <1>3, <2>5 DEF Buyable, CombinationRejected
      <4> QED
        BY <1>4, <2>2, <2>5, <4>1, <4>2, SeedOffers DEF CombinationRejected, Proposed
    <3> QED
      BY <1>7, <2>2, <2>5, <3>1
  <2> QED
    BY <1>9, <2>3, <2>4, <2>5, ChainEnds
<1>10. ASSUME Forward(b) PROVE Buyable(new)'
  <2>1. UNCHANGED book /\ Going(b) /\ work[b].pc = "idle"
    BY <1>10, ForwardGoes, Known DEF Forward, Arrive
  <2>2. PICK req : work'[b] = [NoWork EXCEPT !.pc = "arrived", !.req = req]
    BY <1>10, ForwardGoes
  <2>3. work'[b].pc = "arrived"
    BY <2>2 DEF NoWork
  <2>4. chain'[b].pc = "wait"
    BY <1>10, Known DEF Forward, Goto, Chain
  <2>5. CASE old.pc = "purchasing"
    <3>1. Undisturbed'
      BY <1>3, <1>5, <2>1, <2>5 DEF Buyable, Pending
    <3>2. Buyable(old)'
      BY <1>3, <2>3, <2>4, <3>1, WaitingBuyable
    <3> QED
      BY <1>6, <2>1, <3>2
  <2>6. CASE old.pc = "cancelling"
    BY <1>6, <2>1, <2>6 DEF Buyable, Pending
  <2> QED
    BY <1>4, <2>5, <2>6
<1>11. ASSUME EndTurn(b) PROVE Buyable(new)'
  <2>1. Answered(b) /\ (Outcome(b) = "error" => work[b].pc = "done" /\ ~work[b].ok)
    BY <1>4, <1>11, SorEnds
  <2>2. Outcome(b) = "error" /\ old.pc = "purchasing" => FALSE
    BY <1>3, <2>1 DEF Buyable
  <2> QED
    BY <1>7, <2>1, <2>2
<1> QED
  BY <1>2, <1>8, <1>9, <1>10, <1>11, HandlerSteps DEF Working

\* A step of the journey itself.
LEMMA OfferSafeAlone ==
    ASSUME JInv, "purchase" \in DOMAIN script, ScriptStep("purchase"), Buyable(script["purchase"]),
           faults = 0, faults' = 0
    PROVE  Buyable(script["purchase"])'
<1>1. PICK old : old = script["purchase"]
  OBVIOUS
<1>2. PICK new : new = script'["purchase"]
  OBVIOUS
<1>3. UNCHANGED <<book, price, work>> /\ old.task = NoTask /\ PurchaseMove(old, new)
  BY <1>1, <1>2, PurchaseMoves
<1>4. UNCHANGED sent
  BY ScriptsAlone DEF Alone
<1>5. old \in Script /\ Buyable(old)
  BY <1>1, KnownScript
<1>6. (\A lines : StillSeed(lines)' <=> StillSeed(lines)) /\ (Undisturbed' <=> Undisturbed)
  <2>1. \A lines : StillSeed(lines)' <=> StillSeed(lines)
    BY DEF StillSeed, Similar
  <2> QED
    BY <1>3, <1>4, <2>1 DEF Undisturbed, StillSeed, Similar
<1>7. Buyable(new)'
  <2>1. CASE old.pc = "start" /\ new.pc = "browse"
    BY <1>5, <1>6, <2>1 DEF Buyable, Pending
  <2>2. CASE /\ old.pc = "browse"
             /\ \E lines \in sent : \E record \in Listings(lines) :
                   new = [old EXCEPT !.pc = "offers", !.record = record]
    <3>1. PICK lines \in sent : \E record \in Listings(lines) :
              new = [old EXCEPT !.pc = "offers", !.record = record]
      BY <2>2
    <3>2. PICK record \in Listings(lines) : new = [old EXCEPT !.pc = "offers", !.record = record]
      BY <3>1
    <3>3. new.pc = "offers" /\ new.record = record
      BY <1>5, <3>2 DEF Script
    <3>4. Undisturbed /\ StillSeed(lines)
      BY <1>5, <2>2 DEF Buyable, Pending, Undisturbed
    <3>5. StillSeed(record)
      BY <3>4, ListedSeed
    <3> QED
      BY <1>6, <3>3, <3>4, <3>5 DEF Buyable, Pending
  <2>3. CASE old.pc = "offers" /\ new.pc \in {"teardown", "purchase"} /\ new.record = old.record
    BY <1>5, <1>6, <2>3 DEF Buyable, Pending
  <2>4. CASE /\ old.pc = "purchase" /\ Free(NewTask) /\ NewTask \in Tasks
             /\ chain'[NewTask].pc = "permission"
             /\ new = [old EXCEPT !.pc = "purchasing", !.task = NewTask, !.reply = "none"]
    <3>1. new.pc = "purchasing" /\ new.record = old.record /\ new.task = NewTask
      BY <1>5, <2>4 DEF Script
    <3>2. PICK b \in Tasks : b = new.task /\ work'[b].pc = "idle" /\ chain'[b].pc = "permission"
      BY <1>3, <2>4, <3>1 DEF Free
    <3>3. Undisturbed /\ StillSeed(old.record)
      BY <1>5, <2>4 DEF Buyable, Pending
    <3>4. b # NoTask
      BY JourneyParameters
    <3> QED
      BY <1>6, <3>1, <3>2, <3>3, <3>4 DEF Buyable, Pending
  <2>5. CASE /\ old.pc = "purchasing"
             /\ new = [old EXCEPT !.pc = "cancelling", !.task = NewTask, !.reply = "none"]
    <3>1. new.pc = "cancelling"
      BY <1>5, <2>5 DEF Script
    <3> QED
      BY <3>1 DEF Buyable, Pending
  <2>6. CASE new = [old EXCEPT !.pc = "done"]
    <3>1. new.pc = "done"
      BY <1>5, <2>6 DEF Script
    <3> QED
      BY <3>1 DEF Buyable, Pending
  <2>7. faults' # faults + 1
    OBVIOUS
  <2> QED
    BY <1>3, <2>1, <2>2, <2>3, <2>4, <2>5, <2>6, <2>7 DEF PurchaseMove
<1> QED
  BY <1>2, <1>7

\* Every step keeps what is known of the offer.
LEMMA OfferSafeKeeps ==
    ASSUME JInv, [JNext]_jvars, OfferSafe
    PROVE  OfferSafe'
<1>1. SUFFICES ASSUME "purchase" \in DOMAIN script', faults' = 0
               PROVE  Buyable(script["purchase"])'
  BY DEF OfferSafe
<1>2. PICK s : s = "purchase"
  OBVIOUS
<1>3. s \in DOMAIN script
  BY <1>1, <1>2, SameScripts
<1>4. faults = 0
  <2>1. faults \in Nat /\ faults' \in {faults, faults + 1}
    BY <1>3, Seen
  <2> QED
    BY <1>1, <2>1
<1>5. PICK old : old = script[s]
  OBVIOUS
<1>6. Buyable(old)
  BY <1>2, <1>3, <1>4, <1>5 DEF OfferSafe
<1>7. ASSUME Unmoved(s), Undisturbed => Undisturbed' PROVE Buyable(script["purchase"])'
  <2>1. script'[s] = old /\ (old.task # NoTask => work'[old.task] = work[old.task]
                                                 /\ chain'[old.task] = chain[old.task])
    BY <1>5, <1>7 DEF Unmoved
  <2>2. Buyable(old)'
    BY <1>6, <1>7, <2>1, BuyableStays
  <2> QED
    BY <1>2, <2>1, <2>2
<1>8. ASSUME NEW b \in Tasks, ServiceStep(b), script[s].task # b, Unmoved(s)
      PROVE  Buyable(script["purchase"])'
  <2>1. Similar(book[Buyer], book'[Buyer])
    BY <1>2, <1>3, <1>4, <1>8, OthersSafe
  <2>2. Undisturbed => Undisturbed'
    BY <1>8, <2>1, UndisturbedStays
  <2> QED
    BY <1>7, <1>8, <2>2
<1>9. ASSUME NEW b \in Tasks, ServiceStep(b), script[s].task = b PROVE Buyable(script["purchase"])'
  BY <1>1, <1>2, <1>3, <1>4, <1>5, <1>6, <1>9, OwnServiceBuyable
<1>10. ASSUME ScriptStep(s) PROVE Buyable(script["purchase"])'
  BY <1>1, <1>2, <1>3, <1>4, <1>5, <1>6, <1>10, OfferSafeAlone
<1>11. ASSUME Unmoved(s), UNCHANGED <<book, sent>>, Quiet PROVE Buyable(script["purchase"])'
  <2>1. \A w \in Tasks : work'[w].pc \in {"capture", "emit"} => work'[w] = work[w]
    BY <1>11 DEF Quiet
  <2>2. Undisturbed => Undisturbed'
    BY <1>11, <2>1 DEF Undisturbed, StillSeed, Similar
  <2> QED
    BY <1>7, <1>11, <2>2
<1> QED
  BY <1>3, <1>8, <1>9, <1>10, <1>11, Seen

(***************************************************************************)
(* What is offered can be bought, whatever the catalogue and the records    *)
(* are, unless something that is required has lapsed: until the addition is *)
(* written the buyer has the products of the beginning, in the record, in   *)
(* all that was sent of it and in every event on its way, however often     *)
(* they are repriced, so that the verdict on the cached record and the      *)
(* verdict on the active lines are about the same products.                 *)
(***************************************************************************)
THEOREM OffersBought == JSpec => []OffersAccepted
<1>1. JInit => OfferSafe
  <2> SUFFICES ASSUME JInit, "purchase" \in DOMAIN script PROVE Buyable(script["purchase"])
    BY DEF OfferSafe
  <2>1. PICK new : new = NewScript
    OBVIOUS
  <2>2. script["purchase"] = new
    BY <2>1 DEF JInit
  <2>3. new.pc = "start" /\ new.task = NoTask
    BY <2>1 DEF NewScript
  <2>4. JInv
    BY JourneysInit
  <2>5. PICK lines \in Seq(Line) : lines = book[Buyer]
    BY <2>4, JourneyParameters DEF JInv, IInv, TypeOK
  <2>6. StillSeed(lines)
    BY <2>5, JourneyParameters DEF JInit, Init, BillingInit, StillSeed, Similar
  <2>7. \A others \in sent : StillSeed(others)
    BY <2>5, <2>6 DEF JInit
  <2>8. \A w \in Tasks : work[w].pc = "idle"
    <3>1. \A w \in Tasks : work[w] = NoWork
      BY DEF JInit, Init, BillingInit
    <3> QED
      BY <3>1 DEF NoWork
  <2>9. Undisturbed
    BY <2>5, <2>6, <2>7, <2>8 DEF Undisturbed
  <2> QED
    BY <2>2, <2>3, <2>9 DEF Buyable
<1>2. JInv /\ [JNext]_jvars /\ OfferSafe => OfferSafe'
  BY OfferSafeKeeps
<1>3. JInv /\ OfferSafe => OffersAccepted
  <2> SUFFICES ASSUME JInv, OfferSafe, "purchase" \in DOMAIN script,
                      script["purchase"].pc = "purchasing", script["purchase"].reply = "error",
                      ~RequiresLapsed(book[Buyer], script["purchase"].offer.sku)
               PROVE  faults > 0
    BY DEF OffersAccepted
  <2>1. faults \in Nat
    BY JInvFaults
  <2>2. script["purchase"].task = NoTask
    BY DEF JInv, ScriptFits, Awaited
  <2>3. ASSUME faults = 0 PROVE FALSE
    <3>1. Buyable(script["purchase"])
      BY <2>3 DEF OfferSafe
    <3>2. StillSeed(book[Buyer]) /\ SeedLapsed(script["purchase"].offer.sku)
      BY <2>2, <3>1 DEF Buyable, Pending, Undisturbed
    <3> QED
      BY <3>2, SimilarLapsed DEF StillSeed, SeedLapsed
  <2> QED
    BY <2>1, <2>3
<1> QED
  BY <1>1, <1>2, <1>3, JourneyInvariant, PTL DEF JSpec

-----------------------------------------------------------------------------
(* The pricing journey, step by step.                                         *)

\* The handler a pricing journey waits for.
LEMMA PricingAsks ==
    ASSUME JInv, "pricing" \in DOMAIN script, NEW b \in Tasks, NEW journey,
           journey = script["pricing"], journey.task = b
    PROVE  /\ ~OfPurchase(b) /\ ~Free(b) /\ journey.pc \in {"updating", "recalculating", "restoring"}
           /\ chain[b].pc # "idle" => Asked(journey, chain[b].intent) /\ chain[b].intent.sku = PricedSku
           /\ chain[b].pc # "idle" /\ work[b].pc # "idle" =>
                 /\ chain[b].pc = "wait" /\ work[b].req.sku = PricedSku
                 /\ journey.pc = "updating" => work[b].req.op = "price" /\ work[b].req.list = PricedAt
                 /\ journey.pc = "recalculating" => work[b].req.op = "recalculate"
                 /\ journey.pc = "restoring" => work[b].req.op = "price" /\ work[b].req.list = journey.price
           /\ chain[b].pc = "idle" =>
                 /\ journey.pc = "restoring" /\ work[b].pc # "idle"
                 /\ DirectUpdate(work[b].req) /\ work[b].req.sku = PricedSku
<1>1. b # NoTask
  BY JourneyParameters
<1>2. ~Free(b) /\ Owner(b) = "pricing" /\ Asks(journey, b) /\ journey.pc \in Waiting
  BY <1>1 DEF JInv, ScriptFits, Awaited
<1>3. ~OfPurchase(b)
  BY <1>2 DEF Owner
<1>4. journey.pc \in {"updating", "recalculating", "restoring"}
  <2>1. journey.pc \in PricingLabels
    BY DEF JInv, ScriptFits, PhaseFits
  <2> QED
    BY <1>2, <2>1 DEF Waiting, PricingLabels
<1>5. ASSUME chain[b].pc # "idle" PROVE Asked(journey, chain[b].intent) /\ chain[b].intent.sku = PricedSku
  BY <1>2, <1>4, <1>5 DEF Asks, Asked, Carries
<1>6. \A intent : /\ RequestOf(intent).sku = intent.sku /\ RequestOf(intent).list = intent.list
                  /\ intent.intent = "update_product_price" => RequestOf(intent).op = "price"
                  /\ intent.intent = "recalculate_billing" => RequestOf(intent).op = "recalculate"
  BY DEF RequestOf, NoRequest, Operation
<1>7. ASSUME chain[b].pc # "idle", work[b].pc # "idle"
      PROVE  /\ chain[b].pc = "wait" /\ work[b].req.sku = PricedSku
             /\ journey.pc = "updating" => work[b].req.op = "price" /\ work[b].req.list = PricedAt
             /\ journey.pc = "recalculating" => work[b].req.op = "recalculate"
             /\ journey.pc = "restoring" => work[b].req.op = "price" /\ work[b].req.list = journey.price
  <2>1. chain[b].pc = "wait" /\ work[b].req = RequestOf(chain[b].intent)
    BY <1>7, OwnRequest
  <2> QED
    BY <1>4, <1>5, <1>6, <1>7, <2>1 DEF Asked, Carries
<1> QED
  BY <1>2, <1>3, <1>4, <1>5, <1>7 DEF Asks, Free

\* Another handler's step writes nobody but the buyer.
LEMMA OthersPricing ==
    ASSUME JInv, "pricing" \in DOMAIN script, NEW b \in Tasks, ServiceStep(b),
           script["pricing"].task # b, script["pricing"].clean \/ faults = 0
    PROVE  OfPurchase(b) /\ UNCHANGED price /\ \A c \in Customers \ {Buyer} : book'[c] = book[c]
<1>1. ~Free(b)
  BY ServiceSteps DEF Turn, Going, Ending
<1>2. OfPurchase(b)
  BY <1>1 DEF JInv, TaskFits, Accounted, Owner
<1> QED
  BY <1>2, PurchaseWrites

\* A call for the journey: its record goes on, waiting for a new handler.
Asking(old, new, label) ==
    /\ Free(NewTask) /\ NewTask \in Tasks /\ chain'[NewTask].pc = "permission" /\ UNCHANGED work
    /\ new = [old EXCEPT !.pc = label, !.task = NewTask, !.reply = "none"]

Noted(old, c) == IF Priced(book[c]) = {} THEN old.charges[c] ELSE book[c][Max(Priced(book[c]))].charge

\* What a step of its own makes of the pricing journey.
PricingMove(old, new) ==
    \/ /\ old.pc = "start" /\ new.pc = "snapshot" /\ new.before = book /\ new.task = NoTask
    \/ /\ old.pc = "snapshot"
       /\ new = [old EXCEPT !.pc = "charges", !.price = price[PricedSku], !.todo = Customers]
    \/ /\ old.pc = "charges" /\ \E c \in old.todo :
             new = [old EXCEPT !.charges = [@ EXCEPT ![c] = Noted(old, c)], !.todo = @ \ {c}]
    \/ /\ old.pc = "charges" /\ old.todo = {} /\ new = [old EXCEPT !.pc = "update"]
    \/ /\ \/ old.pc = "update"
          \/ old.pc = "updating" /\ old.reply = "permitted"
       /\ faults' = faults + 1 /\ new = [old EXCEPT !.pc = "teardown"]
    \/ /\ old.pc = "update" /\ Asking(old, new, "updating")
    \/ /\ old.pc = "updating" /\ old.reply = "permitted" /\ Asking(old, new, "recalculating")
    \/ /\ \/ old.pc \in {"teardown", "recalculating"}
          \/ old.pc = "updating" /\ old.reply \in NotPermitted
       /\ Asking(old, new, "restoring")
    \/ /\ old.pc = "restoring" /\ Free(NewTask) /\ NewTask \in Tasks
       /\ \E c \in Customers :
             /\ old.charges[c] # KeptCharge /\ chain'[NewTask] = chain[NewTask]
             /\ work'[NewTask].pc = "arrived" /\ work'[NewTask].req.cust = c
             /\ work'[NewTask].req.charge = old.charges[c]
             /\ new = [old EXCEPT !.task = NewTask, !.reply = "none",
                                  !.charges = [@ EXCEPT ![c] = KeptCharge]]
    \/ /\ old.pc = "restoring" /\ (\A c \in Customers : old.charges[c] = KeptCharge)
       /\ new = [old EXCEPT !.pc = "done"]

\* The steps of the pricing journey are moves.
LEMMA PricingMoves ==
    ASSUME JInv, "pricing" \in DOMAIN script, ScriptStep("pricing"), NEW old, NEW new,
           old = script["pricing"], new = script'["pricing"]
    PROVE  /\ UNCHANGED <<book, price>>
           /\ \/ ~new.clean /\ faults' = faults + 1
              \/ old.task = NoTask /\ new.clean = old.clean /\ PricingMove(old, new)
<1>1. PICK s : s = "pricing"
  OBVIOUS
<1>2. old \in Script /\ old.pc \in PricingLabels /\ script \in [DOMAIN script -> Script]
  BY KnownScript DEF PhaseFits, JInv, ScriptsTyped
<1>3. UNCHANGED <<book, price>>
  BY ScriptsAlone DEF Alone
<1>4. CASE ClientTimeout(s)
  <2>1. new = [old EXCEPT !.task = NoTask, !.reply = "timeout", !.clean = FALSE]
    BY <1>1, <1>2, <1>4 DEF ClientTimeout
  <2>2. ~new.clean
    BY <1>2, <2>1 DEF Script
  <2> QED
    BY <1>3, <1>4, <2>2 DEF ClientTimeout, Fault
<1>5. ASSUME old.task = NoTask, PricingMove(old, new), new.clean = old.clean
      PROVE  /\ UNCHANGED <<book, price>>
             /\ \/ ~new.clean /\ faults' = faults + 1
                \/ old.task = NoTask /\ new.clean = old.clean /\ PricingMove(old, new)
  BY <1>3, <1>5
<1>6. ASSUME NEW label, new = [old EXCEPT !.pc = label] PROVE new.clean = old.clean
  BY <1>2, <1>6 DEF Script
<1>7. CASE ReadFails(s)
  <2>1. /\ old.task = NoTask
        /\ \/ old.pc = "update"
           \/ old.pc = "updating" /\ old.reply = "permitted"
    BY <1>1, <1>2, <1>7 DEF ReadFails, Replied, At, PricingLabels
  <2>2. new = [old EXCEPT !.pc = "teardown"] /\ faults' = faults + 1
    BY <1>1, <1>2, <1>7 DEF ReadFails, Advance, Fault
  <2> QED
    BY <1>5, <1>6, <2>1, <2>2 DEF PricingMove
<1>8. CASE Start(s, "snapshot")
  <2>1. PICK client \in ScriptClients : new = [old EXCEPT !.pc = "snapshot", !.client = client, !.before = book]
    BY <1>1, <1>2, <1>8 DEF Start
  <2>2. new.pc = "snapshot" /\ new.before = book /\ new.task = old.task /\ new.clean = old.clean
    BY <1>2, <2>1 DEF Script
  <2>3. old.pc = "start" /\ old.task = NoTask
    BY <1>1, <1>8 DEF Start, At
  <2> QED
    BY <1>5, <2>2, <2>3 DEF PricingMove
<1>9. CASE SnapshotPrice
  <2>1. new = [old EXCEPT !.pc = "charges", !.price = price[PricedSku], !.todo = Customers]
    BY <1>2, <1>9 DEF SnapshotPrice
  <2>2. new.clean = old.clean
    BY <1>2, <2>1 DEF Script
  <2>3. old.pc = "snapshot" /\ old.task = NoTask
    BY <1>9 DEF SnapshotPrice, At
  <2> QED
    BY <1>5, <2>1, <2>2, <2>3 DEF PricingMove
<1>10. CASE SnapshotCharge
  <2>1. PICK c : c = CHOOSE d \in old.todo : TRUE
    OBVIOUS
  <2>2. c \in old.todo /\ old.pc = "charges" /\ old.task = NoTask
    BY <1>10, <2>1 DEF SnapshotCharge, At
  <2>3. PICK charge : charge = Noted(old, c)
    OBVIOUS
  <2>4. PICK charges : charges = [old.charges EXCEPT ![c] = charge]
    OBVIOUS
  <2>5. new = [old EXCEPT !.charges = charges, !.todo = @ \ {c}]
    <3>1. script' = [script EXCEPT ![s].charges[c] = IF Priced(book[c]) = {} THEN @
                                                       ELSE book[c][Max(Priced(book[c]))].charge,
                                   ![s].todo = old.todo \ {c}]
      BY <1>1, <1>10, <2>1 DEF SnapshotCharge
    <3>2. c \in DOMAIN old.charges
      BY <1>2, <2>2 DEF Script
    <3>3. script' = [script EXCEPT ![s].charges[c] = charge, ![s].todo = old.todo \ {c}]
      BY <1>1, <1>2, <2>3, <3>1, <3>2 DEF Noted, Script
    <3> QED
      BY <1>1, <1>2, <2>4, <3>3 DEF Script
  <2>6. new.clean = old.clean
    BY <1>2, <2>5 DEF Script
  <2> QED
    BY <1>5, <2>2, <2>3, <2>4, <2>5, <2>6 DEF PricingMove
<1>11. CASE Snapshotted
  <2>1. new = [old EXCEPT !.pc = "update"] /\ old.pc = "charges" /\ old.task = NoTask /\ old.todo = {}
    BY <1>2, <1>11 DEF Snapshotted, Advance, At
  <2> QED
    BY <1>5, <1>6, <2>1 DEF PricingMove
<1>12. ASSUME NEW label, NEW client, NEW kind, NEW list,
              Call(s, label, client, kind, Nobody, PricedSku, 0, list)
       PROVE  Asking(old, new, label) /\ new.clean = old.clean
  <2>1. /\ UNCHANGED billingVars /\ NewTask \in Tasks /\ Free(NewTask)
        /\ chain'[NewTask].pc = "permission"
        /\ new = [old EXCEPT !.pc = label, !.task = NewTask, !.reply = "none"]
    BY <1>1, <1>12, CallMoves
  <2>2. new.clean = old.clean
    BY <1>2, <2>1 DEF Script
  <2> QED
    BY <2>1, <2>2 DEF Asking, billingVars
<1>13. CASE UpdatePrice
  <2>1. old.pc = "update" /\ old.task = NoTask
    BY <1>13 DEF UpdatePrice, At
  <2>2. Asking(old, new, "updating") /\ new.clean = old.clean
    BY <1>1, <1>12, <1>13 DEF UpdatePrice
  <2> QED
    BY <1>5, <2>1, <2>2 DEF PricingMove
<1>14. CASE Recalculate
  <2>1. old.pc = "updating" /\ old.reply = "permitted" /\ old.task = NoTask
    BY <1>14 DEF Recalculate, Replied, At
  <2>2. Asking(old, new, "recalculating") /\ new.clean = old.clean
    BY <1>1, <1>12, <1>14 DEF Recalculate
  <2> QED
    BY <1>5, <2>1, <2>2 DEF PricingMove
<1>15. CASE RestorePrice
  <2>1. /\ \/ old.pc \in {"teardown", "recalculating"}
           \/ old.pc = "updating" /\ old.reply \in NotPermitted
        /\ old.task = NoTask
    BY <1>15 DEF RestorePrice, PricingOver, Replied, At
  <2>2. Asking(old, new, "restoring") /\ new.clean = old.clean
    BY <1>1, <1>12, <1>15 DEF RestorePrice
  <2> QED
    BY <1>5, <2>1, <2>2 DEF PricingMove
<1>16. CASE RestoreCharge
  <2>1. PICK b \in Tasks : b = NewTask /\ Free(b)
    BY <1>16, FreeTask DEF RestoreCharge
  <2>2. PICK c : c = CHOOSE d \in Due : TRUE
    OBVIOUS
  <2>3. old.pc = "restoring" /\ old.task = NoTask /\ c \in Customers /\ old.charges[c] # KeptCharge
    BY <1>16, <2>2 DEF RestoreCharge, At, Due
  <2>4. PICK charge : charge = old.charges[c]
    OBVIOUS
  <2>5. PICK req : req = [NoRequest EXCEPT !.op = "update", !.cust = c, !.sku = PricedSku, !.charge = charge]
    OBVIOUS
  <2>6. req.cust = c /\ req.charge = charge /\ ChargeRequest(c) = req
    BY <2>4, <2>5 DEF ChargeRequest, NoRequest
  <2>7. PICK h : h = [NoWork EXCEPT !.pc = "arrived", !.req = req]
    OBVIOUS
  <2>8. h.pc = "arrived" /\ h.req = req
    BY <2>7 DEF NoWork
  <2>9. work'[b] = h /\ chain'[b] = chain[b]
    BY <1>16, <2>1, <2>2, <2>6, <2>7, Known DEF RestoreCharge, Arrive, brokerVars
  <2>10. PICK charges : charges = [old.charges EXCEPT ![c] = KeptCharge]
    OBVIOUS
  <2>11. new = [old EXCEPT !.task = NewTask, !.reply = "none", !.charges = charges]
    <3>1. script' = [script EXCEPT ![s].task = b, ![s].reply = "none", ![s].charges[c] = KeptCharge]
      BY <1>1, <1>16, <2>1, <2>2 DEF RestoreCharge
    <3> QED
      BY <1>1, <1>2, <2>1, <2>10, <3>1 DEF Script
  <2>12. new.clean = old.clean
    BY <1>2, <2>11 DEF Script
  <2>13. PricingMove(old, new)
    <3>1. /\ old.charges[c] # KeptCharge /\ chain'[NewTask] = chain[NewTask]
          /\ work'[NewTask].pc = "arrived" /\ work'[NewTask].req.cust = c
          /\ work'[NewTask].req.charge = old.charges[c]
      BY <2>1, <2>3, <2>4, <2>6, <2>8, <2>9
    <3>2. new = [old EXCEPT !.task = NewTask, !.reply = "none",
                            !.charges = [@ EXCEPT ![c] = KeptCharge]]
      BY <1>2, <2>10, <2>11 DEF Script
    <3>3. Free(NewTask) /\ NewTask \in Tasks
      BY <2>1
    <3> QED
      BY <2>3, <3>1, <3>2, <3>3 DEF PricingMove
  <2> QED
    BY <1>5, <2>3, <2>12, <2>13
<1>17. CASE PricingDone
  <2>1. /\ new = [old EXCEPT !.pc = "done"] /\ old.pc = "restoring" /\ old.task = NoTask
        /\ \A c \in Customers : old.charges[c] = KeptCharge
    BY <1>2, <1>17 DEF PricingDone, Advance, At, Due
  <2> QED
    BY <1>5, <1>6, <2>1 DEF PricingMove
<1> QED
  BY <1>1, <1>4, <1>7, <1>8, <1>9, <1>10, <1>11, <1>13, <1>14, <1>15, <1>16, <1>17
     DEF ScriptStep, PricingJourney

-----------------------------------------------------------------------------
(* A price and its charges are restored.                                      *)

NotBuyer == Customers \ {Buyer}

Matches(journey, c, charge) == \A i \in Priced(journey.before[c]) : journey.before[c][i].charge = charge

\* The price is still to be written by the handler the script waits for.
PriceSent(journey) ==
    journey.task # NoTask /\ chain[journey.task].pc # "idle" /\ work[journey.task].pc \in {"idle", "arrived"}

Sending(journey, c) ==
    /\ journey.task # NoTask /\ chain[journey.task].pc = "idle" /\ work[journey.task].pc = "arrived"
    /\ work[journey.task].req.cust = c

AsBefore(journey, c) == \A i \in Priced(book[c]) : book[c][i].charge = journey.before[c][i].charge

(***************************************************************************)
(* The charge of a customer is noted and due, is being restored, or is      *)
(* restored.                                                                *)
(***************************************************************************)
Restored(journey, c) ==
    \/ Matches(journey, c, journey.charges[c])
    \/ journey.charges[c] = KeptCharge
          /\ IF Sending(journey, c) THEN Matches(journey, c, work[journey.task].req.charge)
             ELSE AsBefore(journey, c)

SamePortfolio(journey, c) == Similar(journey.before[c], book[c])

Repricing(journey) ==
    /\ journey.pc # "start" => \A c \in NotBuyer : SamePortfolio(journey, c)
    /\ journey.pc \in {"snapshot", "charges"} => \A c \in NotBuyer : book[c] = journey.before[c]
    /\ journey.pc = "charges" => \A c \in NotBuyer : c \in journey.todo \/ Matches(journey, c, journey.charges[c])
    /\ journey.pc \in {"update", "updating", "recalculating", "teardown"} =>
          \A c \in NotBuyer : Matches(journey, c, journey.charges[c])
    /\ journey.pc = "restoring" => /\ PriceSent(journey) \/ price[PricedSku] = journey.price
                                   /\ \A c \in NotBuyer : Restored(journey, c)
    /\ journey.pc = "done" => /\ price[PricedSku] = journey.price
                              /\ \A c \in NotBuyer : AsBefore(journey, c)

PriceSafe == "pricing" \in DOMAIN script /\ script["pricing"].clean => Repricing(script["pricing"])

\* The snapshot is not written again.
LEMMA MatchesStays ==
    ASSUME NEW journey, NEW c, NEW charge
    PROVE  Matches(journey, c, charge)' <=> Matches(journey, c, charge)
  BY DEF Matches, Priced

\* Nothing but the buyer's record, and other handlers than the script's, has moved.
LEMMA RepricingStays ==
    ASSUME NEW journey, Repricing(journey), UNCHANGED price, \A c \in NotBuyer : book'[c] = book[c],
           journey.task # NoTask => /\ work'[journey.task] = work[journey.task]
                                    /\ chain'[journey.task] = chain[journey.task]
    PROVE  Repricing(journey)'
<1>1. PriceSent(journey)' <=> PriceSent(journey)
  BY DEF PriceSent
<1>2. ASSUME NEW c \in NotBuyer
      PROVE  /\ Restored(journey, c) => Restored(journey, c)'
             /\ AsBefore(journey, c) => AsBefore(journey, c)'
             /\ SamePortfolio(journey, c) => SamePortfolio(journey, c)'
             /\ Matches(journey, c, journey.charges[c])' <=> Matches(journey, c, journey.charges[c])
  <2>1. AsBefore(journey, c)' <=> AsBefore(journey, c)
    BY <1>2 DEF AsBefore, Priced
  <2>2. SamePortfolio(journey, c)' <=> SamePortfolio(journey, c)
    BY <1>2 DEF SamePortfolio, Similar
  <2>3. Sending(journey, c)' <=> Sending(journey, c)
    BY DEF Sending
  <2>4. Sending(journey, c) => work'[journey.task] = work[journey.task]
    BY DEF Sending
  <2>5. Matches(journey, c, journey.charges[c])' <=> Matches(journey, c, journey.charges[c])
    BY MatchesStays
  <2>6. Sending(journey, c) => (Matches(journey, c, work[journey.task].req.charge)'
                                  <=> Matches(journey, c, work[journey.task].req.charge))
    BY <2>4 DEF Matches, Priced
  <2> QED
    BY <2>1, <2>2, <2>3, <2>5, <2>6 DEF Restored
<1>3. NotBuyer' = NotBuyer
  BY DEF NotBuyer
<1> QED
  BY <1>1, <1>2, <1>3 DEF Repricing

\* A charge that was noted is the one of the product's only line.
LEMMA NotedMatches ==
    ASSUME JInv, NEW c \in Customers, NEW old, NEW new, new.before[c] = book[c]
    PROVE  Matches(new, c, Noted(old, c))
<1>1. PICK lines \in Seq(Line) : lines = book[c] /\ OnePerSku(lines)
  BY DEF JInv, IInv, TypeOK, OneLinePerSku
<1>2. SUFFICES ASSUME NEW i \in Priced(lines) PROVE lines[i].charge = Noted(old, c)
  BY <1>1 DEF Matches
<1>3. Priced(lines) \subseteq 1 .. Len(lines) /\ Len(lines) \in Nat
  BY DEF Priced
<1>4. Max(Priced(lines)) \in Priced(lines)
  BY <1>2, <1>3, LastOf
<1>5. Max(Priced(lines)) = i
  BY <1>1, <1>4 DEF Priced, OnePerSku
<1> QED
  BY <1>1, <1>5 DEF Noted

\* A step of the handler that restores the price or a charge.
LEMMA OwnWorkRestores ==
    ASSUME JInv, "pricing" \in DOMAIN script, NEW b \in Tasks, NEW journey, journey = script["pricing"],
           journey.task = b, Repricing(journey), ServiceStep(b), Working(b), journey.pc = "restoring"
    PROVE  Repricing(journey)'
<1>1. b # NoTask /\ PricedSku \in Skus
  BY JourneyParameters
<1>2. work[b].pc # "idle" /\ UNCHANGED chain /\ ~OfPurchase(b)
  BY WorkKnown, PricingAsks
<1>3. \A c \in NotBuyer : SamePortfolio(journey, c)'
  <2> SUFFICES ASSUME NEW c \in NotBuyer PROVE SamePortfolio(journey, c)'
    BY DEF NotBuyer
  <2>1. c \in Customers
    BY DEF NotBuyer
  <2>2. Similar(book[c], book'[c])
    BY <1>2, <2>1, PricingWrites
  <2>3. Similar(journey.before[c], book[c])
    BY DEF Repricing, SamePortfolio
  <2>4. Similar(journey.before[c], book'[c])
    BY <2>2, <2>3, SimilarChain
  <2> QED
    BY <2>4 DEF SamePortfolio, Similar
<1>4. NotBuyer' = NotBuyer
  BY DEF NotBuyer
<1>5. SUFFICES ASSUME TRUE
               PROVE  /\ PriceSent(journey)' \/ price'[PricedSku] = journey.price
                      /\ \A c \in NotBuyer : Restored(journey, c)'
  BY <1>3, <1>4 DEF Repricing
<1>6. CASE chain[b].pc # "idle"
  <2>1. work[b].req.op = "price" /\ work[b].req.sku = PricedSku /\ work[b].req.list = journey.price
    BY <1>2, <1>6, PricingAsks
  <2>2. UpdateProduct(b) \/ AnnounceProduct(b)
    BY <2>1, WorkKinds
  <2>3. UNCHANGED book
    BY <2>2 DEF UpdateProduct, AnnounceProduct
  <2>4. price'[PricedSku] = journey.price
    <3>1. CASE UpdateProduct(b)
      <4>1. price \in [Skus -> Nat]
        BY DEF JInv, IInv, TypeOK
      <4> QED
        BY <1>1, <2>1, <3>1, <4>1 DEF UpdateProduct
    <3>2. CASE AnnounceProduct(b)
      BY <3>2 DEF AnnounceProduct, PriceSent, Repricing
    <3> QED
      BY <2>2, <3>1, <3>2
  <2>5. ASSUME NEW c \in NotBuyer PROVE Restored(journey, c)'
    <3>1. AsBefore(journey, c)' <=> AsBefore(journey, c)
      BY <2>3 DEF AsBefore, Priced
    <3>2. ~Sending(journey, c) /\ ~Sending(journey, c)'
      BY <1>2, <1>6 DEF Sending
    <3>3. Restored(journey, c)
      BY DEF Repricing
    <3> QED
      BY <3>1, <3>2, <3>3, MatchesStays DEF Restored
  <2> QED
    BY <2>4, <2>5
<1>7. CASE chain[b].pc = "idle"
  <2>1. PICK req : req = work[b].req
    OBVIOUS
  <2>2. DirectUpdate(req) /\ req.sku = PricedSku
    BY <1>7, <2>1, PricingAsks
  <2>3. req.op = "update" /\ req.stat = Kept /\ req.cust \in Customers
    BY <2>2 DEF DirectUpdate
  <2>4. UpdateLine(b) \/ UpdateUnknown(b) \/ Capture(b, TRUE) \/ Fails(b)
    BY <2>1, <2>3, WorkKinds
  <2>5. price'[PricedSku] = journey.price
    <3>1. UNCHANGED price
      BY <2>4 DEF UpdateLine, Commit, UpdateUnknown, Refuse, Capture, Fails, FetchFails
    <3> QED
      BY <1>7, <3>1 DEF Repricing, PriceSent
  <2>6. ASSUME NEW c \in NotBuyer PROVE Restored(journey, c)'
    <3>1. Restored(journey, c) /\ c \in Customers
      BY DEF Repricing, NotBuyer
    <3>2. SUFFICES ASSUME ~Matches(journey, c, journey.charges[c]) PROVE Restored(journey, c)'
      BY MatchesStays DEF Restored
    <3>3. /\ journey.charges[c] = KeptCharge
          /\ IF Sending(journey, c) THEN Matches(journey, c, req.charge) ELSE AsBefore(journey, c)
      BY <2>1, <3>1, <3>2 DEF Restored, Sending
    <3>4. SUFFICES ASSUME TRUE PROVE ~Sending(journey, c)' /\ AsBefore(journey, c)'
      BY <3>3 DEF Restored
    <3>5. work'[b].pc # "arrived"
      <4>1. CASE UpdateLine(b)
        BY <4>1, UpdateWrites
      <4>2. ASSUME NEW ok, Finish(b, ok) PROVE work'[b].pc # "arrived"
        BY <4>2, Finished
      <4> QED
        BY <2>4, <4>1, <4>2 DEF UpdateUnknown, Refuse, Capture, Fails, FetchFails
    <3>6. ~Sending(journey, c)'
      BY <3>5 DEF Sending
    <3>7. CASE book'[c] = book[c] /\ ~Sending(journey, c)
      BY <3>3, <3>6, <3>7 DEF AsBefore, Priced
    <3>8. CASE UpdateUnknown(b) /\ Sending(journey, c)
      <4>1. req.cust = c /\ book'[c] = book[c]
        BY <2>1, <3>8 DEF UpdateUnknown, Refuse, Sending
      <4>2. Priced(book[c]) = {}
        BY <2>1, <2>2, <3>8, <4>1 DEF UpdateUnknown, Holds, Priced
      <4> QED
        BY <3>6, <4>1, <4>2 DEF AsBefore, Priced
    <3>9. CASE UpdateLine(b) /\ req.cust = c
      <4>1. Matches(journey, c, req.charge)
        BY <1>1, <1>7, <2>1, <3>3, <3>9 DEF Sending, UpdateLine
      <4>2. PICK lines \in Seq(Line) : lines = book[c] /\ OnePerSku(lines)
        BY <3>1 DEF JInv, IInv, TypeOK, OneLinePerSku
      <4>3. PICK n : n = LineOf(lines, req.sku)
        OBVIOUS
      <4>4. PICK later : later = book'[c]
        OBVIOUS
      <4>5. /\ n \in DOMAIN lines /\ lines[n].sku = PricedSku /\ DOMAIN later = DOMAIN lines
            /\ \A i \in DOMAIN lines : later[i] = IF i = n THEN Updated(lines[n], req) ELSE lines[i]
        BY <2>1, <2>2, <3>9, <4>2, <4>3, <4>4, UpdateWrites
      <4>6. PICK line \in Line : line = lines[n]
        BY <4>5
      <4>7. PICK charge : charge = IF req.charge = KeptCharge THEN line.charge ELSE req.charge
        OBVIOUS
      <4>8. Updated(line, req) = [line EXCEPT !.charge = charge]
        BY <2>3, <4>6, <4>7 DEF Updated, Line
      <4>9. later[n].sku = PricedSku /\ later[n].stat = lines[n].stat /\ later[n].charge = charge
        BY <4>5, <4>6, <4>8 DEF Line
      <4>10. ASSUME NEW i \in Priced(later) PROVE later[i].charge = journey.before[c][i].charge
        <5>1. i = n /\ lines[n].stat # "C"
          BY <4>2, <4>5, <4>9 DEF Priced, OnePerSku
        <5>2. PICK before \in Seq(Line) : before = journey.before[c]
          <6>1. journey \in Script
            BY KnownScript
          <6>2. journey.before \in [Customers -> Seq(Line)]
            BY <6>1 DEF Script
          <6> QED
            BY <3>1, <6>2
        <5>3. Similar(before, lines)
          BY <4>2, <5>2 DEF Repricing, SamePortfolio
        <5>4. n \in Priced(before)
          BY <4>5, <5>1, <5>3 DEF Similar, Priced
        <5>5. before[n] \in Line
          BY <5>4 DEF Priced
        <5>6. before[n].charge = req.charge /\ req.charge \in Nat
          BY <4>1, <5>2, <5>4, <5>5 DEF Matches, Line
        <5> QED
          BY <4>7, <4>9, <5>1, <5>2, <5>6 DEF KeptCharge
      <4> QED
        BY <3>6, <4>4, <4>10 DEF AsBefore, Priced
    <3>10. Sending(journey, c) => work[b].pc = "arrived" /\ req.cust = c
      BY <2>1 DEF Sending
    <3>11. UpdateLine(b) /\ req.cust # c => book'[c] = book[c]
      BY <2>1, <3>1, UpdateWrites
    <3> QED
      BY <2>4, <3>7, <3>8, <3>9, <3>10, <3>11
         DEF UpdateUnknown, Refuse, Capture, Fails, FetchFails
  <2> QED
    BY <2>5, <2>6
<1> QED
  BY <1>6, <1>7

SameNotes(old, new) == new.before = old.before /\ new.charges = old.charges /\ new.price = old.price

\* Whoever restores goes on restoring: no charge is on its way to Billing.
LEMMA RestoringStays ==
    ASSUME NEW old, NEW new, old.pc = "restoring", new.pc = "restoring", SameNotes(old, new), Repricing(old),
           UNCHANGED book, PriceSent(new)' \/ price'[PricedSku] = old.price,
           \A c \in NotBuyer : ~Sending(old, c) /\ ~Sending(new, c)'
    PROVE  Repricing(new)'
<1>1. ASSUME NEW c \in NotBuyer PROVE Restored(new, c)' /\ SamePortfolio(new, c)'
  <2>1. Matches(new, c, new.charges[c])' <=> Matches(old, c, old.charges[c])
    BY DEF Matches, Priced, SameNotes
  <2>2. AsBefore(new, c)' <=> AsBefore(old, c)
    BY DEF AsBefore, Priced, SameNotes
  <2>3. SamePortfolio(new, c)' <=> SamePortfolio(old, c)
    BY DEF SamePortfolio, Similar, SameNotes
  <2>4. Restored(old, c) /\ SamePortfolio(old, c)
    BY DEF Repricing
  <2> QED
    BY <2>1, <2>2, <2>3, <2>4 DEF Restored, SameNotes
<1>2. NotBuyer' = NotBuyer
  BY DEF NotBuyer
<1> QED
  BY <1>1, <1>2 DEF Repricing, SameNotes

\* Any step of the handler that the pricing journey waits for, the answer included.
LEMMA OwnServiceRestores ==
    ASSUME JInv, "pricing" \in DOMAIN script, NEW b \in Tasks, ServiceStep(b),
           script["pricing"].task = b, Repricing(script["pricing"]), script'["pricing"].clean
    PROVE  Repricing(script["pricing"])'
<1>1. PICK old : old = script["pricing"]
  OBVIOUS
<1>2. PICK new : new = script'["pricing"]
  OBVIOUS
<1>3. b # NoTask /\ Repricing(old) /\ old.task = b
  BY <1>1, JourneyParameters
<1>4. ~OfPurchase(b) /\ old.pc \in {"updating", "recalculating", "restoring"}
  BY <1>1, PricingAsks
<1>5. ASSUME Going(b) PROVE new = old
  BY <1>1, <1>2, <1>5, GoingTold
<1>6. ASSUME Answered(b)
      PROVE  /\ new.task = NoTask /\ new.reply = Outcome(b) /\ Outcome(b) # "error"
             /\ SameNotes(old, new) /\ new.pc = old.pc
  BY <1>1, <1>2, <1>6, EndingTold DEF Remembers, SameNotes
<1>7. Going(b) \/ Answered(b)
  BY ServiceSteps DEF Turn, Ending
<1>8. SameNotes(old, new) /\ new.pc = old.pc
  BY <1>5, <1>6, <1>7 DEF SameNotes
<1>9. NotBuyer' = NotBuyer /\ NotBuyer \subseteq Customers
  BY DEF NotBuyer
<1>10. CASE old.pc \in {"updating", "recalculating"}
  <2>1. ASSUME NEW c \in NotBuyer PROVE SamePortfolio(new, c)' /\ Matches(new, c, new.charges[c])'
    <3>1. Similar(book[c], book'[c])
      BY <1>4, <1>9, PricingWrites
    <3>2. Similar(old.before[c], book[c])
      BY <1>3, <1>10 DEF Repricing, SamePortfolio
    <3>3. Similar(new.before[c], book'[c])
      BY <1>8, <3>1, <3>2, SimilarChain DEF SameNotes
    <3>4. Matches(old, c, old.charges[c])
      BY <1>3, <1>10 DEF Repricing
    <3>5. Matches(new, c, new.charges[c])'
      BY <1>8, <3>4 DEF Matches, Priced, SameNotes
    <3> QED
      BY <3>3, <3>5 DEF SamePortfolio, Similar
  <2> QED
    BY <1>2, <1>8, <1>9, <1>10, <2>1 DEF Repricing
<1>11. CASE old.pc = "restoring"
  <2>1. ASSUME UNCHANGED book, PriceSent(new)' \/ price'[PricedSku] = old.price,
               \A c \in NotBuyer : ~Sending(old, c) /\ ~Sending(new, c)'
        PROVE  Repricing(new)'
    BY <1>3, <1>8, <1>11, <2>1, RestoringStays
  <2>2. PriceSent(old) \/ price[PricedSku] = old.price
    BY <1>3, <1>11 DEF Repricing
  <2>3. ASSUME Working(b) PROVE Repricing(new)'
    <3>1. Going(b)
      BY <2>3, HandlerTurnGoes DEF Working
    <3> QED
      BY <1>1, <1>3, <1>5, <1>11, <2>3, <3>1, OwnWorkRestores
  <2>4. ASSUME ChainGoes(b) PROVE Repricing(new)'
    <3>1. UNCHANGED <<book, price, work>> /\ chain[b].pc # "idle" /\ work[b].pc = "idle"
      BY <2>4, ChainEnds, Known
         DEF billingVars, ChainGoes, Deny, PolicyEngineDown, Allow, ReadPortfolio, CombinationRejected,
             CombinationAccepted, CombinationUnknown
    <3>2. CASE Going(b)
      <4>1. new = old /\ chain'[b].pc # "idle"
        BY <1>5, <3>1, <3>2 DEF Going
      <4>2. PriceSent(new)'
        BY <1>3, <3>1, <4>1 DEF PriceSent
      <4>3. \A c \in NotBuyer : ~Sending(old, c) /\ ~Sending(new, c)'
        BY <1>3, <3>1, <4>1 DEF Sending
      <4> QED
        BY <2>1, <3>1, <4>2, <4>3
    <3>3. ~(Outcome(b) = "denied" /\ ~Permitted(b))
      <4>1. Asked(old, chain[b].intent)
        BY <1>1, <3>1, PricingAsks
      <4>2. chain[b].intent.caller = "system-admin" /\ chain[b].intent.intent = "update_product_price"
        BY <1>11, <4>1 DEF Asked, Carries
      <4> QED
        BY <4>2 DEF Permitted, AllowedIntents, Intents
    <3> QED
      BY <1>6, <2>4, <3>2, <3>3, ChainEnds
  <2>5. ASSUME Forward(b) PROVE Repricing(new)'
    <3>1. UNCHANGED book /\ Going(b) /\ chain[b].pc # "idle"
      BY <2>5, ForwardGoes DEF Forward, Arrive
    <3>2. PICK req : work'[b] = [NoWork EXCEPT !.pc = "arrived", !.req = req]
      BY <2>5, ForwardGoes
    <3>3. work'[b].pc = "arrived" /\ chain'[b].pc # "idle" /\ new = old
      BY <1>5, <3>1, <3>2 DEF NoWork, Going
    <3>4. PriceSent(new)'
      BY <1>3, <3>3 DEF PriceSent
    <3>5. \A c \in NotBuyer : ~Sending(old, c) /\ ~Sending(new, c)'
      BY <1>3, <3>1, <3>3 DEF Sending
    <3> QED
      BY <2>1, <3>1, <3>4, <3>5
  <2>6. ASSUME EndTurn(b) PROVE Repricing(new)'
    <3>1. Answered(b)
      BY <2>6, EndTurnEnds DEF Ending
    <3>2. /\ UNCHANGED <<book, price>> /\ work[b].pc = "done"
      <4>1. CASE chain[b].pc # "idle"
        BY <1>6, <2>6, <3>1, <4>1, SorEnds
      <4>2. CASE chain[b].pc = "idle"
        BY <2>6, <4>2 DEF EndTurn, SorAnswers, BrokerTimeout, AnswerUnread
      <4> QED
        BY <4>1, <4>2
    <3>3. ~PriceSent(old) /\ \A c \in NotBuyer : ~Sending(old, c)
      BY <1>3, <3>2 DEF PriceSent, Sending
    <3>4. \A c \in NotBuyer : ~Sending(new, c)'
      BY <1>6, <3>1 DEF Sending
    <3>5. price'[PricedSku] = old.price
      BY <2>2, <3>2, <3>3
    <3> QED
      BY <2>1, <3>2, <3>3, <3>4, <3>5
  <2> QED
    BY <1>2, <2>3, <2>4, <2>5, <2>6, HandlerSteps DEF Working
<1> QED
  BY <1>4, <1>10, <1>11

\* A step of the journey itself.
LEMMA PriceSafeAlone ==
    ASSUME JInv, "pricing" \in DOMAIN script, ScriptStep("pricing"), Repricing(script["pricing"]),
           script'["pricing"].clean
    PROVE  Repricing(script["pricing"])'
<1>1. PICK old : old = script["pricing"]
  OBVIOUS
<1>2. PICK new : new = script'["pricing"]
  OBVIOUS
<1>3. UNCHANGED <<book, price>> /\ old.task = NoTask /\ PricingMove(old, new)
  BY <1>1, <1>2, PricingMoves
<1>4. /\ old \in Script /\ Repricing(old) /\ NotBuyer' = NotBuyer /\ NotBuyer \subseteq Customers
      /\ old.charges \in [Customers -> Nat \cup {KeptCharge}] /\ old.todo \subseteq Customers
  BY <1>1, KnownScript DEF NotBuyer, Script
<1>5. ASSUME NEW c \in NotBuyer, SameNotes(old, new)
      PROVE  /\ SamePortfolio(new, c)' <=> SamePortfolio(old, c)
             /\ Matches(new, c, new.charges[c])' <=> Matches(old, c, old.charges[c])
             /\ AsBefore(new, c)' <=> AsBefore(old, c)
  <2>1. SamePortfolio(new, c)' <=> SamePortfolio(old, c)
    BY <1>3, <1>5 DEF SamePortfolio, Similar, SameNotes
  <2>2. Matches(new, c, new.charges[c])' <=> Matches(old, c, old.charges[c])
    BY <1>5 DEF Matches, Priced, SameNotes
  <2>3. AsBefore(new, c)' <=> AsBefore(old, c)
    BY <1>3, <1>5 DEF AsBefore, Priced, SameNotes
  <2> QED
    BY <2>1, <2>2, <2>3
<1>6. ASSUME NEW label, Asking(old, new, label)
      PROVE  /\ new.pc = label /\ SameNotes(old, new) /\ new.task \in Tasks
             /\ chain'[new.task].pc = "permission" /\ work'[new.task].pc = "idle"
  <2>1. new.pc = label /\ SameNotes(old, new) /\ new.task = NewTask
    BY <1>4, <1>6 DEF Asking, Script, SameNotes
  <2> QED
    BY <1>6, <2>1 DEF Asking, Free
<1>7. SUFFICES Repricing(new)'
  BY <1>2
<1>8. CASE old.pc = "start" /\ new.pc = "snapshot" /\ new.before = book
  BY <1>3, <1>4, <1>8 DEF Repricing, SamePortfolio, Similar
<1>9. CASE old.pc = "snapshot" /\ new = [old EXCEPT !.pc = "charges", !.price = price[PricedSku], !.todo = Customers]
  <2>1. new.pc = "charges" /\ new.before = old.before /\ new.todo = Customers
    BY <1>4, <1>9 DEF Script
  <2>2. \A c \in NotBuyer : book[c] = old.before[c]
    BY <1>4, <1>9 DEF Repricing
  <2> QED
    BY <1>3, <1>4, <2>1, <2>2 DEF Repricing, SamePortfolio, Similar
<1>10. ASSUME old.pc = "charges",
             NEW d \in old.todo, new = [old EXCEPT !.charges = [@ EXCEPT ![d] = Noted(old, d)], !.todo = @ \ {d}]
      PROVE  Repricing(new)'
  <2>1. PICK charge : charge = Noted(old, d)
    OBVIOUS
  <2>2. PICK charges : charges = [old.charges EXCEPT ![d] = charge]
    OBVIOUS
  <2>3. new = [old EXCEPT !.charges = charges, !.todo = old.todo \ {d}]
    BY <1>4, <1>10, <2>1, <2>2 DEF Script
  <2>4. new.pc = "charges" /\ new.before = old.before /\ new.charges = charges /\ new.todo = old.todo \ {d}
    BY <1>4, <1>10, <2>3 DEF Script
  <2>5. \A c \in NotBuyer : book[c] = old.before[c]
    BY <1>4, <1>10 DEF Repricing
  <2>6. ASSUME NEW c \in NotBuyer PROVE c \in new.todo \/ Matches(new, c, new.charges[c])'
    <3>1. CASE c = d
      <4>1. Matches(new, c, charge)
        BY <1>4, <2>1, <2>4, <2>5, <3>1, NotedMatches
      <4>2. charges[c] = charge
        BY <1>4, <2>2, <3>1
      <4> QED
        BY <2>4, <4>1, <4>2, MatchesStays
    <3>2. CASE c # d /\ c \notin old.todo
      <4>1. Matches(old, c, old.charges[c])
        BY <1>4, <1>10, <3>2 DEF Repricing
      <4>2. charges[c] = old.charges[c]
        BY <1>4, <2>2, <3>2
      <4> QED
        BY <2>4, <4>1, <4>2 DEF Matches, Priced
    <3> QED
      BY <2>4, <3>1, <3>2
  <2> QED
    BY <1>3, <1>4, <2>4, <2>5, <2>6 DEF Repricing, SamePortfolio, Similar
<1>11. CASE old.pc = "charges" /\ old.todo = {} /\ new = [old EXCEPT !.pc = "update"]
  <2>1. new.pc = "update" /\ SameNotes(old, new)
    BY <1>4, <1>11 DEF Script, SameNotes
  <2> QED
    BY <1>4, <1>5, <1>11, <2>1 DEF Repricing
<1>12. CASE old.pc \in {"update", "updating"} /\ new = [old EXCEPT !.pc = "teardown"]
  <2>1. new.pc = "teardown" /\ SameNotes(old, new)
    BY <1>4, <1>12 DEF Script, SameNotes
  <2> QED
    BY <1>4, <1>5, <1>12, <2>1 DEF Repricing
<1>13. ASSUME old.pc \in {"update", "updating"}, NEW label \in {"updating", "recalculating"}, Asking(old, new, label)
       PROVE  Repricing(new)'
  <2>1. new.pc = label /\ SameNotes(old, new)
    BY <1>6, <1>13
  <2> QED
    BY <1>4, <1>5, <1>13, <2>1 DEF Repricing
<1>14. CASE old.pc \in {"teardown", "recalculating", "updating"} /\ Asking(old, new, "restoring")
  <2>1. /\ new.pc = "restoring" /\ SameNotes(old, new) /\ new.task \in Tasks
        /\ chain'[new.task].pc = "permission" /\ work'[new.task].pc = "idle"
    BY <1>6, <1>14
  <2>2. PriceSent(new)'
    BY <2>1, JourneyParameters DEF PriceSent
  <2>3. \A c \in NotBuyer : Restored(new, c)' /\ SamePortfolio(new, c)'
    BY <1>4, <1>5, <1>14, <2>1 DEF Repricing, Restored
  <2> QED
    BY <1>4, <2>1, <2>2, <2>3 DEF Repricing
<1>15. ASSUME old.pc = "restoring", NewTask \in Tasks, NEW d \in Customers, old.charges[d] # KeptCharge,
              chain'[NewTask] = chain[NewTask], Free(NewTask), work'[NewTask].pc = "arrived",
              work'[NewTask].req.cust = d, work'[NewTask].req.charge = old.charges[d],
              new = [old EXCEPT !.task = NewTask, !.reply = "none", !.charges = [@ EXCEPT ![d] = KeptCharge]]
       PROVE  Repricing(new)'
  <2>1. PICK charges : charges = [old.charges EXCEPT ![d] = KeptCharge]
    OBVIOUS
  <2>2. new = [old EXCEPT !.task = NewTask, !.reply = "none", !.charges = charges]
    BY <1>4, <1>15, <2>1 DEF Script
  <2>3. /\ new.pc = "restoring" /\ new.before = old.before /\ new.charges = charges /\ new.price = old.price
        /\ new.task = NewTask
    BY <1>4, <1>15, <2>2 DEF Script
  <2>4. price'[PricedSku] = new.price
    BY <1>3, <1>4, <1>15, <2>3 DEF Repricing, PriceSent
  <2>5. ASSUME NEW c \in NotBuyer PROVE Restored(new, c)' /\ SamePortfolio(new, c)'
    <3>1. SamePortfolio(new, c)'
      BY <1>3, <1>4, <1>15, <2>3 DEF Repricing, SamePortfolio, Similar
    <3>2. Restored(old, c) /\ ~Sending(old, c) /\ c \in Customers
      BY <1>3, <1>4, <1>15 DEF Repricing, Sending
    <3>3. Sending(new, c)' <=> c = d
      BY <1>15, <2>3, JourneyParameters DEF Sending, Free
    <3>4. CASE c = d
      <4>1. charges[c] = KeptCharge
        BY <1>4, <2>1, <3>4
      <4>2. Matches(old, c, old.charges[c])
        BY <1>15, <3>2, <3>4 DEF Restored
      <4>3. Matches(new, c, work[new.task].req.charge)'
        BY <1>15, <2>3, <3>4, <4>2 DEF Matches, Priced
      <4> QED
        BY <2>3, <3>1, <3>3, <3>4, <4>1, <4>3 DEF Restored
    <3>5. CASE c # d
      <4>1. charges[c] = old.charges[c]
        BY <1>4, <2>1, <3>2, <3>5
      <4>2. Matches(new, c, new.charges[c])' <=> Matches(old, c, old.charges[c])
        BY <2>3, <4>1 DEF Matches, Priced
      <4>3. AsBefore(new, c)' <=> AsBefore(old, c)
        BY <1>3, <2>3 DEF AsBefore, Priced
      <4> QED
        BY <2>3, <3>1, <3>2, <3>3, <3>5, <4>1, <4>2, <4>3 DEF Restored
    <3> QED
      BY <3>4, <3>5
  <2> QED
    BY <1>4, <2>3, <2>4, <2>5 DEF Repricing
<1>16. CASE old.pc = "restoring" /\ (\A c \in Customers : old.charges[c] = KeptCharge) /\ new = [old EXCEPT !.pc = "done"]
  <2>1. new.pc = "done" /\ SameNotes(old, new)
    BY <1>4, <1>16 DEF Script, SameNotes
  <2>2. price'[PricedSku] = new.price
    BY <1>3, <1>4, <1>16, <2>1 DEF Repricing, PriceSent, SameNotes
  <2>3. ASSUME NEW c \in NotBuyer PROVE AsBefore(old, c)
    <3>1. Restored(old, c) /\ SamePortfolio(old, c) /\ ~Sending(old, c)
      BY <1>3, <1>4, <1>16 DEF Repricing, Sending
    <3>2. CASE Matches(old, c, old.charges[c])
      <4>1. PICK before \in Seq(Line) : before = old.before[c]
        <5>1. old.before \in [Customers -> Seq(Line)]
          BY <1>4 DEF Script
        <5> QED
          BY <1>4, <5>1
      <4>2. ASSUME NEW i \in Priced(before) PROVE FALSE
        <5>1. before[i].charge = KeptCharge
          BY <1>4, <1>16, <3>2, <4>1 DEF Matches
        <5>2. before[i] \in Line
          BY DEF Priced
        <5>3. before[i].charge \in Nat
          BY <5>2 DEF Line
        <5> QED
          BY <5>1, <5>3 DEF KeptCharge
      <4>3. Priced(book[c]) = {}
        BY <3>1, <4>1, <4>2 DEF SamePortfolio, Similar, Priced
      <4> QED
        BY <4>3 DEF AsBefore
    <3> QED
      BY <3>1, <3>2 DEF Restored
  <2> QED
    BY <1>4, <1>5, <1>16, <2>1, <2>2, <2>3 DEF Repricing
<1> QED
  BY <1>3, <1>8, <1>9, <1>10, <1>11, <1>12, <1>13, <1>14, <1>15, <1>16 DEF PricingMove

\* Every step keeps what the pricing journey has to restore.
LEMMA PriceSafeKeeps ==
    ASSUME JInv, [JNext]_jvars, PriceSafe
    PROVE  PriceSafe'
<1>1. SUFFICES ASSUME "pricing" \in DOMAIN script', script'["pricing"].clean
               PROVE  Repricing(script["pricing"])'
  BY DEF PriceSafe
<1>2. PICK s : s = "pricing"
  OBVIOUS
<1>3. s \in DOMAIN script
  BY <1>1, <1>2, SameScripts
<1>4. PICK old : old = script[s]
  OBVIOUS
<1>5. ASSUME Unmoved(s), UNCHANGED price, \A c \in NotBuyer : book'[c] = book[c]
      PROVE  Repricing(script["pricing"])'
  <2>1. script'[s] = old /\ (old.task # NoTask => work'[old.task] = work[old.task]
                                                 /\ chain'[old.task] = chain[old.task])
    BY <1>4, <1>5 DEF Unmoved
  <2>2. Repricing(old)
    BY <1>1, <1>2, <1>3, <1>4, <2>1 DEF PriceSafe
  <2>3. Repricing(old)'
    BY <1>5, <2>1, <2>2, RepricingStays
  <2> QED
    BY <1>2, <2>1, <2>3
<1>6. ASSUME NEW b \in Tasks, ServiceStep(b), script[s].task # b, Unmoved(s) PROVE Repricing(script["pricing"])'
  <2>1. script[s].clean
    BY <1>1, <1>2, <1>6 DEF Unmoved
  <2>2. UNCHANGED price /\ \A c \in NotBuyer : book'[c] = book[c]
    BY <1>2, <1>3, <1>6, <2>1, OthersPricing DEF NotBuyer
  <2> QED
    BY <1>5, <1>6, <2>2
<1>7. ASSUME NEW b \in Tasks, ServiceStep(b), script[s].task = b PROVE Repricing(script["pricing"])'
  <2>1. script[s].clean
    <3>1. Told(s, b)
      BY <1>3, <1>7, ServiceSteps, Learned
    <3> QED
      BY <1>1, <1>2, <3>1 DEF Told
  <2>2. Repricing(script[s])
    BY <1>2, <1>3, <2>1 DEF PriceSafe
  <2> QED
    BY <1>1, <1>2, <1>3, <1>7, <2>2, OwnServiceRestores
<1>8. ASSUME ScriptStep(s) PROVE Repricing(script["pricing"])'
  <2>1. script[s].clean
    BY <1>1, <1>2, <1>3, <1>8, PricingMoves
  <2>2. Repricing(script[s])
    BY <1>2, <1>3, <2>1 DEF PriceSafe
  <2> QED
    BY <1>1, <1>2, <1>3, <1>8, <2>2, PriceSafeAlone
<1> QED
  BY <1>3, <1>5, <1>6, <1>7, <1>8, Seen

(***************************************************************************)
(* The pricing journey gives the product its price back and everybody but   *)
(* the buyer of a purchase that runs meanwhile the charge that was noted,   *)
(* for every catalogue, any number of customers and whatever they have.     *)
(***************************************************************************)
THEOREM PricesRestored == JSpec => []PriceRestored
<1>1. JInit => PriceSafe
  <2> SUFFICES ASSUME JInit, "pricing" \in DOMAIN script PROVE Repricing(script["pricing"])
    BY DEF PriceSafe
  <2>1. PICK new : new = NewScript
    OBVIOUS
  <2>2. script["pricing"] = new
    BY <2>1 DEF JInit
  <2>3. new.pc = "start"
    BY <2>1 DEF NewScript
  <2> QED
    BY <2>2, <2>3 DEF Repricing
<1>2. JInv /\ [JNext]_jvars /\ PriceSafe => PriceSafe'
  BY PriceSafeKeeps
<1>3. PriceSafe => PriceRestored
  BY DEF PriceSafe, PriceRestored, Repricing, AsBefore, NotBuyer, Ended
<1> QED
  BY <1>1, <1>2, <1>3, JourneyInvariant, PTL DEF JSpec

-----------------------------------------------------------------------------
(* A recalculation reaches every holder.                                      *)

\* Nothing is cancelled, and only the product of the journey may be at another price.
Whole(lines, list) ==
    \A i \in DOMAIN lines : /\ lines[i].stat # "C"
                            /\ lines[i].sku # PricedSku => lines[i].list = list[lines[i].sku]

AtPrice(lines, list) == \A i \in DOMAIN lines : lines[i].list = list[lines[i].sku]

Ordinary(c) == Charged(book[c]) /\ Whole(book[c], price)

\* The record of a customer follows the catalogue.
Settled(c) == AtPrice(book[c], price)

Unreached(c) == Holds(book[c], PricedSku) \/ Settled(c)

\* The update of the price has taken place.
Raised(journey) == /\ journey.pc = "updating"
                   /\ IF journey.task = NoTask THEN journey.reply = "permitted"
                      ELSE work[journey.task].pc \in {"announce", "done"}

Under(journey) == journey.pc = "recalculating" /\ journey.task # NoTask

AtNew(journey) == Raised(journey) \/ journey.pc = "recalculating"

\* No holder has been recalculated.
Stale(journey) == \/ Raised(journey)
                  \/ Under(journey) /\ work[journey.task].pc \in {"idle", "arrived", "fetch", "fetched"}

\* Nobody has still to be recalculated.
Even(journey) ==
    \/ journey.pc \in {"start", "snapshot", "charges", "update"}
    \/ journey.pc = "updating" /\ ~Raised(journey)
    \/ Under(journey) /\ work[journey.task].pc = "done" /\ work[journey.task].ok
    \/ journey.pc = "recalculating" /\ journey.task = NoTask /\ journey.reply = "permitted"

Early(journey) == journey.pc \in {"start", "snapshot", "charges", "update", "updating", "recalculating"}

Progress(b) ==
    /\ work[b].pc \in {"fetched", "emit", "next"} => work[b].list = PricedAt
    /\ work[b].pc \in {"emit", "next"} => \A c \in NotBuyer : c \in work[b].todo \/ Settled(c)

(***************************************************************************)
(* The price is raised, then the holders are recalculated one after the     *)
(* other: what the records of the others than the buyer are like until the  *)
(* first holder's turn, in between and after the last.                      *)
(***************************************************************************)
Reaching(journey) ==
    /\ Early(journey) => \A c \in NotBuyer : Ordinary(c)
    /\ Even(journey) => \A c \in NotBuyer : Settled(c)
    /\ AtNew(journey) => price[PricedSku] = PricedAt
    /\ Stale(journey) => \A c \in NotBuyer : Unreached(c)
    /\ Under(journey) => Progress(journey.task)

ReachSafe == "pricing" \in DOMAIN script /\ script["pricing"].clean => Reaching(script["pricing"])

\* What a recalculation at the catalogue's price makes of a record.
LEMMA RepricedWhole ==
    ASSUME NEW lines \in Seq(Line), OnePerSku(lines), NEW list, Whole(lines, list), list[PricedSku] \in Nat
    PROVE  LET later == Repriced(lines, PricedSku, list[PricedSku])
           IN  Charged(later) /\ Whole(later, list) /\ AtPrice(later, list)
<1>1. PICK n \in Nat : n = list[PricedSku]
  OBVIOUS
<1>2. PICK later : later = Repriced(lines, PricedSku, n)
  OBVIOUS
<1>3. /\ Similar(lines, later) /\ Charged(later)
      /\ \A i \in DOMAIN lines :
            later[i].list = IF lines[i].sku = PricedSku /\ lines[i].stat # "C" THEN n ELSE lines[i].list
  BY <1>2, RepricedLines
<1>4. Whole(later, list) /\ AtPrice(later, list)
  BY <1>1, <1>3 DEF Whole, AtPrice, Similar
<1> QED
  BY <1>1, <1>2, <1>3, <1>4

\* Whom the recalculation does not concern.
LEMMA NotHeld ==
    ASSUME NEW lines, NEW list, Whole(lines, list), ~Holds(lines, PricedSku)
    PROVE  AtPrice(lines, list)
  BY DEF Whole, Holds, AtPrice

\* Who holds the product is whom the recalculation is for.
LEMMA HoldersAffected ==
    ASSUME NEW c \in Customers, Whole(book[c], price)
    PROVE  c \in Affected(PricedSku) <=> Holds(book[c], PricedSku)
  BY DEF Whole, Affected, Holds

-----------------------------------------------------------------------------
(* Steps that leave the records of the others alone.                          *)

Rests(c) == book'[c] = book[c]

\* A record that rests stays as far as it is.
LEMMA RestKeeps ==
    ASSUME NEW c \in NotBuyer, Rests(c), UNCHANGED price
    PROVE  /\ Ordinary(c) => Ordinary(c)'
           /\ Settled(c) => Settled(c)'
           /\ Unreached(c) => Unreached(c)'
<1>1. PICK lines : lines = book[c] /\ lines = book'[c]
  BY DEF Rests
<1>2. Ordinary(c) => Ordinary(c)'
  BY <1>1 DEF Ordinary, Whole
<1>3. Settled(c) => Settled(c)'
  BY <1>1 DEF Settled, AtPrice
<1>4. Unreached(c) => Unreached(c)'
  BY <1>1, <1>3 DEF Unreached, Holds
<1> QED
  BY <1>2, <1>3, <1>4

\* A script whose claims do not grow keeps them.
LEMMA ReachingStays ==
    ASSUME NEW old, NEW new, Reaching(old), UNCHANGED price,
           \A c \in NotBuyer : Rests(c),
           Early(new)' => Early(old), Even(new)' => Even(old) \/ (\A c \in NotBuyer : Settled(c)),
           AtNew(new)' => AtNew(old), Stale(new)' => Stale(old), Under(new)' => Progress(new.task)'
    PROVE  Reaching(new)'
<1>1. NotBuyer' = NotBuyer
  BY DEF NotBuyer
<1>2. ASSUME NEW c \in NotBuyer
      PROVE  /\ Ordinary(c) => Ordinary(c)'
             /\ Settled(c) => Settled(c)'
             /\ Unreached(c) => Unreached(c)'
  BY <1>2, RestKeeps
<1> QED
  BY <1>1, <1>2 DEF Reaching

\* Nothing but the buyer's record, and other handlers than the script's, has moved.
LEMMA ReachingUnmoved ==
    ASSUME NEW journey, Reaching(journey), UNCHANGED price,
           \A c \in NotBuyer : Rests(c),
           journey.task # NoTask => work'[journey.task] = work[journey.task]
    PROVE  Reaching(journey)'
<1>1. /\ Early(journey)' <=> Early(journey)
      /\ Raised(journey)' <=> Raised(journey)
      /\ Under(journey)' <=> Under(journey)
  BY DEF Early, Raised, Under
<1>2. /\ Even(journey)' <=> Even(journey)
      /\ AtNew(journey)' <=> AtNew(journey)
      /\ Stale(journey)' <=> Stale(journey)
  BY <1>1 DEF Even, AtNew, Stale, Under
<1>3. ASSUME Under(journey) PROVE Progress(journey.task)'
  <2>1. PICK b : b = journey.task
    OBVIOUS
  <2>2. work'[b] = work[b] /\ Progress(b) /\ NotBuyer' = NotBuyer
    BY <1>3, <2>1 DEF Under, Reaching, NotBuyer
  <2>3. \A c \in NotBuyer : Settled(c) => Settled(c)'
    BY RestKeeps
  <2>4. Progress(b)'
    BY <2>2, <2>3 DEF Progress
  <2> QED
    BY <2>1, <2>4
<1> QED
  BY <1>1, <1>2, <1>3, ReachingStays

-----------------------------------------------------------------------------
(* The steps of the handlers, and of the journey.                             *)

\* A step for the purchase journey leaves the other customers alone.
LEMMA PurchaseRests ==
    ASSUME JInv, NEW b \in Tasks, ServiceStep(b), OfPurchase(b), NEW c \in NotBuyer
    PROVE  Rests(c)
  BY PurchaseWrites DEF NotBuyer, Rests

\* The handler of the update writes the price.
LEMMA UpdateReaches ==
    ASSUME JInv, "pricing" \in DOMAIN script, NEW b \in Tasks, NEW journey, journey = script["pricing"],
           journey.task = b, Reaching(journey), ServiceStep(b), Working(b), journey.pc = "updating"
    PROVE  Reaching(journey)'
<1>1. b # NoTask /\ PricedSku \in Skus /\ price \in [Skus -> Nat] /\ NotBuyer \subseteq Customers
  BY JourneyParameters DEF JInv, IInv, TypeOK, NotBuyer
<1>2. work[b].pc # "idle" /\ chain[b].pc # "idle"
  BY WorkKnown, PricingAsks
<1>3. work[b].req.op = "price" /\ work[b].req.sku = PricedSku /\ work[b].req.list = PricedAt
  BY <1>2, PricingAsks
<1>4. UpdateProduct(b) \/ AnnounceProduct(b)
  BY <1>3, WorkKinds
<1>5. UNCHANGED book /\ work[b].pc \in {"arrived", "announce"} /\ faults' \in {faults, faults + 1}
  BY <1>4 DEF UpdateProduct, AnnounceProduct, Working, HandlerTurn
<1>6. \A c \in NotBuyer : Rests(c)
  BY <1>5 DEF Rests
<1>7. PICK h \in Work : h = work[b]
  BY Known
<1>8. CASE UpdateProduct(b)
  <2>1. work'[b].pc = "announce"
    <3>1. work' = [work EXCEPT ![b].pc = "announce"]
      BY <1>8 DEF UpdateProduct
    <3>2. PICK new : new = [h EXCEPT !.pc = "announce"]
      OBVIOUS
    <3>3. work'[b] = new
      BY <1>7, <3>1, <3>2, Known
    <3> QED
      BY <3>2, <3>3 DEF Work
  <2>2. price'[PricedSku] = PricedAt /\ \A sku \in Skus : sku # PricedSku => price'[sku] = price[sku]
    BY <1>1, <1>3, <1>8 DEF UpdateProduct
  <2>3. ASSUME NEW c \in NotBuyer PROVE Ordinary(c)' /\ Unreached(c)'
    <3>1. Ordinary(c) /\ Settled(c)
      BY <1>1, <1>8 DEF Reaching, Early, Even, Raised, UpdateProduct
    <3>2. PICK lines \in Seq(Line) : lines = book[c]
      BY <1>1 DEF JInv, IInv, TypeOK
    <3>3. \A i \in DOMAIN lines : lines[i].sku \in Skus
      <4>1. \A i \in DOMAIN lines : lines[i] \in Line
        OBVIOUS
      <4> QED
        BY <4>1 DEF Line
    <3>4. PICK list : list = price'
      OBVIOUS
    <3>5. Whole(lines, list)
      BY <2>2, <3>1, <3>2, <3>3, <3>4 DEF Ordinary, Whole
    <3>6. Ordinary(c)'
      BY <1>5, <3>1, <3>2, <3>4, <3>5 DEF Ordinary, Whole
    <3>7. ASSUME ~Holds(lines, PricedSku) PROVE Settled(c)'
      <4>1. AtPrice(lines, list)
        BY <3>5, <3>7, NotHeld
      <4> QED
        BY <1>5, <3>2, <3>4, <4>1 DEF Settled, AtPrice
    <3>8. Unreached(c)'
      BY <1>5, <3>2, <3>7 DEF Unreached, Holds
    <3> QED
      BY <3>6, <3>8
  <2>4. Raised(journey)' /\ ~Under(journey)'
    BY <1>1, <2>1 DEF Raised, Under
  <2>5. ~Even(journey)'
    BY <1>1, <2>4 DEF Even
  <2>6. NotBuyer' = NotBuyer
    BY DEF NotBuyer
  <2> QED
    BY <2>2, <2>3, <2>4, <2>5, <2>6 DEF Reaching
<1>9. CASE AnnounceProduct(b)
  <2>1. work'[b].pc = "done" /\ UNCHANGED price /\ work[b].pc = "announce"
    BY <1>9, Finished DEF AnnounceProduct
  <2>2. Raised(journey) /\ Raised(journey)' /\ ~Under(journey)'
    BY <1>1, <2>1 DEF Raised, Under
  <2>3. Early(journey) /\ AtNew(journey) /\ Stale(journey) /\ ~Even(journey)'
    BY <1>1, <2>2 DEF Early, AtNew, Stale, Even
  <2> QED
    BY <1>5, <1>6, <2>1, <2>2, <2>3, ReachingStays
<1> QED
  BY <1>4, <1>8, <1>9

\* One more customer is recalculated.
LEMMA CustomerReached ==
    ASSUME JInv, NEW b \in Tasks, ServiceStep(b), NEW d \in Customers, NEW due,
           RecalcCustomer(b, d, due), work[b].pc \in {"fetched", "next"}, HandlerKnown(b),
           work[b].req.sku = PricedSku, work[b].list = PricedAt, price[PricedSku] = PricedAt,
           \A c \in NotBuyer : Ordinary(c) /\ (c \in due \/ Settled(c))
    PROVE  Progress(b)' /\ UNCHANGED price /\ work'[b].pc = "emit" /\ \A c \in NotBuyer : Ordinary(c)'
<1>1. PICK lines \in Seq(Line) : lines = book[d] /\ OnePerSku(lines)
  BY DEF JInv, IInv, TypeOK, OneLinePerSku
<1>2. price \in [Skus -> Nat] /\ PricedSku \in Skus /\ PricedAt \in Nat
  BY JourneyParameters DEF JInv, IInv, TypeOK
<1>3. PICK later : later = Repriced(lines, PricedSku, PricedAt)
  OBVIOUS
<1>4. Commit(b, d, later, "emit", due \ {d})
  BY <1>1, <1>3 DEF RecalcCustomer
<1>5. /\ work'[b].pc = "emit" /\ work'[b].cust = d /\ work'[b].raw = later
      /\ work'[b].todo = due \ {d} /\ work'[b].list = PricedAt /\ UNCHANGED price
      /\ book'[d] = later /\ \A c \in Customers : c # d => book'[c] = book[c]
  BY <1>4, Committed
<1>6. NotBuyer' = NotBuyer /\ NotBuyer \subseteq Customers
  BY DEF NotBuyer
<1>7. ASSUME d \in NotBuyer PROVE Charged(later) /\ Whole(later, price) /\ AtPrice(later, price)
  <2>1. Whole(lines, price)
    BY <1>1, <1>7 DEF Ordinary
  <2> QED
    BY <1>1, <1>2, <1>3, <2>1, RepricedWhole
<1>8. ASSUME NEW c \in NotBuyer, c # d PROVE Rests(c)
  BY <1>5, <1>6, <1>8 DEF Rests
<1>9. ASSUME NEW c \in NotBuyer PROVE Ordinary(c)'
  <2>1. CASE c = d
    BY <1>5, <1>7, <1>9, <2>1 DEF Ordinary, Whole
  <2>2. CASE c # d
    BY <1>5, <1>8, <1>9, <2>2, RestKeeps
  <2> QED
    BY <2>1, <2>2
<1>10. ASSUME NEW c \in NotBuyer PROVE (c \in work[b].todo)' \/ Settled(c)'
  <2>1. CASE c = d
    BY <1>5, <1>7, <1>10, <2>1 DEF Settled, AtPrice
  <2>2. CASE c # d
    <3>1. c \in due \/ Settled(c)'
      BY <1>5, <1>8, <1>10, <2>2, RestKeeps
    <3> QED
      BY <1>5, <2>2, <3>1
  <2> QED
    BY <2>1, <2>2
<1>11. Progress(b)'
  BY <1>5, <1>6, <1>10 DEF Progress
<1> QED
  BY <1>5, <1>9, <1>11

\* The handler of the recalculation goes from one holder to the next.
LEMMA RecalculateReaches ==
    ASSUME JInv, "pricing" \in DOMAIN script, NEW b \in Tasks, NEW journey, journey = script["pricing"],
           journey.task = b, Reaching(journey), ServiceStep(b), Working(b), journey.pc = "recalculating"
    PROVE  Reaching(journey)'
<1>1. b # NoTask /\ NotBuyer' = NotBuyer /\ NotBuyer \subseteq Customers
  BY JourneyParameters DEF NotBuyer
<1>2. work[b].pc # "idle" /\ chain[b].pc # "idle" /\ HandlerKnown(b)
  BY WorkKnown, PricingAsks
<1>3. work[b].req.op = "recalculate" /\ work[b].req.sku = PricedSku
  BY <1>2, PricingAsks
<1>4. /\ faults' \in {faults, faults + 1}
      /\ Early(journey) /\ AtNew(journey) /\ Under(journey) /\ Under(journey)' /\ ~Raised(journey) /\ ~Raised(journey)'
  BY <1>1 DEF Working, HandlerTurn, Early, AtNew, Under, Raised
<1>5. price[PricedSku] = PricedAt /\ Progress(b) /\ \A c \in NotBuyer : Ordinary(c)
  BY <1>4 DEF Reaching
<1>6. PICK h \in Work : h = work[b]
  BY Known
<1>7. ASSUME UNCHANGED <<book, price>>, Progress(b)',
             work'[b].pc \in {"fetch", "fetched", "done"},
             work'[b].pc # "done" => work[b].pc \in {"arrived", "fetch"},
             work'[b].pc = "done" => ~work'[b].ok \/ \A c \in NotBuyer : Settled(c)
      PROVE  Reaching(journey)'
  <2>1. \A c \in NotBuyer : Rests(c)
    BY <1>7 DEF Rests
  <2>2. Even(journey)' => \A c \in NotBuyer : Settled(c)
    BY <1>1, <1>4, <1>7 DEF Even
  <2>3. Stale(journey)' => Stale(journey)
    BY <1>1, <1>4, <1>7 DEF Stale
  <2> QED
    BY <1>4, <1>7, <2>1, <2>2, <2>3, ReachingStays
<1>8. CASE RecalcStart(b)
  <2>1. PICK new : new = [h EXCEPT !.pc = "fetch"]
    OBVIOUS
  <2>2. work'[b] = new
    BY <1>6, <1>8, <2>1, Known DEF RecalcStart
  <2>3. work'[b].pc = "fetch"
    BY <2>1, <2>2 DEF Work
  <2>4. Progress(b)'
    BY <2>3 DEF Progress
  <2> QED
    BY <1>7, <1>8, <2>3, <2>4 DEF RecalcStart
<1>9. CASE FetchPrice(b)
  <2>1. PICK new : new = [h EXCEPT !.pc = "fetched", !.list = PricedAt]
    OBVIOUS
  <2>2. work'[b] = new
    BY <1>3, <1>5, <1>6, <1>9, <2>1, Known DEF FetchPrice
  <2>3. work'[b].pc = "fetched" /\ work'[b].list = PricedAt
    BY <2>1, <2>2 DEF Work
  <2>4. Progress(b)'
    BY <2>3 DEF Progress
  <2> QED
    BY <1>7, <1>9, <2>3, <2>4 DEF FetchPrice
<1>10. ASSUME NEW ok, Finish(b, ok), UNCHANGED <<book, price>>,
              ~ok \/ \A c \in NotBuyer : Settled(c)
       PROVE  Reaching(journey)'
  <2>1. work'[b].pc = "done" /\ work'[b].ok = ok
    BY <1>10, Finished
  <2>2. Progress(b)'
    BY <2>1 DEF Progress
  <2> QED
    BY <1>7, <1>10, <2>1, <2>2
<1>11. CASE Fails(b) /\ work[b].pc = "fetch"
  BY <1>10, <1>11 DEF Fails, FetchFails, Refuse, Capture
<1>12. ASSUME work[b].pc = "fetched", NEW c \in NotBuyer PROVE c \in Affected(PricedSku) \/ Settled(c)
  <2>1. Stale(journey)
    BY <1>4, <1>12 DEF Stale
  <2>2. Unreached(c) /\ Whole(book[c], price)
    BY <1>5, <1>12, <2>1 DEF Reaching, Ordinary
  <2> QED
    BY <1>1, <1>12, <2>2, HoldersAffected DEF Unreached
<1>13. CASE RecalcNobody(b)
  BY <1>3, <1>10, <1>12, <1>13 DEF RecalcNobody
<1>14. CASE RecalcDone(b)
  <2>1. work[b].pc = "next" /\ work[b].todo = {}
    BY <1>14 DEF RecalcDone
  <2>2. \A c \in NotBuyer : Settled(c)
    BY <1>5, <2>1 DEF Progress
  <2> QED
    BY <1>10, <1>14, <2>1, <2>2 DEF RecalcDone
<1>15. ASSUME UNCHANGED price, work'[b].pc \in {"emit", "next"}, Progress(b)',
              \A c \in NotBuyer : Ordinary(c)'
       PROVE  Reaching(journey)'
  <2>1. ~Even(journey)' /\ ~Stale(journey)'
    BY <1>1, <1>4, <1>15 DEF Even, Stale
  <2> QED
    BY <1>1, <1>5, <1>15, <2>1 DEF Reaching
<1>16. CASE Emit(b)
  <2>1. PICK new : new = [h EXCEPT !.pc = "next", !.cust = Nobody, !.raw = <<>>]
    OBVIOUS
  <2>2. work'[b] = new /\ work[b].pc = "emit" /\ UNCHANGED <<book, price>>
    BY <1>6, <1>16, <2>1, Known DEF Emit
  <2>3. work'[b].pc = "next" /\ work'[b].todo = work[b].todo /\ work'[b].list = work[b].list
    BY <1>6, <2>1, <2>2 DEF Work
  <2>4. \A c \in NotBuyer : Settled(c) => Settled(c)'
    BY <2>2, RestKeeps DEF Rests
  <2>5. Progress(b)'
    BY <1>1, <1>5, <2>2, <2>3, <2>4 DEF Progress
  <2>6. ASSUME NEW c \in NotBuyer PROVE Ordinary(c)'
    BY <1>5, <2>2, <2>6 DEF Ordinary, Whole
  <2> QED
    BY <1>15, <2>2, <2>3, <2>5, <2>6
<1>17. ASSUME NEW d \in Customers, RecalcFirst(b, d) PROVE Reaching(journey)'
  <2>1. RecalcCustomer(b, d, Affected(PricedSku)) /\ work[b].pc = "fetched"
    BY <1>3, <1>17 DEF RecalcFirst
  <2>2. work[b].list = PricedAt
    BY <1>5, <2>1 DEF Progress
  <2>3. \A c \in NotBuyer : Ordinary(c) /\ (c \in Affected(PricedSku) \/ Settled(c))
    BY <1>5, <1>12, <2>1
  <2> QED
    BY <1>2, <1>3, <1>4, <1>5, <1>15, <2>1, <2>2, <2>3, CustomerReached
<1>18. ASSUME NEW d \in Customers, RecalcNext(b, d) PROVE Reaching(journey)'
  <2>1. RecalcCustomer(b, d, work[b].todo) /\ work[b].pc = "next"
    BY <1>18 DEF RecalcNext
  <2>2. work[b].list = PricedAt
    BY <1>5, <2>1 DEF Progress
  <2>3. \A c \in NotBuyer : Ordinary(c) /\ (c \in work[b].todo \/ Settled(c))
    BY <1>5, <2>1 DEF Progress
  <2> QED
    BY <1>2, <1>3, <1>4, <1>5, <1>15, <2>1, <2>2, <2>3, CustomerReached
<1> QED
  BY <1>3, <1>8, <1>9, <1>11, <1>13, <1>14, <1>16, <1>17, <1>18, WorkKinds

\* Any step of the handler that the pricing journey waits for, the answer included.
LEMMA OwnServiceReaches ==
    ASSUME JInv, "pricing" \in DOMAIN script, NEW b \in Tasks, ServiceStep(b),
           script["pricing"].task = b, Reaching(script["pricing"]), script'["pricing"].clean
    PROVE  Reaching(script["pricing"])'
<1>1. PICK old : old = script["pricing"]
  OBVIOUS
<1>2. PICK new : new = script'["pricing"]
  OBVIOUS
<1>3. b # NoTask /\ Reaching(old) /\ old.task = b
  BY <1>1, JourneyParameters
<1>4. ~OfPurchase(b) /\ old.pc \in {"updating", "recalculating", "restoring"}
  BY <1>1, PricingAsks
<1>5. ASSUME Going(b) PROVE new = old
  BY <1>1, <1>2, <1>5, GoingTold
<1>6. ASSUME Answered(b)
      PROVE  new.task = NoTask /\ new.reply = Outcome(b) /\ Outcome(b) # "error" /\ new.pc = old.pc
  BY <1>1, <1>2, <1>6, EndingTold DEF Remembers
<1>7. (Going(b) \/ Answered(b)) /\ faults' \in {faults, faults + 1}
  BY ServiceSteps DEF Turn, Ending
<1>8. new.pc = old.pc
  BY <1>5, <1>6, <1>7
<1>9. SUFFICES Reaching(new)'
  BY <1>2
<1>10. CASE old.pc = "restoring"
  BY <1>8, <1>10 DEF Reaching, Early, Even, AtNew, Stale, Raised, Under
<1>11. ASSUME UNCHANGED <<book, price>>,
              Early(new)' => Early(old), Even(new)' => Even(old), AtNew(new)' => AtNew(old),
              Stale(new)' => Stale(old), Under(new)' => Progress(b)' /\ new.task = b
       PROVE  Reaching(new)'
  <2>1. \A c \in NotBuyer : Rests(c)
    BY <1>11 DEF Rests
  <2> QED
    BY <1>3, <1>7, <1>11, <2>1, ReachingStays
<1>12. ASSUME old.pc \in {"updating", "recalculating"}, Working(b) PROVE Reaching(new)'
  <2>1. new = old
    BY <1>5, <1>12, HandlerTurnGoes DEF Working
  <2> QED
    BY <1>1, <1>3, <1>12, <2>1, UpdateReaches, RecalculateReaches
<1>13. ASSUME old.pc \in {"updating", "recalculating"}, ChainGoes(b) PROVE Reaching(new)'
  <2>1. UNCHANGED <<book, price, work>> /\ work[b].pc = "idle"
    BY <1>13, ChainEnds, Known
       DEF billingVars, ChainGoes, Deny, PolicyEngineDown, Allow, ReadPortfolio, CombinationRejected,
           CombinationAccepted, CombinationUnknown
  <2>2. CASE Going(b)
    <3>1. new = old
      BY <1>5, <2>2
    <3>2. /\ Early(new)' => Early(old) 
          /\ Even(new)' => Even(old)
          /\ AtNew(new)' => AtNew(old)
          /\ Stale(new)' => Stale(old)
      BY <2>1, <3>1 DEF Early, Even, AtNew, Stale, Raised, Under
    <3>3. Progress(b)'
      BY <2>1 DEF Progress
    <3> QED
      BY <1>3, <1>11, <2>1, <3>1, <3>2, <3>3
  <2>3. CASE Answered(b) /\ Outcome(b) = "denied"
    <3>1. new.task = NoTask /\ new.reply = "denied" /\ new.pc = old.pc
      BY <1>6, <2>3
    <3>2. ~Raised(new)' /\ ~Under(new)' /\ ~Stale(new)' /\ Early(old)
      BY <1>13, <3>1 DEF Raised, Under, Stale, Early
    <3>3. AtNew(new)' => AtNew(old)
      BY <3>1, <3>2 DEF AtNew
    <3>4. Even(new)' => Even(old)
      BY <1>3, <1>13, <2>1, <3>1 DEF Even, Raised, Under
    <3> QED
      BY <1>11, <2>1, <3>2, <3>3, <3>4
  <2> QED
    BY <1>6, <1>13, <2>2, <2>3, ChainEnds
<1>14. ASSUME old.pc \in {"updating", "recalculating"}, Forward(b) PROVE Reaching(new)'
  <2>1. new = old /\ UNCHANGED <<book, price>> /\ work[b].pc = "idle"
    BY <1>5, <1>14, ForwardGoes, Known DEF Forward, Arrive
  <2>2. PICK req : work'[b] = [NoWork EXCEPT !.pc = "arrived", !.req = req]
    BY <1>14, ForwardGoes
  <2>3. work'[b].pc = "arrived"
    BY <2>2 DEF NoWork
  <2>4. /\ Early(new)' => Early(old)
        /\ Even(new)' => Even(old)
        /\ AtNew(new)' => AtNew(old)
        /\ Stale(new)' => Stale(old)
    BY <1>3, <2>1, <2>3 DEF Early, Even, AtNew, Stale, Raised, Under
  <2>5. Progress(b)'
    BY <2>3 DEF Progress
  <2> QED
    BY <1>3, <1>11, <2>1, <2>4, <2>5
<1>15. ASSUME old.pc \in {"updating", "recalculating"}, EndTurn(b) PROVE Reaching(new)'
  <2>1. Answered(b)
    BY <1>15, EndTurnEnds DEF Ending
  <2>2. chain[b].pc # "idle"
    BY <1>1, <1>3, <1>15, PricingAsks
  <2>3. UNCHANGED <<book, price>> /\ work[b].pc = "done" /\ work[b].ok /\ Outcome(b) = "permitted"
    BY <1>6, <1>15, <2>1, <2>2, SorEnds
  <2>4. new.task = NoTask /\ new.reply = "permitted" /\ new.pc = old.pc
    BY <1>6, <2>1, <2>3
  <2>5. ~Under(new)' /\ (old.pc = "updating" => Raised(old) /\ Raised(new)')
    BY <1>3, <2>3, <2>4 DEF Under, Raised
  <2>6. AtNew(new)' => AtNew(old)
    BY <2>4, <2>5 DEF AtNew, Raised
  <2>7. Stale(new)' => Stale(old)
    BY <2>4, <2>5 DEF Stale, Raised
  <2>8. Even(new)' => Even(old)
    BY <1>3, <1>15, <2>3, <2>4, <2>5 DEF Even, Under
  <2>9. Early(old)
    BY <1>15 DEF Early
  <2> QED
    BY <1>11, <2>3, <2>5, <2>6, <2>7, <2>8, <2>9
<1> QED
  BY <1>4, <1>10, <1>12, <1>13, <1>14, <1>15, HandlerSteps DEF Working

\* A step of the journey itself.
LEMMA ReachSafeAlone ==
    ASSUME JInv, "pricing" \in DOMAIN script, ScriptStep("pricing"), Reaching(script["pricing"]),
           script'["pricing"].clean
    PROVE  Reaching(script["pricing"])'
<1>1. PICK old : old = script["pricing"]
  OBVIOUS
<1>2. PICK new : new = script'["pricing"]
  OBVIOUS
<1>3. UNCHANGED <<book, price>> /\ old.task = NoTask /\ PricingMove(old, new)
  BY <1>1, <1>2, PricingMoves
<1>4. old \in Script /\ Reaching(old)
  BY <1>1, KnownScript
<1>5. faults' \in {faults, faults + 1}
  BY ScriptsAlone DEF Alone
<1>6. \A c \in NotBuyer : Rests(c)
  BY <1>3 DEF Rests
<1>7. SUFFICES Reaching(new)'
  BY <1>2
<1>8. ASSUME new.pc \in {"teardown", "restoring", "done"} PROVE Reaching(new)'
  BY <1>8 DEF Reaching, Early, Even, AtNew, Stale, Raised, Under
<1>9. ASSUME old.pc \in {"start", "snapshot", "charges", "update"}, new.pc \in {"snapshot", "charges", "update"}
      PROVE  Reaching(new)'
  <2>1. Early(old) /\ Even(old) /\ ~AtNew(new)' /\ ~Stale(new)' /\ ~Under(new)'
    BY <1>9 DEF Early, Even, AtNew, Stale, Raised, Under
  <2> QED
    BY <1>3, <1>4, <1>5, <1>6, <2>1, ReachingStays
<1>10. ASSUME NEW label, Asking(old, new, label)
       PROVE  new.pc = label /\ new.task \in Tasks /\ work'[new.task].pc = "idle" /\ new.task # NoTask
  <2>1. new.pc = label /\ new.task = NewTask
    BY <1>4, <1>10 DEF Asking, Script
  <2> QED
    BY <1>10, <2>1, JourneyParameters DEF Asking, Free
<1>11. CASE old.pc = "update" /\ Asking(old, new, "updating")
  <2>1. new.pc = "updating" /\ work'[new.task].pc = "idle" /\ new.task # NoTask
    BY <1>10, <1>11
  <2>2. Early(old) /\ Even(old) /\ ~Raised(new)' /\ ~Under(new)'
    BY <1>11, <2>1 DEF Early, Even, Raised, Under
  <2>3. ~AtNew(new)' /\ ~Stale(new)'
    BY <2>1, <2>2 DEF AtNew, Stale
  <2> QED
    BY <1>3, <1>4, <1>5, <1>6, <2>2, <2>3, ReachingStays
<1>12. CASE old.pc = "updating" /\ old.reply = "permitted" /\ Asking(old, new, "recalculating")
  <2>1. new.pc = "recalculating" /\ work'[new.task].pc = "idle" /\ new.task # NoTask
    BY <1>10, <1>12
  <2>2. Raised(old)
    BY <1>3, <1>12 DEF Raised
  <2>3. Early(old) /\ AtNew(old) /\ Stale(old)
    BY <1>12, <2>2 DEF Early, AtNew, Stale
  <2>4. ~Even(new)'
    BY <2>1 DEF Even
  <2>5. Progress(new.task)'
    BY <2>1 DEF Progress
  <2> QED
    BY <1>3, <1>4, <1>5, <1>6, <2>3, <2>4, <2>5, ReachingStays
<1>13. CASE Asking(old, new, "restoring")
  BY <1>8, <1>10, <1>13
<1>14. ASSUME NEW label, new = [old EXCEPT !.pc = label] PROVE new.pc = label
  BY <1>4, <1>14 DEF Script
<1>15. CASE old.pc = "snapshot" /\ new = [old EXCEPT !.pc = "charges", !.price = price[PricedSku], !.todo = Customers]
  BY <1>4, <1>9, <1>15 DEF Script
<1>16. ASSUME old.pc = "charges",
              NEW c \in old.todo, new = [old EXCEPT !.charges = [@ EXCEPT ![c] = Noted(old, c)], !.todo = @ \ {c}]
       PROVE  Reaching(new)'
  BY <1>4, <1>9, <1>16 DEF Script
<1>18. ASSUME old.pc = "restoring", NEW c \in Customers,
              new = [old EXCEPT !.task = NewTask, !.reply = "none", !.charges = [@ EXCEPT ![c] = KeptCharge]]
       PROVE  Reaching(new)'
  BY <1>4, <1>8, <1>18 DEF Script
<1> QED
  BY <1>3, <1>8, <1>9, <1>11, <1>12, <1>13, <1>14, <1>15, <1>16, <1>18 DEF PricingMove

\* Every step keeps what the recalculation has done so far.
LEMMA ReachSafeKeeps ==
    ASSUME JInv, [JNext]_jvars, ReachSafe
    PROVE  ReachSafe'
<1>1. SUFFICES ASSUME "pricing" \in DOMAIN script', script'["pricing"].clean
               PROVE  Reaching(script["pricing"])'
  BY DEF ReachSafe
<1>2. PICK s : s = "pricing"
  OBVIOUS
<1>3. s \in DOMAIN script
  BY <1>1, <1>2, SameScripts
<1>4. PICK old : old = script[s]
  OBVIOUS
<1>5. faults' \in {faults, faults + 1}
  BY <1>3, Seen
<1>6. ASSUME Unmoved(s), UNCHANGED price, \A c \in NotBuyer : Rests(c)
      PROVE  Reaching(script["pricing"])'
  <2>1. script'[s] = old /\ (old.task # NoTask => work'[old.task] = work[old.task])
    BY <1>4, <1>6 DEF Unmoved
  <2>2. Reaching(old)
    BY <1>1, <1>2, <1>3, <1>4, <2>1 DEF ReachSafe
  <2>3. Reaching(old)'
    BY <1>5, <1>6, <2>1, <2>2, ReachingUnmoved
  <2> QED
    BY <1>2, <2>1, <2>3
<1>7. ASSUME Unmoved(s), UNCHANGED <<book, price>> PROVE Reaching(script["pricing"])'
  BY <1>6, <1>7 DEF Rests
<1>8. ASSUME NEW b \in Tasks, ServiceStep(b), script[s].task # b, Unmoved(s) PROVE Reaching(script["pricing"])'
  <2>1. script[s].clean
    BY <1>1, <1>2, <1>8 DEF Unmoved
  <2>2. UNCHANGED price /\ OfPurchase(b)
    BY <1>2, <1>3, <1>8, <2>1, OthersPricing
  <2>3. \A c \in NotBuyer : Rests(c)
    BY <1>8, <2>2, PurchaseRests
  <2> QED
    BY <1>6, <1>8, <2>2, <2>3
<1>9. ASSUME NEW b \in Tasks, ServiceStep(b), script[s].task = b PROVE Reaching(script["pricing"])'
  <2>1. script[s].clean
    <3>1. Told(s, b)
      BY <1>3, <1>9, ServiceSteps, Learned
    <3> QED
      BY <1>1, <1>2, <3>1 DEF Told
  <2>2. Reaching(script[s])
    BY <1>2, <1>3, <2>1 DEF ReachSafe
  <2> QED
    BY <1>1, <1>2, <1>3, <1>9, <2>2, OwnServiceReaches
<1>10. ASSUME ScriptStep(s) PROVE Reaching(script["pricing"])'
  <2>1. script[s].clean
    BY <1>1, <1>2, <1>3, <1>10, PricingMoves
  <2>2. Reaching(script[s])
    BY <1>2, <1>3, <2>1 DEF ReachSafe
  <2> QED
    BY <1>1, <1>2, <1>3, <1>10, <2>2, ReachSafeAlone
<1> QED
  BY <1>3, <1>7, <1>8, <1>9, <1>10, Seen

\* Nothing is recalculated at the start.
LEMMA ReachSafeInit == JInit => ReachSafe
<1> SUFFICES ASSUME JInit, "pricing" \in DOMAIN script PROVE Reaching(script["pricing"])
  BY DEF ReachSafe
<1>1. PICK new : new = NewScript
  OBVIOUS
<1>2. script["pricing"] = new /\ new.pc = "start"
  BY <1>1 DEF JInit, NewScript
<1>3. book = Seed /\ price = ListPrices /\ IInv
  BY InitInvariant DEF JInit, Init, BillingInit
<1>4. price \in [Skus -> Nat]
  BY <1>3 DEF IInv, TypeOK
<1>5. ASSUME NEW c \in NotBuyer PROVE Ordinary(c) /\ Settled(c)
  <2>1. PICK lines \in Seq(Line) : lines = Seed[c] /\ c \in Customers
    BY <1>5, SeedParameters DEF NotBuyer
  <2>2. Charged(lines) /\ Whole(lines, price) /\ AtPrice(lines, price)
    BY <1>3, <2>1, SeedAgrees DEF Charged, Active, Whole, AtPrice
  <2> QED
    BY <1>3, <2>1, <2>2 DEF Ordinary, Settled
<1> QED
  BY <1>2, <1>5 DEF Reaching, AtNew, Stale, Raised, Under

(***************************************************************************)
(* When the broker has reported a recalculation as done, Billing charges    *)
(* every holder but the buyer of a purchase that runs meanwhile the new     *)
(* price less their discounts, for every catalogue, any number of customers *)
(* and whatever they have.                                                  *)
(***************************************************************************)
THEOREM RecalculationsReach == JSpec => []RecalculationReaches
<1>1. JInv /\ [JNext]_jvars /\ ReachSafe => ReachSafe'
  BY ReachSafeKeeps
<1>2. JInv /\ ReachSafe => RecalculationReaches
  <2> SUFFICES ASSUME JInv, ReachSafe, "pricing" \in DOMAIN script, NEW journey, journey = script["pricing"],
                      journey.pc = "recalculating", journey.reply = "permitted", journey.clean,
                      NEW c \in Customers \ {Buyer}
               PROVE  /\ \A i \in Priced(book[c]) : book[c][i].list = PricedAt
                      /\ \A i \in Active(book[c]) :
                            book[c][i].charge = DiscountedPrice(Policies, book[c], i)
    BY DEF RecalculationReaches
  <2>1. Reaching(journey)
    BY DEF ReachSafe
  <2>2. journey.task = NoTask
    BY DEF JInv, ScriptFits, Awaited
  <2>3. Ordinary(c) /\ Settled(c) /\ price[PricedSku] = PricedAt
    BY <2>1, <2>2 DEF Reaching, Early, Even, AtNew, NotBuyer
  <2>4. \A i \in Priced(book[c]) : book[c][i].list = PricedAt
    BY <2>3 DEF Settled, AtPrice, Priced
  <2> QED
    BY <2>3, <2>4 DEF Ordinary, Charged, Settled
<1> QED
  BY <1>1, <1>2, ReachSafeInit, JourneyInvariant, PTL DEF JSpec
=============================================================================
