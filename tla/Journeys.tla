------------------------------ MODULE Journeys ------------------------------
(***************************************************************************)
(* purchase_journey.py and pricing_journey.py: the two client scripts that  *)
(* read through the ACG, write through the broker and undo in their         *)
(* teardown what they did, run against the write path at the same time.     *)
(*                                                                          *)
(* A script is a sequential process: each of its calls is a handler of its  *)
(* own at the broker (or, for a direct call, at Billing), whose reply the   *)
(* script waits for, up to its own timeout of 15 seconds.                   *)
(*                                                                          *)
(* The path that brings a written record to the cache is modelled step by   *)
(* step in CdcAssembly: events may be lost, and enrichments, which run in   *)
(* the background, overlap and overwrite one another.  Of all that a script *)
(* sees one thing: the record it reads.  So the cache is left out here, and *)
(* a read may find any record that Billing has sent, each of its lines at   *)
(* its own list price or at any price the product has had.                  *)
(***************************************************************************)
EXTENDS ActionBroker, OfferEngine

CONSTANTS Scenarios,      \* which of the scripts run together: one of these sets
          ScriptClients,  \* the values of --client-id
          Buyer,          \* the customer of the purchase
          PricedSku,      \* --sku and --new-price of the pricing journey
          PricedAt

NoTask == "none"

ASSUME JourneyParameters == /\ NoTask \notin Tasks
                            /\ Scenarios \subseteq SUBSET {"purchase", "pricing"}
                            /\ ScriptClients \cup {"system-admin"} \subseteq Clients
                            /\ Buyer \in Customers
                            /\ PricedSku \in Skus
                            /\ PricedAt \in Nat

\* The catalogue lists every product with its terms, and relates products.
ASSUME OfferParameters == /\ Catalogue \in Seq(Skus) /\ Skus \subseteq ToSet(Catalogue)
                          /\ \A sku \in Skus : TermsOf[sku] \subseteq Nat /\ TermsOf[sku] # {}
                          /\ \A sku \in Skus : Graph.across[sku] \in Seq(Skus)

\* The seed file has every line as Billing would write it: at the list price of the
\* catalogue file and charged by the discount policies.  Nothing in it is cancelled.
ASSUME SeedAgrees ==
    \A c \in Customers : \A i \in DOMAIN Seed[c] :
        /\ Seed[c][i].list = ListPrices[Seed[c][i].sku]
        /\ Seed[c][i].stat = "A" => Seed[c][i].charge = DiscountedPrice(Policies, Seed[c], i)
        /\ Seed[c][i].stat # "C"

VARIABLES sent,     \* history: the buyer's records that Billing has sent
          listed,   \* history: the prices each product has had
          script    \* the state of each script

cacheVars == <<sent, listed>>
jvars == <<vars, cacheVars, script>>

NoSku == "none"
NoOffer == [sku |-> NoSku, list |-> 0, term |-> 0, delta |-> 0, gained |-> {}]

(***************************************************************************)
(* task and reply: the handler the script waits for, and its answer.        *)
(* record and offer are the purchase's; price and charges the snapshot of   *)
(* the pricing journey, todo the customers it has still to visit.  clean    *)
(* and before are history: whether every call was answered and none failed, *)
(* and the records at the start.                                            *)
(***************************************************************************)
NewScript == [pc |-> "start", client |-> Nobody, task |-> NoTask, reply |-> "none",
              record |-> <<>>, offer |-> NoOffer,
              price |-> 0, charges |-> [c \in Customers |-> KeptCharge], todo |-> {},
              clean |-> TRUE, before |-> [c \in Customers |-> <<>>]]

JInit == /\ Init
         /\ sent = {book[Buyer]}
         /\ listed = [sku \in Skus |-> {price[sku]}]
         /\ \E scripts \in Scenarios : script = [s \in scripts |-> NewScript]

-----------------------------------------------------------------------------
(* The services.  A handler's step may send the buyer's record with its event, *)
(* it may change a price, and it may give a script its answer.                *)

Deliver(b) ==
    /\ sent' = IF work[b].pc \in {"capture", "emit"} /\ work[b].cust = Buyer
               THEN sent \cup {work[b].raw} ELSE sent
    /\ listed' = [sku \in Skus |-> listed[sku] \cup {price'[sku]}]

Answered(b) == \/ chain[b].pc # "idle" /\ chain'[b].pc = "idle"
               \/ chain[b].pc = "idle" /\ work[b].pc = "done" /\ work'[b].pc = "idle"

Outcome(b) ==
    IF chain[b].pc = "idle" THEN IF work[b].ok THEN "permitted" ELSE "error"
    ELSE audit'[Len(audit')].outcome

Learn(b) ==
    script' = [s \in DOMAIN script |->
        IF script[s].task = b /\ Answered(b)
        THEN [script[s] EXCEPT !.task = NoTask, !.reply = Outcome(b),
                               !.clean = @ /\ Outcome(b) # "error"]
        ELSE script[s]]

Service(b) == Handle(b) /\ Deliver(b) /\ Learn(b)

\* An event may have arrived although the call failed.
ServiceFault(b) == BrokerFault(b) /\ Learn(b) /\ (Deliver(b) \/ UNCHANGED cacheVars)

\* An event nobody depends on is lost: the handler goes on.
EventLost(b) == /\ Fault("cdc_down")
                /\ Emit(b) \/ AnnounceProduct(b)
                /\ UNCHANGED <<chain, audit, issued, cacheVars, script>>

-----------------------------------------------------------------------------
(* What the scripts have in common.                                           *)

At(s, label) == s \in DOMAIN script /\ script[s].pc = label /\ script[s].task = NoTask

Replied(s, label, replies) == At(s, label) /\ script[s].reply \in replies

NotPermitted == {"denied", "error", "timeout"}

Advance(s, label) == script' = [script EXCEPT ![s].pc = label]

Local == UNCHANGED <<vars, cacheVars>>

Free(b) == chain[b].pc = "idle" /\ work[b].pc = "idle"

\* The handler of a new request; which one it is makes no difference.
NewTask == CHOOSE b \in Tasks : Free(b)

Wait(s, label, b) == script' = [script EXCEPT ![s].pc = label, ![s].task = b, ![s].reply = "none"]

Call(s, label, client, kind, c, sku, term, list) ==
    /\ \E b \in Tasks : Free(b)
    /\ SubmitIntent(NewTask, client, kind, c, sku, term, list)
    /\ Wait(s, label, NewTask)
    /\ UNCHANGED cacheVars

\* The client is registered: without a token a script exits.
Start(s, label) ==
    /\ At(s, "start")
    /\ \E client \in ScriptClients :
          script' = [script EXCEPT ![s].pc = label, ![s].client = client, ![s].before = book]
    /\ Local

(***************************************************************************)
(* A read through the ACG fails: the journey fails too, its teardown runs.  *)
(* (The reads that only report, and are not followed by a write, are left   *)
(* out: their failure changes nothing.)                                     *)
(***************************************************************************)
ReadFails(s) == /\ Fault("acg_down")
                /\ \/ At(s, "browse") \/ At(s, "offers") \/ At(s, "update")
                   \/ Replied(s, "updating", {"permitted"})
                /\ Advance(s, "teardown")
                /\ UNCHANGED <<billingVars, chain, audit, issued, cacheVars>>

\* Mutant of ClientTimeout: the script does not let go of the call.
ClientTimeoutHolding(s) ==
    /\ script[s].task # NoTask
    /\ Fault("client_timeout")
    /\ script' = [script EXCEPT ![s].reply = "timeout", ![s].clean = FALSE]
    /\ UNCHANGED <<billingVars, chain, audit, issued, cacheVars>>

\* The script gives a call up; its handler goes on.
ClientTimeout(s) ==
    /\ script[s].task # NoTask
    /\ Fault("client_timeout")
    /\ script' = [script EXCEPT ![s].task = NoTask, ![s].reply = "timeout", ![s].clean = FALSE]
    /\ UNCHANGED <<billingVars, chain, audit, issued, cacheVars>>

-----------------------------------------------------------------------------
(* The purchase journey.                                                      *)

\* What the cache may answer when Billing has sent the record: each line at a list price.
Listings(lines) ==
    LET Prices(line) == {line.list} \cup listed[line.sku]
    IN  {[i \in DOMAIN lines |-> [lines[i] EXCEPT !.list = list[i]]] :
            list \in {f \in [DOMAIN lines -> UNION {Prices(lines[i]) : i \in DOMAIN lines}] :
                         \A i \in DOMAIN lines : f[i] \in Prices(lines[i])}}

ReadRecord ==
    /\ At("purchase", "browse")
    /\ \E lines \in sent : \E record \in Listings(lines) :
          script' = [script EXCEPT !["purchase"].pc = "offers", !["purchase"].record = record]
    /\ Local

\* Mutant of Choice: the saving of the longest term goes with the shortest.
ChoiceBestDelta(offer) ==
    LET term == Min(DOMAIN offer.proposals)
        best == offer.proposals[Max(DOMAIN offer.proposals)]
    IN  [sku |-> offer.sku, list |-> offer.list, term |-> term,
         delta |-> best.charge, gained |-> best.gained]

\* The first product is chosen, at its shortest term.
Choice(offer) ==
    LET term == Min(DOMAIN offer.proposals)
    IN  [sku |-> offer.sku, list |-> offer.list, term |-> term,
         delta |-> offer.proposals[term].charge, gained |-> offer.proposals[term].gained]

Browse ==
    LET offers == CompatibleOffers(Graph, price, script["purchase"].record)
    IN  /\ At("purchase", "offers")
        /\ script' = [script EXCEPT
                        !["purchase"].pc = IF offers = <<>> THEN "teardown" ELSE "purchase",
                        !["purchase"].offer = IF offers = <<>> THEN @ ELSE Choice(offers[1])]
        /\ Local

Purchase ==
    /\ At("purchase", "purchase")
    /\ LET journey == script["purchase"]
       IN  Call("purchase", "purchasing", journey.client, "add_subscription", Buyer,
                journey.offer.sku, journey.offer.term, 0)

\* The teardown of a confirmed purchase.
Cancel ==
    /\ Replied("purchase", "purchasing", {"permitted"})
    /\ Call("purchase", "cancelling", "system-admin", "cancel_subscription", Buyer,
            script["purchase"].offer.sku, 0, 0)

\* Mutant of PurchaseDone: a confirmed purchase is not undone.
PurchaseDoneBought ==
    /\ At("purchase", "teardown") \/ At("purchase", "purchasing") \/ At("purchase", "cancelling")
    /\ Advance("purchase", "done")
    /\ Local

(***************************************************************************)
(* What was not confirmed is not undone, whatever became of it.  After the  *)
(* cancellation the state counts as restored, whatever the answer.          *)
(***************************************************************************)
PurchaseDone ==
    /\ \/ At("purchase", "teardown")
       \/ Replied("purchase", "purchasing", NotPermitted)
       \/ At("purchase", "cancelling")
    /\ Advance("purchase", "done")
    /\ Local

PurchaseJourney ==
    \/ Start("purchase", "browse") \/ ReadRecord \/ Browse
    \/ Purchase \/ Cancel \/ PurchaseDone

-----------------------------------------------------------------------------
(* The pricing journey.                                                       *)

SnapshotPrice ==
    /\ At("pricing", "snapshot")
    /\ script' = [script EXCEPT !["pricing"].pc = "charges",
                                !["pricing"].price = price[PricedSku],
                                !["pricing"].todo = Customers]
    /\ Local

\* The lines of the product that are not cancelled.
Priced(lines) == {i \in DOMAIN lines : lines[i].sku = PricedSku /\ lines[i].stat # "C"}

SnapshotCharge ==
    LET todo  == script["pricing"].todo
        c     == CHOOSE c \in todo : TRUE
        lines == Priced(book[c])
    IN  /\ At("pricing", "charges")
        /\ todo # {}
        /\ script' = [script EXCEPT
                        !["pricing"].charges[c] =
                            IF lines = {} THEN @ ELSE book[c][Max(lines)].charge,
                        !["pricing"].todo = todo \ {c}]
        /\ Local

Snapshotted == /\ At("pricing", "charges")
               /\ script["pricing"].todo = {}
               /\ Advance("pricing", "update")
               /\ Local

UpdatePrice ==
    /\ At("pricing", "update")
    /\ Call("pricing", "updating", script["pricing"].client, "update_product_price", Nobody,
            PricedSku, 0, PricedAt)

Recalculate ==
    /\ Replied("pricing", "updating", {"permitted"})
    /\ Call("pricing", "recalculating", script["pricing"].client, "recalculate_billing", Nobody,
            PricedSku, 0, 0)

\* The journey went wrong or is through: the teardown begins.
PricingOver == \/ At("pricing", "teardown")
               \/ Replied("pricing", "updating", NotPermitted)
               \/ At("pricing", "recalculating")

RestorePrice ==
    /\ PricingOver
    /\ Call("pricing", "restoring", "system-admin", "update_product_price", Nobody,
            PricedSku, 0, script["pricing"].price)

\* Customers whose charge is still to be restored.
Due == {c \in Customers : script["pricing"].charges[c] # KeptCharge}

ChargeRequest(c) == [NoRequest EXCEPT !.op = "update", !.cust = c, !.sku = PricedSku,
                                      !.charge = script["pricing"].charges[c]]

\* Mutant of RestoreCharge: the customer stays due.
RestoreChargeAgain ==
    LET c == CHOOSE c \in Due : TRUE
    IN  /\ At("pricing", "restoring")
        /\ Due # {}
        /\ \E b \in Tasks : Free(b)
        /\ Arrive(NewTask, ChargeRequest(c))
        /\ Wait("pricing", "restoring", NewTask)
        /\ UNCHANGED <<brokerVars, cacheVars>>

(***************************************************************************)
(* Whatever the last answer was, the next charge is restored: PATCH         *)
(* /customers/{customer_id} at Billing, past the broker.                    *)
(***************************************************************************)
RestoreCharge ==
    LET c == CHOOSE c \in Due : TRUE
    IN  /\ At("pricing", "restoring")
        /\ Due # {}
        /\ \E b \in Tasks : Free(b)
        /\ Arrive(NewTask, ChargeRequest(c))
        /\ script' = [script EXCEPT !["pricing"].task = NewTask, !["pricing"].reply = "none",
                                    !["pricing"].charges[c] = KeptCharge]
        /\ UNCHANGED <<brokerVars, cacheVars>>

PricingDone == /\ At("pricing", "restoring")
               /\ Due = {}
               /\ Advance("pricing", "done")
               /\ Local

PricingJourney ==
    \/ Start("pricing", "snapshot") \/ SnapshotPrice \/ SnapshotCharge \/ Snapshotted
    \/ UpdatePrice \/ Recalculate \/ RestorePrice \/ RestoreCharge \/ PricingDone

-----------------------------------------------------------------------------
JNext == \/ \E b \in Tasks : Service(b) \/ ServiceFault(b) \/ EventLost(b)
         \/ \E s \in DOMAIN script : ReadFails(s) \/ ClientTimeout(s)
         \/ PurchaseJourney \/ PricingJourney

JSpec == JInit /\ [][JNext]_jvars

(***************************************************************************)
(* Every handler and either script goes on.  Nothing obliges a fault to     *)
(* happen.                                                                  *)
(***************************************************************************)
JFairness == /\ \A b \in Tasks : WF_jvars(Service(b))
             /\ WF_jvars(PurchaseJourney)
             /\ WF_jvars(PricingJourney)

JFairSpec == JSpec /\ JFairness
=============================================================================
