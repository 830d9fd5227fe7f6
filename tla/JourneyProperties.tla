------------------------- MODULE JourneyProperties --------------------------
(***************************************************************************)
(* What the two journeys promise to whoever runs them, together and against *)
(* failing services, and what the offers promise to the customer.           *)
(***************************************************************************)
EXTENDS Journeys, SubscriptionProperties

Replies == {"none", "permitted", "denied", "error", "timeout"}

Waiting == {"purchasing", "cancelling", "updating", "recalculating", "restoring"}

(***************************************************************************)
(* Type correctness of the scripts and of what they can read, and: a script *)
(* has a handler working for it exactly while it waits for an answer.       *)
(***************************************************************************)
JTypeOK ==
    /\ sent \subseteq Seq(Line)
    /\ listed \in [Skus -> SUBSET Nat]
    /\ \A s \in DOMAIN script :
          /\ script[s].reply \in Replies
          /\ script[s].offer.sku \in Skus \cup {NoSku}
          /\ \A c \in Customers : script[s].charges[c] \in Nat \cup {KeptCharge}
          /\ script[s].todo \subseteq Customers
          /\ script[s].task \in Tasks \cup {NoTask}
          /\ script[s].task # NoTask =>
                /\ script[s].pc \in Waiting /\ script[s].reply = "none"
                /\ ~Free(script[s].task)

(***************************************************************************)
(* What the Offer Engine offers can be bought: the broker finds no fault    *)
(* with the combination and Billing does not hold the product already,      *)
(* unless a call fails or a product lacks what it requires among the active *)
(* lines and has it among the suspended or cancelled ones.  The offer is    *)
(* made on a cached record, whatever its age, by a walk of the graph that   *)
(* counts every line as held; the broker checks the active lines of the     *)
(* record.  (No client but the scripts changes the products of the buyer.)  *)
(***************************************************************************)
LapsedSkus(lines) == {lines[i].sku : i \in DOMAIN lines \ Active(lines)}

RequiresLapsed(lines, sku) ==
    LET held == ActiveSkus(lines) \cup {sku}
    IN  \E holder \in held :
            LET required == Neighbours(Graph, holder, "REQUIRES")
            IN  required \cap held = {} /\ required \cap LapsedSkus(lines) # {}

OffersAccepted ==
    "purchase" \in DOMAIN script =>
        LET journey == script["purchase"]
        IN  journey.pc = "purchasing" /\ journey.reply = "error" =>
                faults > 0 \/ RequiresLapsed(book[Buyer], journey.offer.sku)

(***************************************************************************)
(* An offer never promises too much: when a product is bought at the terms  *)
(* of its offer, and neither the record it was offered on nor the product's *)
(* price has changed, the customer's bill comes to no more than the total   *)
(* charge of the proposal: what the policies make of the record, and the    *)
(* announced change.  (What the customer was billed before may be less than *)
(* the former; then the bill rises by more than was announced.)  The offer  *)
(* is computed from the cached record and a line without a list price, the  *)
(* bill from the record of Billing and a line with one.                     *)
(***************************************************************************)
Bill(lines) == SumFunction([i \in Active(lines) |-> lines[i].charge])

AsOffered(b) ==
    /\ AddCommit(b)
    /\ script["purchase"].task = b
    /\ book[Buyer] = script["purchase"].record
    /\ work[b].raw = book[Buyer]
    /\ work[b].list = script["purchase"].offer.list

NeverAboveOffer ==
    [][\A b \in Tasks :
          AsOffered(b) =>
              Bill(book'[Buyer]) <= EvaluateDiscounts(Policies, book[Buyer]).discounted
                                        + script["purchase"].offer.delta]_jvars

(***************************************************************************)
(* A purchase journey leaves no product behind: when it ends, and no call   *)
(* of it failed or was given up, the buyer's active products are those of   *)
(* its beginning, although prices are changed and every holder is           *)
(* recalculated meanwhile.                                                  *)
(***************************************************************************)
Ended(s) == s \in DOMAIN script /\ script[s].pc = "done"

PurchaseUndone ==
    Ended("purchase") /\ script["purchase"].clean =>
        ActiveSkus(book[Buyer]) = ActiveSkus(script["purchase"].before[Buyer])

(***************************************************************************)
(* The pricing journey restores the list price and, for everybody but the   *)
(* buyer of a purchase that ran meanwhile, the charge of the product, when  *)
(* no call of it failed or was given up.                                    *)
(***************************************************************************)
PriceRestored ==
    LET journey == script["pricing"]
    IN  Ended("pricing") /\ journey.clean =>
            /\ price[PricedSku] = journey.price
            /\ \A c \in Customers \ {Buyer} : \A i \in Priced(book[c]) :
                  book[c][i].charge = journey.before[c][i].charge

(***************************************************************************)
(* A recalculation that the broker reported as done has reached every       *)
(* holder: Billing charges each of them the new price less their discounts, *)
(* on every active line.  (The buyer is left out: an addition that overlaps *)
(* writes an older copy back.)                                              *)
(***************************************************************************)
RecalculationReaches ==
    "pricing" \in DOMAIN script =>
        LET journey == script["pricing"]
        IN  journey.pc = "recalculating" /\ journey.reply = "permitted" /\ journey.clean =>
                \A c \in Customers \ {Buyer} :
                    /\ \A i \in Priced(book[c]) : book[c][i].list = PricedAt
                    /\ \A i \in Active(book[c]) :
                          book[c][i].charge = DiscountedPrice(Policies, book[c], i)

(***************************************************************************)
(* Both scripts come to their end, whatever fails.                          *)
(***************************************************************************)
JourneysEnd == <>(\A s \in DOMAIN script : script[s].pc = "done")

-----------------------------------------------------------------------------
(***************************************************************************)
(* "State restored - safe to run again", the purchase journey says when it  *)
(* ends, and "State restored", the pricing journey: every active line is    *)
(* charged as at the beginning.  The code cancels the line that was bought  *)
(* and restores the charge of the product that was repriced; the addition   *)
(* and the recalculation had changed the charges of the other lines too.    *)
(***************************************************************************)
ChargesRestored ==
    \A s \in DOMAIN script : Ended(s) /\ script[s].clean =>
        \A c \in Customers : \A i \in Active(book[c]) :
            book[c][i].charge = script[s].before[c][i].charge
=============================================================================
