----------------------- MODULE SubscriptionProperties ------------------------
(***************************************************************************)
(* What the governed write path promises: of the subscription lines, of the *)
(* audit log, and of the two together.                                      *)
(***************************************************************************)
EXTENDS ActionBroker, Functions

Ids == 0 .. Len(issued)

Request == [id : Nat, op : {"none", "add", "update", "recalculate", "price"},
            cust : Customers \cup {Nobody}, sku : Skus \cup {"none"}, term : Nat, list : Nat,
            stat : {"A", "S", "C", Kept}, charge : Nat \cup {KeptCharge}]

Work == [pc : {"idle", "arrived", "fetch", "fetched", "emit", "next", "capture", "announce", "done"},
         req : Request, cust : Customers \cup {Nobody}, raw : Seq(Line), list : Nat,
         todo : SUBSET Customers, ok : BOOLEAN]

Intent == [id : Nat, caller : Clients \cup {Nobody}, intent : Intents \cup {"none"},
           cust : Customers \cup {Nobody}, sku : Skus \cup {"none"}, term : Nat, list : Nat]

Chain == [pc : {"idle", "permission", "portfolio", "combination", "forward", "wait"},
          intent : Intent, held : SUBSET Skus, checked : BOOLEAN]

(***************************************************************************)
(* Type correctness of the billing records, the handlers at Billing, the    *)
(* broker's chains and the audit log, which never outgrows its deque.       *)
(***************************************************************************)
TypeOK ==
    /\ book \in [Customers -> Seq(Line)]
    /\ price \in [Skus -> Nat]
    /\ work \in [Tasks -> Work]
    /\ chain \in [Tasks -> Chain]
    /\ issued \in Seq([caller : Clients, intent : Intents])
    /\ written \subseteq Ids \ {0}
    /\ audit \in Seq([id : Ids \ {0}, outcome : {"permitted", "denied", "error"}])
    /\ Len(audit) <= AuditMax
    /\ faults \in Nat

(***************************************************************************)
(* A customer has one line per product, although an addition checks this    *)
(* before it waits for the catalogue and appends its line afterwards.  (Two *)
(* lines of one product would each be discounted twice.)                    *)
(***************************************************************************)
OneLinePerSku ==
    \A c \in Customers : OnePerSku(book[c])

(***************************************************************************)
(* The audit log tells the truth: an intent recorded as permitted took      *)
(* effect (a recalculation may find nobody to recalculate), one recorded as *)
(* denied never does, even when its answer is long past.                    *)
(***************************************************************************)
AuditTruthful ==
    \A i \in DOMAIN audit :
        /\ audit[i].outcome = "permitted" =>
              \/ audit[i].id \in written
              \/ issued[audit[i].id].intent = "recalculate_billing"
        /\ audit[i].outcome = "denied" => audit[i].id \notin written

(***************************************************************************)
(* Nothing is written unseen: an intent leaves the chain either as the      *)
(* newest entry of the audit log, or without a trace at the systems of      *)
(* record, where it has not been written and is not being handled.          *)
(* Timeouts, failing captures, refusals and a full log make no exception.   *)
(***************************************************************************)
LeavesChain(b) == chain[b].pc # "idle" /\ chain'[b].pc = "idle"

WritesAudited ==
    [][\A b \in Tasks :
          LeavesChain(b) =>
              LET id == chain[b].intent.id
              IN  \/ audit' # <<>> /\ audit'[Len(audit')].id = id
                  \/ id \notin written' /\ work'[b].pc = "idle"]_vars

(***************************************************************************)
(* Whatever was written was permitted to its caller: the chain fails        *)
(* closed, also when the policy engine does not answer.                     *)
(***************************************************************************)
OnlyPermittedWrites ==
    \A id \in written : issued[id].intent \in AllowedIntents(issued[id].caller)

(***************************************************************************)
(* Whenever a product is added or repriced, every active line of the        *)
(* customer is charged what the discount policies say of the portfolio it   *)
(* ends up in: a new line may carry the others over the threshold.          *)
(***************************************************************************)
Prices(lines) == [i \in DOMAIN lines |-> lines[i].list]

ChargesFollowPolicies ==
    [][\A c \in Customers :
          Prices(book'[c]) # Prices(book[c]) =>
              \A i \in Active(book'[c]) :
                  book'[c][i].charge = DiscountedPrice(Policies, book'[c], i)]_vars

(***************************************************************************)
(* Every intent is answered, and Billing finishes what it began even when   *)
(* the broker has given the request up.                                     *)
(***************************************************************************)
IntentsEnd == \A b \in Tasks : []<>(chain[b].pc = "idle" /\ work[b].pc = "idle")

-----------------------------------------------------------------------------
(***************************************************************************)
(* A status change of a record is kept ("status changes applied ... are     *)
(* persisted here", billing_app.py): the code does not keep it when an      *)
(* addition to the same record overlaps.                                    *)
(***************************************************************************)
CancellationsKept ==
    [][\A c \in Customers : \A i \in DOMAIN book[c] :
          book[c][i].stat = "C" =>
              /\ Holds(book'[c], book[c][i].sku)
              /\ book'[c][LineOf(book'[c], book[c][i].sku)].stat = "C"]_vars
=============================================================================
