--------------------------- MODULE MCSubscriptions ---------------------------
(***************************************************************************)
(* A small catalogue and two customers for TLC.  A television package can   *)
(* be upgraded, and an add-on requires either package.  A package and the   *)
(* add-on cost more than the threshold of the high-value discount, until    *)
(* the package's price is lowered.                                          *)
(***************************************************************************)
EXTENDS SerialIntents, TLC

CONSTANTS c1, c2

MCSkus == {"TV", "PLUS", "ADDON"}

MCGraph == LoadGraph(MCSkus, <<[from |-> "TV", to |-> "PLUS", type |-> "UPGRADES_TO"],
                               [from |-> "ADDON", to |-> "TV", type |-> "REQUIRES"],
                               [from |-> "ADDON", to |-> "PLUS", type |-> "REQUIRES"]>>)

MCListPrices == [sku \in MCSkus |-> IF sku = "ADDON" THEN 4999 ELSE 5997]

MCNewPrices == [sku \in MCSkus |-> IF sku = "TV" THEN {3999} ELSE {}]

\* One of these is denied.
MCRequests == "purchase-agent" :> {"add_subscription", "cancel_subscription", "recalculate_billing"}
           @@ "catalogue-admin" :> {"update_product_price", "recalculate_billing"}

TaskSymmetry == Permutations(Tasks)

MCSeed == [c \in Customers |-> Reevaluated(<<NewLine("TV", 5997, 1)>>)]
=============================================================================
