----------------------------- MODULE MCJourneys -----------------------------
(***************************************************************************)
(* A small catalogue and two customers for TLC.  Both hold the television   *)
(* package, one of them with its add-on, which carries the portfolio over   *)
(* the threshold of the high-value discount until the package is repriced.  *)
(* The other, the buyer, has a suspended line too, of a product that would  *)
(* do for the add-on if the package were not there.                         *)
(***************************************************************************)
EXTENDS JourneyProperties, TLC

CONSTANTS c1, c2

MCCatalogue == <<"ADDON", "PLUS", "TV", "TVLITE">>

MCSkus == {"ADDON", "PLUS", "TV", "TVLITE"}

MCGraph == LoadGraph(MCSkus, <<[from |-> "TV", to |-> "PLUS", type |-> "UPGRADES_TO"],
                               [from |-> "ADDON", to |-> "TV", type |-> "REQUIRES"],
                               [from |-> "ADDON", to |-> "PLUS", type |-> "REQUIRES"],
                               [from |-> "ADDON", to |-> "TVLITE", type |-> "REQUIRES"]>>)

MCListPrices == [sku \in MCSkus |-> CASE sku = "ADDON" -> 4999 [] sku = "TVLITE" -> 799 [] OTHER -> 5997]

MCTermsOf == [sku \in MCSkus |-> {1, 24}]

MCNewPrices == [sku \in MCSkus |-> {}]

\* Only the scripts submit.
MCRequests == [client \in {} |-> {}]

MCSeed == [c \in Customers |->
              Reevaluated(IF c = c1 THEN <<[NewLine("TVLITE", 799, 1) EXCEPT !.stat = "S"],
                                           NewLine("TV", 5997, 1)>>
                          ELSE <<NewLine("TV", 5997, 1), NewLine("ADDON", 4999, 1)>>)]
=============================================================================
