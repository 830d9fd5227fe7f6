---------------------------- MODULE OfferEngine ----------------------------
(***************************************************************************)
(* offer_engine/offer_engine_app.py: what a customer could add to the       *)
(* holdings of a context record, and what each addition would cost.  The    *)
(* service keeps no state: its operators read the record, the catalogue's   *)
(* graph and prices, and the discount policies.                             *)
(***************************************************************************)
EXTENDS CommercialRules, ProductGraph

CONSTANTS Catalogue,   \* the products, in alphabetical order
          TermsOf      \* the contract terms each is available with

\* Every line counts as held, whatever its status.
HeldSkus(lines) == Selected(Catalogue, {lines[i].sku : i \in DOMAIN lines})

\* The line a product would have.  It carries no list price.
ProposedLine(sku, list, term) ==
    [sku |-> sku, stat |-> "A", term |-> term, charge |-> list]

\* A comparison of two summaries.
Delta(current, proposed) ==
    [charge |-> proposed.discounted - current.discounted,
     saving |-> proposed.saving - current.saving,
     gained |-> proposed.applied \ current.applied,
     lost   |-> current.applied \ proposed.applied]

\* POST /compatible-offers: an offer for each valid candidate and each of its terms.
CompatibleOffers(graph, prices, lines) ==
    LET products   == CompatibleCandidates(graph, HeldSkus(lines))
        current    == EvaluateDiscounts(Policies, lines)
        with(p, t) == EvaluateDiscounts(Policies, Append(lines, ProposedLine(p, prices[p], t)))
        offer      == [p \in DOMAIN prices |->
                          [sku |-> p, list |-> prices[p],
                           proposals |-> [t \in TermsOf[p] |-> Delta(current, with(p, t))]]]
    IN  [n \in DOMAIN products |-> offer[products[n]]]
=============================================================================
