-------------------------- MODULE CommercialRules --------------------------
(***************************************************************************)
(* rules/commercial_rules.py: the discount engine that Billing and the      *)
(* Offer Engine share, and the policies of discounts.yaml.                  *)
(*                                                                          *)
(* A portfolio is a sequence of subscription lines; of a line the engine    *)
(* reads sku, stat, list and term, and charge where a line has no list      *)
(* price.  Prices and charges are pennies and discounts whole percentages;  *)
(* a discounted price is rounded to the penny.                              *)
(***************************************************************************)
EXTENDS Integers, Sequences, FiniteSets, Functions

Active(lines) == {i \in DOMAIN lines : lines[i].stat = "A"}

ActiveSkus(lines) == {lines[i].sku : i \in Active(lines)}

Compare(value, operator, threshold) ==
    \/ operator = "gt"  /\ value > threshold
    \/ operator = "gte" /\ value >= threshold
    \/ operator = "lt"  /\ value < threshold
    \/ operator = "lte" /\ value <= threshold
    \/ operator = "eq"  /\ value = threshold

\* What a rule's threshold is compared with: a field the line does not have is zero ...
Field(line, field) == IF field \in DOMAIN line THEN line[field] ELSE 0

\* ... but a line without a list price is priced from its charge.
ListPrice(line) == IF "list" \in DOMAIN line THEN line.list ELSE line.charge

Total(lines, field) == SumFunction([i \in Active(lines) |-> Field(lines[i], field)])

\* The active lines that satisfy a per_product rule.
Satisfying(lines, field, operator, value) ==
    {i \in Active(lines) : Compare(Field(lines[i], field), operator, value)}

\* The mean of n lines is compared as their sum with n times the threshold.
AggregateReached(lines, rule) ==
    LET n == Cardinality(Active(lines))
    IN  \/ rule.aggregate = "sum"
           /\ Compare(Total(lines, rule.match_field), rule.operator, rule.threshold)
        \/ rule.aggregate = "avg"
           /\ Compare(Total(lines, rule.match_field), rule.operator,
                      IF n = 0 THEN rule.threshold ELSE n * rule.threshold)
        \/ rule.aggregate = "count"
           /\ Compare(n, rule.operator, rule.threshold)

\* Those that satisfy a requirement of a combination; a line without the field does not.
Met(lines, requirement) ==
    {i \in Active(lines) :
        /\ requirement.match_field \in DOMAIN lines[i]
        /\ Compare(lines[i][requirement.match_field], requirement.operator, requirement.value)}

\* Whether a policy applies to the portfolio at all.
Fires(policy, lines) ==
    LET rule == policy.rule
    IN  CASE rule.scope = "per_product" ->
                Satisfying(lines, rule.match_field, rule.operator, rule.threshold) # {}
          [] rule.scope = "portfolio" -> AggregateReached(lines, rule)
          [] rule.scope = "sku_combination" ->
                \A k \in DOMAIN rule.requires : Met(lines, rule.requires[k]) # {}

(***************************************************************************)
(* How often a policy is entered for a product: the engine keeps one list   *)
(* of policies per sku, to which a per_product rule adds once per line.     *)
(***************************************************************************)
Entries(policy, lines, sku) ==
    LET rule       == policy.rule
        qualifying == {i \in Satisfying(lines, rule.match_field, rule.operator,
                                        rule.threshold) : lines[i].sku = sku}
        matched    == {lines[i].sku : i \in UNION {Met(lines, rule.requires[k]) :
                                                   k \in DOMAIN rule.requires}}
        entered    == \/ rule.scope = "portfolio"
                      \/ /\ rule.scope = "sku_combination"
                         /\ rule.applies_to = "all" \/ sku \in matched
    IN  IF rule.scope = "per_product" THEN Cardinality(qualifying)
        ELSE IF entered /\ sku \in ActiveSkus(lines) /\ Fires(policy, lines) THEN 1 ELSE 0

\* The policies add up.
DiscountPct(policies, lines, sku) ==
    SumFunction([p \in DOMAIN policies |->
                    policies[p].discount_pct * Entries(policies[p], lines, sku)])

\* The nearest penny.  (Half a penny goes up here; in the code a float decides.)
ToThePenny(hundredths) == (hundredths + 50) \div 100

DiscountedPrice(policies, lines, i) ==
    ToThePenny(ListPrice(lines[i]) * (100 - DiscountPct(policies, lines, lines[i].sku)))

\* The summary of a portfolio: what fires, what it costs and what that saves.
EvaluateDiscounts(policies, lines) ==
    LET total      == SumFunction([i \in Active(lines) |-> ListPrice(lines[i])])
        discounted == SumFunction([i \in Active(lines) |-> DiscountedPrice(policies, lines, i)])
    IN  [applied |-> {p \in DOMAIN policies : Fires(policies[p], lines)},
         discounted |-> discounted, saving |-> total - discounted]

-----------------------------------------------------------------------------
(* discounts.yaml                                                             *)

LongContract ==
    [policy_id |-> "contract_duration_2yr", discount_pct |-> 10,
     rule |-> [scope |-> "per_product", match_field |-> "term", operator |-> "gte",
               threshold |-> 24]]

HighValue ==
    [policy_id |-> "high_value_contract", discount_pct |-> 10,
     rule |-> [scope |-> "portfolio", aggregate |-> "sum", match_field |-> "list",
               operator |-> "gt", threshold |-> 10000]]

Policies == <<LongContract, HighValue>>
=============================================================================
