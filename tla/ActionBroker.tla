---------------------------- MODULE ActionBroker ----------------------------
(***************************************************************************)
(* action_broker/action_broker_app.py: the governance chain of a write      *)
(* intent, from the permission check to the audit record, composed with the *)
(* billing service that carries the write out and with the list prices and  *)
(* the product graph of the catalogue.                                      *)
(***************************************************************************)
EXTENDS BillingSor, ProductGraph

CONSTANTS Graph,       \* the catalogue's product graph
          ListPrices,  \* the list prices of the catalogue file ...
          NewPrices,   \* ... and those an update may set, for each product
          Terms,       \* contract terms an addition may ask for
          Clients,     \* the ids of the registered clients
          Requests,    \* which client sends which kinds of intent, permitted or not
          Serial,      \* customers whose intents are sent one at a time
          MaxIntents,  \* bound: intents submitted
          AuditMax,    \* entries the audit deque keeps (200 in the code)
          FaultKinds,
          MaxFaults

AllFaults == {"opa_down", "catalogue_down", "cdc_down", "broker_timeout", "client_timeout",
              "acg_down"}

ASSUME BrokerParameters == /\ MaxIntents \in Nat
                           /\ AuditMax \in Nat \ {0}
                           /\ Serial \subseteq Customers
                           /\ ~Conflicting(Graph)
                           /\ FaultKinds \subseteq AllFaults
                           /\ MaxFaults \in Nat

VARIABLES chain,    \* the broker's handler of each task
          audit,    \* _audit_log
          issued,   \* history: the intents submitted, by id
          faults

brokerVars == <<chain, audit, issued, faults>>
vars == <<billingVars, brokerVars>>

Intents == {"add_subscription", "cancel_subscription", "update_product_price",
            "recalculate_billing"}

\* A loaded graph has the ends of its edges among its nodes.
ASSUME CatalogueParameters ==
    /\ ListPrices \in [Skus -> Nat]
    /\ DOMAIN NewPrices = Skus
    /\ \A sku \in Skus : NewPrices[sku] \subseteq Nat
    /\ Terms \subseteq Nat
    /\ DOMAIN Graph.relation \subseteq Graph.nodes \X Graph.nodes
    /\ DOMAIN Requests \subseteq Clients
    /\ \A caller \in DOMAIN Requests : Requests[caller] \subseteq Intents

\* policies/data.json
AllowedIntents(caller) ==
    CASE caller = "purchase-agent"  -> {"add_subscription", "cancel_subscription"}
      [] caller = "catalogue-admin" -> {"update_product_price", "recalculate_billing"}
      [] caller = "system-admin"    -> Intents
      [] OTHER                      -> {}

NoIntent == [id |-> 0, caller |-> Nobody, intent |-> "none", cust |-> Nobody, sku |-> "none",
             term |-> 0, list |-> 0]
NoChain == [pc |-> "idle", intent |-> NoIntent, held |-> {}, checked |-> FALSE]

Init == /\ BillingInit(ListPrices)
        /\ chain = [b \in Tasks |-> NoChain]
        /\ audit = <<>>
        /\ issued = <<>>
        /\ faults = 0

Fault(kind) == /\ kind \in FaultKinds
               /\ faults < MaxFaults
               /\ faults' = faults + 1

Goto(b, label) == chain' = [chain EXCEPT ![b].pc = label]

\* Mutant of Record: a full deque refuses the new entry.
RecordFull(b, outcome) ==
    audit' = IF Len(audit) = AuditMax THEN audit
             ELSE Append(audit, [id |-> chain[b].intent.id, outcome |-> outcome])

\* Mutant of Record: nothing is dropped.
RecordUnbounded(b, outcome) ==
    audit' = Append(audit, [id |-> chain[b].intent.id, outcome |-> outcome])

\* The deque drops its oldest entry when it is full.
Record(b, outcome) ==
    LET entry == [id |-> chain[b].intent.id, outcome |-> outcome]
    IN  audit' = Append(IF Len(audit) = AuditMax THEN Tail(audit) ELSE audit, entry)

Answer(b, outcome) == /\ chain' = [chain EXCEPT ![b] = NoChain]
                      /\ Record(b, outcome)

-----------------------------------------------------------------------------
(* Intents.                                                                   *)

\* An intent for the customer waits for its answer.  Of the handlers at Billing that the
\* broker has given up, after it answered 502, no client knows.
Busy(c) == \E b \in Tasks : chain[b].pc # "idle" /\ chain[b].intent.cust = c

SubmitIntent(b, caller, kind, c, sku, term, list) ==
    LET intent == [id |-> Len(issued) + 1, caller |-> caller, intent |-> kind, cust |-> c,
                   sku |-> sku, term |-> term, list |-> list]
    IN  /\ chain[b].pc = "idle"
        /\ work[b].pc = "idle"
        /\ issued' = Append(issued, [caller |-> caller, intent |-> kind])
        /\ chain' = [chain EXCEPT ![b] = [NoChain EXCEPT !.pc = "permission", !.intent = intent]]
        /\ UNCHANGED <<billingVars, audit, faults>>

-----------------------------------------------------------------------------
(* The chain.  Any payload may fail to fit the schema of its route.  A        *)
(* permitted intent whose payload fits goes on to the checks of the route.    *)

\* Mutant of Permitted: whoever the policy engine knows is let through.
PermittedKnown(b) == AllowedIntents(chain[b].intent.caller) # {}

Permitted(b) == chain[b].intent.intent \in AllowedIntents(chain[b].intent.caller)

Deny(b) ==
    /\ chain[b].pc = "permission"
    /\ ~Permitted(b)
    /\ Answer(b, "denied")
    /\ UNCHANGED <<billingVars, issued, faults>>

PolicyEngineDown(b) ==
    /\ Fault("opa_down")
    /\ chain[b].pc = "permission"
    /\ Answer(b, "error")
    /\ UNCHANGED <<billingVars, issued>>

\* 422, without an audit record.
RejectPayload(b) ==
    /\ chain[b].pc = "permission"
    /\ Permitted(b)
    /\ chain' = [chain EXCEPT ![b] = NoChain]
    /\ UNCHANGED <<billingVars, audit, issued, faults>>

Allow(b) ==
    /\ chain[b].pc = "permission"
    /\ Permitted(b)
    /\ Goto(b, IF chain[b].intent.intent = "add_subscription" THEN "portfolio" ELSE "forward")
    /\ UNCHANGED <<billingVars, audit, issued, faults>>

\* Mutant of ReadPortfolio: lines that are no longer active count as held.
ReadPortfolioAll(b) ==
    LET lines == book[chain[b].intent.cust]
    IN  /\ chain[b].pc = "portfolio"
        /\ chain' = [chain EXCEPT ![b].pc = "combination",
                                  ![b].held = {lines[i].sku : i \in DOMAIN lines}]
        /\ UNCHANGED <<billingVars, audit, issued, faults>>

\* An addition: the customer's active products, then the catalogue's verdict.
ReadPortfolio(b) ==
    /\ chain[b].pc = "portfolio"
    /\ chain' = [chain EXCEPT ![b].pc = "combination",
                              ![b].held = ActiveSkus(book[chain[b].intent.cust])]
    /\ UNCHANGED <<billingVars, audit, issued, faults>>

Proposed(b) == chain[b].held \cup {chain[b].intent.sku}

CombinationRejected(b) ==
    /\ chain[b].pc = "combination"
    /\ ~IsCombinationValid(Graph, Proposed(b))
    /\ Answer(b, "error")
    /\ UNCHANGED <<billingVars, issued, faults>>

CombinationAccepted(b) ==
    /\ chain[b].pc = "combination"
    /\ IsCombinationValid(Graph, Proposed(b))
    /\ chain' = [chain EXCEPT ![b].pc = "forward", ![b].checked = TRUE]
    /\ UNCHANGED <<billingVars, audit, issued, faults>>

\* The check fails open: without a verdict the addition goes on.
CombinationUnknown(b) ==
    /\ Fault("catalogue_down")
    /\ chain[b].pc \in {"portfolio", "combination"}
    /\ Goto(b, "forward")
    /\ UNCHANGED <<billingVars, audit, issued>>

Operation(intent) == CASE intent.intent = "add_subscription"    -> "add"
                       [] intent.intent = "cancel_subscription" -> "update"
                       [] intent.intent = "recalculate_billing" -> "recalculate"
                       [] OTHER                                 -> "price"

Forward(b) ==
    LET intent == chain[b].intent
    IN  /\ chain[b].pc = "forward"
        /\ Arrive(b, [NoRequest EXCEPT
                        !.id = intent.id, !.op = Operation(intent), !.cust = intent.cust,
                        !.sku = intent.sku, !.term = intent.term, !.list = intent.list,
                        !.stat = IF intent.intent = "cancel_subscription" THEN "C" ELSE Kept])
        /\ Goto(b, "wait")
        /\ UNCHANGED <<audit, issued, faults>>

\* PATCH /products/{sku} at the catalogue, which then sends its event ...
UpdateProduct(w) ==
    LET req == work[w].req
    IN  /\ work[w].pc = "arrived"
        /\ req.op = "price"
        /\ price' = [price EXCEPT ![req.sku] = req.list]
        /\ written' = written \cup ({req.id} \ {0})
        /\ work' = [work EXCEPT ![w].pc = "announce"]
        /\ UNCHANGED book

\* ... and answers whatever becomes of it.
AnnounceProduct(w) ==
    /\ work[w].pc = "announce"
    /\ Finish(w, TRUE)
    /\ UNCHANGED <<book, price, written>>

\* POST /reload: the prices are those of the catalogue file again.
ReloadCatalogue ==
    /\ price' = ListPrices
    /\ UNCHANGED <<book, work, written, brokerVars>>

\* Mutant of SorAnswers: any answer counts as a success.
SorAnswersAny(b) ==
    /\ chain[b].pc = "wait"
    /\ work[b].pc = "done"
    /\ Answer(b, "permitted")
    /\ work' = [work EXCEPT ![b] = NoWork]
    /\ UNCHANGED <<book, price, written, issued, faults>>

SorAnswers(b) ==
    /\ chain[b].pc = "wait"
    /\ work[b].pc = "done"
    /\ Answer(b, IF work[b].ok THEN "permitted" ELSE "error")
    /\ work' = [work EXCEPT ![b] = NoWork]
    /\ UNCHANGED <<book, price, written, issued, faults>>

-----------------------------------------------------------------------------
(* Faults.  The broker gives a request up after 10 seconds; the handler at    *)
(* the billing service goes on, and nobody reads its answer.                  *)

BrokerTimeout(b) ==
    /\ Fault("broker_timeout")
    /\ chain[b].pc = "wait"
    /\ Answer(b, "error")
    /\ UNCHANGED <<billingVars, issued>>

AnswerUnread(b) ==
    /\ chain[b].pc = "idle"
    /\ work[b].pc = "done"
    /\ work' = [work EXCEPT ![b] = NoWork]
    /\ UNCHANGED <<book, price, written, brokerVars>>

BillingFault(b) ==
    \/ Fault("catalogue_down") /\ FetchFails(b) /\ UNCHANGED <<chain, audit, issued>>
    \/ Fault("cdc_down") /\ Capture(b, FALSE) /\ UNCHANGED <<chain, audit, issued>>

-----------------------------------------------------------------------------
\* What a client may ask for: bound, the charges of products that can be repriced.
Requested(kind, c, sku, term, list) ==
    /\ c = Nobody <=> kind \in {"update_product_price", "recalculate_billing"}
    /\ IF kind = "add_subscription" THEN term \in Terms ELSE term = 0
    /\ IF kind = "update_product_price" THEN list \in NewPrices[sku] ELSE list = 0
    /\ kind = "recalculate_billing" => NewPrices[sku] # {}

Submit(b) ==
    /\ Len(issued) < MaxIntents
    /\ \E caller \in DOMAIN Requests, c \in Customers \cup {Nobody}, sku \in Skus :
          \E kind \in Requests[caller], term \in Terms \cup {0}, list \in NewPrices[sku] \cup {0} :
              /\ Requested(kind, c, sku, term, list)
              /\ c \in Serial => ~Busy(c)
              /\ SubmitIntent(b, caller, kind, c, sku, term, list)

Govern(b) ==
    \/ Deny(b) \/ Allow(b)
    \/ ReadPortfolio(b) \/ CombinationRejected(b) \/ CombinationAccepted(b)
    \/ Forward(b) \/ SorAnswers(b) \/ AnswerUnread(b)

Write(w) == Serve(w) \/ UpdateProduct(w) \/ AnnounceProduct(w)

Handle(b) == Govern(b) \/ (Write(b) /\ UNCHANGED brokerVars)

BrokerFault(b) == PolicyEngineDown(b) \/ CombinationUnknown(b) \/ BrokerTimeout(b)
                      \/ BillingFault(b)

Next == \/ ReloadCatalogue
        \/ \E b \in Tasks : Submit(b) \/ RejectPayload(b) \/ Handle(b) \/ BrokerFault(b)

Spec == Init /\ [][Next]_vars
=============================================================================
