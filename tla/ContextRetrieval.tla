-------------------------- MODULE ContextRetrieval --------------------------
(***************************************************************************)
(* acg/acg_app.py: the two retrieval plans of the gateway, run by an agent  *)
(* against the cache while the assembly service (CdcAssembly) writes to it. *)
(* Both plans read the hot cache and, on a miss, the permanent store; the   *)
(* first then answers with the record, the second passes the record's       *)
(* commercial_state to the Offer Engine first.                              *)
(*                                                                          *)
(* Between the two reads, and during the call of the Offer Engine, the      *)
(* cache may be written.  Agents do not influence each other, so that one   *)
(* of them is enough; of a field group's freshness nothing is kept, as it   *)
(* depends on the clock alone.                                              *)
(***************************************************************************)
EXTENDS CdcAssembly

\* task_type of RETRIEVAL_PLANS
RetrievalPlans == {"customer_context", "compatible_offers"}

CONSTANT Plans  \* the plans agents run

ASSUME PlansAreDeclared == Plans \subseteq RetrievalPlans

VARIABLES retrieval,  \* the plan an agent runs, where it stands, and the record read
          answer,     \* what the agent was answered last
          disturbed   \* history: a join timed out early, a call failed, a price event
                      \* was lost or a service restarted

readVars == <<retrieval, answer>>
rvars == <<vars, readVars, disturbed>>

NoRetrieval == [pc |-> "idle", plan |-> None, cust |-> None, hit |-> FALSE, record |-> NoRecord]
NoAnswer == [kind |-> "none", cust |-> None, packet |-> NoRecord]

RInit == /\ Init
         /\ retrieval = NoRetrieval
         /\ answer = NoAnswer
         /\ disturbed = FALSE

Default(record, key, value) == IF key \in DOMAIN record THEN record[key] ELSE value

(***************************************************************************)
(* BuildResponse.  Absent control fields get their defaults, an absent      *)
(* field group stays absent.                                                *)
(***************************************************************************)
Packet(record, hit) ==
    Update(record, [assembly_state  |-> Default(record, "assembly_state", "complete"),
                    missing_domains |-> Default(record, "missing_domains", {}),
                    cache_hit       |-> hit])

(***************************************************************************)
(* FetchCompatibleOffers and BuildCompatibleOffersResponse: of the offers   *)
(* only the billing state they were computed from is kept.  Without one     *)
(* there are none.  The packet says nothing of missing domains.             *)
(***************************************************************************)
OffersPacket(record, hit) ==
    [k \in {"assembly_state", "cache_hit"} \cup (DOMAIN record \cap {"commercial_state"}) |->
        CASE k = "assembly_state" -> Default(record, k, "complete")
          [] k = "cache_hit"      -> hit
          [] OTHER                -> record[k]]

-----------------------------------------------------------------------------
Reply(kind, packet) ==
    /\ answer' = [kind |-> kind, cust |-> retrieval.cust, packet |-> packet]
    /\ retrieval' = NoRetrieval

\* A record was found: the first plan answers with it.
Found(record, hit) ==
    IF retrieval.plan = "customer_context"
    THEN Reply("packet", Packet(record, hit))
    ELSE /\ retrieval' = [retrieval EXCEPT !.pc = "offers", !.hit = hit, !.record = record]
         /\ UNCHANGED answer

Retrieve(c, plan) ==
    /\ retrieval.pc = "idle"
    /\ retrieval' = [NoRetrieval EXCEPT !.pc = "hot_cache", !.plan = plan, !.cust = c]
    /\ UNCHANGED answer

CacheRead ==
    /\ retrieval.pc = "hot_cache"
    /\ IF Exists(hot[retrieval.cust])
       THEN Found(hot[retrieval.cust], TRUE)
       ELSE /\ retrieval' = [retrieval EXCEPT !.pc = "permanent_store"]
            /\ UNCHANGED answer

\* Nothing is assembled on a miss.
CacheReadPermanent ==
    /\ retrieval.pc = "permanent_store"
    /\ IF Exists(permanent[retrieval.cust])
       THEN Found(permanent[retrieval.cust], FALSE)
       ELSE Reply("404", NoRecord)

FetchCompatibleOffers ==
    /\ retrieval.pc = "offers"
    /\ Reply("offers", OffersPacket(retrieval.record, retrieval.hit))

\* A call other than a miss fails, and the plan with it.
RetrievalFails == /\ retrieval.pc # "idle"
                  /\ Reply("500", NoRecord)

Read == /\ \/ \E c \in Customers, plan \in Plans : Retrieve(c, plan)
           \/ CacheRead \/ CacheReadPermanent \/ FetchCompatibleOffers \/ RetrievalFails
        /\ UNCHANGED <<vars, disturbed>>

-----------------------------------------------------------------------------
\* A domain is still to come or being handled, or the record exists already.
Early(c) == \/ \E d \in RequiredDomains : c \in unsent[d]
            \/ \E t \in Tasks : job[t].cust = c
            \/ Exists(hot[c])

(***************************************************************************)
(* That a join times out is a disturbance only when it does so early: one   *)
(* that nothing will complete any more is left in the properties.           *)
(***************************************************************************)
Disturbance == \/ \E c \in Customers : Early(c) /\ Expire(c)
               \/ \E t \in Tasks : \/ CallFails(t) \/ EnrichCallFails(t)
                                   \/ job[t].domain = "product" /\ PostLost(t)
               \/ CacheRestarts \/ CdcRestarts

Assemble == /\ Next
            /\ disturbed' = (disturbed \/ Disturbance)
            /\ UNCHANGED readVars

RNext == Assemble \/ Read

RSpec == RInit /\ [][RNext]_rvars

\* Nobody has to read.
RFairSpec == RSpec /\ Fairness
=============================================================================
