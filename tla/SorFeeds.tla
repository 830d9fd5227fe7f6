------------------------------ MODULE SorFeeds ------------------------------
(***************************************************************************)
(* What the systems of record feed the assembly service with: the CRM (the  *)
(* domain "customer"), Billing (the domain "billing") and the Product       *)
(* Catalogue.  A record is the number of its latest committed revision, and *)
(* one list price stands for the catalogue.  Every action is the step that  *)
(* commits: the POST /events that follows it travels on its own.            *)
(***************************************************************************)
EXTENDS Ontology

CONSTANTS MaxRev,         \* bound: revisions of one record
          MaxPrice,       \* bound: revisions of the list price
          MaxRecaptures   \* bound: writes that change nothing

ASSUME SorBounds == /\ MaxRev \in Nat \ {0}
                    /\ MaxPrice \in Nat \ {0}
                    /\ MaxRecaptures \in Nat

VARIABLES sor,         \* sor[c][d]: latest revision of customer c's record in domain d
          listPrice,   \* latest revision of the product's list price
          unsent,      \* unsent[d]: seed records the startup task has still to emit
          recaptures

sorVars == <<sor, listPrice, unsent, recaptures>>

SorInit == /\ sor = [c \in Customers |-> [d \in RequiredDomains |-> 1]]
           /\ listPrice = 1
           /\ unsent = [d \in RequiredDomains |-> Customers]
           /\ recaptures = 0

\* A write that changes a record; the event carries the new revision.
ChangeRecord(c, d) ==
    /\ sor[c][d] < MaxRev
    /\ sor' = [sor EXCEPT ![c][d] = @ + 1]
    /\ UNCHANGED <<listPrice, unsent, recaptures>>

\* A write without a body: the event repeats the current revision.
Recapture(c, d) ==
    /\ recaptures < MaxRecaptures
    /\ recaptures' = recaptures + 1
    /\ UNCHANGED <<sor, listPrice, unsent>>

ChangePrice ==
    /\ listPrice < MaxPrice
    /\ listPrice' = listPrice + 1
    /\ UNCHANGED <<sor, unsent, recaptures>>

\* Mutant of StartupAnswered: a failed POST is not tried again.
StartupAnsweredNoRetry(c, d, ok) ==
    /\ unsent' = [unsent EXCEPT ![d] = @ \ {c}]
    /\ UNCHANGED <<sor, listPrice, recaptures>>

(***************************************************************************)
(* The startup task emits its records one at a time, and starts over with   *)
(* all of them when one POST fails (ten attempts: the model's bound on      *)
(* faults stays below it).                                                  *)
(***************************************************************************)
StartupAnswered(c, d, ok) ==
    /\ unsent' = [unsent EXCEPT ![d] = IF ok THEN @ \ {c} ELSE Customers]
    /\ UNCHANGED <<sor, listPrice, recaptures>>
=============================================================================
