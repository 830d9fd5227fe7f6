---------------------------- MODULE CdcAssembly -----------------------------
(***************************************************************************)
(* cdc/cdc_app.py between the systems of record (SorFeeds) and the context  *)
(* cache (ContextCache): process_event, the pending store, the enrichment   *)
(* of complete records, the fan-out of product events and the background    *)
(* timeout checker.                                                         *)
(*                                                                          *)
(* The service is one asyncio process: a coroutine runs alone between two   *)
(* awaits.  A step of the model is what one coroutine does from one access  *)
(* of shared state (a call to the cache, to the catalogue, or a section     *)
(* under _pending_lock) up to the next; the awaited log calls are no steps  *)
(* of their own, as their failures are swallowed and nothing reads them.    *)
(***************************************************************************)
EXTENDS ContextCache, SorFeeds

CONSTANTS Tasks,          \* bound: requests and background tasks in flight at once
          Timely,         \* TRUE: no join outlives its 30 seconds
          SerialClients,  \* TRUE: one outstanding write per customer and domain
          FaultKinds,     \* the faults that may happen ...
          MaxFaults       \* ... and a bound on how many do

AllFaults == {"post_lost", "post_timeout", "cache_call_fails", "cache_reply_lost",
              "catalogue_down", "cache_restart", "cdc_restart"}

ASSUME AssemblyParameters == /\ Timely \in BOOLEAN
                             /\ SerialClients \in BOOLEAN
                             /\ FaultKinds \subseteq AllFaults
                             /\ MaxFaults \in 0..9

VARIABLES pending,  \* _pending: the open join of each customer
          opened,   \* joins opened for each customer: the source of correlation ids
          pc,       \* where each task stands
          job,      \* the event a task handles, and the customer it works for
          draft,    \* the body the task is about to write
          assembly, \* the correlation id of the join the task is writing
          todo,     \* fan-out: the affected customers still to enrich
          checker,  \* the timeout checker
          acked,    \* acked[c][d]: latest revision answered with a success
          faults

taskVars == <<pc, job, draft, assembly, todo>>
joinVars == <<pending, opened>>
vars == <<cacheVars, sorVars, joinVars, taskVars, checker, acked, faults>>

None == "none"

NoJob == [cust |-> None, domain |-> None, rev |-> 0, startup |-> FALSE]
NoJoin == [id |-> 0, revs |-> NoRecord, due |-> FALSE]
Asleep == [pc |-> "sleep", todo |-> {}, cust |-> None, body |-> NoRecord, id |-> 0]

Init == /\ CacheInit
        /\ SorInit
        /\ pending = [c \in Customers |-> NoJoin]
        /\ opened = [c \in Customers |-> 0]
        /\ pc = [t \in Tasks |-> "idle"]
        /\ job = [t \in Tasks |-> NoJob]
        /\ draft = [t \in Tasks |-> NoRecord]
        /\ assembly = [t \in Tasks |-> 0]
        /\ todo = [t \in Tasks |-> {}]
        /\ checker = Asleep
        /\ acked = [c \in Customers |-> [d \in RequiredDomains |-> 0]]
        /\ faults = 0

Goto(t, label) == pc' = [pc EXCEPT ![t] = label]

Fault(kind) == /\ kind \in FaultKinds
               /\ faults < MaxFaults
               /\ faults' = faults + 1

-----------------------------------------------------------------------------
(* Requests leaving the systems of record.                                 *)

Submit(t, j) ==
    /\ pc[t] = "idle"
    /\ Goto(t, "post")
    /\ job' = [job EXCEPT ![t] = j]
    /\ UNCHANGED <<cacheVars, joinVars, draft, assembly, todo, checker, acked, faults>>

Outstanding(c, d) == \E t \in Tasks : pc[t] # "idle" /\ job[t].cust = c /\ job[t].domain = d
Emitting(d) == \E t \in Tasks : job[t].startup /\ job[t].domain = d
Free(c, d) == SerialClients => ~Outstanding(c, d)

StartupEmit(t, c, d) ==
    /\ c \in unsent[d]
    /\ ~Emitting(d)
    /\ Free(c, d)
    /\ Submit(t, [cust |-> c, domain |-> d, rev |-> sor[c][d], startup |-> TRUE])
    /\ UNCHANGED sorVars

UpdateCustomer(t, c, d) ==
    /\ Free(c, d)
    /\ \/ ChangeRecord(c, d)
       \/ Recapture(c, d)
    /\ Submit(t, [cust |-> c, domain |-> d, rev |-> sor'[c][d], startup |-> FALSE])

UpdateProduct(t) ==
    /\ ChangePrice
    /\ Submit(t, [NoJob EXCEPT !.domain = "product"])

-----------------------------------------------------------------------------
(* The end of a request: what its handler answers.                         *)

Release(t) ==
    /\ Goto(t, "idle")
    /\ job' = [job EXCEPT ![t] = NoJob]
    /\ draft' = [draft EXCEPT ![t] = NoRecord]
    /\ assembly' = [assembly EXCEPT ![t] = 0]
    /\ todo' = [todo EXCEPT ![t] = {}]

Acknowledge(t) ==
    LET c == job[t].cust
        d == job[t].domain
    IN  acked' = IF d \in RequiredDomains /\ job[t].rev > acked[c][d]
                 THEN [acked EXCEPT ![c][d] = job[t].rev] ELSE acked

Answer(t, ok) ==
    /\ Release(t)
    /\ IF ok THEN Acknowledge(t) ELSE UNCHANGED acked
    /\ IF job[t].startup THEN StartupAnswered(job[t].cust, job[t].domain, ok)
                         ELSE UNCHANGED sorVars

-----------------------------------------------------------------------------
(* process_event: a customer event.  POST /events is on its way until the   *)
(* handler's first access to shared state, GET /records/{id}.               *)

(***************************************************************************)
(* Cache HIT.  The state to store is decided from the record read here; it  *)
(* is written by a later step.                                              *)
(***************************************************************************)
NewState(held) == IF held = RequiredDomains THEN "complete"
                  ELSE IF "customer" \in held THEN AwaitingState("billing")
                                              ELSE AwaitingState("customer")

UpsertBody(existing, d, rev) ==
    Update(AssembleDomain(d, rev), [assembly_state |-> NewState(DomainsHeld(existing) \cup {d})])

LookupHit(t) ==
    LET c == job[t].cust
    IN  /\ pc[t] = "post"
        /\ job[t].domain # "product"
        /\ Exists(hot[c])
        /\ draft' = [draft EXCEPT ![t] = UpsertBody(hot[c], job[t].domain, job[t].rev)]
        /\ Goto(t, "upsert")
        /\ UNCHANGED <<cacheVars, sorVars, joinVars, job, assembly, todo, checker, acked, faults>>

LookupMiss(t) ==
    /\ pc[t] = "post"
    /\ job[t].domain # "product"
    /\ ~Exists(hot[job[t].cust])
    /\ Goto(t, "join")
    /\ UNCHANGED <<cacheVars, sorVars, joinVars, job, draft, assembly, todo, checker, acked,
                   faults>>

UpsertIncomplete(t) ==
    /\ pc[t] = "upsert"
    /\ draft[t].assembly_state # "complete"
    /\ WriteRecord(job[t].cust, draft[t], TRUE)
    /\ Answer(t, TRUE)
    /\ UNCHANGED <<joinVars, checker, faults>>

\* Mutant of UpsertComplete: the upsert is sent without its _merge_domain hint.
UpsertCompleteUnmerged(t) ==
    /\ pc[t] = "upsert"
    /\ draft[t].assembly_state = "complete"
    /\ WriteRecord(job[t].cust, draft[t], FALSE)
    /\ draft' = [draft EXCEPT ![t] = NoRecord]
    /\ Goto(t, "enrich_read")
    /\ UNCHANGED <<sorVars, joinVars, job, assembly, todo, checker, acked, faults>>

UpsertComplete(t) ==
    /\ pc[t] = "upsert"
    /\ draft[t].assembly_state = "complete"
    /\ WriteRecord(job[t].cust, draft[t], TRUE)
    /\ draft' = [draft EXCEPT ![t] = NoRecord]
    /\ Goto(t, "enrich_read")
    /\ UNCHANGED <<sorVars, joinVars, job, assembly, todo, checker, acked, faults>>

(***************************************************************************)
(* Cache MISS: the pending store, one section under _pending_lock.          *)
(***************************************************************************)
Open(join) == join.id # 0

\* Mutant of Received: the new domain replaces those already received.
ReceivedOnly(t) == [d \in {job[t].domain} |-> job[t].rev]

Received(t) == Update(pending[job[t].cust].revs, [d \in {job[t].domain} |-> job[t].rev])

OpenPending(t) ==
    LET c == job[t].cust
    IN  /\ pc[t] = "join"
        /\ ~Open(pending[c])
        /\ opened' = [opened EXCEPT ![c] = @ + 1]
        /\ pending' = [pending EXCEPT ![c] =
                          [id |-> opened[c] + 1, revs |-> Received(t), due |-> FALSE]]
        /\ Answer(t, TRUE)
        /\ UNCHANGED <<cacheVars, checker, faults>>

\* Mutant of JoinPending: an arriving last domain may stay in the pending store.
JoinPendingAny(t) ==
    LET c == job[t].cust
    IN  /\ pc[t] = "join"
        /\ Open(pending[c])
        /\ pending' = [pending EXCEPT ![c].revs = Received(t)]
        /\ Answer(t, TRUE)
        /\ UNCHANGED <<cacheVars, opened, checker, faults>>

JoinPending(t) ==
    LET c == job[t].cust
    IN  /\ pc[t] = "join"
        /\ Open(pending[c])
        /\ ~ (RequiredDomains \subseteq DOMAIN Received(t))
        /\ pending' = [pending EXCEPT ![c].revs = Received(t)]
        /\ Answer(t, TRUE)
        /\ UNCHANGED <<cacheVars, opened, checker, faults>>

CompletePending(t) ==
    LET c == job[t].cust
    IN  /\ pc[t] = "join"
        /\ Open(pending[c])
        /\ RequiredDomains \subseteq DOMAIN Received(t)
        /\ draft' = [draft EXCEPT ![t] =
              Update(MergeDomains(Received(t)),
                     [assembly_state |-> "complete", missing_domains |-> {}])]
        /\ assembly' = [assembly EXCEPT ![t] = pending[c].id]
        /\ pending' = [pending EXCEPT ![c] = NoJoin]
        /\ Goto(t, "write")
        /\ UNCHANGED <<cacheVars, sorVars, opened, job, todo, checker, acked, faults>>

WriteJoined(t) ==
    /\ pc[t] = "write"
    /\ WriteRecord(job[t].cust, draft[t], FALSE)
    /\ draft' = [draft EXCEPT ![t] = NoRecord]
    /\ assembly' = [assembly EXCEPT ![t] = 0]
    /\ Goto(t, "enrich_read")
    /\ UNCHANGED <<sorVars, joinVars, job, todo, checker, acked, faults>>

-----------------------------------------------------------------------------
(* _enrich_and_write: read the record, ask the catalogue for the list price,  *)
(* write the whole commercial_state back.                                     *)

EndEnrichment(t) ==
    IF job[t].domain = "product"
    THEN /\ Goto(t, "fanout")
         /\ draft' = [draft EXCEPT ![t] = NoRecord]
         /\ UNCHANGED <<sorVars, job, assembly, todo, acked>>
    ELSE Answer(t, TRUE)

\* Mutant of EnrichRead: the enrichment writes every field group back.
EnrichReadRecord(t) ==
    LET record == hot[job[t].cust]
    IN  /\ pc[t] = "enrich_read"
        /\ "commercial_state" \in DOMAIN record
        /\ draft' = [draft EXCEPT ![t] = [k \in FieldGroups \cap DOMAIN record |-> record[k]]]
        /\ Goto(t, "enrich_fetch")
        /\ UNCHANGED <<cacheVars, sorVars, joinVars, job, assembly, todo, checker, acked, faults>>

EnrichRead(t) ==
    LET record == hot[job[t].cust]
    IN  /\ pc[t] = "enrich_read"
        /\ "commercial_state" \in DOMAIN record
        /\ draft' = [draft EXCEPT ![t] = [commercial_state |-> record["commercial_state"]]]
        /\ Goto(t, "enrich_fetch")
        /\ UNCHANGED <<cacheVars, sorVars, joinVars, job, assembly, todo, checker, acked, faults>>

EnrichNothing(t) ==
    /\ pc[t] = "enrich_read"
    /\ "commercial_state" \notin DOMAIN hot[job[t].cust]
    /\ EndEnrichment(t)
    /\ UNCHANGED <<cacheVars, joinVars, checker, faults>>

EnrichFetch(t) ==
    /\ pc[t] = "enrich_fetch"
    /\ draft' = [draft EXCEPT ![t].commercial_state.price = listPrice]
    /\ Goto(t, "enrich_write")
    /\ UNCHANGED <<cacheVars, sorVars, joinVars, job, assembly, todo, checker, acked, faults>>

EnrichWrite(t) ==
    /\ pc[t] = "enrich_write"
    /\ WriteRecord(job[t].cust, draft[t], TRUE)
    /\ EndEnrichment(t)
    /\ UNCHANGED <<joinVars, checker, faults>>

-----------------------------------------------------------------------------
(* _handle_product_update, a task of its own.  The product event it answers   *)
(* carries no data that is used: prices are read again from the catalogue.    *)

ScanRecords(t) ==
    /\ pc[t] = "post"
    /\ job[t].domain = "product"
    /\ todo' = [todo EXCEPT ![t] = {c \in Customers : "commercial_state" \in DOMAIN hot[c]}]
    /\ Goto(t, "fanout")
    /\ UNCHANGED <<cacheVars, sorVars, joinVars, job, draft, assembly, checker, acked, faults>>

\* Mutant of FanOutNext: an enriched customer stays on the list.
FanOutAgain(t, c) ==
    /\ pc[t] = "fanout"
    /\ c \in todo[t]
    /\ job' = [job EXCEPT ![t].cust = c]
    /\ Goto(t, "enrich_read")
    /\ UNCHANGED <<cacheVars, sorVars, joinVars, draft, assembly, todo, checker, acked, faults>>

FanOutNext(t, c) ==
    /\ pc[t] = "fanout"
    /\ c \in todo[t]
    /\ todo' = [todo EXCEPT ![t] = @ \ {c}]
    /\ job' = [job EXCEPT ![t].cust = c]
    /\ Goto(t, "enrich_read")
    /\ UNCHANGED <<cacheVars, sorVars, joinVars, draft, assembly, checker, acked, faults>>

FanOutDone(t) ==
    /\ pc[t] = "fanout"
    /\ todo[t] = {}
    /\ Release(t)
    /\ UNCHANGED <<cacheVars, sorVars, joinVars, checker, acked, faults>>

-----------------------------------------------------------------------------
(* _timeout_checker: one task, woken every 5 seconds.                         *)

\* 30 seconds have passed since the join was opened.
Expire(c) ==
    /\ ~Timely
    /\ Open(pending[c])
    /\ ~pending[c].due
    /\ pending' = [pending EXCEPT ![c].due = TRUE]
    /\ UNCHANGED <<cacheVars, sorVars, opened, taskVars, checker, acked, faults>>

TimedOut == {c \in Customers : Open(pending[c]) /\ pending[c].due}

\* Mutant of PartialBody: a state the ontology does not declare.
PartialBodyUndeclared(revs) ==
    Update(MergeDomains(revs), [assembly_state  |-> "timed_out",
                                missing_domains |-> RequiredDomains \ DOMAIN revs])

PartialBody(revs) ==
    Update(MergeDomains(revs), [assembly_state  |-> "partial_timed_out",
                                missing_domains |-> RequiredDomains \ DOMAIN revs])

\* Mutant of Evict: the join is read, not popped.
EvictNoPop(c, due) ==
    /\ c \in due
    /\ Open(pending[c])
    /\ checker' = [pc |-> "write", todo |-> due \ {c}, cust |-> c,
                   body |-> PartialBody(pending[c].revs), id |-> pending[c].id]
    /\ UNCHANGED <<cacheVars, sorVars, joinVars, taskVars, acked, faults>>

\* One round of the loop over the joins found due: pop what join is there now.
Evict(c, due) ==
    /\ c \in due
    /\ Open(pending[c])
    /\ pending' = [pending EXCEPT ![c] = NoJoin]
    /\ checker' = [pc |-> "write", todo |-> due \ {c}, cust |-> c,
                   body |-> PartialBody(pending[c].revs), id |-> pending[c].id]
    /\ UNCHANGED <<cacheVars, sorVars, opened, taskVars, acked, faults>>

\* The scan and the first round: nobody holds _pending_lock across an await,
\* so taking it a second time lets nothing else run.
CheckerScan(c) == checker.pc = "sleep" /\ Evict(c, TimedOut)

\* A later round: the write of the round before has let others run.
CheckerEvict(c) == checker.pc = "evict" /\ Evict(c, checker.todo)

CheckerSkip(c) ==
    /\ checker.pc = "evict"
    /\ c \in checker.todo
    /\ ~Open(pending[c])
    /\ checker' = [checker EXCEPT !.todo = @ \ {c}]
    /\ UNCHANGED <<cacheVars, sorVars, joinVars, taskVars, acked, faults>>

CheckerNext == checker' = [Asleep EXCEPT !.pc = "evict", !.todo = checker.todo]

CheckerWrite ==
    /\ checker.pc = "write"
    /\ WriteRecord(checker.cust, checker.body, FALSE)
    /\ CheckerNext
    /\ UNCHANGED <<sorVars, joinVars, taskVars, acked, faults>>

CheckerRest ==
    /\ checker.pc = "evict"
    /\ checker.todo = {}
    /\ checker' = Asleep
    /\ UNCHANGED <<cacheVars, sorVars, joinVars, taskVars, acked, faults>>

-----------------------------------------------------------------------------
(* Faults.                                                                    *)

\* The POST, or the handler's first call to the cache, fails.
PostLost(t) ==
    /\ Fault("post_lost")
    /\ pc[t] = "post"
    /\ Answer(t, FALSE)
    /\ UNCHANGED <<cacheVars, joinVars, checker>>

\* The startup task's POST times out after 10 s: it retries, the handler goes on.
PostTimeout(t) ==
    /\ Fault("post_timeout")
    /\ job[t].startup
    /\ job' = [job EXCEPT ![t].startup = FALSE]
    /\ StartupAnswered(job[t].cust, job[t].domain, FALSE)
    /\ UNCHANGED <<cacheVars, joinVars, pc, draft, assembly, todo, checker, acked>>

\* A call to the cache fails before it is applied: process_event answers 500 ...
CallFails(t) ==
    /\ Fault("cache_call_fails")
    /\ pc[t] \in {"upsert", "write"}
    /\ Answer(t, FALSE)
    /\ UNCHANGED <<cacheVars, joinVars, checker>>

\* ... an enrichment gives up silently ...
EnrichCallFails(t) ==
    /\ Fault("cache_call_fails")
    /\ pc[t] \in {"enrich_read", "enrich_write"}
    /\ EndEnrichment(t)
    /\ UNCHANGED <<cacheVars, joinVars, checker>>

\* Mutant of CheckerCallFails: the exception ends the background task.
CheckerDies ==
    /\ Fault("cache_call_fails")
    /\ checker.pc = "write"
    /\ checker' = [Asleep EXCEPT !.pc = "dead"]
    /\ UNCHANGED <<cacheVars, sorVars, joinVars, taskVars, acked>>

\* ... and so does the timeout checker.
CheckerCallFails ==
    /\ Fault("cache_call_fails")
    /\ checker.pc = "write"
    /\ CheckerNext
    /\ UNCHANGED <<cacheVars, sorVars, joinVars, taskVars, acked>>

\* The cache applies the write, the answer never arrives: 500 as well.
ReplyLost(t) ==
    /\ Fault("cache_reply_lost")
    /\ pc[t] \in {"upsert", "write"}
    /\ WriteRecord(job[t].cust, draft[t], pc[t] = "upsert")
    /\ Answer(t, FALSE)
    /\ UNCHANGED <<joinVars, checker>>

\* The catalogue cannot be reached: the line keeps the price it had.
CatalogueDown(t) ==
    /\ Fault("catalogue_down")
    /\ pc[t] = "enrich_fetch"
    /\ Goto(t, "enrich_write")
    /\ UNCHANGED <<cacheVars, sorVars, joinVars, job, draft, assembly, todo, checker, acked>>

CacheRestarts ==
    /\ Fault("cache_restart")
    /\ CacheRestart
    /\ UNCHANGED <<sorVars, joinVars, taskVars, checker, acked>>

\* The pending store is lost with the process, and every request fails.
CdcRestarts ==
    /\ Fault("cdc_restart")
    /\ pending' = [c \in Customers |-> NoJoin]
    /\ pc' = [t \in Tasks |-> "idle"]
    /\ job' = [t \in Tasks |-> NoJob]
    /\ draft' = [t \in Tasks |-> NoRecord]
    /\ assembly' = [t \in Tasks |-> 0]
    /\ todo' = [t \in Tasks |-> {}]
    /\ checker' = Asleep
    /\ unsent' = [d \in RequiredDomains |-> IF Emitting(d) THEN Customers ELSE unsent[d]]
    /\ UNCHANGED <<cacheVars, sor, listPrice, recaptures, opened, acked>>

-----------------------------------------------------------------------------
Request(t) ==
    \/ \E c \in Customers, d \in RequiredDomains : UpdateCustomer(t, c, d)
    \/ UpdateProduct(t)

Startup == \E t \in Tasks, c \in Customers, d \in RequiredDomains : StartupEmit(t, c, d)

Handle(t) ==
    \/ LookupHit(t)        \/ LookupMiss(t)
    \/ UpsertIncomplete(t) \/ UpsertComplete(t)
    \/ OpenPending(t)     \/ JoinPending(t)         \/ CompletePending(t)
    \/ WriteJoined(t)
    \/ EnrichRead(t)      \/ EnrichNothing(t)       \/ EnrichFetch(t)  \/ EnrichWrite(t)
    \/ ScanRecords(t)     \/ FanOutDone(t)
    \/ \E c \in Customers : FanOutNext(t, c)

Check ==
    \/ \E c \in Customers : CheckerScan(c) \/ CheckerEvict(c) \/ CheckerSkip(c)
    \/ CheckerWrite \/ CheckerRest

TaskFault(t) ==
    \/ PostLost(t) \/ PostTimeout(t) \/ CallFails(t) \/ EnrichCallFails(t)
    \/ ReplyLost(t) \/ CatalogueDown(t)

Next ==
    \/ \E t \in Tasks : Request(t) \/ Handle(t) \/ TaskFault(t)
    \/ Startup
    \/ Check
    \/ \E c \in Customers : Expire(c)
    \/ CheckerCallFails
    \/ CacheRestarts
    \/ CdcRestarts

Spec == Init /\ [][Next]_vars

(***************************************************************************)
(* The event loop runs every ready coroutine and every call ends (an answer *)
(* or the client's timeout); the startup tasks run from the start; time     *)
(* passes and the checker's sleep ends.  Nobody has to write or to fail.    *)
(***************************************************************************)
Fairness == /\ \A t \in Tasks : WF_vars(Handle(t))
            /\ WF_vars(Startup)
            /\ WF_vars(Check)
            /\ \A c \in Customers : WF_vars(Expire(c))

FairSpec == Spec /\ Fairness
=============================================================================
