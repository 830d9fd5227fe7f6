-------------------------- MODULE CdcSafetyProofs ---------------------------
(***************************************************************************)
(* The properties that hold whatever happens, for every set of customers    *)
(* and tasks, every bound and every choice of faults: type correctness, the *)
(* two tiers agree, versions advance one write at a time, the cache rejects *)
(* no body, joins in the pending store are partial, and each join has one   *)
(* owner.  Then what the service delivers while no join is late.            *)
(***************************************************************************)
EXTENDS CdcProperties, TLAPS

-----------------------------------------------------------------------------
(***************************************************************************)
(* The operators on dictionaries return records.                            *)
(***************************************************************************)

\* The update of a record by a record holds the keys of both, typed as they were.
LEMMA UpdateIsRecord ==
    ASSUME NEW r, NEW b, IsRecord(r), IsRecord(b)
    PROVE  /\ IsRecord(Update(r, b))
           /\ DOMAIN Update(r, b) = DOMAIN r \cup DOMAIN b
BY DEF Update, IsRecord

LEMMA NoRecordIsRecord == IsRecord(NoRecord) /\ IsStored(NoRecord)
BY DEF NoRecord, IsRecord, IsStored, Exists

\* What a tier stores for a body is a record with a version.
LEMMA StoredIsStored ==
    ASSUME NEW r, NEW b, NEW m \in BOOLEAN, IsStored(r), IsRecord(b)
    PROVE  IsStored(Stored(r, b, m))
<1> DEFINE version == IF Exists(r) THEN r["version"] + 1 ELSE 1
           kept    == IF m /\ Exists(r) THEN r ELSE NoRecord
           stamp   == [version |-> version]
<1>1. version \in Nat
  BY DEF IsStored, IsRecord
<1>2. IsRecord(stamp) /\ DOMAIN stamp = {"version"}
  BY <1>1 DEF IsRecord, ControlFields, FieldGroups, ValidAssemblyStates
<1>3. IsRecord(kept)
  BY NoRecordIsRecord DEF IsStored
<1>4. IsRecord(Update(kept, b))
  BY <1>3, UpdateIsRecord
<1> HIDE DEF version, kept, stamp
<1>5. /\ IsRecord(Update(Update(kept, b), stamp))
      /\ "version" \in DOMAIN Update(Update(kept, b), stamp)
  BY <1>2, <1>4, UpdateIsRecord
<1>6. Stored(r, b, m) = Update(Update(kept, b), stamp)
  BY DEF Stored, version, kept, stamp
<1> QED
  BY <1>5, <1>6 DEF IsStored

\* A write keeps both tiers typed.
LEMMA WriteRecordOK ==
    ASSUME CacheOK, NEW c \in Customers, NEW body, IsRecord(body), NEW m \in BOOLEAN,
           WriteRecord(c, body, m)
    PROVE  CacheOK'
<1>1. IsStored(Stored(hot[c], body, m)) /\ IsStored(Stored(permanent[c], body, m))
  BY StoredIsStored DEF CacheOK
<1> QED
  BY <1>1 DEF CacheOK, WriteRecord

\* The partial of one domain is a record.
LEMMA AssembleIsRecord ==
    ASSUME NEW d \in RequiredDomains, NEW rev \in Nat
    PROVE  IsRecord(AssembleDomain(d, rev))
BY DEF AssembleDomain, Content, FieldGroup, RequiredDomains, IsRecord, ControlFields, FieldGroups

\* So is the merge of the partials of some required domains.
LEMMA MergeIsRecord ==
    ASSUME NEW revs, DOMAIN revs \subseteq RequiredDomains, \A d \in DOMAIN revs : revs[d] \in Nat
    PROVE  IsRecord(MergeDomains(revs))
<1> DEFINE m == MergeDomains(revs)
<1>1. DOMAIN m = {FieldGroup(d) : d \in DOMAIN revs} \cup {"provenance"}
  BY DEF MergeDomains
<1>2. \A k \in DOMAIN m : k \in {"profile", "commercial_state", "provenance"}
  BY <1>1 DEF FieldGroup
<1>3. "profile" \in DOMAIN m => "customer" \in DOMAIN revs /\ m["profile"] = Content("customer", revs["customer"])
  BY <1>1 DEF MergeDomains, SourceDomain, FieldGroup, RequiredDomains
<1>4. "commercial_state" \in DOMAIN m =>
          "billing" \in DOMAIN revs /\ m["commercial_state"] = Content("billing", revs["billing"])
  BY <1>1 DEF MergeDomains, SourceDomain, FieldGroup, RequiredDomains
<1>5. m["provenance"] = DOMAIN revs
  BY <1>1 DEF MergeDomains
<1> HIDE DEF m
<1>6. IsRecord(m)
  BY <1>2, <1>3, <1>4, <1>5 DEF IsRecord, Content, ControlFields, FieldGroups, FieldGroup, RequiredDomains
<1> QED
  BY <1>6 DEF m

\* The bodies the service writes are records.
LEMMA UpsertBodyIsRecord ==
    ASSUME NEW existing, NEW d \in RequiredDomains, NEW rev \in Nat
    PROVE  IsRecord(UpsertBody(existing, d, rev))
<1> DEFINE state == [assembly_state |-> NewState(DomainsHeld(existing) \cup {d})]
<1>1. IsRecord(state)
  BY DEF IsRecord, NewState, AwaitingState, ValidAssemblyStates, ControlFields, RequiredDomains
<1> HIDE DEF state
<1>2. IsRecord(Update(AssembleDomain(d, rev), state))
  BY <1>1, AssembleIsRecord, UpdateIsRecord
<1> QED
  BY <1>2 DEF UpsertBody, state

LEMMA PartialBodyIsRecord ==
    ASSUME NEW revs, DOMAIN revs \subseteq RequiredDomains, \A d \in DOMAIN revs : revs[d] \in Nat
    PROVE  IsRecord(PartialBody(revs))
<1> DEFINE fields == [assembly_state  |-> "partial_timed_out",
                      missing_domains |-> RequiredDomains \ DOMAIN revs]
<1>1. IsRecord(fields)
  BY DEF IsRecord, ValidAssemblyStates, ControlFields
<1> HIDE DEF fields
<1>2. IsRecord(Update(MergeDomains(revs), fields))
  BY <1>1, MergeIsRecord, UpdateIsRecord
<1> QED
  BY <1>2 DEF PartialBody, fields

LEMMA JoinedBodyIsRecord ==
    ASSUME NEW revs, DOMAIN revs \subseteq RequiredDomains, \A d \in DOMAIN revs : revs[d] \in Nat
    PROVE  IsRecord(Update(MergeDomains(revs),
                           [assembly_state |-> "complete", missing_domains |-> {}]))
<1> DEFINE fields == [assembly_state |-> "complete", missing_domains |-> {}]
<1>1. IsRecord(fields)
  BY DEF IsRecord, ValidAssemblyStates, ControlFields
<1> HIDE DEF fields
<1>2. IsRecord(Update(MergeDomains(revs), fields))
  BY <1>1, MergeIsRecord, UpdateIsRecord
<1> QED
  BY <1>2 DEF fields

-----------------------------------------------------------------------------
(***************************************************************************)
(* Type correctness.  A task that is past its lookup works for a customer,  *)
(* which the types of its variables alone do not say.                       *)
(***************************************************************************)
JobFits(t) ==
    /\ pc[t] \in {"upsert", "join", "write"} \/ (pc[t] = "post" /\ job[t].domain # "product")
          => job[t].cust \in Customers /\ job[t].domain \in RequiredDomains
    /\ pc[t] \in {"enrich_read", "enrich_fetch", "enrich_write"} => job[t].cust \in Customers
    /\ job[t].startup => job[t].cust \in Customers /\ job[t].domain \in RequiredDomains
    /\ pc[t] \in {"enrich_fetch", "enrich_write"} => "commercial_state" \in DOMAIN draft[t]

JobsFit == /\ \A t \in Tasks : JobFits(t)
           /\ checker.pc = "write" => checker.cust \in Customers

IInv == TypeOK /\ JobsFit

LEMMA InitInv == Init => IInv
<1> SUFFICES ASSUME Init PROVE IInv
  OBVIOUS
<1>1. CacheOK
  BY NoRecordIsRecord DEF Init, CacheInit, CacheOK
<1>2. SorOK /\ faults \in Nat
  BY DEF Init, SorInit, SorOK
<1>3. IsJoin(NoJoin)
  BY DEF NoJoin, NoRecord, IsJoin, Open
<1>4. JoinsOK
  BY <1>3 DEF Init, JoinsOK
<1>5. NoJob \in Jobs
  BY DEF NoJob, Jobs
<1>6. TasksOK
  BY <1>5, NoRecordIsRecord DEF Init, TasksOK, Labels
<1>7. CheckerOK /\ checker.pc = "sleep"
  BY NoRecordIsRecord DEF Init, CheckerOK, Asleep
<1>8. JobsFit
  BY <1>7 DEF Init, JobsFit, JobFits, NoJob
<1> QED
  BY <1>1, <1>2, <1>4, <1>6, <1>7, <1>8 DEF IInv, TypeOK

\* Releasing a task leaves an idle task without a job.
LEMMA ReleaseOK ==
    ASSUME IInv, NEW t \in Tasks, Release(t)
    PROVE  TasksOK' /\ \A u \in Tasks : JobFits(u)'
<1>1. NoJob \in Jobs
  BY DEF NoJob, Jobs
<1>2. TasksOK'
  BY <1>1, NoRecordIsRecord DEF IInv, TypeOK, TasksOK, Release, Goto, Labels
<1>3. ASSUME NEW u \in Tasks PROVE JobFits(u)'
  <2>1. CASE u = t
    BY <2>1 DEF IInv, TypeOK, TasksOK, Release, Goto, JobFits, NoJob
  <2>2. CASE u # t
    BY <2>2 DEF IInv, TypeOK, TasksOK, JobsFit, Release, Goto, JobFits
  <2> QED
    BY <2>1, <2>2
<1> QED
  BY <1>2, <1>3

\* Answering does too, and keeps the books of the systems of record typed.
LEMMA AnswerOK ==
    ASSUME IInv, NEW t \in Tasks, NEW ok \in BOOLEAN, Answer(t, ok)
    PROVE  TasksOK' /\ (\A u \in Tasks : JobFits(u)') /\ SorOK'
<1>1. Release(t)
  BY DEF Answer
<1>2. acked' \in [Customers -> [RequiredDomains -> Nat]]
  <2>1. acked \in [Customers -> [RequiredDomains -> Nat]] /\ job[t].rev \in Nat
    BY DEF IInv, TypeOK, TasksOK, SorOK, Jobs
  <2>2. \A c, d, rev : rev \in Nat =>
           [acked EXCEPT ![c][d] = rev] \in [Customers -> [RequiredDomains -> Nat]]
    BY <2>1
  <2>3. acked' = acked \/ acked' = [acked EXCEPT ![job[t].cust][job[t].domain] = job[t].rev]
    BY DEF Answer, Acknowledge
  <2> QED
    BY <2>1, <2>2, <2>3
<1>3. /\ unsent' \in [RequiredDomains -> SUBSET Customers]
      /\ sor' = sor /\ listPrice' = listPrice /\ recaptures' = recaptures
  BY DEF Answer, StartupAnswered, sorVars, IInv, TypeOK, TasksOK, SorOK, Jobs
<1>4. SorOK'
  BY <1>2, <1>3 DEF IInv, TypeOK, SorOK
<1> QED
  BY <1>1, <1>4, ReleaseOK

\* An enrichment ends in an answer, or in the next customer of a fan-out.
LEMMA EndEnrichmentOK ==
    ASSUME IInv, NEW t \in Tasks, EndEnrichment(t)
    PROVE  TasksOK' /\ (\A u \in Tasks : JobFits(u)') /\ SorOK'
<1>1. CASE job[t].domain = "product"
  <2>1. TasksOK' /\ SorOK'
    BY <1>1, NoRecordIsRecord DEF EndEnrichment, Goto, sorVars, IInv, TypeOK, TasksOK, SorOK, Labels
  <2>2. ASSUME NEW u \in Tasks PROVE JobFits(u)'
    BY <1>1 DEF EndEnrichment, Goto, sorVars, IInv, TypeOK, TasksOK, JobsFit, JobFits
  <2> QED
    BY <2>1, <2>2
<1>2. CASE job[t].domain # "product"
  BY <1>2, AnswerOK DEF EndEnrichment
<1> QED
  BY <1>1, <1>2

(***************************************************************************)
(* One lemma for each group of steps that touch the same variables.         *)
(***************************************************************************)

\* A request leaves a system of record.
LEMMA SubmitOK ==
    ASSUME IInv, NEW t \in Tasks, NEW j \in Jobs, Submit(t, j),
           j.startup \/ j.domain # "product" => j.cust \in Customers /\ j.domain \in RequiredDomains
    PROVE  TasksOK' /\ JobsFit' /\ CacheOK' /\ JoinsOK' /\ CheckerOK' /\ faults' = faults
              /\ acked' = acked
<1>1. TasksOK'
  BY DEF IInv, TypeOK, TasksOK, Submit, Goto, Labels
<1>2. ASSUME NEW u \in Tasks PROVE JobFits(u)'
  BY DEF IInv, TypeOK, TasksOK, JobsFit, JobFits, Submit, Goto
<1>3. UNCHANGED <<hot, permanent, pending, opened, checker, faults, acked>>
  BY DEF Submit, cacheVars, joinVars
<1> QED
  BY <1>1, <1>2, <1>3 DEF IInv, TypeOK, CacheOK, JoinsOK, CheckerOK, JobsFit

LEMMA RequestStep ==
    ASSUME IInv, NEW t \in Tasks, Request(t)
    PROVE  IInv'
<1>1. ASSUME NEW c \in Customers, NEW d \in RequiredDomains, UpdateCustomer(t, c, d)
      PROVE  IInv'
  <2>1. /\ sor' \in [Customers -> [RequiredDomains -> Nat]]
        /\ listPrice' = listPrice /\ unsent' = unsent /\ recaptures' \in Nat
    BY <1>1 DEF UpdateCustomer, ChangeRecord, Recapture, IInv, TypeOK, SorOK
  <2>2. [cust |-> c, domain |-> d, rev |-> sor'[c][d], startup |-> FALSE] \in Jobs
    BY <2>1 DEF Jobs
  <2>3. TasksOK' /\ JobsFit' /\ CacheOK' /\ JoinsOK' /\ CheckerOK' /\ faults' = faults
           /\ acked' = acked
    BY <1>1, <2>2, SubmitOK DEF UpdateCustomer
  <2> QED
    BY <2>1, <2>3 DEF IInv, TypeOK, SorOK
<1>2. ASSUME UpdateProduct(t)
      PROVE  IInv'
  <2>1. [NoJob EXCEPT !.domain = "product"] \in Jobs /\ ~NoJob.startup
    BY DEF NoJob, Jobs
  <2>2. TasksOK' /\ JobsFit' /\ CacheOK' /\ JoinsOK' /\ CheckerOK' /\ faults' = faults
           /\ acked' = acked
    BY <1>2, <2>1, SubmitOK DEF UpdateProduct, NoJob
  <2> QED
    BY <1>2, <2>2 DEF UpdateProduct, ChangePrice, IInv, TypeOK, SorOK
<1> QED
  BY <1>1, <1>2 DEF Request

LEMMA StartupStep ==
    ASSUME IInv, Startup
    PROVE  IInv'
<1> PICK t \in Tasks, c \in Customers, d \in RequiredDomains : StartupEmit(t, c, d)
  BY DEF Startup
<1>1. [cust |-> c, domain |-> d, rev |-> sor[c][d], startup |-> TRUE] \in Jobs
  BY DEF Jobs, IInv, TypeOK, SorOK
<1>2. TasksOK' /\ JobsFit' /\ CacheOK' /\ JoinsOK' /\ CheckerOK' /\ faults' = faults
         /\ acked' = acked
  BY <1>1, SubmitOK DEF StartupEmit
<1> QED
  BY <1>2 DEF StartupEmit, sorVars, IInv, TypeOK, SorOK

\* What a task works with is typed.
LEMMA TaskTypes ==
    ASSUME IInv, NEW t \in Tasks
    PROVE  /\ IsRecord(draft[t]) /\ job[t] \in Jobs /\ assembly[t] \in Nat
           /\ \A c \in Customers : IsRecord(hot[c]) /\ IsJoin(pending[c])
           /\ JobFits(t)
BY DEF IInv, TypeOK, TasksOK, CacheOK, JoinsOK, JobsFit, IsStored

\* The domains received, with the event a task brings.
LEMMA ReceivedOK ==
    ASSUME IInv, NEW t \in Tasks, pc[t] = "join"
    PROVE  /\ job[t].cust \in Customers
           /\ DOMAIN Received(t) = DOMAIN pending[job[t].cust].revs \cup {job[t].domain}
           /\ DOMAIN Received(t) \subseteq RequiredDomains
           /\ \A d \in DOMAIN Received(t) : Received(t)[d] \in Nat
<1>1. job[t].cust \in Customers /\ job[t].domain \in RequiredDomains /\ job[t].rev \in Nat
  BY TaskTypes DEF JobFits, Jobs
<1>2. IsJoin(pending[job[t].cust])
  BY <1>1, TaskTypes
<1> QED
  BY <1>1, <1>2 DEF Received, Update, IsJoin

LEMMA LookupStep ==
    ASSUME IInv, NEW t \in Tasks, LookupHit(t) \/ LookupMiss(t)
    PROVE  IInv'
<1>1. CASE LookupHit(t)
  <2>1. job[t].domain \in RequiredDomains /\ job[t].rev \in Nat
    BY <1>1, TaskTypes DEF LookupHit, JobFits, Jobs
  <2>2. IsRecord(UpsertBody(hot[job[t].cust], job[t].domain, job[t].rev))
    BY <2>1, UpsertBodyIsRecord
  <2>3. TasksOK'
    BY <1>1, <2>2 DEF LookupHit, Goto, IInv, TypeOK, TasksOK, Labels
  <2>4. ASSUME NEW u \in Tasks PROVE JobFits(u)'
    BY <1>1 DEF LookupHit, Goto, IInv, TypeOK, TasksOK, JobsFit, JobFits
  <2> QED
    BY <1>1, <2>3, <2>4 DEF LookupHit, cacheVars, sorVars, joinVars, IInv, TypeOK, CacheOK, SorOK,
       JoinsOK, CheckerOK, JobsFit
<1>2. CASE LookupMiss(t)
  <2>1. TasksOK'
    BY <1>2 DEF LookupMiss, Goto, IInv, TypeOK, TasksOK, Labels
  <2>2. ASSUME NEW u \in Tasks PROVE JobFits(u)'
    BY <1>2 DEF LookupMiss, Goto, IInv, TypeOK, TasksOK, JobsFit, JobFits
  <2> QED
    BY <1>2, <2>1, <2>2 DEF LookupMiss, cacheVars, sorVars, joinVars, IInv, TypeOK, CacheOK, SorOK,
       JoinsOK, CheckerOK, JobsFit
<1> QED
  BY <1>1, <1>2

LEMMA UpsertStep ==
    ASSUME IInv, NEW t \in Tasks, UpsertIncomplete(t) \/ UpsertComplete(t)
    PROVE  IInv'
<1>1. CASE UpsertIncomplete(t)
  <2>1. CacheOK'
    BY <1>1, TaskTypes, WriteRecordOK DEF UpsertIncomplete, JobFits, IInv, TypeOK
  <2>2. TasksOK' /\ (\A u \in Tasks : JobFits(u)') /\ SorOK'
    BY <1>1, AnswerOK DEF UpsertIncomplete
  <2> QED
    BY <1>1, <2>1, <2>2 DEF UpsertIncomplete, joinVars, IInv, TypeOK, JoinsOK, CheckerOK, JobsFit
<1>2. CASE UpsertComplete(t)
  <2>1. CacheOK'
    BY <1>2, TaskTypes, WriteRecordOK DEF UpsertComplete, JobFits, IInv, TypeOK
  <2>2. TasksOK'
    BY <1>2, NoRecordIsRecord DEF UpsertComplete, Goto, IInv, TypeOK, TasksOK, Labels
  <2>3. ASSUME NEW u \in Tasks PROVE JobFits(u)'
    BY <1>2 DEF UpsertComplete, Goto, IInv, TypeOK, TasksOK, JobsFit, JobFits
  <2> QED
    BY <1>2, <2>1, <2>2, <2>3 DEF UpsertComplete, sorVars, joinVars, IInv, TypeOK, SorOK, JoinsOK,
       CheckerOK, JobsFit
<1> QED
  BY <1>1, <1>2

LEMMA OpenOrJoinStep ==
    ASSUME IInv, NEW t \in Tasks, OpenPending(t) \/ JoinPending(t)
    PROVE  IInv'
<1> DEFINE c == job[t].cust
<1>1. pc[t] = "join" /\ Answer(t, TRUE) /\ UNCHANGED <<cacheVars, checker, faults>>
  BY DEF OpenPending, JoinPending
<1>2. TasksOK' /\ (\A u \in Tasks : JobFits(u)') /\ SorOK'
  BY <1>1, AnswerOK
<1>3. JoinsOK'
  <2>1. CASE OpenPending(t)
    <3>1. c \in Customers /\ opened \in [Customers -> Nat]
      BY <1>1, ReceivedOK DEF IInv, TypeOK, JoinsOK
    <3>2. opened' \in [Customers -> Nat] /\ opened[c] + 1 \in Nat \ {0}
      BY <2>1, <3>1 DEF OpenPending
    <3>3. IsJoin([id |-> opened[c] + 1, revs |-> Received(t), due |-> FALSE])
      <4> HIDE DEF c
      <4> QED
        BY <1>1, <3>2, ReceivedOK DEF IsJoin, Open
    <3> QED
      BY <2>1, <3>2, <3>3 DEF OpenPending, IInv, TypeOK, JoinsOK
  <2>2. CASE JoinPending(t)
    <3>1. IsJoin([pending[c] EXCEPT !.revs = Received(t)])
      BY <1>1, <2>2, ReceivedOK, TaskTypes DEF JoinPending, IsJoin, Open
    <3>2. pending' = [pending EXCEPT ![c] = [pending[c] EXCEPT !.revs = Received(t)]]
      BY <2>2 DEF JoinPending
    <3> QED
      BY <2>2, <3>1, <3>2 DEF JoinPending, IInv, TypeOK, JoinsOK
  <2> QED
    BY <2>1, <2>2
<1> QED
  BY <1>1, <1>2, <1>3 DEF cacheVars, IInv, TypeOK, CacheOK, CheckerOK, JobsFit

LEMMA CompleteStep ==
    ASSUME IInv, NEW t \in Tasks, CompletePending(t)
    PROVE  IInv'
<1> DEFINE c    == job[t].cust
           body == Update(MergeDomains(Received(t)),
                          [assembly_state |-> "complete", missing_domains |-> {}])
<1>1. pc[t] = "join" /\ c \in Customers
  BY ReceivedOK DEF CompletePending
<1>2. IsRecord(body)
  BY <1>1, ReceivedOK, JoinedBodyIsRecord
<1>3. IsJoin(NoJoin) /\ pending[c].id \in Nat
  BY <1>1, TaskTypes DEF NoJoin, NoRecord, IsJoin, Open
<1>4. JoinsOK'
  BY <1>1, <1>3 DEF CompletePending, IInv, TypeOK, JoinsOK
<1>5. TasksOK'
  BY <1>2, <1>3 DEF CompletePending, Goto, IInv, TypeOK, TasksOK, Labels
<1>6. ASSUME NEW u \in Tasks PROVE JobFits(u)'
  BY <1>1 DEF CompletePending, Goto, IInv, TypeOK, TasksOK, JobsFit, JobFits
<1> QED
  BY <1>4, <1>5, <1>6 DEF CompletePending, cacheVars, sorVars, IInv, TypeOK, CacheOK, SorOK,
     CheckerOK, JobsFit

LEMMA WriteJoinedStep ==
    ASSUME IInv, NEW t \in Tasks, WriteJoined(t)
    PROVE  IInv'
<1>1. CacheOK'
  BY TaskTypes, WriteRecordOK DEF WriteJoined, JobFits, IInv, TypeOK
<1>2. TasksOK'
  BY NoRecordIsRecord DEF WriteJoined, Goto, IInv, TypeOK, TasksOK, Labels
<1>3. ASSUME NEW u \in Tasks PROVE JobFits(u)'
  BY DEF WriteJoined, Goto, IInv, TypeOK, TasksOK, JobsFit, JobFits
<1> QED
  BY <1>1, <1>2, <1>3 DEF WriteJoined, sorVars, joinVars, IInv, TypeOK, SorOK, JoinsOK, CheckerOK,
     JobsFit

LEMMA EnrichStep ==
    ASSUME IInv, NEW t \in Tasks,
           EnrichRead(t) \/ EnrichNothing(t) \/ EnrichFetch(t) \/ EnrichWrite(t)
    PROVE  IInv'
<1>1. CASE EnrichRead(t)
  <2>1. job[t].cust \in Customers
    BY <1>1, TaskTypes DEF EnrichRead, JobFits
  <2>2. IsRecord([commercial_state |-> hot[job[t].cust]["commercial_state"]])
    BY <1>1, <2>1, TaskTypes DEF EnrichRead, IsRecord, ControlFields, FieldGroups, FieldGroup,
       RequiredDomains
  <2>3. TasksOK'
    BY <1>1, <2>2 DEF EnrichRead, Goto, IInv, TypeOK, TasksOK, Labels
  <2>4. ASSUME NEW u \in Tasks PROVE JobFits(u)'
    BY <1>1 DEF EnrichRead, Goto, IInv, TypeOK, TasksOK, JobsFit, JobFits
  <2> QED
    BY <1>1, <2>3, <2>4 DEF EnrichRead, cacheVars, sorVars, joinVars, IInv, TypeOK, CacheOK, SorOK,
       JoinsOK, CheckerOK, JobsFit
<1>2. CASE EnrichNothing(t)
  BY <1>2, EndEnrichmentOK DEF EnrichNothing, cacheVars, joinVars, IInv, TypeOK, CacheOK, JoinsOK,
     CheckerOK, JobsFit
<1>3. CASE EnrichFetch(t)
  <2>1. draft' = [draft EXCEPT ![t] = [draft[t] EXCEPT !["commercial_state"] =
                     [draft[t]["commercial_state"] EXCEPT !.price = listPrice]]]
    BY <1>3 DEF EnrichFetch
  <2>2. IsRecord([draft[t] EXCEPT !["commercial_state"] =
                     [draft[t]["commercial_state"] EXCEPT !.price = listPrice]])
    BY <1>3, TaskTypes DEF EnrichFetch, JobFits, IsRecord, IInv, TypeOK, SorOK
  <2>3. TasksOK'
    BY <1>3, <2>1, <2>2 DEF EnrichFetch, Goto, IInv, TypeOK, TasksOK, Labels
  <2>4. ASSUME NEW u \in Tasks PROVE JobFits(u)'
    BY <1>3, <2>1 DEF EnrichFetch, Goto, IInv, TypeOK, TasksOK, JobsFit, JobFits
  <2> QED
    BY <1>3, <2>3, <2>4 DEF EnrichFetch, cacheVars, sorVars, joinVars, IInv, TypeOK, CacheOK, SorOK,
       JoinsOK, CheckerOK, JobsFit
<1>4. CASE EnrichWrite(t)
  <2>1. CacheOK'
    BY <1>4, TaskTypes, WriteRecordOK DEF EnrichWrite, JobFits, IInv, TypeOK
  <2> QED
    BY <1>4, <2>1, EndEnrichmentOK DEF EnrichWrite, joinVars, IInv, TypeOK, JoinsOK, CheckerOK,
       JobsFit
<1> QED
  BY <1>1, <1>2, <1>3, <1>4

LEMMA FanOutStep ==
    ASSUME IInv, NEW t \in Tasks,
           ScanRecords(t) \/ FanOutDone(t) \/ \E c \in Customers : FanOutNext(t, c)
    PROVE  IInv'
<1>1. CASE ScanRecords(t)
  <2>1. TasksOK'
    BY <1>1 DEF ScanRecords, Goto, IInv, TypeOK, TasksOK, Labels
  <2>2. ASSUME NEW u \in Tasks PROVE JobFits(u)'
    BY <1>1 DEF ScanRecords, Goto, IInv, TypeOK, TasksOK, JobsFit, JobFits
  <2> QED
    BY <1>1, <2>1, <2>2 DEF ScanRecords, cacheVars, sorVars, joinVars, IInv, TypeOK, CacheOK, SorOK,
       JoinsOK, CheckerOK, JobsFit
<1>2. CASE FanOutDone(t)
  BY <1>2, ReleaseOK DEF FanOutDone, cacheVars, sorVars, joinVars, IInv, TypeOK, CacheOK, SorOK,
     JoinsOK, CheckerOK, JobsFit
<1>3. ASSUME NEW c \in Customers, FanOutNext(t, c)
      PROVE  IInv'
  <2>1. TasksOK'
    <3>1. job[t] \in Jobs => [job[t] EXCEPT !.cust = c] \in Jobs
      BY DEF Jobs
    <3>2. job' \in [Tasks -> Jobs]
      BY <1>3, <3>1 DEF FanOutNext, IInv, TypeOK, TasksOK
    <3>3. todo' \in [Tasks -> SUBSET Customers]
      BY <1>3 DEF FanOutNext, IInv, TypeOK, TasksOK
    <3> QED
      BY <1>3, <3>2, <3>3 DEF FanOutNext, Goto, IInv, TypeOK, TasksOK, Labels
  <2>2. ASSUME NEW u \in Tasks PROVE JobFits(u)'
    BY <1>3 DEF FanOutNext, Goto, IInv, TypeOK, TasksOK, JobsFit, JobFits, Jobs
  <2> QED
    BY <1>3, <2>1, <2>2 DEF FanOutNext, cacheVars, sorVars, joinVars, IInv, TypeOK, CacheOK, SorOK,
       JoinsOK, CheckerOK, JobsFit
<1> QED
  BY <1>1, <1>2, <1>3

LEMMA HandleStep ==
    ASSUME IInv, NEW t \in Tasks, Handle(t)
    PROVE  IInv'
BY LookupStep, UpsertStep, OpenOrJoinStep, CompleteStep, WriteJoinedStep, EnrichStep, FanOutStep
   DEF Handle

LEMMA CheckStep ==
    ASSUME IInv, Check
    PROVE  IInv'
<1>1. CASE CheckerRest
  <2>1. CheckerOK' /\ checker'.pc = "sleep"
    BY <1>1, NoRecordIsRecord DEF CheckerRest, Asleep, CheckerOK
  <2> QED
    BY <1>1, <2>1 DEF CheckerRest, cacheVars, sorVars, joinVars, taskVars, IInv, TypeOK, CacheOK,
       SorOK, JoinsOK, TasksOK, JobsFit, JobFits
<1>2. ASSUME NEW c \in Customers, CheckerSkip(c)
      PROVE  IInv'
  BY <1>2 DEF CheckerSkip, cacheVars, sorVars, joinVars, taskVars, IInv, TypeOK, CacheOK, SorOK,
     JoinsOK, TasksOK, CheckerOK, JobsFit, JobFits
<1>3. ASSUME NEW c \in Customers, CheckerScan(c) \/ CheckerEvict(c)
      PROVE  IInv'
  <2>1. PICK due \in SUBSET Customers : Evict(c, due)
    BY <1>3 DEF CheckerScan, CheckerEvict, TimedOut, IInv, TypeOK, CheckerOK
  <2>2. IsRecord(PartialBody(pending[c].revs)) /\ pending[c].id \in Nat
    BY PartialBodyIsRecord DEF IInv, TypeOK, JoinsOK, IsJoin
  <2>3. CheckerOK' /\ checker'.cust \in Customers
    BY <2>1, <2>2 DEF Evict, IInv, TypeOK, CheckerOK
  <2>4. IsJoin(NoJoin)
    BY DEF NoJoin, NoRecord, IsJoin, Open
  <2>5. JoinsOK'
    BY <2>1, <2>4 DEF Evict, IInv, TypeOK, JoinsOK
  <2> QED
    BY <2>1, <2>3, <2>5 DEF Evict, cacheVars, sorVars, taskVars, IInv, TypeOK, CacheOK,
       SorOK, TasksOK, JobsFit, JobFits
<1>4. CASE CheckerWrite
  <2>1. CacheOK'
    BY <1>4, WriteRecordOK DEF CheckerWrite, IInv, TypeOK, CheckerOK, JobsFit
  <2>2. CheckerOK' /\ checker'.pc = "evict"
    BY <1>4, NoRecordIsRecord DEF CheckerWrite, CheckerNext, Asleep, IInv, TypeOK, CheckerOK
  <2> QED
    BY <1>4, <2>1, <2>2 DEF CheckerWrite, sorVars, joinVars, taskVars, IInv, TypeOK, SorOK, JoinsOK,
       TasksOK, JobsFit, JobFits
<1> QED
  BY <1>1, <1>2, <1>3, <1>4 DEF Check

LEMMA ExpireStep ==
    ASSUME IInv, NEW c \in Customers, Expire(c)
    PROVE  IInv'
<1>1. IsJoin([pending[c] EXCEPT !.due = TRUE])
  BY DEF IInv, TypeOK, JoinsOK, IsJoin, Open
<1>2. pending' = [pending EXCEPT ![c] = [pending[c] EXCEPT !.due = TRUE]]
  BY DEF Expire
<1>3. JoinsOK'
  BY <1>1, <1>2 DEF Expire, IInv, TypeOK, JoinsOK
<1> QED
  BY <1>3 DEF Expire, cacheVars, sorVars, taskVars, IInv, TypeOK, CacheOK, SorOK, TasksOK,
     CheckerOK, JobsFit, JobFits

LEMMA TaskFaultStep ==
    ASSUME IInv, NEW t \in Tasks, TaskFault(t)
    PROVE  IInv'
<1>1. faults' \in Nat
  <2>1. \E kind \in AllFaults : Fault(kind)
    BY DEF TaskFault, PostLost, PostTimeout, CallFails, EnrichCallFails, ReplyLost, CatalogueDown,
       AllFaults
  <2> QED
    BY <2>1 DEF Fault, IInv, TypeOK
<1>2. CASE PostLost(t) \/ CallFails(t)
  BY <1>1, <1>2, AnswerOK DEF PostLost, CallFails, cacheVars, joinVars, IInv, TypeOK, CacheOK,
     JoinsOK, CheckerOK, JobsFit
<1>3. CASE PostTimeout(t)
  <2>1. TasksOK'
    <3>1. [job[t] EXCEPT !.startup = FALSE] \in Jobs
      BY TaskTypes DEF Jobs
    <3>2. job' \in [Tasks -> Jobs]
      BY <1>3, <3>1 DEF PostTimeout, IInv, TypeOK, TasksOK
    <3> QED
      BY <1>3, <3>2 DEF PostTimeout, IInv, TypeOK, TasksOK
  <2>2. ASSUME NEW u \in Tasks PROVE JobFits(u)'
    BY <1>3 DEF PostTimeout, IInv, TypeOK, TasksOK, JobsFit, JobFits, Jobs
  <2>3. SorOK'
    BY <1>3 DEF PostTimeout, StartupAnswered, IInv, TypeOK, SorOK
  <2> QED
    BY <1>1, <1>3, <2>1, <2>2, <2>3 DEF PostTimeout, cacheVars, joinVars, IInv, TypeOK, CacheOK,
       JoinsOK, CheckerOK, JobsFit
<1>4. CASE EnrichCallFails(t)
  BY <1>1, <1>4, EndEnrichmentOK DEF EnrichCallFails, cacheVars, joinVars, IInv, TypeOK, CacheOK,
     JoinsOK, CheckerOK, JobsFit
<1>5. CASE ReplyLost(t)
  <2>1. CacheOK'
    BY <1>5, TaskTypes, WriteRecordOK DEF ReplyLost, JobFits, IInv, TypeOK
  <2> QED
    BY <1>1, <1>5, <2>1, AnswerOK DEF ReplyLost, joinVars, IInv, TypeOK, JoinsOK, CheckerOK, JobsFit
<1>6. CASE CatalogueDown(t)
  <2>1. TasksOK'
    BY <1>6 DEF CatalogueDown, Goto, IInv, TypeOK, TasksOK, Labels
  <2>2. ASSUME NEW u \in Tasks PROVE JobFits(u)'
    BY <1>6 DEF CatalogueDown, Goto, IInv, TypeOK, TasksOK, JobsFit, JobFits
  <2> QED
    BY <1>1, <1>6, <2>1, <2>2 DEF CatalogueDown, cacheVars, sorVars, joinVars, IInv, TypeOK,
       CacheOK, SorOK, JoinsOK, CheckerOK, JobsFit
<1> QED
  BY <1>2, <1>3, <1>4, <1>5, <1>6 DEF TaskFault

LEMMA ServiceFaultStep ==
    ASSUME IInv, CheckerCallFails \/ CacheRestarts \/ CdcRestarts
    PROVE  IInv'
<1>1. faults' \in Nat
  BY DEF CheckerCallFails, CacheRestarts, CdcRestarts, Fault, IInv, TypeOK
<1>2. CASE CheckerCallFails
  <2>1. CheckerOK' /\ checker'.pc = "evict"
    BY <1>2, NoRecordIsRecord DEF CheckerCallFails, CheckerNext, Asleep, IInv, TypeOK, CheckerOK
  <2> QED
    BY <1>1, <1>2, <2>1 DEF CheckerCallFails, cacheVars, sorVars, joinVars, taskVars, IInv, TypeOK,
       CacheOK, SorOK, JoinsOK, TasksOK, JobsFit, JobFits
<1>3. CASE CacheRestarts
  <2>1. CacheOK'
    BY <1>3, NoRecordIsRecord DEF CacheRestarts, CacheRestart, CacheOK
  <2> QED
    BY <1>1, <1>3, <2>1 DEF CacheRestarts, sorVars, joinVars, taskVars, IInv, TypeOK, SorOK,
       JoinsOK, TasksOK, CheckerOK, JobsFit, JobFits
<1>4. CASE CdcRestarts
  <2>1. IsJoin(NoJoin) /\ NoJob \in Jobs
    BY DEF NoJoin, NoRecord, IsJoin, Open, NoJob, Jobs
  <2>2. JoinsOK' /\ SorOK'
    BY <1>4, <2>1 DEF CdcRestarts, IInv, TypeOK, JoinsOK, SorOK
  <2>3. TasksOK'
    BY <1>4, <2>1, NoRecordIsRecord DEF CdcRestarts, TasksOK, Labels
  <2>4. CheckerOK' /\ checker'.pc = "sleep"
    BY <1>4, NoRecordIsRecord DEF CdcRestarts, CheckerOK, Asleep
  <2>5. ASSUME NEW u \in Tasks PROVE JobFits(u)'
    BY <1>4 DEF CdcRestarts, JobFits, NoJob
  <2> QED
    BY <1>1, <1>4, <2>2, <2>3, <2>4, <2>5 DEF CdcRestarts, cacheVars, IInv, TypeOK, CacheOK, JobsFit
<1> QED
  BY <1>2, <1>3, <1>4

LEMMA NextInv == IInv /\ [Next]_vars => IInv'
<1> SUFFICES ASSUME IInv, [Next]_vars PROVE IInv'
  OBVIOUS
<1>1. CASE UNCHANGED vars
  BY <1>1 DEF vars, cacheVars, sorVars, joinVars, taskVars, IInv, TypeOK, CacheOK, SorOK, JoinsOK,
     TasksOK, CheckerOK, JobsFit, JobFits
<1>2. CASE Next
  BY <1>2, RequestStep, StartupStep, HandleStep, CheckStep, ExpireStep, TaskFaultStep,
     ServiceFaultStep DEF Next
<1> QED
  BY <1>1, <1>2

(***************************************************************************)
(* The variables of the assembly service, the cache and the feeds stay      *)
(* typed: every record the cache stores is one the ontology describes.      *)
(***************************************************************************)
THEOREM TypeCorrect == Spec => []TypeOK
<1>1. Spec => []IInv
  BY InitInv, NextInv, PTL DEF Spec
<1>2. IInv => TypeOK
  BY DEF IInv
<1> QED
  BY <1>1, <1>2, PTL

-----------------------------------------------------------------------------
(***************************************************************************)
(* The cache.  Its variables change in two ways only.                       *)
(***************************************************************************)
Written == \E c \in Customers, m \in BOOLEAN : \E body : WriteRecord(c, body, m)

LEMMA CacheStep ==
    ASSUME IInv, [Next]_vars
    PROVE  Written \/ CacheRestarts \/ UNCHANGED cacheVars
<1>1. CASE UNCHANGED vars
  BY <1>1 DEF vars
<1>2. ASSUME NEW t \in Tasks, Request(t)
      PROVE  UNCHANGED cacheVars
  BY <1>2 DEF Request, UpdateCustomer, UpdateProduct, Submit
<1>3. ASSUME NEW t \in Tasks, Handle(t)
      PROVE  Written \/ UNCHANGED cacheVars
  <2>1. CASE UpsertIncomplete(t) \/ UpsertComplete(t) \/ WriteJoined(t) \/ EnrichWrite(t)
    <3>1. job[t].cust \in Customers
      BY <2>1 DEF UpsertIncomplete, UpsertComplete, WriteJoined, EnrichWrite, IInv, JobsFit, JobFits
    <3>2. \E m \in BOOLEAN : \E body : WriteRecord(job[t].cust, body, m)
      BY <2>1 DEF UpsertIncomplete, UpsertComplete, WriteJoined, EnrichWrite
    <3> QED
      BY <3>1, <3>2 DEF Written
  <2>2. CASE LookupHit(t) \/ LookupMiss(t) \/ OpenPending(t) \/ JoinPending(t) \/ CompletePending(t)
    BY <2>2 DEF LookupHit, LookupMiss, OpenPending, JoinPending, CompletePending
  <2>3. CASE EnrichRead(t) \/ EnrichNothing(t) \/ EnrichFetch(t) \/ ScanRecords(t) \/ FanOutDone(t)
    BY <2>3 DEF EnrichRead, EnrichNothing, EnrichFetch, ScanRecords, FanOutDone
  <2>4. CASE \E c \in Customers : FanOutNext(t, c)
    BY <2>4 DEF FanOutNext
  <2> QED
    BY <1>3, <2>1, <2>2, <2>3, <2>4 DEF Handle
<1>4. ASSUME NEW t \in Tasks, TaskFault(t)
      PROVE  Written \/ UNCHANGED cacheVars
  <2>1. CASE ReplyLost(t)
    <3>1. job[t].cust \in Customers
      BY <2>1 DEF ReplyLost, IInv, JobsFit, JobFits
    <3> QED
      BY <2>1, <3>1 DEF ReplyLost, Written
  <2>2. CASE PostLost(t) \/ PostTimeout(t) \/ CallFails(t) \/ EnrichCallFails(t) \/ CatalogueDown(t)
    BY <2>2 DEF PostLost, PostTimeout, CallFails, EnrichCallFails, CatalogueDown
  <2> QED
    BY <1>4, <2>1, <2>2 DEF TaskFault
<1>5. CASE Startup
  BY <1>5 DEF Startup, StartupEmit, Submit
<1>6. CASE Check
  <2>1. CASE CheckerWrite
    <3>1. checker.cust \in Customers
      BY <2>1 DEF CheckerWrite, IInv, JobsFit
    <3> QED
      BY <2>1, <3>1 DEF CheckerWrite, Written
  <2>2. CASE CheckerRest
    BY <2>2 DEF CheckerRest
  <2>3. CASE \E c \in Customers : CheckerScan(c) \/ CheckerEvict(c) \/ CheckerSkip(c)
    BY <2>3 DEF CheckerScan, CheckerEvict, Evict, CheckerSkip
  <2> QED
    BY <1>6, <2>1, <2>2, <2>3 DEF Check
<1>7. CASE \E c \in Customers : Expire(c)
  BY <1>7 DEF Expire
<1>8. CASE CheckerCallFails \/ CacheRestarts \/ CdcRestarts
  BY <1>8 DEF CheckerCallFails, CacheRestarts, CdcRestarts
<1> QED
  BY <1>1, <1>2, <1>3, <1>4, <1>5, <1>6, <1>7, <1>8 DEF Next

(***************************************************************************)
(* The hot cache and the permanent store hold the same records: the ACG's   *)
(* fallback never serves anything older (cache_app.py, write_record).       *)
(***************************************************************************)
THEOREM TiersAlwaysAgree == Spec => []TiersAgree
<1>1. Init => IInv /\ TiersAgree
  BY InitInv DEF Init, CacheInit, TiersAgree
<1>2. IInv /\ TiersAgree /\ [Next]_vars => IInv' /\ TiersAgree'
  <2> SUFFICES ASSUME IInv, TiersAgree, [Next]_vars PROVE TiersAgree'
    BY NextInv
  <2>1. CASE Written
    BY <2>1 DEF Written, WriteRecord, TiersAgree
  <2>2. CASE CacheRestarts
    BY <2>2 DEF CacheRestarts, CacheRestart, TiersAgree
  <2>3. CASE UNCHANGED cacheVars
    BY <2>3 DEF cacheVars, TiersAgree
  <2> QED
    BY <2>1, <2>2, <2>3, CacheStep
<1> QED
  BY <1>1, <1>2, PTL DEF Spec

\* What a tier stores carries the next version.
LEMMA StoredVersion ==
    ASSUME NEW existing, NEW body, NEW m
    PROVE  LET record == Stored(existing, body, m)
           IN  /\ Exists(record)
               /\ record["version"] = (IF Exists(existing) THEN existing["version"] ELSE 0) + 1
<1> DEFINE version == IF Exists(existing) THEN existing["version"] + 1 ELSE 1
           kept    == Update(IF m /\ Exists(existing) THEN existing ELSE NoRecord, body)
<1>1. /\ "version" \in DOMAIN Update(kept, [version |-> version])
      /\ Update(kept, [version |-> version])["version"] = version
  BY DEF Update
<1> QED
  BY <1>1 DEF Stored, Exists

(***************************************************************************)
(* A record never changes under an unchanged version, and versions grow one *)
(* write at a time until the cache restarts (cache_app.py, write_record).   *)
(***************************************************************************)
THEOREM VersionsAdvance == Spec => VersionAdvances
<1> DEFINE Advance(c) ==
      hot'[c] # hot[c] =>
         \/ ~Exists(hot'[c])
         \/ hot'[c]["version"] = (IF Exists(hot[c]) THEN hot[c]["version"] ELSE 0) + 1
<1>1. IInv /\ [Next]_vars => [\A c \in Customers : Advance(c)]_vars
  <2> SUFFICES ASSUME IInv, [Next]_vars, NEW c \in Customers PROVE Advance(c)
    OBVIOUS
  <2>1. CASE Written
    <3>1. PICK d \in Customers, m \in BOOLEAN :
             \E body : hot' = [hot EXCEPT ![d] = Stored(hot[d], body, m)]
      BY <2>1 DEF Written, WriteRecord
    <3>2. DOMAIN hot = Customers
      BY DEF IInv, TypeOK, CacheOK
    <3> QED
      BY <3>1, <3>2, StoredVersion
  <2>2. CASE CacheRestarts
    BY <2>2 DEF CacheRestarts, CacheRestart, NoRecord, Exists
  <2>3. CASE UNCHANGED cacheVars
    BY <2>3 DEF cacheVars
  <2> QED
    BY <2>1, <2>2, <2>3, CacheStep
<1>2. Spec => []IInv
  BY InitInv, NextInv, PTL DEF Spec
<1> QED
  BY <1>1, <1>2, PTL DEF Spec, VersionAdvances

(***************************************************************************)
(* The cache adds a version to every record it stores and refuses one in a  *)
(* body.  No body the service has at hand carries one, although enrichments *)
(* build theirs from the stored record.                                     *)
(***************************************************************************)
NoVersion(r) == "version" \notin DOMAIN r

NoVersions == (\A t \in Tasks : NoVersion(draft[t])) /\ NoVersion(checker.body)

\* What a step may put into the drafts, and into the checker's body.
Drafted == \/ draft' = draft
           \/ \E t \in Tasks : \E b : draft' = [draft EXCEPT ![t] = b] /\ NoVersion(b)
           \/ draft' = [t \in Tasks |-> NoRecord]

LEMMA MergeNoVersion == ASSUME NEW revs PROVE NoVersion(MergeDomains(revs))
BY DEF MergeDomains, NoVersion, FieldGroup

LEMMA EndEnrichmentDrafts ==
    ASSUME NEW t \in Tasks, EndEnrichment(t) \/ Release(t) \/ \E ok : Answer(t, ok)
    PROVE  Drafted
<1>1. NoVersion(NoRecord)
  BY DEF NoVersion, NoRecord
<1> QED
  BY <1>1 DEF EndEnrichment, Answer, Release, Drafted

LEMMA HandleDrafts ==
    ASSUME IInv, NoVersions, NEW t \in Tasks, Handle(t)
    PROVE  Drafted
<1>1. CASE LookupHit(t)
  <2>1. NoVersion(UpsertBody(hot[job[t].cust], job[t].domain, job[t].rev))
    BY DEF UpsertBody, Update, AssembleDomain, NoVersion, FieldGroup
  <2> QED
    BY <1>1, <2>1 DEF LookupHit, Drafted
<1>2. CASE LookupMiss(t) \/ ScanRecords(t) \/ \E c \in Customers : FanOutNext(t, c)
  BY <1>2 DEF LookupMiss, ScanRecords, FanOutNext, Drafted
<1>3. CASE UpsertComplete(t) \/ WriteJoined(t)
  <2>1. NoVersion(NoRecord)
    BY DEF NoVersion, NoRecord
  <2> QED
    BY <1>3, <2>1 DEF UpsertComplete, WriteJoined, Drafted
<1>4. CASE CompletePending(t)
  <2>1. NoVersion(Update(MergeDomains(Received(t)),
                         [assembly_state |-> "complete", missing_domains |-> {}]))
    BY MergeNoVersion DEF Update, NoVersion
  <2> QED
    BY <1>4, <2>1 DEF CompletePending, Drafted
<1>5. CASE EnrichRead(t)
  <2>1. ASSUME NEW group PROVE NoVersion([commercial_state |-> group])
    BY DEF NoVersion
  <2> QED
    BY <1>5, <2>1 DEF EnrichRead, Drafted
<1>6. CASE EnrichFetch(t)
  <2>1. draft' = [draft EXCEPT ![t] = [draft[t] EXCEPT !["commercial_state"] =
                     [draft[t]["commercial_state"] EXCEPT !.price = listPrice]]]
    BY <1>6 DEF EnrichFetch
  <2>2. ASSUME NEW group PROVE NoVersion([draft[t] EXCEPT !["commercial_state"] = group])
    BY DEF NoVersions, NoVersion
  <2> QED
    BY <2>1, <2>2 DEF Drafted
<1>7. CASE \/ UpsertIncomplete(t) \/ OpenPending(t) \/ JoinPending(t)
           \/ EnrichNothing(t) \/ EnrichWrite(t) \/ FanOutDone(t)
  BY <1>7, EndEnrichmentDrafts
     DEF UpsertIncomplete, OpenPending, JoinPending, EnrichNothing, EnrichWrite, FanOutDone
<1> QED
  BY <1>1, <1>2, <1>3, <1>4, <1>5, <1>6, <1>7 DEF Handle

LEMMA CheckBodies ==
    ASSUME IInv, NoVersions, Check \/ CheckerCallFails
    PROVE  NoVersion(checker'.body) /\ UNCHANGED draft
<1>1. NoVersion(NoRecord) /\ \A revs : NoVersion(PartialBody(revs))
  <2>1. NoVersion(NoRecord)
    BY DEF NoVersion, NoRecord
  <2>2. ASSUME NEW revs PROVE NoVersion(PartialBody(revs))
    <3>1. DOMAIN PartialBody(revs) = DOMAIN MergeDomains(revs) \cup {"assembly_state", "missing_domains"}
      BY DEF PartialBody, Update
    <3> QED
      BY <3>1, MergeNoVersion DEF NoVersion
  <2> QED
    BY <2>1, <2>2
<1>2. DOMAIN checker = {"pc", "todo", "cust", "body", "id"} /\ NoVersion(checker.body)
  BY DEF IInv, TypeOK, CheckerOK, NoVersions
<1>3. ASSUME NEW c, NEW due, Evict(c, due)
      PROVE  NoVersion(checker'.body) /\ UNCHANGED draft
  BY <1>1, <1>3 DEF Evict, taskVars
<1>4. CASE \E c \in Customers : CheckerScan(c) \/ CheckerEvict(c)
  BY <1>3, <1>4 DEF CheckerScan, CheckerEvict
<1>5. CASE \E c \in Customers : CheckerSkip(c)
  BY <1>2, <1>5 DEF CheckerSkip, taskVars
<1>6. CASE CheckerWrite \/ CheckerRest \/ CheckerCallFails
  <2>1. Asleep.body = NoRecord /\ CheckerNext => checker'.body = NoRecord
    BY DEF CheckerNext, Asleep
  <2>2. Asleep.body = NoRecord
    BY DEF Asleep
  <2>3. checker'.body = NoRecord /\ UNCHANGED draft
    BY <1>6, <2>1, <2>2 DEF CheckerWrite, CheckerRest, CheckerCallFails, taskVars
  <2> QED
    BY <1>1, <2>3
<1> QED
  BY <1>4, <1>5, <1>6 DEF Check

LEMMA NoVersionsStep == IInv /\ NoVersions /\ [Next]_vars => NoVersions'
<1> SUFFICES ASSUME IInv, NoVersions, [Next]_vars PROVE NoVersions'
  OBVIOUS
<1>1. NoVersion(NoRecord) /\ DOMAIN draft = Tasks
  BY DEF NoVersion, NoRecord, IInv, TypeOK, TasksOK
<1>2. Drafted /\ UNCHANGED checker => NoVersions'
  BY <1>1 DEF Drafted, NoVersions
<1>3. CASE Check \/ CheckerCallFails
  BY <1>3, CheckBodies DEF NoVersions
<1>4. CASE \E t \in Tasks : Handle(t)
  <2>1. UNCHANGED checker
    BY <1>4 DEF Handle, LookupHit, LookupMiss, UpsertIncomplete, UpsertComplete, OpenPending,
       JoinPending, CompletePending, WriteJoined, EnrichRead, EnrichNothing, EnrichFetch,
       EnrichWrite, ScanRecords, FanOutDone, FanOutNext
  <2> QED
    BY <1>2, <1>4, <2>1, HandleDrafts
<1>5. CASE \E t \in Tasks : Request(t) \/ TaskFault(t)
  <2>1. PICK t \in Tasks : Request(t) \/ TaskFault(t)
    BY <1>5
  <2>2. UNCHANGED checker /\ (UNCHANGED draft \/ EndEnrichment(t) \/ \E ok : Answer(t, ok))
    BY <2>1 DEF Request, UpdateCustomer, UpdateProduct, Submit, TaskFault, PostLost, PostTimeout,
       CallFails, EnrichCallFails, ReplyLost, CatalogueDown
  <2> QED
    BY <1>2, <2>2, EndEnrichmentDrafts DEF Drafted
<1>6. CASE Startup \/ CacheRestarts \/ \E c \in Customers : Expire(c)
  BY <1>2, <1>6 DEF Startup, StartupEmit, Submit, CacheRestarts, Expire, taskVars, Drafted
<1>7. CASE CdcRestarts
  BY <1>1, <1>7 DEF CdcRestarts, NoVersions, Asleep
<1>8. CASE UNCHANGED vars
  BY <1>2, <1>8 DEF vars, taskVars, Drafted
<1> QED
  BY <1>3, <1>4, <1>5, <1>6, <1>7, <1>8 DEF Next

(***************************************************************************)
(* No write of the assembly service is answered with 422: whatever          *)
(* interleaving of lookups, merges, evictions and enrichments built it, a   *)
(* body names declared keys only, at the top level and in its field groups, *)
(* has a _meta block in each group and a declared state (ontology.py,       *)
(* validate_cache_record).                                                  *)
(***************************************************************************)
THEOREM BodiesAlwaysDeclared == Spec => []DeclaredBodies
<1>1. ASSUME NEW r, IsRecord(r), NoVersion(r)
      PROVE  ValidateCacheRecord(r)
  <2>1. /\ DOMAIN r \subseteq ControlFields \cup FieldGroups
        /\ "assembly_state" \in DOMAIN r => r["assembly_state"] \in ValidAssemblyStates
    BY <1>1 DEF IsRecord, NoVersion
  <2>2. ASSUME NEW group \in FieldGroups \cap DOMAIN r
        PROVE  "meta" \in DOMAIN r[group] /\ DOMAIN r[group] \subseteq AllowedKeys(group)
    <3>1. CASE group = "profile"
      BY <1>1, <3>1 DEF IsRecord, AllowedKeys
    <3>2. CASE group = "commercial_state"
      BY <1>1, <3>2 DEF IsRecord, AllowedKeys
    <3> QED
      BY <3>1, <3>2 DEF FieldGroups, FieldGroup
  <2> QED
    BY <2>1, <2>2 DEF ValidateCacheRecord
<1>2. IInv /\ NoVersions => DeclaredBodies
  BY <1>1 DEF IInv, TypeOK, TasksOK, CheckerOK, NoVersions, DeclaredBodies
<1>3. Init => NoVersions
  BY DEF Init, NoVersions, NoVersion, NoRecord, Asleep
<1>4. Spec => []IInv
  BY InitInv, NextInv, PTL DEF Spec
<1> QED
  BY <1>2, <1>3, <1>4, NoVersionsStep, PTL DEF Spec

-----------------------------------------------------------------------------
(***************************************************************************)
(* The joins.  What a step may do to the pending store, to the tasks that   *)
(* write a join and to the checker.                                         *)
(***************************************************************************)

\* No task starts to write a join, and one that goes on writing keeps it.
NoNewWriter ==
    \A t \in Tasks : pc'[t] = "write" =>
        pc[t] = "write" /\ job'[t].cust = job[t].cust /\ assembly'[t] = assembly[t]

JoinOpened(c) == \E d \in RequiredDomains : \E rev :
    /\ ~Open(pending[c])
    /\ opened' = [opened EXCEPT ![c] = @ + 1]
    /\ pending' = [pending EXCEPT ![c] =
          [id |-> opened[c] + 1, revs |-> Update(pending[c].revs, [e \in {d} |-> rev]),
           due |-> FALSE]]

JoinExtended(c) == \E revs :
    /\ UNCHANGED opened
    /\ Open(pending[c])
    /\ pending' = [pending EXCEPT ![c].revs = revs]
    /\ DOMAIN revs # {}
    /\ ~ (RequiredDomains \subseteq DOMAIN revs)

Evicting(c) == \E due : Evict(c, due)

\* The steps that move a join: it is opened, extended, completed, evicted or written.
LEMMA HandleJoins ==
    ASSUME IInv, NEW t \in Tasks, Handle(t)
    PROVE  /\ UNCHANGED checker
           /\ \/ NoNewWriter /\ UNCHANGED joinVars
              \/ NoNewWriter /\ \E c \in Customers : JoinOpened(c) \/ JoinExtended(c)
              \/ CompletePending(t)
<1> USE DEF IInv, TypeOK, TasksOK
<1>1. CASE LookupHit(t) \/ LookupMiss(t) \/ EnrichRead(t) \/ EnrichFetch(t) \/ ScanRecords(t)
  BY <1>1 DEF LookupHit, LookupMiss, EnrichRead, EnrichFetch, ScanRecords, Goto, joinVars,
     NoNewWriter
<1>2. CASE UpsertComplete(t) \/ WriteJoined(t)
  BY <1>2 DEF UpsertComplete, WriteJoined, Goto, joinVars, NoNewWriter
<1>3. CASE UpsertIncomplete(t) \/ FanOutDone(t)
  BY <1>3 DEF UpsertIncomplete, FanOutDone, Answer, Release, Goto, joinVars, NoNewWriter
<1>4. CASE EnrichNothing(t) \/ EnrichWrite(t)
  BY <1>4 DEF EnrichNothing, EnrichWrite, EndEnrichment, Answer, Release, Goto, joinVars,
     NoNewWriter
<1>5. CASE \E c \in Customers : FanOutNext(t, c)
  BY <1>5 DEF FanOutNext, Goto, joinVars, NoNewWriter
<1>6. CASE OpenPending(t) \/ JoinPending(t)
  <2>1. NoNewWriter /\ UNCHANGED checker
    BY <1>6 DEF OpenPending, JoinPending, Answer, Release, Goto, NoNewWriter
  <2>2. job[t].cust \in Customers /\ job[t].domain \in RequiredDomains
    BY <1>6 DEF OpenPending, JoinPending, JobsFit, JobFits
  <2>3. DOMAIN Received(t) # {}
    BY DEF Received, Update
  <2>4. CASE OpenPending(t)
    BY <2>1, <2>2, <2>4 DEF OpenPending, JoinOpened, Received
  <2>5. CASE JoinPending(t)
    BY <2>1, <2>2, <2>3, <2>5 DEF JoinPending, JoinExtended
  <2> QED
    BY <1>6, <2>4, <2>5
<1>7. CASE CompletePending(t)
  BY <1>7 DEF CompletePending
<1> QED
  BY <1>1, <1>2, <1>3, <1>4, <1>5, <1>6, <1>7 DEF Handle

LEMMA JoinStep ==
    ASSUME IInv, [Next]_vars
    PROVE  \/ NoNewWriter /\ UNCHANGED joinVars /\ (checker'.pc = "write" => UNCHANGED checker)
           \/ /\ NoNewWriter /\ UNCHANGED checker
              /\ \E c \in Customers : JoinOpened(c) \/ JoinExtended(c) \/ Expire(c)
           \/ \E t \in Tasks : CompletePending(t)
           \/ NoNewWriter /\ \E c \in Customers : Evicting(c)
           \/ CdcRestarts
<1> USE DEF IInv, TypeOK, TasksOK, CheckerOK
<1>1. CASE UNCHANGED vars
  BY <1>1 DEF vars, taskVars, NoNewWriter
<1>2. ASSUME NEW t \in Tasks, Request(t)
      PROVE  NoNewWriter /\ UNCHANGED <<joinVars, checker>>
  BY <1>2 DEF Request, UpdateCustomer, UpdateProduct, Submit, Goto, NoNewWriter
<1>3. CASE Startup
  BY <1>3 DEF Startup, StartupEmit, Submit, Goto, NoNewWriter
<1>4. ASSUME NEW t \in Tasks, TaskFault(t)
      PROVE  NoNewWriter /\ UNCHANGED <<joinVars, checker>>
  <2>1. CASE PostLost(t) \/ CallFails(t) \/ ReplyLost(t)
    BY <2>1 DEF PostLost, CallFails, ReplyLost, Answer, Release, Goto, NoNewWriter
  <2>2. CASE EnrichCallFails(t)
    BY <2>2 DEF EnrichCallFails, EndEnrichment, Answer, Release, Goto, NoNewWriter
  <2>3. CASE PostTimeout(t)
    BY <2>3 DEF PostTimeout, NoNewWriter
  <2>4. CASE CatalogueDown(t)
    BY <2>4 DEF CatalogueDown, Goto, NoNewWriter
  <2> QED
    BY <1>4, <2>1, <2>2, <2>3, <2>4 DEF TaskFault
<1>5. CASE Check
  <2>1. CASE CheckerRest
    BY <2>1 DEF CheckerRest, Asleep, taskVars, NoNewWriter
  <2>2. CASE CheckerWrite
    BY <2>2 DEF CheckerWrite, CheckerNext, Asleep, taskVars, NoNewWriter
  <2>3. CASE \E c \in Customers : CheckerSkip(c)
    BY <2>3 DEF CheckerSkip, taskVars, NoNewWriter
  <2>4. CASE \E c \in Customers : CheckerScan(c) \/ CheckerEvict(c)
    BY <2>4 DEF CheckerScan, CheckerEvict, Evict, taskVars, NoNewWriter, Evicting
  <2> QED
    BY <1>5, <2>1, <2>2, <2>3, <2>4 DEF Check
<1>6. CASE \E c \in Customers : Expire(c)
  BY <1>6 DEF Expire, taskVars, NoNewWriter
<1>7. CASE CheckerCallFails
  BY <1>7 DEF CheckerCallFails, CheckerNext, Asleep, taskVars, NoNewWriter
<1>8. CASE CacheRestarts
  BY <1>8 DEF CacheRestarts, taskVars, NoNewWriter
<1> QED
  BY <1>1, <1>2, <1>3, <1>4, <1>5, <1>6, <1>7, <1>8, HandleJoins DEF Next

(***************************************************************************)
(* No open join is empty or complete: the step that brings the last domain  *)
(* takes the join out of the pending store (process_event, the section      *)
(* under _pending_lock).                                                    *)
(***************************************************************************)
THEOREM PendingAlwaysPartial == Spec => []PendingIsPartial
<1> USE DEF PendingIsPartial, NoJoin, Open
<1>1. Init => IInv /\ PendingIsPartial
  BY InitInv DEF Init
<1>2. IInv /\ PendingIsPartial /\ [Next]_vars => IInv' /\ PendingIsPartial'
  <2> SUFFICES ASSUME IInv, PendingIsPartial, [Next]_vars PROVE PendingIsPartial'
    BY NextInv
  <2>1. CASE UNCHANGED joinVars
    BY <2>1 DEF joinVars
  <2>2. ASSUME NEW c \in Customers, JoinOpened(c)
        PROVE  PendingIsPartial'
    <3>0. PICK d \in RequiredDomains : \E rev :
             pending' = [pending EXCEPT ![c] =
               [id |-> opened[c] + 1, revs |-> Update(pending[c].revs, [e \in {d} |-> rev]),
                due |-> FALSE]]
      BY <2>2 DEF JoinOpened
    <3>1. PICK rev :
             pending' = [pending EXCEPT ![c] =
               [id |-> opened[c] + 1, revs |-> Update(pending[c].revs, [e \in {d} |-> rev]),
                due |-> FALSE]]
      BY <3>0
    <3>2. DOMAIN pending[c].revs = {}
      BY <2>2 DEF JoinOpened, IInv, TypeOK, JoinsOK, IsJoin
    <3>3. DOMAIN Update(pending[c].revs, [e \in {d} |-> rev]) = {d}
      BY <3>2 DEF Update
    <3> QED
      BY <3>1, <3>3 DEF IInv, TypeOK, JoinsOK, RequiredDomains
  <2>3. ASSUME NEW c \in Customers, JoinExtended(c)
        PROVE  PendingIsPartial'
    BY <2>3 DEF JoinExtended, IInv, TypeOK, JoinsOK, IsJoin
  <2>4. ASSUME NEW c \in Customers, Expire(c)
        PROVE  PendingIsPartial'
    BY <2>4 DEF Expire, IInv, TypeOK, JoinsOK, IsJoin
  <2>5. ASSUME NEW t \in Tasks, CompletePending(t)
        PROVE  PendingIsPartial'
    BY <2>5 DEF CompletePending, IInv, TypeOK, JoinsOK
  <2>6. ASSUME NEW c \in Customers, Evicting(c)
        PROVE  PendingIsPartial'
    BY <2>6 DEF Evicting, Evict, IInv, TypeOK, JoinsOK
  <2>7. CASE CdcRestarts
    BY <2>7 DEF CdcRestarts
  <2> QED
    BY <2>1, <2>2, <2>3, <2>4, <2>5, <2>6, <2>7, JoinStep
<1> QED
  BY <1>1, <1>2, PTL DEF Spec

(***************************************************************************)
(* Ownership.  AssemblyHasOneOwner is not inductive: that a new join is not *)
(* one still being written needs that every correlation id in use was given *)
(* out before.                                                              *)
(***************************************************************************)
IdsGivenOut ==
    \A c \in Customers :
        /\ pending[c].id <= opened[c]
        /\ \A t \in Tasks : Writing(t, c) => assembly[t] \in 1 .. opened[c]
        /\ Evicted(c) => checker.id \in 1 .. opened[c]

OwnershipInv == IInv /\ IdsGivenOut /\ AssemblyHasOneOwner

\* A step that starts no write and opens no join leaves the owners as they are.
LEMMA NoNewOwner ==
    ASSUME OwnershipInv, NoNewWriter, checker'.pc = "write" => UNCHANGED checker, UNCHANGED opened,
           \A c \in Customers : pending'[c].id = pending[c].id
    PROVE  IdsGivenOut' /\ AssemblyHasOneOwner'
<1>1. \A t \in Tasks, c \in Customers : Writing(t, c)' => Writing(t, c) /\ assembly'[t] = assembly[t]
  BY DEF NoNewWriter, Writing
<1>2. \A c \in Customers : Evicted(c)' => Evicted(c) /\ checker'.id = checker.id
  BY DEF Evicted
<1>3. IdsGivenOut'
  BY <1>1, <1>2 DEF OwnershipInv, IdsGivenOut
<1>4. AssemblyHasOneOwner'
  BY <1>1, <1>2 DEF OwnershipInv, AssemblyHasOneOwner
<1> QED
  BY <1>3, <1>4

LEMMA OpenedOwner ==
    ASSUME OwnershipInv, NoNewWriter, UNCHANGED checker, NEW c \in Customers, JoinOpened(c)
    PROVE  IdsGivenOut' /\ AssemblyHasOneOwner'
<1>1. \A t \in Tasks, e \in Customers : Writing(t, e)' => Writing(t, e) /\ assembly'[t] = assembly[t]
  BY DEF NoNewWriter, Writing
<1>2. \A e \in Customers : Evicted(e)' <=> Evicted(e)
  BY DEF Evicted
<1>3. /\ \A e \in Customers : opened[e] \in Nat /\ opened'[e] \in Nat /\ opened[e] <= opened'[e]
      /\ pending'[c].id = opened[c] + 1 /\ opened'[c] = opened[c] + 1
      /\ \A e \in Customers \ {c} : pending'[e] = pending[e]
      /\ \A e \in Customers : pending[e].id \in Nat
  BY DEF JoinOpened, OwnershipInv, IInv, TypeOK, JoinsOK, IsJoin
<1>4. IdsGivenOut'
  <2> SUFFICES ASSUME NEW e \in Customers
               PROVE  /\ pending'[e].id <= opened'[e]
                      /\ \A t \in Tasks : Writing(t, e)' => assembly'[t] \in 1 .. opened'[e]
                      /\ Evicted(e)' => checker'.id \in 1 .. opened'[e]
    BY DEF IdsGivenOut
  <2>1. pending'[e].id <= opened'[e]
    BY <1>3 DEF OwnershipInv, IdsGivenOut
  <2>2. ASSUME NEW t \in Tasks, Writing(t, e)' PROVE assembly'[t] \in 1 .. opened'[e]
    BY <1>1, <1>3, <2>2 DEF OwnershipInv, IdsGivenOut
  <2>3. Evicted(e)' => checker'.id \in 1 .. opened'[e]
    BY <1>2, <1>3 DEF OwnershipInv, IdsGivenOut
  <2> QED
    BY <2>1, <2>2, <2>3
<1>5. AssemblyHasOneOwner'
  <2>1. ASSUME NEW e \in Customers, NEW t \in Tasks, Writing(t, e)'
        PROVE  /\ assembly'[t] # pending'[e].id
               /\ Evicted(e)' => assembly'[t] # checker'.id
    BY <1>1, <1>2, <1>3, <2>1 DEF OwnershipInv, IdsGivenOut, AssemblyHasOneOwner
  <2>2. \A e \in Customers : Evicted(e)' => checker'.id # pending'[e].id
    BY <1>2, <1>3 DEF OwnershipInv, IdsGivenOut, AssemblyHasOneOwner
  <2>3. \A e \in Customers, t, u \in Tasks :
           Writing(t, e)' /\ Writing(u, e)' /\ t # u => assembly'[t] # assembly'[u]
    BY <1>1 DEF OwnershipInv, AssemblyHasOneOwner
  <2> QED
    BY <2>1, <2>2, <2>3 DEF AssemblyHasOneOwner
<1> QED
  BY <1>4, <1>5

LEMMA CompletedOwner ==
    ASSUME OwnershipInv, NEW t \in Tasks, CompletePending(t)
    PROVE  IdsGivenOut' /\ AssemblyHasOneOwner'
<1> DEFINE c == job[t].cust
<1>1. c \in Customers
  BY DEF CompletePending, OwnershipInv, IInv, JobsFit, JobFits
<1>2. /\ \A u \in Tasks \ {t}, e \in Customers :
            Writing(u, e)' => Writing(u, e) /\ assembly'[u] = assembly[u]
      /\ \A e \in Customers : Writing(t, e)' => e = c
      /\ assembly'[t] = pending[c].id
  BY DEF CompletePending, Goto, Writing, OwnershipInv, IInv, TypeOK, TasksOK
<1>3. /\ UNCHANGED <<checker, opened>>
      /\ pending'[c].id = 0
      /\ \A e \in Customers \ {c} : pending'[e] = pending[e]
      /\ pending[c].id # 0
  BY <1>1 DEF CompletePending, NoJoin, Open, OwnershipInv, IInv, TypeOK, JoinsOK
<1>4. \A e \in Customers : /\ Evicted(e)' <=> Evicted(e)
                           /\ opened[e] \in Nat
                           /\ pending[e].id \in Nat
  BY <1>3 DEF Evicted, OwnershipInv, IInv, TypeOK, JoinsOK, IsJoin
<1> HIDE DEF c
<1>5. IdsGivenOut'
  <2>1. \A e \in Customers : pending'[e].id <= opened'[e]
    BY <1>3, <1>4 DEF OwnershipInv, IdsGivenOut
  <2>2. \A e \in Customers, u \in Tasks : Writing(u, e)' => assembly'[u] \in 1 .. opened'[e]
    BY <1>1, <1>2, <1>3, <1>4 DEF OwnershipInv, IdsGivenOut
  <2>3. \A e \in Customers : Evicted(e)' => checker'.id \in 1 .. opened'[e]
    BY <1>3, <1>4 DEF OwnershipInv, IdsGivenOut
  <2> QED
    BY <2>1, <2>2, <2>3 DEF IdsGivenOut
<1>6. AssemblyHasOneOwner'
  <2>1. ASSUME NEW e \in Customers, NEW u \in Tasks, Writing(u, e)'
        PROVE  /\ assembly'[u] # pending'[e].id
               /\ Evicted(e)' => assembly'[u] # checker'.id
    <3>1. CASE u = t
      BY <1>1, <1>2, <1>3, <1>4, <2>1, <3>1 DEF OwnershipInv, AssemblyHasOneOwner
    <3>2. CASE u # t
      BY <1>1, <1>2, <1>3, <1>4, <2>1, <3>2 DEF OwnershipInv, IdsGivenOut, AssemblyHasOneOwner
    <3> QED
      BY <3>1, <3>2
  <2>2. ASSUME NEW e \in Customers, NEW u \in Tasks, NEW v \in Tasks,
               Writing(u, e)', Writing(v, e)', u # v
        PROVE  assembly'[u] # assembly'[v]
    BY <1>1, <1>2, <2>2 DEF OwnershipInv, AssemblyHasOneOwner
  <2>3. \A e \in Customers : Evicted(e)' => checker'.id # pending'[e].id
    BY <1>1, <1>3, <1>4 DEF OwnershipInv, IdsGivenOut, AssemblyHasOneOwner
  <2> QED
    BY <2>1, <2>2, <2>3 DEF AssemblyHasOneOwner
<1> QED
  BY <1>5, <1>6

LEMMA EvictedOwner ==
    ASSUME OwnershipInv, NoNewWriter, NEW c \in Customers, Evicting(c)
    PROVE  IdsGivenOut' /\ AssemblyHasOneOwner'
<1>1. \A t \in Tasks, e \in Customers : Writing(t, e)' => Writing(t, e) /\ assembly'[t] = assembly[t]
  BY DEF NoNewWriter, Writing
<1>2. /\ UNCHANGED opened
      /\ pending'[c].id = 0 /\ pending[c].id # 0
      /\ \A e \in Customers \ {c} : pending'[e] = pending[e]
      /\ checker'.cust = c /\ checker'.id = pending[c].id
      /\ \A e \in Customers : Evicted(e)' => e = c
  BY DEF Evicting, Evict, NoJoin, Open, Evicted, OwnershipInv, IInv, TypeOK, JoinsOK
<1>3. \A e \in Customers : opened[e] \in Nat /\ pending[e].id \in Nat
  BY DEF OwnershipInv, IInv, TypeOK, JoinsOK, IsJoin
<1>4. IdsGivenOut'
  BY <1>1, <1>2, <1>3 DEF OwnershipInv, IdsGivenOut
<1>5. AssemblyHasOneOwner'
  BY <1>1, <1>2, <1>3 DEF OwnershipInv, IdsGivenOut, AssemblyHasOneOwner
<1> QED
  BY <1>4, <1>5

(***************************************************************************)
(* A join is written at most once: never by two handlers, nor by a handler  *)
(* and the timeout checker (the two sections under _pending_lock).          *)
(***************************************************************************)
THEOREM JoinsHaveOneOwner == Spec => []AssemblyHasOneOwner
<1>1. Init => OwnershipInv
  BY InitInv DEF Init, OwnershipInv, IdsGivenOut, AssemblyHasOneOwner, Writing, Evicted, NoJoin,
     Asleep
<1>2. OwnershipInv /\ [Next]_vars => OwnershipInv'
  <2> SUFFICES ASSUME OwnershipInv, [Next]_vars PROVE IdsGivenOut' /\ AssemblyHasOneOwner'
    BY NextInv DEF OwnershipInv
  <2>1. CASE /\ NoNewWriter
             /\ UNCHANGED joinVars
             /\ checker'.pc = "write" => UNCHANGED checker
    BY <2>1, NoNewOwner DEF joinVars
  <2>2. ASSUME NEW c \in Customers, NoNewWriter, UNCHANGED checker, JoinExtended(c) \/ Expire(c)
        PROVE  IdsGivenOut' /\ AssemblyHasOneOwner'
    <3>1. UNCHANGED opened /\ \A e \in Customers : pending'[e].id = pending[e].id
      BY <2>2 DEF JoinExtended, Expire, OwnershipInv, IInv, TypeOK, JoinsOK, IsJoin
    <3> QED
      BY <2>2, <3>1, NoNewOwner
  <2>3. CASE CdcRestarts
    BY <2>3 DEF CdcRestarts, IdsGivenOut, AssemblyHasOneOwner, Writing, Evicted, NoJoin, Asleep,
       OwnershipInv, IInv, TypeOK, JoinsOK
  <2> QED
    BY <2>1, <2>2, <2>3, OpenedOwner, CompletedOwner, EvictedOwner, JoinStep DEF OwnershipInv
<1> QED
  BY <1>1, <1>2, PTL DEF Spec, OwnershipInv

-----------------------------------------------------------------------------
(***************************************************************************)
(* What the assembly service delivers while every join completes within its *)
(* 30 seconds and the cache keeps running: whole records only, from which   *)
(* no acknowledged domain is ever lost.  Clients may write as they like,    *)
(* and requests may fail anywhere.                                          *)
(***************************************************************************)

(***************************************************************************)
(* The bodies the service writes and the records they make.                 *)
(***************************************************************************)

\* A finished record: both field groups, complete, and nothing missing.
Whole(r) == /\ FieldGroups \cup {"assembly_state", "missing_domains"} \subseteq DOMAIN r
            /\ r["assembly_state"] = "complete"
            /\ r["missing_domains"] = {}

LEMMA WholeExists == ASSUME NEW r, Whole(r) PROVE Exists(r)
BY DEF Whole, Exists

\* A full write stores the body, and nothing else but a version.
LEMMA FullWriteKeys ==
    ASSUME NEW r, NEW b, NEW k, k # "version"
    PROVE  /\ k \in DOMAIN Stored(r, b, FALSE) <=> k \in DOMAIN b
           /\ k \in DOMAIN b => Stored(r, b, FALSE)[k] = b[k]
<1>1. /\ k \in DOMAIN Update(NoRecord, b) <=> k \in DOMAIN b
      /\ k \in DOMAIN b => Update(NoRecord, b)[k] = b[k]
  BY DEF Update, NoRecord
<1> QED
  BY <1>1 DEF Stored, Update

\* An upsert keeps what its body does not name.
LEMMA UpsertKeys ==
    ASSUME NEW r, NEW b, NEW k, k # "version"
    PROVE  /\ k \in DOMAIN Stored(r, b, TRUE) <=> k \in DOMAIN r \cup DOMAIN b
           /\ k \in DOMAIN Stored(r, b, TRUE) =>
                 Stored(r, b, TRUE)[k] = IF k \in DOMAIN b THEN b[k] ELSE r[k]
<1> DEFINE kept  == IF Exists(r) THEN r ELSE NoRecord
           stamp == [version |-> IF Exists(r) THEN r["version"] + 1 ELSE 1]
<1>1. Stored(r, b, TRUE) = Update(Update(kept, b), stamp) /\ DOMAIN stamp = {"version"}
  BY DEF Stored
<1>2. DOMAIN kept = DOMAIN r /\ (k \in DOMAIN r => kept = r)
  BY DEF Exists, NoRecord
<1> HIDE DEF kept, stamp
<1>3. /\ k \in DOMAIN Update(kept, b) <=> k \in DOMAIN kept \cup DOMAIN b
      /\ k \in DOMAIN Update(kept, b) =>
            Update(kept, b)[k] = IF k \in DOMAIN b THEN b[k] ELSE kept[k]
  BY DEF Update
<1>4. ASSUME NEW full
      PROVE  /\ k \in DOMAIN Update(full, stamp) <=> k \in DOMAIN full
             /\ k \in DOMAIN full => Update(full, stamp)[k] = full[k]
  BY <1>1 DEF Update
<1> QED
  BY <1>1, <1>2, <1>3, <1>4

\* A whole body makes a whole record, and an upsert keeps a record whole.
LEMMA WholeWritten ==
    ASSUME NEW r, NEW b, Whole(b)
    PROVE  Whole(Stored(r, b, FALSE))
<1> DEFINE s == Stored(r, b, FALSE)
<1>1. ASSUME NEW k \in DOMAIN b \ {"version"} PROVE k \in DOMAIN s /\ s[k] = b[k]
  BY FullWriteKeys
<1> HIDE DEF s
<1>2. \A k \in FieldGroups \cup {"assembly_state", "missing_domains"} : k # "version"
  BY DEF FieldGroups, FieldGroup, RequiredDomains
<1>3. Whole(s)
  BY <1>1, <1>2 DEF Whole
<1> QED
  BY <1>3 DEF s

LEMMA WholeUpserted ==
    ASSUME NEW r, NEW b, Whole(r), "missing_domains" \notin DOMAIN b,
           "assembly_state" \in DOMAIN b => b["assembly_state"] = "complete"
    PROVE  Whole(Stored(r, b, TRUE))
<1> DEFINE s == Stored(r, b, TRUE)
<1>1. ASSUME NEW k \in DOMAIN r \ {"version"}
      PROVE  k \in DOMAIN s /\ s[k] = IF k \in DOMAIN b THEN b[k] ELSE r[k]
  BY UpsertKeys
<1> HIDE DEF s
<1>2. \A k \in FieldGroups \cup {"assembly_state", "missing_domains"} : k # "version"
  BY DEF FieldGroups, FieldGroup, RequiredDomains
<1>3. Whole(s)
  BY <1>1, <1>2 DEF Whole
<1> QED
  BY <1>3 DEF s

\* An upsert body: one field group, the state, and never missing_domains.
LEMMA UpsertBodyKeys ==
    ASSUME NEW r, NEW d \in RequiredDomains, NEW rev
    PROVE  LET b == UpsertBody(r, d, rev)
           IN  /\ DOMAIN b = {FieldGroup(d), "provenance", "assembly_state"}
               /\ b[FieldGroup(d)] = Content(d, rev)
               /\ b["assembly_state"] = NewState(DomainsHeld(r) \cup {d})
BY DEF UpsertBody, Update, AssembleDomain, FieldGroup, RequiredDomains

\* The body of a completed join.
LEMMA JoinedBodyKeys ==
    ASSUME NEW revs, DOMAIN revs = RequiredDomains
    PROVE  LET b == Update(MergeDomains(revs),
                           [assembly_state |-> "complete", missing_domains |-> {}])
           IN  /\ Whole(b)
               /\ \A d \in RequiredDomains : b[FieldGroup(d)] = Content(d, revs[d])
<1> DEFINE fields == [assembly_state |-> "complete", missing_domains |-> {}]
           groups == MergeDomains(revs)
<1>1. /\ DOMAIN groups = FieldGroups \cup {"provenance"}
      /\ \A d \in RequiredDomains : groups[FieldGroup(d)] = Content(d, revs[d])
  BY DEF MergeDomains, FieldGroups, FieldGroup, SourceDomain, RequiredDomains
<1>2. DOMAIN fields = {"assembly_state", "missing_domains"}
  OBVIOUS
<1> HIDE DEF groups
<1>3. Whole(Update(groups, fields))
  BY <1>1 DEF Whole, Update, FieldGroups, FieldGroup, RequiredDomains
<1>4. \A d \in RequiredDomains : Update(groups, fields)[FieldGroup(d)] = Content(d, revs[d])
  BY <1>1, <1>2 DEF Update, FieldGroups, FieldGroup, RequiredDomains
<1> QED
  BY <1>3, <1>4 DEF groups

-----------------------------------------------------------------------------
(***************************************************************************)
(* The invariant.  That the cache holds whole records only rests on what    *)
(* every task is about to write, and that on the record being there when    *)
(* the task looked: records do not disappear.                               *)
(***************************************************************************)
Delivers(t) ==
    /\ pc[t] = "write" => Whole(draft[t])
    /\ pc[t] = "upsert" => /\ Exists(hot[job[t].cust])
                           /\ "missing_domains" \notin DOMAIN draft[t]
                           /\ "assembly_state" \in DOMAIN draft[t]
                           /\ draft[t]["assembly_state"] = "complete"
    /\ pc[t] \in {"enrich_read", "enrich_fetch", "enrich_write"} => Exists(hot[job[t].cust])
    /\ pc[t] \in {"enrich_fetch", "enrich_write"} => DOMAIN draft[t] = {"commercial_state"}
    /\ \A c \in todo[t] : Exists(hot[c])

NoTimeout == checker.pc = "sleep" /\ \A c \in Customers : ~pending[c].due

RecordsWhole == \A c \in Customers : Exists(hot[c]) => Whole(hot[c])

DeliveryInv == IInv /\ NoTimeout /\ RecordsWhole /\ \A t \in Tasks : Delivers(t)

\* No join times out, and the cache does not restart.
Undisturbed == Timely /\ "cache_restart" \notin FaultKinds

RecordsStay == \A c \in Customers : Exists(hot[c]) => Exists(hot'[c])

\* A task that does not move keeps what it is about to do.
Still(t) == /\ pc'[t] = pc[t] /\ draft'[t] = draft[t] /\ todo'[t] = todo[t]
            /\ job'[t].cust = job[t].cust

LEMMA StillDelivers ==
    ASSUME DeliveryInv, RecordsStay, NEW t \in Tasks, Still(t)
    PROVE  Delivers(t)'
<1>1. pc[t] \in {"upsert", "enrich_read", "enrich_fetch", "enrich_write"} => job[t].cust \in Customers
  BY DEF DeliveryInv, IInv, JobsFit, JobFits
<1>2. todo[t] \subseteq Customers
  BY DEF DeliveryInv, IInv, TypeOK, TasksOK
<1> QED
  BY <1>1, <1>2 DEF DeliveryInv, RecordsStay, Still, Delivers

\* A task that is released, or is to answer its event still, promises nothing.
Promises == {"upsert", "write", "enrich_read", "enrich_fetch", "enrich_write"}

LEMMA IdleDelivers ==
    ASSUME DeliveryInv, RecordsStay, NEW t \in Tasks, pc'[t] \notin Promises,
           todo'[t] \subseteq todo[t]
    PROVE  Delivers(t)'
<1>1. todo[t] \subseteq Customers
  BY DEF DeliveryInv, IInv, TypeOK, TasksOK
<1> QED
  BY <1>1 DEF DeliveryInv, RecordsStay, Delivers, Promises

\* What a task writes leaves every record whole and in its place.
TaskWrites(t) == pc[t] \in {"upsert", "write", "enrich_write"}
                   /\ WriteRecord(job[t].cust, draft[t], pc[t] # "write")

LEMMA WriteDelivers ==
    ASSUME DeliveryInv, NEW t \in Tasks, TaskWrites(t)
    PROVE  RecordsWhole' /\ RecordsStay /\ job[t].cust \in Customers /\ Exists(hot'[job[t].cust])
<1> DEFINE c == job[t].cust
<1>1. c \in Customers /\ DOMAIN hot = Customers
  BY DEF TaskWrites, DeliveryInv, IInv, TypeOK, CacheOK, JobsFit, JobFits
<1>2. \A e \in Customers \ {c} : hot'[e] = hot[e]
  BY <1>1 DEF TaskWrites, WriteRecord
<1>3. Whole(hot'[c]) /\ Exists(hot'[c])
  <2>1. CASE pc[t] = "write"
    <3>1. hot'[c] = Stored(hot[c], draft[t], FALSE)
      BY <1>1, <2>1 DEF TaskWrites, WriteRecord
    <3>2. Whole(draft[t])
      BY <2>1 DEF DeliveryInv, Delivers
    <3> QED
      BY <3>1, <3>2, WholeWritten, WholeExists
  <2>2. CASE pc[t] # "write"
    <3>1. hot'[c] = Stored(hot[c], draft[t], TRUE)
      BY <1>1, <2>2 DEF TaskWrites, WriteRecord
    <3>2. Whole(hot[c])
      BY <1>1, <2>2 DEF TaskWrites, DeliveryInv, Delivers, RecordsWhole
    <3>3. /\ "missing_domains" \notin DOMAIN draft[t]
          /\ "assembly_state" \in DOMAIN draft[t] => draft[t]["assembly_state"] = "complete"
      BY <2>2 DEF TaskWrites, DeliveryInv, Delivers
    <3> QED
      BY <3>1, <3>2, <3>3, WholeUpserted, WholeExists
  <2> QED
    BY <2>1, <2>2
<1> QED
  BY <1>1, <1>2, <1>3 DEF DeliveryInv, RecordsWhole, RecordsStay

(***************************************************************************)
(* A step of one task, in three parts: the others stand still, the records  *)
(* stay whole, and the task itself promises no more than it can keep.       *)
(***************************************************************************)
LEMMA TaskDelivers ==
    ASSUME DeliveryInv, NEW t \in Tasks, UNCHANGED checker,
           \A u \in Tasks \ {t} : Still(u),
           \A c \in Customers : ~pending'[c].due,
           UNCHANGED hot \/ TaskWrites(t),
           RecordsStay => Delivers(t)'
    PROVE  NoTimeout' /\ RecordsWhole' /\ \A u \in Tasks : Delivers(u)'
<1>1. RecordsWhole' /\ RecordsStay
  BY WriteDelivers DEF DeliveryInv, RecordsWhole, RecordsStay
<1>2. \A u \in Tasks \ {t} : Delivers(u)'
  BY <1>1, StillDelivers
<1> QED
  BY <1>1, <1>2 DEF DeliveryInv, NoTimeout

LEMMA RequestDelivers ==
    ASSUME DeliveryInv, NEW t \in Tasks, NEW j, Submit(t, j)
    PROVE  NoTimeout' /\ RecordsWhole' /\ \A u \in Tasks : Delivers(u)'
<1> USE DEF DeliveryInv, IInv, TypeOK, TasksOK
<1>1. /\ UNCHANGED <<checker, hot, pending>>
      /\ pc'[t] = "post" /\ todo'[t] = todo[t]
      /\ \A u \in Tasks \ {t} : Still(u)
  BY DEF Submit, Goto, Still, cacheVars, joinVars
<1>2. RecordsStay => Delivers(t)'
  BY <1>1, IdleDelivers DEF Promises
<1> QED
  BY <1>1, <1>2, TaskDelivers DEF NoTimeout

LEMMA LookupDelivers ==
    ASSUME DeliveryInv, NEW t \in Tasks, LookupHit(t) \/ LookupMiss(t)
    PROVE  NoTimeout' /\ RecordsWhole' /\ \A u \in Tasks : Delivers(u)'
<1> USE DEF IInv, TypeOK, TasksOK
<1>1. /\ UNCHANGED <<checker, hot, pending, job, todo>>
      /\ \A u \in Tasks \ {t} : Still(u)
  BY DEF LookupHit, LookupMiss, DeliveryInv, Goto, Still, cacheVars, joinVars
<1>2. CASE LookupMiss(t)
  <2>1. pc'[t] = "join"
    BY <1>2 DEF LookupMiss, DeliveryInv, Goto
  <2> QED
    BY <1>1, <2>1, IdleDelivers, TaskDelivers DEF Promises, NoTimeout, DeliveryInv
<1>3. CASE LookupHit(t)
  <2> DEFINE c == job[t].cust
             b == UpsertBody(hot[c], job[t].domain, job[t].rev)
  <2>1. c \in Customers /\ job[t].domain \in RequiredDomains
    BY <1>3 DEF LookupHit, DeliveryInv, JobsFit, JobFits
  <2>2. Exists(hot[c]) /\ pc'[t] = "upsert" /\ draft'[t] = b
    BY <1>3 DEF LookupHit, DeliveryInv, Goto
  <2>3. DomainsHeld(hot[c]) \cup {job[t].domain} = RequiredDomains
    BY <2>1, <2>2 DEF DeliveryInv, RecordsWhole, Whole, DomainsHeld, FieldGroups
  <2>4. /\ DOMAIN b = {FieldGroup(job[t].domain), "provenance", "assembly_state"}
        /\ b["assembly_state"] = "complete"
    BY <2>1, <2>3, UpsertBodyKeys DEF NewState
  <2> HIDE DEF b
  <2>5. Delivers(t)'
    BY <1>1, <2>2, <2>4 DEF Delivers, DeliveryInv, FieldGroup
  <2> QED
    BY <1>1, <2>5, TaskDelivers DEF NoTimeout, DeliveryInv
<1> QED
  BY <1>2, <1>3

LEMMA ReleaseDelivers ==
    ASSUME DeliveryInv, NEW t \in Tasks, Release(t), UNCHANGED checker,
           \A c \in Customers : ~pending'[c].due,
           UNCHANGED hot \/ TaskWrites(t)
    PROVE  NoTimeout' /\ RecordsWhole' /\ \A u \in Tasks : Delivers(u)'
<1>1. pc'[t] = "idle" /\ todo'[t] = {} /\ \A u \in Tasks \ {t} : Still(u)
  BY DEF Release, Goto, Still, DeliveryInv, IInv, TypeOK, TasksOK
<1>2. RecordsStay => Delivers(t)'
  BY <1>1, IdleDelivers DEF Promises
<1> QED
  BY <1>1, <1>2, TaskDelivers

LEMMA EndEnrichmentDelivers ==
    ASSUME DeliveryInv, NEW t \in Tasks, EndEnrichment(t), UNCHANGED <<checker, pending>>,
           UNCHANGED hot \/ TaskWrites(t)
    PROVE  NoTimeout' /\ RecordsWhole' /\ \A u \in Tasks : Delivers(u)'
<1>1. CASE job[t].domain = "product"
  <2>1. /\ pc'[t] = "fanout" /\ todo' = todo
        /\ \A u \in Tasks \ {t} : Still(u)
    BY <1>1 DEF EndEnrichment, Goto, Still, DeliveryInv, IInv, TypeOK, TasksOK
  <2>2. RecordsStay => Delivers(t)'
    BY <2>1, IdleDelivers DEF Promises
  <2> QED
    BY <2>1, <2>2, TaskDelivers DEF DeliveryInv, NoTimeout
<1>2. CASE job[t].domain # "product"
  BY <1>2, ReleaseDelivers DEF EndEnrichment, Answer, DeliveryInv, NoTimeout
<1> QED
  BY <1>1, <1>2

\* The record a task has written is there for its enrichment to read.
LEMMA WrittenDelivers ==
    ASSUME DeliveryInv, NEW t \in Tasks, UpsertComplete(t) \/ WriteJoined(t)
    PROVE  NoTimeout' /\ RecordsWhole' /\ \A u \in Tasks : Delivers(u)'
<1>1. /\ UNCHANGED <<checker, pending, job, todo>>
      /\ pc'[t] = "enrich_read"
      /\ \A u \in Tasks \ {t} : Still(u)
  BY DEF UpsertComplete, WriteJoined, Goto, Still, joinVars, DeliveryInv, IInv, TypeOK, TasksOK
<1>2. TaskWrites(t)
  BY DEF UpsertComplete, WriteJoined, TaskWrites
<1>3. RecordsStay => Delivers(t)'
  <2>1. todo[t] \subseteq Customers
    BY DEF DeliveryInv, IInv, TypeOK, TasksOK
  <2> QED
    BY <1>1, <1>2, <2>1, WriteDelivers DEF Delivers, RecordsStay, DeliveryInv
<1> QED
  BY <1>1, <1>2, <1>3, TaskDelivers DEF DeliveryInv, NoTimeout

LEMMA JoinDelivers ==
    ASSUME DeliveryInv, NEW t \in Tasks, OpenPending(t) \/ JoinPending(t) \/ CompletePending(t)
    PROVE  NoTimeout' /\ RecordsWhole' /\ \A u \in Tasks : Delivers(u)'
<1>1. UNCHANGED <<checker, hot>> /\ \A c \in Customers : ~pending'[c].due
  <2>1. UNCHANGED <<checker, hot>>
    BY DEF OpenPending, JoinPending, CompletePending, cacheVars
  <2>2. \A c \in Customers : ~pending'[c].due
    <3> USE DEF DeliveryInv, NoTimeout, IInv, TypeOK, JoinsOK, IsJoin
    <3>1. CASE OpenPending(t)
      BY <3>1 DEF OpenPending
    <3>2. CASE CompletePending(t)
      BY <3>2 DEF CompletePending, NoJoin
    <3>3. CASE JoinPending(t)
      BY <3>3 DEF JoinPending
    <3> QED
      BY <3>1, <3>2, <3>3
  <2> QED
    BY <2>1, <2>2
<1>2. CASE OpenPending(t) \/ JoinPending(t)
  BY <1>1, <1>2, ReleaseDelivers DEF OpenPending, JoinPending, Answer
<1>3. CASE CompletePending(t)
  <2>1. DOMAIN Received(t) = RequiredDomains
    BY <1>3, ReceivedOK DEF CompletePending, DeliveryInv
  <2>2. /\ pc'[t] = "write" /\ todo' = todo
        /\ draft'[t] = Update(MergeDomains(Received(t)),
                              [assembly_state |-> "complete", missing_domains |-> {}])
        /\ \A u \in Tasks \ {t} : Still(u)
    BY <1>3 DEF CompletePending, Goto, Still, DeliveryInv, IInv, TypeOK, TasksOK
  <2>3. Whole(draft'[t])
    BY <2>1, <2>2, JoinedBodyKeys
  <2>4. Delivers(t)'
    BY <1>1, <2>2, <2>3 DEF Delivers, DeliveryInv
  <2> QED
    BY <1>1, <2>2, <2>4, TaskDelivers
<1> QED
  BY <1>2, <1>3

LEMMA EnrichDelivers ==
    ASSUME DeliveryInv, NEW t \in Tasks,
           \/ EnrichRead(t) \/ EnrichNothing(t) \/ EnrichFetch(t) \/ EnrichWrite(t)
           \/ EnrichCallFails(t) \/ CatalogueDown(t)
    PROVE  NoTimeout' /\ RecordsWhole' /\ \A u \in Tasks : Delivers(u)'
<1>1. CASE EnrichNothing(t) \/ EnrichWrite(t) \/ EnrichCallFails(t)
  BY <1>1, EndEnrichmentDelivers DEF EnrichNothing, EnrichWrite, EnrichCallFails, TaskWrites,
     cacheVars, joinVars
<1>2. CASE EnrichRead(t) \/ EnrichFetch(t) \/ CatalogueDown(t)
  <2>1. /\ UNCHANGED <<checker, hot, pending, job, todo>>
        /\ pc[t] \in {"enrich_read", "enrich_fetch"} /\ pc'[t] \in {"enrich_fetch", "enrich_write"}
        /\ \A u \in Tasks \ {t} : Still(u)
    BY <1>2 DEF EnrichRead, EnrichFetch, CatalogueDown, Goto, Still, cacheVars, joinVars,
       DeliveryInv, IInv, TypeOK, TasksOK
  <2>2. DOMAIN draft'[t] = {"commercial_state"}
    <3>1. CASE EnrichRead(t)
      BY <3>1 DEF EnrichRead, DeliveryInv, IInv, TypeOK, TasksOK
    <3>2. CASE EnrichFetch(t) \/ CatalogueDown(t)
      BY <3>2 DEF EnrichFetch, CatalogueDown, DeliveryInv, Delivers, IInv, TypeOK, TasksOK
    <3> QED
      BY <1>2, <3>1, <3>2
  <2>3. Delivers(t)'
    BY <2>1, <2>2 DEF Delivers, DeliveryInv
  <2> QED
    BY <2>1, <2>3, TaskDelivers DEF DeliveryInv, NoTimeout
<1> QED
  BY <1>1, <1>2

LEMMA FanOutDelivers ==
    ASSUME DeliveryInv, NEW t \in Tasks,
           ScanRecords(t) \/ FanOutDone(t) \/ \E c \in Customers : FanOutNext(t, c)
    PROVE  NoTimeout' /\ RecordsWhole' /\ \A u \in Tasks : Delivers(u)'
<1>1. UNCHANGED <<checker, hot, pending>>
  BY DEF ScanRecords, FanOutDone, FanOutNext, cacheVars, joinVars
<1>2. CASE FanOutDone(t)
  BY <1>1, <1>2, ReleaseDelivers DEF FanOutDone, DeliveryInv, NoTimeout
<1>3. ASSUME ~FanOutDone(t)
      PROVE  (\A u \in Tasks \ {t} : Still(u)) /\ Delivers(t)'
  <2>1. \A u \in Tasks \ {t} : Still(u)
    BY <1>3 DEF ScanRecords, FanOutNext, Goto, Still, DeliveryInv, IInv, TypeOK, TasksOK
  <2>2. ASSUME ScanRecords(t)
        PROVE  Delivers(t)'
    <3>1. pc'[t] = "fanout" /\ \A c \in todo'[t] : Exists(hot[c])
      BY <2>2 DEF ScanRecords, Goto, Exists, DeliveryInv, IInv, TypeOK, TasksOK
    <3> QED
      BY <1>1, <3>1 DEF Delivers
  <2>3. ASSUME NEW c \in Customers, FanOutNext(t, c)
        PROVE  Delivers(t)'
    <3>1. pc'[t] = "enrich_read" /\ job'[t].cust = c /\ c \in todo[t] /\ todo'[t] \subseteq todo[t]
      BY <2>3 DEF FanOutNext, Goto, DeliveryInv, IInv, TypeOK, TasksOK, Jobs
    <3> QED
      BY <1>1, <3>1 DEF Delivers, DeliveryInv
  <2> QED
    BY <1>3, <2>1, <2>2, <2>3
<1> QED
  BY <1>1, <1>2, <1>3, TaskDelivers DEF DeliveryInv, NoTimeout

LEMMA FaultDelivers ==
    ASSUME DeliveryInv, NEW t \in Tasks,
           PostLost(t) \/ PostTimeout(t) \/ CallFails(t) \/ ReplyLost(t)
    PROVE  NoTimeout' /\ RecordsWhole' /\ \A u \in Tasks : Delivers(u)'
<1>1. CASE PostLost(t) \/ CallFails(t) \/ ReplyLost(t)
  <2>1. TaskWrites(t) \/ UNCHANGED hot
    BY <1>1 DEF PostLost, CallFails, ReplyLost, TaskWrites, cacheVars
  <2> QED
    BY <1>1, <2>1, ReleaseDelivers DEF PostLost, CallFails, ReplyLost, Answer, joinVars,
       DeliveryInv, NoTimeout
<1>2. CASE PostTimeout(t)
  <2>1. UNCHANGED <<checker, hot, pending>> /\ \A u \in Tasks : Still(u)
    BY <1>2 DEF PostTimeout, Still, cacheVars, joinVars, DeliveryInv, IInv, TypeOK, TasksOK, Jobs
  <2>2. RecordsStay
    BY <2>1 DEF RecordsStay
  <2> QED
    BY <2>1, <2>2, StillDelivers DEF DeliveryInv, NoTimeout, RecordsWhole
<1> QED
  BY <1>1, <1>2

(***************************************************************************)
(* The steps that cannot happen: no join is due, so the checker sleeps on,  *)
(* and what a handler upserts is complete.  That no join times out and the  *)
(* cache does not restart is asked of one step only (Calm), so that it need *)
(* not hold of all steps for the constants' sake.                           *)
(***************************************************************************)
Calm == ~CacheRestarts /\ \A c \in Customers : ~Expire(c)

LEMMA ExcludedWhenCalm ==
    ASSUME Calm, DeliveryInv
    PROVE  /\ ~Check /\ ~CheckerCallFails
           /\ \A t \in Tasks : ~UpsertIncomplete(t)
BY DEF DeliveryInv, NoTimeout, Delivers, Check, CheckerScan, CheckerEvict, CheckerSkip,
   CheckerWrite, CheckerRest, Evict, TimedOut, CheckerCallFails, UpsertIncomplete

LEMMA UndisturbedIsCalm == ASSUME Undisturbed PROVE Calm
BY DEF Undisturbed, Calm, CacheRestarts, Fault, Expire

LEMMA Excluded ==
    ASSUME Undisturbed, DeliveryInv
    PROVE  /\ ~Check /\ ~CheckerCallFails /\ ~CacheRestarts
           /\ \A c \in Customers : ~Expire(c)
           /\ \A t \in Tasks : ~UpsertIncomplete(t)
BY UndisturbedIsCalm, ExcludedWhenCalm DEF Calm

LEMMA CalmStep ==
    ASSUME DeliveryInv, [Next]_vars, Calm
    PROVE  DeliveryInv'
<1>1. CASE UNCHANGED vars
  <2>1. /\ UNCHANGED <<checker, hot, pending>> /\ RecordsStay
        /\ \A u \in Tasks : Still(u)
    BY <1>1 DEF vars, cacheVars, joinVars, taskVars, Still, RecordsStay
  <2> QED
    BY <2>1, NextInv, StillDelivers DEF DeliveryInv, NoTimeout, RecordsWhole
<1>2. ASSUME NEW t \in Tasks, Request(t) \/ Handle(t) \/ TaskFault(t)
      PROVE  NoTimeout' /\ RecordsWhole' /\ \A u \in Tasks : Delivers(u)'
  <2>1. CASE Request(t)
    BY <2>1, RequestDelivers DEF Request, UpdateCustomer, UpdateProduct
  <2>2. CASE Handle(t)
    BY <2>2, ExcludedWhenCalm, LookupDelivers, WrittenDelivers, JoinDelivers, EnrichDelivers, FanOutDelivers
       DEF Handle
  <2>3. CASE TaskFault(t)
    BY <2>3, FaultDelivers, EnrichDelivers DEF TaskFault
  <2> QED
    BY <1>2, <2>1, <2>2, <2>3
<1>3. CASE Startup
  <2>1. \E t \in Tasks : \E j : Submit(t, j)
    BY <1>3 DEF Startup, StartupEmit
  <2> QED
    BY <2>1, <1>3, NextInv, RequestDelivers DEF DeliveryInv
<1>4. CASE CdcRestarts
  BY <1>4, NextInv DEF CdcRestarts, cacheVars, NoJoin, Asleep, DeliveryInv, NoTimeout, RecordsWhole,
     Delivers
<1> QED
  BY <1>1, <1>2, <1>3, <1>4, ExcludedWhenCalm, NextInv DEF Next, DeliveryInv, Calm

LEMMA DeliveryStep ==
    ASSUME Undisturbed, DeliveryInv, [Next]_vars
    PROVE  DeliveryInv'
BY UndisturbedIsCalm, CalmStep

LEMMA DeliveryInit == Init => DeliveryInv
BY InitInv DEF Init, CacheInit, NoRecord, NoJoin, Asleep, Exists, DeliveryInv, NoTimeout,
   RecordsWhole, Delivers

(***************************************************************************)
(* While no join times out and the cache keeps running, the cache holds     *)
(* finished records only, whatever the clients write at the same time and   *)
(* whichever request fails (process_event; cache_app.py, write_record).     *)
(***************************************************************************)
THEOREM RecordsStayComplete == ASSUME Undisturbed PROVE Spec => []RecordsComplete
<1>1. DeliveryInv /\ [Next]_vars => DeliveryInv'
  BY DeliveryStep
<1>2. DeliveryInv => RecordsComplete
  BY DEF DeliveryInv, RecordsWhole, RecordsComplete, Whole, DomainsHeld, FieldGroups
<1> QED
  BY DeliveryInit, <1>1, <1>2, PTL DEF Spec

-----------------------------------------------------------------------------
(***************************************************************************)
(* Acknowledged domains.  As records are whole, a domain is held by every   *)
(* record and by every join that is being written, besides the join it      *)
(* waits in; no step takes it out of all three.                             *)
(***************************************************************************)
Held(c, d) == \/ Exists(hot[c])
              \/ d \in DOMAIN pending[c].revs
              \/ \E t \in Tasks : Writing(t, c)

LEMMA HeldHasRevision ==
    ASSUME DeliveryInv, NEW c \in Customers, NEW d \in RequiredDomains, Held(c, d)
    PROVE  RevisionsHeld(c, d) # {}
<1>1. \A r : Whole(r) => FieldGroup(d) \in DOMAIN r
  BY DEF Whole, FieldGroups
<1>2. CASE Exists(hot[c])
  BY <1>1, <1>2 DEF DeliveryInv, RecordsWhole, RevisionsHeld
<1>3. CASE d \in DOMAIN pending[c].revs
  BY <1>3 DEF RevisionsHeld
<1>4. ASSUME NEW t \in Tasks, Writing(t, c)
      PROVE  RevisionsHeld(c, d) # {}
  <2>1. FieldGroup(d) \in DOMAIN draft[t]
    BY <1>1, <1>4 DEF DeliveryInv, Delivers, Writing
  <2>2. draft[t][FieldGroup(d)].rev \in RevisionsHeld(c, d)
    BY <1>4, <2>1 DEF RevisionsHeld
  <2> QED
    BY <2>2
<1> QED
  BY <1>2, <1>3, <1>4 DEF Held

LEMMA StillHeld ==
    ASSUME NEW t \in Tasks, \A u \in Tasks \ {t} : Still(u), RecordsStay,
           NEW c \in Customers, NEW d, Held(c, d),
           d \in DOMAIN pending[c].revs => d \in DOMAIN pending'[c].revs \/ Writing(t, c)',
           Writing(t, c) => Writing(t, c)' \/ Exists(hot'[c])
    PROVE  Held(c, d)'
BY DEF Held, Still, RecordsStay, Writing

\* The calls of the service to the cache succeed, and its process runs on: for
\* all steps, and for one.
NothingLost == Undisturbed /\ {"cache_call_fails", "cdc_restart"} \cap FaultKinds = {}
LosesNothing == Calm /\ ~CdcRestarts /\ \A t \in Tasks : ~CallFails(t) /\ ~EnrichCallFails(t)

\* The system of record learns that an event of domain d was handled.
Confirmed(c, d) == acked'[c][d] # acked[c][d] \/ c \in unsent[d] \ unsent'[d]
NothingConfirmed == \A c \in Customers, d \in RequiredDomains : ~Confirmed(c, d)

\* A step of task t loses no domain, and confirms only one that is held.
HoldsOn == \A c \in Customers, d \in RequiredDomains :
              /\ Held(c, d) => Held(c, d)'
              /\ Confirmed(c, d) => Held(c, d)'

\* Whose event is confirmed.
LEMMA ConfirmedBy ==
    ASSUME NEW t \in Tasks, Answer(t, TRUE), IInv, NEW c \in Customers, NEW d \in RequiredDomains,
           Confirmed(c, d)
    PROVE  job[t].cust = c /\ job[t].domain = d
BY DEF Answer, Acknowledge, StartupAnswered, Confirmed, sorVars, IInv, TypeOK, SorOK

\* An answer other than a success confirms nothing.
LEMMA FailureConfirmsNothing ==
    ASSUME IInv, NEW t \in Tasks, Answer(t, FALSE)
    PROVE  NothingConfirmed
<1>1. acked' = acked /\ \A d \in RequiredDomains : unsent[d] \subseteq unsent'[d]
  BY DEF Answer, StartupAnswered, sorVars, IInv, TypeOK, SorOK
<1> QED
  BY <1>1 DEF NothingConfirmed, Confirmed

LEMMA MoveHolds ==
    ASSUME DeliveryInv, NEW t \in Tasks, pc[t] # "write",
           \A u \in Tasks \ {t} : Still(u), UNCHANGED pending, NothingConfirmed,
           UNCHANGED hot \/ TaskWrites(t)
    PROVE  HoldsOn
<1>1. RecordsStay
  BY WriteDelivers DEF RecordsStay
<1>2. \A c \in Customers : ~Writing(t, c)
  BY DEF Writing
<1> QED
  BY <1>1, <1>2, StillHeld DEF HoldsOn, NothingConfirmed

LEMMA EndHolds ==
    ASSUME DeliveryInv, NEW t \in Tasks, EndEnrichment(t), UNCHANGED pending,
           pc[t] \in {"enrich_read", "enrich_write"}, UNCHANGED hot \/ TaskWrites(t)
    PROVE  HoldsOn
<1>1. \A u \in Tasks \ {t} : Still(u)
  BY DEF EndEnrichment, Answer, Release, Goto, Still, DeliveryInv, IInv, TypeOK, TasksOK
<1>2. CASE UNCHANGED <<acked, unsent>>
  BY <1>1, <1>2, MoveHolds DEF NothingConfirmed, Confirmed
<1>3. CASE Answer(t, TRUE)
  <2>1. RecordsStay
    BY WriteDelivers DEF RecordsStay
  <2>2. Exists(hot[job[t].cust]) /\ \A c \in Customers : ~Writing(t, c)
    BY DEF DeliveryInv, Delivers, Writing
  <2>3. ASSUME NEW c \in Customers, NEW d \in RequiredDomains, Confirmed(c, d)
        PROVE  Held(c, d)'
    BY <1>3, <2>1, <2>2, <2>3, ConfirmedBy DEF DeliveryInv, RecordsStay, Held
  <2> QED
    BY <1>1, <2>1, <2>2, <2>3, StillHeld DEF HoldsOn
<1> QED
  BY <1>2, <1>3 DEF EndEnrichment, sorVars

\* The joined record is written, whether the answer arrives or not.
LEMMA WrittenHolds ==
    ASSUME DeliveryInv, NEW t \in Tasks, TaskWrites(t), \A u \in Tasks \ {t} : Still(u),
           UNCHANGED pending, NothingConfirmed
    PROVE  HoldsOn
<1>1. RecordsStay /\ Exists(hot'[job[t].cust])
  BY WriteDelivers
<1>2. \A c \in Customers : Writing(t, c) => Exists(hot'[c])
  BY <1>1 DEF Writing
<1> QED
  BY <1>1, <1>2, StillHeld DEF HoldsOn, NothingConfirmed

LEMMA JoinHolds ==
    ASSUME DeliveryInv, NEW t \in Tasks, OpenPending(t) \/ JoinPending(t) \/ CompletePending(t)
    PROVE  HoldsOn
<1> DEFINE e == job[t].cust
<1>1. /\ pc[t] = "join" /\ e \in Customers /\ UNCHANGED hot
      /\ DOMAIN Received(t) = DOMAIN pending[e].revs \cup {job[t].domain}
      /\ \A u \in Tasks \ {t} : Still(u)
  <2>1. pc[t] = "join" /\ UNCHANGED hot /\ \A u \in Tasks \ {t} : Still(u)
    BY DEF OpenPending, JoinPending, CompletePending, Answer, Release, Goto, Still, cacheVars,
       DeliveryInv, IInv, TypeOK, TasksOK
  <2> QED
    BY <2>1, ReceivedOK DEF DeliveryInv
<1>2. RecordsStay /\ \A c \in Customers : ~Writing(t, c)
  BY <1>1 DEF RecordsStay, Writing
<1>3. DOMAIN pending = Customers /\ IsJoin(pending[e])
  BY <1>1 DEF DeliveryInv, IInv, TypeOK, JoinsOK
<1>4. ASSUME OpenPending(t) \/ JoinPending(t)
      PROVE  HoldsOn
  <2>1. \A c \in Customers \ {e} : pending'[c] = pending[c]
    BY <1>3, <1>4 DEF OpenPending, JoinPending
  <2>2. pending'[e].revs = Received(t)
    <3>1. CASE OpenPending(t)
      BY <1>1, <1>3, <3>1 DEF OpenPending
    <3>2. CASE JoinPending(t)
      BY <1>1, <1>3, <3>2 DEF JoinPending, IsJoin
    <3> QED
      BY <1>4, <3>1, <3>2
  <2>3. ASSUME NEW c \in Customers, NEW d \in RequiredDomains, Confirmed(c, d)
        PROVE  Held(c, d)'
    <3>1. Answer(t, TRUE)
      BY <1>4 DEF OpenPending, JoinPending
    <3>2. c = e /\ d = job[t].domain
      BY <2>3, <3>1, ConfirmedBy DEF DeliveryInv
    <3> QED
      BY <1>1, <2>2, <3>2 DEF Held
  <2>4. \A c \in Customers : DOMAIN pending[c].revs \subseteq DOMAIN pending'[c].revs
    BY <1>1, <2>1, <2>2
  <2> QED
    BY <1>1, <1>2, <2>3, <2>4, StillHeld DEF HoldsOn
<1>5. ASSUME CompletePending(t)
      PROVE  HoldsOn
  <2>1. /\ pc'[t] = "write" /\ job'[t].cust = e
        /\ \A c \in Customers \ {e} : pending'[c] = pending[c]
    BY <1>3, <1>5 DEF CompletePending, Goto, DeliveryInv, IInv, TypeOK, TasksOK
  <2>2. acked' = acked /\ unsent' = unsent
    BY <1>5 DEF CompletePending, sorVars
  <2>3. ASSUME NEW c \in Customers, NEW d \in RequiredDomains, Held(c, d)
        PROVE  Held(c, d)'
    <3>1. CASE c = e
      BY <2>1, <3>1 DEF Held, Writing
    <3>2. CASE c # e
      BY <1>1, <1>2, <2>1, <2>3, <3>2, StillHeld
    <3> QED
      BY <3>1, <3>2
  <2> QED
    BY <2>2, <2>3 DEF HoldsOn, Confirmed
<1> QED
  BY <1>4, <1>5

LEMMA HoldsStep ==
    ASSUME LosesNothing, DeliveryInv, [Next]_vars
    PROVE  HoldsOn
<1> USE DEF DeliveryInv, IInv, TypeOK, TasksOK
<1>1. CASE UNCHANGED vars
  BY <1>1 DEF vars, cacheVars, sorVars, joinVars, taskVars, HoldsOn, Held, Writing, Confirmed
<1>2. ASSUME NEW t \in Tasks, NEW j, Submit(t, j), unsent' = unsent
      PROVE  HoldsOn
  <2>1. NothingConfirmed
    BY <1>2 DEF Submit, NothingConfirmed, Confirmed
  <2> QED
    BY <1>2, <2>1, MoveHolds DEF Submit, Goto, Still, cacheVars, joinVars
<1>3. ASSUME NEW t \in Tasks, Handle(t)
      PROVE  HoldsOn
  <2>1. CASE LookupHit(t) \/ LookupMiss(t) \/ EnrichRead(t) \/ EnrichFetch(t)
    <3>1. NothingConfirmed
      BY <2>1 DEF LookupHit, LookupMiss, EnrichRead, EnrichFetch, sorVars, NothingConfirmed, Confirmed
    <3> QED
      BY <2>1, <3>1, MoveHolds DEF LookupHit, LookupMiss, EnrichRead, EnrichFetch, Goto, Still,
         cacheVars, joinVars
  <2>2. CASE UpsertComplete(t) \/ WriteJoined(t)
    <3>1. TaskWrites(t)
      BY <2>2 DEF UpsertComplete, WriteJoined, TaskWrites
    <3>2. pending' = pending /\ NothingConfirmed /\ \A u \in Tasks \ {t} : Still(u)
      BY <2>2 DEF UpsertComplete, WriteJoined, Goto, Still, joinVars, sorVars, NothingConfirmed,
         Confirmed
    <3> QED
      BY <3>1, <3>2, WrittenHolds
  <2>3. CASE OpenPending(t) \/ JoinPending(t) \/ CompletePending(t)
    BY <2>3, JoinHolds
  <2>4. CASE EnrichNothing(t) \/ EnrichWrite(t)
    BY <2>4, EndHolds DEF EnrichNothing, EnrichWrite, TaskWrites, cacheVars, joinVars
  <2>5. CASE ScanRecords(t) \/ FanOutDone(t)
    <3>1. NothingConfirmed
      BY <2>5 DEF ScanRecords, FanOutDone, sorVars, NothingConfirmed, Confirmed
    <3> QED
      BY <2>5, <3>1, MoveHolds DEF ScanRecords, FanOutDone, Release, Goto, Still, cacheVars, joinVars
  <2>6. ASSUME NEW c \in Customers, FanOutNext(t, c)
        PROVE  HoldsOn
    <3>1. NothingConfirmed
      BY <2>6 DEF FanOutNext, sorVars, NothingConfirmed, Confirmed
    <3> QED
      BY <2>6, <3>1, MoveHolds DEF FanOutNext, Goto, Still, cacheVars, joinVars
  <2> QED
    BY <1>3, <2>1, <2>2, <2>3, <2>4, <2>5, <2>6, ExcludedWhenCalm DEF Handle, LosesNothing
<1>4. ASSUME NEW t \in Tasks, TaskFault(t)
      PROVE  HoldsOn
  <2>1. CASE PostLost(t) \/ PostTimeout(t) \/ CatalogueDown(t)
    <3>1. UNCHANGED <<hot, pending>>
      BY <2>1 DEF PostLost, PostTimeout, CatalogueDown, cacheVars, joinVars
    <3>0. NothingConfirmed
      <4>1. CASE PostLost(t)
        BY <4>1, FailureConfirmsNothing DEF PostLost
      <4>2. CASE PostTimeout(t)
        BY <4>2 DEF PostTimeout, StartupAnswered, SorOK, NothingConfirmed, Confirmed
      <4>3. CASE CatalogueDown(t)
        BY <4>3 DEF CatalogueDown, sorVars, NothingConfirmed, Confirmed
      <4> QED
        BY <2>1, <4>1, <4>2, <4>3
    <3>2. CASE PostTimeout(t)
      <4>1. UNCHANGED pc /\ \A u \in Tasks : job'[u].cust = job[u].cust
        BY <3>2 DEF PostTimeout, Jobs
      <4> QED
        BY <3>0, <3>1, <4>1 DEF HoldsOn, Held, Writing, NothingConfirmed
    <3>3. CASE PostLost(t) \/ CatalogueDown(t)
      <4>1. pc[t] # "write" /\ \A u \in Tasks \ {t} : Still(u)
        BY <3>3 DEF PostLost, CatalogueDown, Answer, Release, Goto, Still
      <4> QED
        BY <3>0, <3>1, <4>1, MoveHolds
    <3> QED
      BY <2>1, <3>2, <3>3
  <2>2. CASE ReplyLost(t)
    <3>1. TaskWrites(t)
      BY <2>2 DEF ReplyLost, TaskWrites
    <3>2. NothingConfirmed
      BY <2>2, FailureConfirmsNothing DEF ReplyLost
    <3> QED
      BY <2>2, <3>1, <3>2, WrittenHolds DEF ReplyLost, Answer, Release, Goto, Still, joinVars
  <2> QED
    BY <1>4, <2>1, <2>2 DEF TaskFault, LosesNothing
<1>5. CASE \/ \E t \in Tasks : Request(t)
           \/ Startup
  BY <1>2, <1>5 DEF Request, UpdateCustomer, ChangeRecord, Recapture, UpdateProduct, ChangePrice,
     Startup, StartupEmit, sorVars
<1> QED
  BY <1>1, <1>3, <1>4, <1>5, ExcludedWhenCalm DEF Next, LosesNothing, Calm

LEMMA NothingIsLost == ASSUME NothingLost PROVE LosesNothing
BY UndisturbedIsCalm DEF NothingLost, LosesNothing, CdcRestarts, CallFails, EnrichCallFails, Fault

(***************************************************************************)
(* A domain whose event was answered with a success stays in the record, in *)
(* the pending store or in a join being written, while nothing of the       *)
(* service or the cache is lost (process_event).                            *)
(***************************************************************************)
THEOREM AckedDomainsStayHeld == ASSUME NothingLost PROVE Spec => []AckedDomainsHeld
<1> DEFINE AckedHeld == \A c \in Customers, d \in RequiredDomains : acked[c][d] > 0 => Held(c, d)
<1>1. Init => DeliveryInv /\ AckedHeld
  BY DeliveryInit DEF Init
<1>2. DeliveryInv /\ AckedHeld /\ [Next]_vars => DeliveryInv' /\ AckedHeld'
  <2> SUFFICES ASSUME DeliveryInv, AckedHeld, [Next]_vars PROVE DeliveryInv' /\ AckedHeld'
    OBVIOUS
  <2>1. DeliveryInv'
    BY DeliveryStep DEF NothingLost
  <2> QED
    BY <2>1, NothingIsLost, HoldsStep DEF HoldsOn, Confirmed
<1>3. DeliveryInv /\ AckedHeld => AckedDomainsHeld
  BY HeldHasRevision DEF AckedDomainsHeld
<1> QED
  BY <1>1, <1>2, <1>3, PTL DEF Spec
=============================================================================
