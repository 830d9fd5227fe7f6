-------------------------- MODULE CdcSerialProofs ---------------------------
(***************************************************************************)
(* What serial clients get, who wait for each answer before they write the  *)
(* same record again, while no join times out and the cache keeps running:  *)
(* the cached profile is the last-known state of the customer domain.       *)
(***************************************************************************)
EXTENDS CdcSafetyProofs

Serially == Undisturbed /\ SerialClients

-----------------------------------------------------------------------------
(***************************************************************************)
(* Who sends what: at most one task handles an event of a customer's        *)
(* domain, and it carries the revision committed last.                      *)
(***************************************************************************)
CustomerTask(t) == pc[t] # "idle" /\ job[t].domain \in RequiredDomains

LatestSent ==
    \A t \in Tasks : CustomerTask(t) =>
        job[t].cust \in Customers /\ job[t].rev = sor[job[t].cust][job[t].domain]

OneSender ==
    \A t, u \in Tasks :
        CustomerTask(t) /\ CustomerTask(u) /\ job[t].cust = job[u].cust
            /\ job[t].domain = job[u].domain => t = u

FansOut(t) == pc[t] = "fanout" => job[t].domain = "product"

Senders == LatestSent /\ OneSender /\ \A t \in Tasks : FansOut(t)

\* A task that stands still handles what it handled before.
SameJob(t) == /\ job'[t].cust = job[t].cust
              /\ job'[t].domain = job[t].domain
              /\ job'[t].rev = job[t].rev

\* No event is sent: the tasks go on with what they have, or end.
NothingSent == /\ UNCHANGED sor
               /\ \A t \in Tasks : /\ CustomerTask(t)' => CustomerTask(t) /\ SameJob(t)
                                   /\ FansOut(t)'

\* One event is: with the revision just committed, and no other on its way.
Sends(t, c, d) == /\ ~Outstanding(c, d)
                  /\ sor' = sor \/ sor' = [sor EXCEPT ![c][d] = @ + 1]
                  /\ \E startup \in BOOLEAN :
                        Submit(t, [cust |-> c, domain |-> d, rev |-> sor'[c][d],
                                   startup |-> startup])

LEMMA AnswerSends ==
    ASSUME IInv, Senders, NEW t \in Tasks, NEW ok \in BOOLEAN, Answer(t, ok)
    PROVE  NothingSent
<1>1. UNCHANGED sor
  BY DEF Answer, StartupAnswered, sorVars
<1>2. pc'[t] = "idle" /\ \A u \in Tasks \ {t} : pc'[u] = pc[u] /\ job'[u] = job[u]
  BY DEF Answer, Release, Goto, IInv, TypeOK, TasksOK
<1> QED
  BY <1>1, <1>2 DEF Senders, FansOut, NothingSent, CustomerTask, SameJob

LEMMA EndEnrichmentSends ==
    ASSUME IInv, Senders, NEW t \in Tasks, EndEnrichment(t)
    PROVE  NothingSent
<1> USE DEF IInv, TypeOK, TasksOK, Senders, FansOut, NothingSent, CustomerTask, SameJob
<1>1. CASE job[t].domain = "product"
  BY <1>1 DEF EndEnrichment, Goto, sorVars, RequiredDomains
<1>2. CASE job[t].domain # "product"
  BY <1>2, AnswerSends DEF EndEnrichment
<1> QED
  BY <1>1, <1>2

LEMMA HandleSends ==
    ASSUME IInv, Senders, NEW t \in Tasks, Handle(t)
    PROVE  NothingSent
<1> USE DEF IInv, TypeOK, TasksOK, Senders, FansOut, NothingSent, CustomerTask, SameJob
<1>1. CASE LookupHit(t) \/ LookupMiss(t) \/ UpsertComplete(t) \/ CompletePending(t) \/ WriteJoined(t)
  BY <1>1 DEF LookupHit, LookupMiss, UpsertComplete, CompletePending, WriteJoined, Goto, sorVars
<1>2. CASE UpsertIncomplete(t) \/ OpenPending(t) \/ JoinPending(t)
  BY <1>2, AnswerSends DEF UpsertIncomplete, OpenPending, JoinPending
<1>3. CASE EnrichRead(t) \/ EnrichFetch(t) \/ ScanRecords(t)
  BY <1>3 DEF EnrichRead, EnrichFetch, ScanRecords, Goto, sorVars
<1>4. CASE EnrichNothing(t) \/ EnrichWrite(t)
  BY <1>4, EndEnrichmentSends DEF EnrichNothing, EnrichWrite
<1>5. CASE FanOutDone(t)
  BY <1>5 DEF FanOutDone, Release, Goto, sorVars
<1>6. ASSUME NEW c \in Customers, FanOutNext(t, c)
      PROVE  NothingSent
  BY <1>6 DEF FanOutNext, Goto, sorVars, Jobs, RequiredDomains
<1> QED
  BY <1>1, <1>2, <1>3, <1>4, <1>5, <1>6 DEF Handle

LEMMA FaultSends ==
    ASSUME IInv, Senders, NEW t \in Tasks, TaskFault(t)
    PROVE  NothingSent
<1>1. CASE PostLost(t) \/ CallFails(t) \/ ReplyLost(t)
  BY <1>1, AnswerSends DEF PostLost, CallFails, ReplyLost
<1>2. CASE EnrichCallFails(t)
  BY <1>2, EndEnrichmentSends DEF EnrichCallFails
<1>3. CASE PostTimeout(t)
  BY <1>3 DEF PostTimeout, StartupAnswered, IInv, TypeOK, TasksOK, Jobs, Senders, FansOut,
     NothingSent, CustomerTask, SameJob
<1>4. CASE CatalogueDown(t)
  BY <1>4 DEF CatalogueDown, Goto, sorVars, IInv, TypeOK, TasksOK, Senders, FansOut,
     NothingSent, CustomerTask, SameJob
<1> QED
  BY <1>1, <1>2, <1>3, <1>4 DEF TaskFault

LEMMA SentStep ==
    ASSUME Serially, DeliveryInv, Senders, [Next]_vars
    PROVE  NothingSent \/ \E t \in Tasks, c \in Customers, d \in RequiredDomains : Sends(t, c, d)
<1> USE DEF DeliveryInv
<1>1. CASE UNCHANGED vars
  BY <1>1 DEF vars, taskVars, sorVars, Senders, FansOut, NothingSent, CustomerTask, SameJob
<1>2. ASSUME NEW t \in Tasks, Request(t)
      PROVE  NothingSent \/ \E c \in Customers, d \in RequiredDomains : Sends(t, c, d)
  <2>1. CASE UpdateProduct(t)
    BY <2>1 DEF UpdateProduct, ChangePrice, Submit, Goto, NoJob, RequiredDomains, IInv, TypeOK,
       TasksOK, Senders, FansOut, NothingSent, CustomerTask, SameJob
  <2>2. ASSUME NEW c \in Customers, NEW d \in RequiredDomains, UpdateCustomer(t, c, d)
        PROVE  Sends(t, c, d)
    BY <2>2 DEF UpdateCustomer, ChangeRecord, Recapture, Sends, Free, Serially
  <2> QED
    BY <1>2, <2>1, <2>2 DEF Request
<1>3. ASSUME NEW t \in Tasks, NEW c \in Customers, NEW d \in RequiredDomains, StartupEmit(t, c, d)
      PROVE  Sends(t, c, d)
  <2>1. sor' = sor /\ Submit(t, [cust |-> c, domain |-> d, rev |-> sor'[c][d], startup |-> TRUE])
    BY <1>3 DEF StartupEmit, sorVars
  <2> QED
    BY <1>3, <2>1 DEF StartupEmit, Sends, Free, Serially
<1>4. CASE CdcRestarts
  BY <1>4 DEF CdcRestarts, NoJob, NothingSent, CustomerTask, FansOut
<1> QED
  BY <1>1, <1>2, <1>3, <1>4, HandleSends, FaultSends, Excluded DEF Next, Startup, Serially

LEMMA SendersStep ==
    ASSUME Serially, DeliveryInv, Senders, [Next]_vars
    PROVE  Senders'
<1>1. CASE NothingSent
  <2>1. LatestSent'
    BY <1>1 DEF NothingSent, Senders, LatestSent, SameJob
  <2>2. OneSender'
    BY <1>1 DEF NothingSent, Senders, OneSender, SameJob
  <2> QED
    BY <1>1, <2>1, <2>2 DEF NothingSent, Senders
<1>2. ASSUME NEW t \in Tasks, NEW c \in Customers, NEW d \in RequiredDomains, Sends(t, c, d)
      PROVE  Senders'
  <2>1. /\ job'[t].cust = c /\ job'[t].domain = d /\ job'[t].rev = sor'[c][d] /\ pc'[t] = "post"
        /\ \A u \in Tasks \ {t} : pc'[u] = pc[u] /\ job'[u] = job[u]
    BY <1>2 DEF Sends, Submit, Goto, DeliveryInv, IInv, TypeOK, TasksOK
  <2>2. \A u \in Tasks \ {t} : CustomerTask(u)' <=> CustomerTask(u)
    BY <2>1 DEF CustomerTask
  <2>3. \A u \in Tasks : CustomerTask(u) => job[u].cust # c \/ job[u].domain # d
    BY <1>2 DEF Sends, Outstanding, CustomerTask
  <2>4. \A e \in Customers, f \in RequiredDomains : e # c \/ f # d => sor'[e][f] = sor[e][f]
    BY <1>2 DEF Sends, DeliveryInv, IInv, TypeOK, SorOK
  <2>5. LatestSent'
    BY <2>1, <2>2, <2>3, <2>4 DEF Senders, LatestSent, CustomerTask
  <2>6. OneSender'
    BY <2>1, <2>2, <2>3 DEF Senders, OneSender
  <2>7. \A u \in Tasks : FansOut(u)'
    BY <2>1 DEF Senders, FansOut
  <2> QED
    BY <2>5, <2>6, <2>7 DEF Senders
<1> QED
  BY <1>1, <1>2, SentStep

-----------------------------------------------------------------------------
(***************************************************************************)
(* The profile.  A customer's record is made by one join only: as long as   *)
(* it is being written nobody else can complete another, and once the       *)
(* record exists some domain is missing from the pending store for good.    *)
(* From then on the profile changes by upserts of the latest revision.      *)
(***************************************************************************)
Committed(c) == sor[c]["customer"]
ProfileRev(r) == r["profile"].rev
Joining(t, c, d) == pc[t] = "join" /\ job[t].cust = c /\ job[t].domain = d

\* What a task is about to write, or has written, of the profile.
Carries(t) ==
    LET c == job[t].cust
        d == job[t].domain
    IN  /\ pc[t] = "upsert" /\ d = "customer" =>
              "profile" \in DOMAIN draft[t] /\ ProfileRev(draft[t]) = job[t].rev
        /\ pc[t] = "upsert" /\ d = "billing" => "profile" \notin DOMAIN draft[t]
        /\ pc[t] = "write" => /\ ~Exists(hot[c])
                              /\ d \notin DOMAIN pending[c].revs
                              /\ ProfileRev(draft[t]) \in 1 .. Committed(c)
        /\ pc[t] = "write" /\ d = "customer" => ProfileRev(draft[t]) = job[t].rev
        /\ pc[t] \in {"enrich_read", "enrich_fetch", "enrich_write"} /\ d = "customer" =>
              ProfileRev(hot[c]) = job[t].rev

\* Where the profile of a customer stands.
WrittenOnce(c) ==
    /\ \A t, u \in Tasks : Writing(t, c) /\ Writing(u, c) => t = u
    /\ Exists(hot[c]) => \E d \in RequiredDomains : /\ d \notin DOMAIN pending[c].revs
                                                    /\ \A t \in Tasks : ~Joining(t, c, d)

ProfileBounded(c) ==
    /\ Committed(c) >= 1
    /\ Exists(hot[c]) => ProfileRev(hot[c]) \in 1 .. Committed(c)
    /\ "customer" \in DOMAIN pending[c].revs => pending[c].revs["customer"] \in 1 .. Committed(c)

ProfileInv == /\ \A t \in Tasks : Carries(t)
              /\ \A c \in Customers : WrittenOnce(c) /\ ProfileBounded(c)

SerialInv == DeliveryInv /\ Senders /\ ProfileInv

\* Tasks that work for a customer work for one of Customers.
LEMMA Customer ==
    ASSUME IInv, NEW t \in Tasks
    PROVE  /\ pc[t] \in Promises => job[t].cust \in Customers
           /\ pc[t] \in {"join", "write", "upsert"} => CustomerTask(t)
BY DEF IInv, JobsFit, JobFits, Promises, CustomerTask

CommitsGrow == \A c \in Customers : Committed(c)' \in Nat /\ Committed(c)' >= Committed(c)

(***************************************************************************)
(* Steps that leave the cache and the pending store alone.                  *)
(***************************************************************************)
LEMMA CalmKeeps ==
    ASSUME SerialInv, UNCHANGED <<hot, pending>>, CommitsGrow,
           NEW t \in Tasks, \A u \in Tasks \ {t} : Still(u) /\ SameJob(u),
           Carries(t)', pc'[t] # "write", pc'[t] = "join" => ~Exists(hot[job'[t].cust])
    PROVE  ProfileInv'
<1>0. \A c \in Customers : Committed(c) \in Nat
  BY DEF SerialInv, DeliveryInv, IInv, TypeOK, SorOK, Committed, RequiredDomains
<1>1. ASSUME NEW u \in Tasks \ {t} PROVE Carries(u)'
  <2>1. Carries(u) /\ Still(u) /\ SameJob(u)
    BY DEF SerialInv, ProfileInv
  <2>2. pc[u] = "write" => job[u].cust \in Customers
    BY Customer DEF SerialInv, DeliveryInv, Promises
  <2>3. pc[u] = "write" => ProfileRev(draft[u]) \in 1 .. Committed(job[u].cust)'
    BY <1>0, <2>1, <2>2 DEF Carries, CommitsGrow, SameJob
  <2> QED
    BY <2>1, <2>3 DEF Carries, Still, SameJob, ProfileRev
<1>2. ASSUME NEW c \in Customers PROVE WrittenOnce(c)'
  <2>1. \A u \in Tasks : Writing(u, c)' => Writing(u, c)
    BY DEF Writing, Still
  <2>2. \A d : \A u \in Tasks : Exists(hot[c]) /\ Joining(u, c, d)' => Joining(u, c, d)
    BY DEF Joining, Still, SameJob
  <2> QED
    BY <2>1, <2>2 DEF SerialInv, ProfileInv, WrittenOnce
<1>3. ASSUME NEW c \in Customers PROVE ProfileBounded(c)'
  BY <1>0 DEF SerialInv, ProfileInv, ProfileBounded, CommitsGrow
<1> QED
  BY <1>1, <1>2, <1>3 DEF ProfileInv

(***************************************************************************)
(* Writes.  The profile a write leaves behind is the draft's when it has    *)
(* one, and the one the record had when not.                                *)
(***************************************************************************)
LEMMA ProfileWritten ==
    ASSUME SerialInv, NEW t \in Tasks, TaskWrites(t), NEW c \in Customers, c = job[t].cust
    PROVE  /\ \A e \in Customers \ {c} : hot'[e] = hot[e]
           /\ Exists(hot'[c])
           /\ Exists(hot[c]) <=> pc[t] # "write"
           /\ ProfileRev(hot'[c]) =
                 IF pc[t] = "write" THEN ProfileRev(draft[t])
                 ELSE IF pc[t] = "upsert" /\ job[t].domain = "customer" THEN job[t].rev
                 ELSE ProfileRev(hot[c])
<1>1. DOMAIN hot = Customers /\ pc[t] \in {"upsert", "write", "enrich_write"}
  BY DEF SerialInv, DeliveryInv, IInv, TypeOK, CacheOK, TaskWrites
<1>2. (\A e \in Customers \ {c} : hot'[e] = hot[e]) /\ Exists(hot'[c])
  BY <1>1, WriteDelivers DEF SerialInv, TaskWrites, WriteRecord
<1>3. CASE pc[t] = "write"
  <2>1. hot'[c] = Stored(hot[c], draft[t], FALSE)
    BY <1>1, <1>3 DEF TaskWrites, WriteRecord
  <2>2. "profile" \in DOMAIN draft[t]
    BY <1>3 DEF SerialInv, DeliveryInv, Delivers, Whole, FieldGroups, FieldGroup, RequiredDomains
  <2>3. Stored(hot[c], draft[t], FALSE)["profile"] = draft[t]["profile"]
    BY <2>2 DEF Stored, Update, NoRecord
  <2> QED
    BY <1>2, <1>3, <2>1, <2>3 DEF ProfileRev, SerialInv, ProfileInv, Carries
<1>4. CASE pc[t] # "write"
  <2>1. hot'[c] = Stored(hot[c], draft[t], TRUE)
    BY <1>1, <1>4 DEF TaskWrites, WriteRecord
  <2>2. Exists(hot[c]) /\ "profile" \in DOMAIN hot[c]
    BY <1>1, <1>4 DEF SerialInv, DeliveryInv, Delivers, RecordsWhole, Whole, FieldGroups,
       FieldGroup, RequiredDomains
  <2>3. hot'[c]["profile"] =
           IF "profile" \in DOMAIN draft[t] THEN draft[t]["profile"] ELSE hot[c]["profile"]
    <3>1. Stored(hot[c], draft[t], TRUE)["profile"] =
             IF "profile" \in DOMAIN draft[t] THEN draft[t]["profile"] ELSE hot[c]["profile"]
      BY <2>2, UpsertKeys
    <3> QED
      BY <2>1, <3>1
  <2>4. job[t].domain \in RequiredDomains \/ pc[t] # "upsert"
    BY Customer DEF SerialInv, DeliveryInv, CustomerTask
  <2>5. CASE pc[t] = "upsert"
    BY <1>2, <2>2, <2>3, <2>4, <2>5 DEF ProfileRev, SerialInv, ProfileInv, Carries, RequiredDomains
  <2>6. CASE pc[t] # "upsert"
    <3>1. "profile" \notin DOMAIN draft[t]
      BY <1>1, <1>4, <2>6 DEF SerialInv, DeliveryInv, Delivers
    <3> QED
      BY <1>2, <1>4, <2>2, <2>3, <2>6, <3>1 DEF ProfileRev
  <2> QED
    BY <2>5, <2>6
<1> QED
  BY <1>3, <1>4

LEMMA WriteKeeps ==
    ASSUME SerialInv, NEW t \in Tasks, TaskWrites(t), UNCHANGED <<pending, sor>>,
           \A u \in Tasks \ {t} : Still(u) /\ SameJob(u),
           \/ pc'[t] \in {"idle", "fanout"}
           \/ pc'[t] = "enrich_read" /\ pc[t] # "enrich_write" /\ SameJob(t)
    PROVE  ProfileInv'
<1> DEFINE e == job[t].cust
<1>0. /\ e \in Customers
      /\ \A c \in Customers : Committed(c) \in Nat /\ Committed(c)' = Committed(c)
  BY Customer DEF SerialInv, DeliveryInv, IInv, TypeOK, SorOK, Committed, RequiredDomains, TaskWrites,
     Promises
<1>1. Carries(t)'
  <2>1. CASE pc'[t] = "enrich_read" /\ pc[t] # "enrich_write" /\ SameJob(t)
    <3>1. job[t].domain = "customer" => ProfileRev(hot'[e]) = job[t].rev
      BY <1>0, <2>1, ProfileWritten DEF SerialInv, ProfileInv, Carries, TaskWrites
    <3> QED
      BY <2>1, <3>1 DEF Carries, SameJob, ProfileRev
  <2>2. CASE pc'[t] \in {"idle", "fanout"}
    BY <2>2 DEF Carries
  <2> QED
    BY <2>1, <2>2
<1>2. ASSUME NEW u \in Tasks \ {t} PROVE Carries(u)'
  <2>1. Carries(u) /\ Still(u) /\ SameJob(u)
    BY DEF SerialInv, ProfileInv
  <2>2. CASE pc[u] \notin Promises
    BY <2>1, <2>2 DEF Carries, Still, Promises
  <2>3. CASE pc[u] \in Promises /\ job[u].cust # e
    <3>1. job[u].cust \in Customers
      BY <2>3, Customer DEF SerialInv, DeliveryInv
    <3>2. /\ hot'[job[u].cust] = hot[job[u].cust]
          /\ Committed(job[u].cust)' = Committed(job[u].cust)
      BY <1>0, <2>1, <2>3, <3>1, ProfileWritten DEF SameJob, Committed
    <3> QED
      BY <2>1, <3>1, <3>2 DEF Carries, Still, SameJob, ProfileRev
  <2>4. CASE pc[u] \in Promises /\ job[u].cust = e
    <3>1. pc[u] # "write"
      <4>1. ~(pc[u] = "write" /\ pc[t] = "write")
        BY <1>0, <2>4 DEF SerialInv, ProfileInv, WrittenOnce, Writing
      <4> QED
        BY <1>0, <2>1, <2>4, <4>1, ProfileWritten DEF Carries
    <3>2. ASSUME pc[u] \in {"enrich_read", "enrich_fetch", "enrich_write"}, job[u].domain = "customer"
          PROVE  ProfileRev(hot'[e]) = job[u].rev
      <4>1. CustomerTask(u) /\ Exists(hot[e])
        BY <2>4, <3>2 DEF CustomerTask, RequiredDomains, SerialInv, DeliveryInv, Delivers
      <4>2. ~(CustomerTask(t) /\ job[t].domain = "customer")
        BY <2>4, <3>2, <4>1 DEF SerialInv, Senders, OneSender
      <4>3. ProfileRev(hot'[e]) = ProfileRev(hot[e])
        BY <1>0, <4>1, <4>2, Customer, ProfileWritten DEF SerialInv, DeliveryInv
      <4> QED
        BY <2>1, <2>4, <3>2, <4>3 DEF Carries
    <3> QED
      BY <2>1, <2>4, <3>1, <3>2 DEF Carries, Still, SameJob, ProfileRev
  <2> QED
    BY <2>2, <2>3, <2>4
<1>3. ASSUME NEW c \in Customers PROVE WrittenOnce(c)'
  <2>1. \A u \in Tasks : Writing(u, c)' => Writing(u, c)
    BY DEF Writing, Still, SameJob
  <2>2. \A d : \A u \in Tasks : Joining(u, c, d)' => Joining(u, c, d) /\ u # t
    BY DEF Joining, Still, SameJob
  <2>3. CASE Exists(hot[c]) \/ c # e
    BY <1>0, <2>1, <2>2, <2>3, ProfileWritten DEF SerialInv, ProfileInv, WrittenOnce
  <2>4. CASE ~Exists(hot[c]) /\ c = e
    <3>1. pc[t] = "write" /\ job[t].domain \notin DOMAIN pending[c].revs
      BY <2>4, ProfileWritten DEF SerialInv, ProfileInv, Carries
    <3>2. CustomerTask(t)
      BY <3>1, Customer DEF SerialInv, DeliveryInv
    <3>3. PICK d \in RequiredDomains : d = job[t].domain
      BY <3>2 DEF CustomerTask
    <3>4. \A u \in Tasks : Joining(u, c, d) => u = t
      BY <2>4, <3>2, <3>3, Customer DEF Joining, SerialInv, DeliveryInv, Senders, OneSender
    <3> QED
      BY <2>1, <2>2, <3>1, <3>3, <3>4 DEF SerialInv, ProfileInv, WrittenOnce
  <2> QED
    BY <2>3, <2>4
<1>4. ASSUME NEW c \in Customers PROVE ProfileBounded(c)'
  <2>1. CASE c # e
    BY <1>0, <2>1, ProfileWritten DEF SerialInv, ProfileInv, ProfileBounded
  <2>2. CASE c = e
    <3>1. ProfileRev(hot'[c]) \in 1 .. Committed(c)
      <4>1. CASE pc[t] = "write"
        BY <1>0, <2>2, <4>1, ProfileWritten DEF SerialInv, ProfileInv, Carries
      <4>2. CASE pc[t] = "upsert" /\ job[t].domain = "customer"
        <5>1. job[t].rev = Committed(c) /\ Committed(c) >= 1
          BY <1>0, <2>2, <4>2, Customer DEF SerialInv, DeliveryInv, Senders, LatestSent, ProfileInv,
             ProfileBounded, Committed
        <5> QED
          BY <1>0, <2>2, <4>2, <5>1, ProfileWritten
      <4>3. CASE pc[t] # "write" /\ ~(pc[t] = "upsert" /\ job[t].domain = "customer")
        BY <1>0, <2>2, <4>3, ProfileWritten DEF SerialInv, ProfileInv, ProfileBounded
      <4> QED
        BY <4>1, <4>2, <4>3
    <3> QED
      BY <1>0, <2>2, <3>1 DEF SerialInv, ProfileInv, ProfileBounded
  <2> QED
    BY <2>1, <2>2
<1> QED
  BY <1>1, <1>2, <1>3, <1>4 DEF ProfileInv

(***************************************************************************)
(* Joins.  A task that waits for the pending store brings a domain that is  *)
(* on its way once only, so it never completes a second record.             *)
(***************************************************************************)
LEMMA JoinFacts ==
    ASSUME SerialInv, NEW t \in Tasks, pc[t] = "join",
           NEW e \in Customers, e = job[t].cust
    PROVE  /\ job[t].domain \in RequiredDomains /\ CustomerTask(t)
           /\ DOMAIN Received(t) = DOMAIN pending[e].revs \cup {job[t].domain}
           /\ Received(t)[job[t].domain] = job[t].rev
           /\ "customer" \in DOMAIN Received(t) => Received(t)["customer"] \in 1 .. Committed(e)
           /\ \A u \in Tasks : Writing(u, e) => job[u].domain # job[t].domain /\ CustomerTask(u)
<1>1. CustomerTask(t) /\ job[t].domain \in RequiredDomains
  BY Customer DEF SerialInv, DeliveryInv, CustomerTask
<1>2. /\ DOMAIN Received(t) = DOMAIN pending[e].revs \cup {job[t].domain}
      /\ Received(t)[job[t].domain] = job[t].rev
      /\ \A d \in DOMAIN pending[e].revs : d # job[t].domain => Received(t)[d] = pending[e].revs[d]
  BY DEF Received, Update
<1>3. Committed(e) \in Nat /\ Committed(e) >= 1
  BY DEF SerialInv, DeliveryInv, IInv, TypeOK, SorOK, ProfileInv, ProfileBounded, Committed,
     RequiredDomains
<1>4. "customer" \in DOMAIN Received(t) => Received(t)["customer"] \in 1 .. Committed(e)
  <2>1. CASE job[t].domain = "customer"
    BY <1>1, <1>2, <1>3, <2>1 DEF SerialInv, Senders, LatestSent, Committed
  <2>2. CASE job[t].domain # "customer"
    BY <1>2, <2>2 DEF SerialInv, ProfileInv, ProfileBounded
  <2> QED
    BY <2>1, <2>2
<1>5. \A u \in Tasks : Writing(u, e) => job[u].domain # job[t].domain /\ CustomerTask(u)
  BY <1>1, Customer DEF SerialInv, DeliveryInv, Senders, OneSender, Writing
<1> QED
  BY <1>1, <1>2, <1>4, <1>5

\* A writer elsewhere does not notice what becomes of this join.
LEMMA OthersCarry ==
    ASSUME SerialInv, NEW t \in Tasks, pc[t] = "join", UNCHANGED <<hot, sor>>,
           NEW e \in Customers, e = job[t].cust,
           NEW u \in Tasks \ {t}, Still(u), SameJob(u),
           DOMAIN pending'[e].revs \subseteq DOMAIN Received(t),
           \A c \in Customers \ {e} : pending'[c] = pending[c]
    PROVE  Carries(u)'
<1>1. Carries(u)
  BY DEF SerialInv, ProfileInv
<1>2. CASE pc[u] = "write"
  <2>1. job[u].cust \in Customers /\ (job[u].cust = e => Writing(u, e))
    BY <1>2, Customer DEF SerialInv, DeliveryInv, Promises, Writing
  <2>2. /\ DOMAIN Received(t) = DOMAIN pending[e].revs \cup {job[t].domain}
        /\ Writing(u, e) => job[u].domain # job[t].domain
    BY JoinFacts
  <2>3. job[u].domain \notin DOMAIN pending[job[u].cust].revs
    BY <1>1, <1>2 DEF Carries
  <2>4. job[u].domain \notin DOMAIN pending'[job[u].cust].revs
    <3>1. CASE job[u].cust = e
      BY <2>1, <2>2, <2>3, <3>1
    <3>2. CASE job[u].cust # e
      BY <2>1, <2>3, <3>2
    <3> QED
      BY <3>1, <3>2
  <2> QED
    BY <1>1, <1>2, <2>4 DEF Carries, Still, SameJob, ProfileRev, Committed
<1>3. CASE pc[u] # "write"
  BY <1>1, <1>3 DEF Carries, Still, SameJob, ProfileRev, Committed
<1> QED
  BY <1>2, <1>3

LEMMA JoinKeeps ==
    ASSUME SerialInv, NEW t \in Tasks, OpenPending(t) \/ JoinPending(t),
           \A u \in Tasks \ {t} : Still(u) /\ SameJob(u), UNCHANGED sor
    PROVE  ProfileInv'
<1>1. pc[t] = "join" /\ pc'[t] = "idle" /\ UNCHANGED hot
  BY DEF OpenPending, JoinPending, Answer, Release, Goto, cacheVars, SerialInv, DeliveryInv, IInv,
     TypeOK, TasksOK
<1>2. PICK e \in Customers : e = job[t].cust
  BY <1>1 DEF SerialInv, DeliveryInv, IInv, JobsFit, JobFits
<1>3. pending'[e].revs = Received(t) /\ \A c \in Customers \ {e} : pending'[c] = pending[c]
  <2>1. DOMAIN pending = Customers /\ IsJoin(pending[e])
    BY DEF SerialInv, DeliveryInv, IInv, TypeOK, JoinsOK
  <2>2. CASE OpenPending(t)
    BY <1>2, <2>1, <2>2 DEF OpenPending
  <2>3. CASE JoinPending(t)
    BY <1>2, <2>1, <2>3 DEF JoinPending, IsJoin
  <2> QED
    BY <2>2, <2>3
<1>4. \A u \in Tasks : Carries(u)'
  <2>1. Carries(t)'
    BY <1>1 DEF Carries
  <2> QED
    BY <1>1, <1>2, <1>3, <2>1, OthersCarry
<1>5. ASSUME NEW c \in Customers PROVE WrittenOnce(c)'
  <2>1. \A u \in Tasks : Writing(u, c)' => Writing(u, c)
    BY <1>1 DEF Writing, Still
  <2>2. \A d : \A u \in Tasks : Joining(u, c, d)' => Joining(u, c, d)
    BY <1>1 DEF Joining, Still, SameJob
  <2>3. CASE c # e
    BY <1>1, <1>3, <2>1, <2>2, <2>3 DEF SerialInv, ProfileInv, WrittenOnce
  <2>4. CASE c = e
    <3>1. DOMAIN Received(t) = DOMAIN pending[e].revs \cup {job[t].domain}
      BY <1>1, <1>2, JoinFacts
    <3>2. \A d \in RequiredDomains :
             d \notin DOMAIN pending[e].revs /\ ~Joining(t, e, d) => d \notin DOMAIN pending'[e].revs
      BY <1>1, <1>2, <1>3, <3>1 DEF Joining
    <3> QED
      BY <1>1, <2>1, <2>2, <2>4, <3>2 DEF SerialInv, ProfileInv, WrittenOnce
  <2> QED
    BY <2>3, <2>4
<1>6. ASSUME NEW c \in Customers PROVE ProfileBounded(c)'
  <2>1. ProfileBounded(c) /\ Committed(c)' = Committed(c)
    BY DEF SerialInv, ProfileInv, Committed
  <2>2. "customer" \in DOMAIN pending'[c].revs => pending'[c].revs["customer"] \in 1 .. Committed(c)
    BY <1>1, <1>2, <1>3, <2>1, JoinFacts DEF ProfileBounded
  <2> QED
    BY <1>1, <2>1, <2>2 DEF ProfileBounded
<1> QED
  BY <1>4, <1>5, <1>6 DEF ProfileInv

LEMMA CompleteKeeps ==
    ASSUME SerialInv, NEW t \in Tasks, CompletePending(t),
           \A u \in Tasks \ {t} : Still(u) /\ SameJob(u)
    PROVE  ProfileInv'
<1>1. /\ pc[t] = "join" /\ pc'[t] = "write" /\ UNCHANGED <<hot, job, sor>>
      /\ RequiredDomains \subseteq DOMAIN Received(t)
      /\ draft'[t] = Update(MergeDomains(Received(t)),
                            [assembly_state |-> "complete", missing_domains |-> {}])
  BY DEF CompletePending, Goto, cacheVars, sorVars, SerialInv, DeliveryInv, IInv, TypeOK, TasksOK
<1>2. PICK e \in Customers : e = job[t].cust
  BY <1>1 DEF SerialInv, DeliveryInv, IInv, JobsFit, JobFits
<1>3. pending'[e] = NoJoin /\ \A c \in Customers \ {e} : pending'[c] = pending[c]
  BY <1>2 DEF CompletePending, SerialInv, DeliveryInv, IInv, TypeOK, JoinsOK
<1>4. DOMAIN pending'[e].revs = {}
  BY <1>3 DEF NoJoin, NoRecord
<1> DEFINE Facts ==
      /\ DOMAIN Received(t) = DOMAIN pending[e].revs \cup {job[t].domain}
      /\ Received(t)[job[t].domain] = job[t].rev
      /\ "customer" \in DOMAIN Received(t) => Received(t)["customer"] \in 1 .. Committed(e)
      /\ \A u \in Tasks : Writing(u, e) => job[u].domain # job[t].domain /\ CustomerTask(u)
<1>f. Facts
  BY <1>1, <1>2, JoinFacts
<1>5. ~Exists(hot[e])
  <2>1. \A d \in RequiredDomains : d \in DOMAIN pending[e].revs \/ Joining(t, e, d)
    BY <1>1, <1>2, <1>f DEF Joining
  <2> QED
    BY <2>1 DEF SerialInv, ProfileInv, WrittenOnce
<1>6. \A u \in Tasks : ~Writing(u, e)
  <2>1. ASSUME NEW u \in Tasks, Writing(u, e) PROVE FALSE
    <3>1. job[u].domain \in RequiredDomains /\ job[u].domain # job[t].domain
      BY <1>f, <2>1 DEF CustomerTask
    <3>2. job[u].domain \in DOMAIN pending[e].revs
      BY <1>1, <1>f, <3>1
    <3> QED
      BY <2>1, <3>2 DEF Writing, SerialInv, ProfileInv, Carries
  <2> QED
    BY <2>1
<1>7. /\ ProfileRev(draft'[t]) = Received(t)["customer"]
      /\ ProfileRev(draft'[t]) \in 1 .. Committed(e)
  <2>1. DOMAIN Received(t) = RequiredDomains
    BY <1>1, ReceivedOK DEF SerialInv, DeliveryInv
  <2>2. draft'[t]["profile"] = Content("customer", Received(t)["customer"])
    BY <1>1, <2>1, JoinedBodyKeys DEF FieldGroup, RequiredDomains
  <2> QED
    BY <1>f, <2>1, <2>2 DEF ProfileRev, Content, RequiredDomains
<1>8. \A u \in Tasks : Carries(u)'
  <2>1. Carries(t)'
    <3>1. job[t].domain = "customer" => ProfileRev(draft'[t]) = job[t].rev
      BY <1>f, <1>7
    <3> QED
      BY <1>1, <1>2, <1>4, <1>5, <1>7, <3>1 DEF Carries, ProfileRev, Committed
  <2> QED
    BY <1>1, <1>2, <1>3, <1>4, <2>1, OthersCarry
<1>9. ASSUME NEW c \in Customers PROVE WrittenOnce(c)' /\ ProfileBounded(c)'
  <2>1. \A u \in Tasks : Writing(u, c)' => Writing(u, c) \/ (u = t /\ c = e)
    BY <1>1, <1>2 DEF Writing, Still
  <2>2. \A d : \A u \in Tasks : Joining(u, c, d)' => Joining(u, c, d)
    BY <1>1 DEF Joining, Still, SameJob
  <2>3. DOMAIN pending'[c].revs = {} \/ pending'[c] = pending[c]
    BY <1>3, <1>4
  <2>4. WrittenOnce(c)'
    BY <1>1, <1>5, <1>6, <2>1, <2>2, <2>3, <1>3 DEF SerialInv, ProfileInv, WrittenOnce
  <2>5. ProfileBounded(c)'
    BY <1>1, <2>3 DEF SerialInv, ProfileInv, ProfileBounded, Committed
  <2> QED
    BY <2>4, <2>5
<1> QED
  BY <1>8, <1>9 DEF ProfileInv

-----------------------------------------------------------------------------
(***************************************************************************)
(* Every step keeps the invariant.                                          *)
(***************************************************************************)
LEMMA SorStays ==
    ASSUME SerialInv, UNCHANGED sor
    PROVE  CommitsGrow
BY DEF CommitsGrow, Committed, SerialInv, DeliveryInv, IInv, TypeOK, SorOK, RequiredDomains

LEMMA AtRest ==
    ASSUME SerialInv, UNCHANGED <<hot, pending, sor, pc, draft>>, \A t \in Tasks : SameJob(t)
    PROVE  ProfileInv'
<1>1. \A t \in Tasks : Carries(t)'
  BY DEF SerialInv, ProfileInv, Carries, SameJob, Committed, ProfileRev
<1>2. \A c \in Customers : WrittenOnce(c)'
  BY DEF SerialInv, ProfileInv, WrittenOnce, Writing, Joining, SameJob
<1>3. \A c \in Customers : ProfileBounded(c)'
  BY DEF SerialInv, ProfileInv, ProfileBounded, Committed, ProfileRev
<1> QED
  BY <1>1, <1>2, <1>3 DEF ProfileInv

LEMMA SubmitKeeps ==
    ASSUME SerialInv, NEW t \in Tasks, NEW j, Submit(t, j), CommitsGrow
    PROVE  ProfileInv'
<1>1. /\ UNCHANGED <<hot, pending>> /\ pc'[t] = "post"
      /\ \A u \in Tasks \ {t} : Still(u) /\ SameJob(u)
  BY DEF Submit, Goto, Still, SameJob, cacheVars, joinVars, SerialInv, DeliveryInv, IInv, TypeOK,
     TasksOK
<1>2. Carries(t)'
  BY <1>1 DEF Carries
<1> QED
  BY <1>1, <1>2, CalmKeeps

LEMMA EndKeeps ==
    ASSUME SerialInv, NEW t \in Tasks, EndEnrichment(t) \/ \E ok \in BOOLEAN : Answer(t, ok),
           UNCHANGED pending, UNCHANGED hot \/ TaskWrites(t)
    PROVE  ProfileInv'
<1>1. UNCHANGED sor
  <2>1. CASE EndEnrichment(t)
    BY <2>1, EndEnrichmentSends DEF SerialInv, DeliveryInv, NothingSent
  <2>2. CASE \E ok \in BOOLEAN : Answer(t, ok)
    BY <2>2, AnswerSends DEF SerialInv, DeliveryInv, NothingSent
  <2> QED
    BY <2>1, <2>2
<1>2. pc'[t] \in {"idle", "fanout"}
  BY DEF EndEnrichment, Answer, Release, Goto, SerialInv, DeliveryInv, IInv, TypeOK, TasksOK
<1>3. \A u \in Tasks \ {t} : Still(u) /\ SameJob(u)
  BY DEF EndEnrichment, Answer, Release, Goto, Still, SameJob, SerialInv, DeliveryInv, IInv, TypeOK,
     TasksOK
<1>4. CASE UNCHANGED hot
  <2>1. Carries(t)'
    BY <1>2 DEF Carries
  <2> QED
    BY <1>1, <1>2, <1>3, <1>4, <2>1, SorStays, CalmKeeps
<1>5. CASE TaskWrites(t)
  <2>1. UNCHANGED <<pending, sor>>
    BY <1>1
  <2> QED
    BY <1>2, <1>3, <1>5, <2>1, WriteKeeps
<1> QED
  BY <1>4, <1>5

LEMMA LookupKeeps ==
    ASSUME SerialInv, NEW t \in Tasks, LookupHit(t) \/ LookupMiss(t)
    PROVE  ProfileInv'
<1>1. /\ UNCHANGED <<hot, pending, sor, job>>
      /\ \A u \in Tasks \ {t} : Still(u) /\ SameJob(u)
  BY DEF LookupHit, LookupMiss, Goto, Still, SameJob, cacheVars, sorVars, joinVars, SerialInv,
     DeliveryInv, IInv, TypeOK, TasksOK
<1>2. CASE LookupMiss(t)
  <2>1. pc'[t] = "join" /\ ~Exists(hot[job[t].cust])
    BY <1>2 DEF LookupMiss, Goto, SerialInv, DeliveryInv, IInv, TypeOK, TasksOK
  <2>2. Carries(t)'
    BY <2>1 DEF Carries
  <2> QED
    BY <1>1, <2>1, <2>2, SorStays, CalmKeeps
<1>3. CASE LookupHit(t)
  <2> DEFINE d == job[t].domain
             b == UpsertBody(hot[job[t].cust], d, job[t].rev)
  <2>1. pc'[t] = "upsert" /\ draft'[t] = b /\ d \in RequiredDomains
    BY <1>3 DEF LookupHit, Goto, SerialInv, DeliveryInv, IInv, TypeOK, TasksOK, JobsFit, JobFits
  <2>2. /\ DOMAIN b = {FieldGroup(d), "provenance", "assembly_state"}
        /\ b[FieldGroup(d)] = Content(d, job[t].rev)
    <3>1. \A x \in RequiredDomains : \A r, rev :
             /\ DOMAIN UpsertBody(r, x, rev) = {FieldGroup(x), "provenance", "assembly_state"}
             /\ UpsertBody(r, x, rev)[FieldGroup(x)] = Content(x, rev)
      BY UpsertBodyKeys
    <3> QED
      BY <2>1, <3>1
  <2> HIDE DEF b
  <2>3. /\ d = "customer" => "profile" \in DOMAIN b /\ ProfileRev(b) = job[t].rev
        /\ d = "billing" => "profile" \notin DOMAIN b
    BY <2>2 DEF FieldGroup, Content, ProfileRev
  <2>4. Carries(t)'
    BY <1>1, <2>1, <2>3 DEF Carries, ProfileRev
  <2> QED
    BY <1>1, <2>1, <2>4, SorStays, CalmKeeps
<1> QED
  BY <1>2, <1>3

LEMMA EnrichKeeps ==
    ASSUME SerialInv, NEW t \in Tasks, EnrichRead(t) \/ EnrichFetch(t) \/ CatalogueDown(t)
    PROVE  ProfileInv'
<1>1. /\ UNCHANGED <<hot, pending, sor, job>>
      /\ pc[t] \in {"enrich_read", "enrich_fetch"} /\ pc'[t] \in {"enrich_fetch", "enrich_write"}
      /\ \A u \in Tasks \ {t} : Still(u) /\ SameJob(u)
  BY DEF EnrichRead, EnrichFetch, CatalogueDown, Goto, Still, SameJob, cacheVars, sorVars, joinVars,
     SerialInv, DeliveryInv, IInv, TypeOK, TasksOK
<1>2. Carries(t)'
  BY <1>1 DEF SerialInv, ProfileInv, Carries, ProfileRev
<1> QED
  BY <1>1, <1>2, SorStays, CalmKeeps

LEMMA FanOutKeeps ==
    ASSUME SerialInv, NEW t \in Tasks,
           ScanRecords(t) \/ FanOutDone(t) \/ \E c \in Customers : FanOutNext(t, c)
    PROVE  ProfileInv'
<1>1. /\ UNCHANGED <<hot, pending, sor>>
      /\ \A u \in Tasks \ {t} : Still(u) /\ SameJob(u)
      /\ \/ pc'[t] \in {"fanout", "idle"}
         \/ pc'[t] = "enrich_read" /\ job'[t].domain = job[t].domain /\ pc[t] = "fanout"
  <2>0. TypeOK
    BY DEF SerialInv, DeliveryInv, IInv
  <2> USE DEF Release, Goto, Still, SameJob, cacheVars, sorVars, joinVars, TypeOK, TasksOK
  <2>1. CASE ScanRecords(t)
    BY <2>0, <2>1 DEF ScanRecords
  <2>2. CASE FanOutDone(t)
    <3>1. UNCHANGED <<hot, pending, sor>> /\ pc'[t] = "idle"
      BY <2>0, <2>2 DEF FanOutDone
    <3>2. \A u \in Tasks \ {t} : Still(u) /\ SameJob(u)
      BY <2>0, <2>2 DEF FanOutDone
    <3> QED
      BY <3>1, <3>2
  <2>3. ASSUME NEW c \in Customers, FanOutNext(t, c)
        PROVE  /\ UNCHANGED <<hot, pending, sor>>
               /\ \A u \in Tasks \ {t} : Still(u) /\ SameJob(u)
               /\ pc'[t] = "enrich_read" /\ job'[t].domain = job[t].domain /\ pc[t] = "fanout"
    BY <2>0, <2>3 DEF FanOutNext, Jobs
  <2> QED
    BY <2>1, <2>2, <2>3
<1>2. Carries(t)'
  BY <1>1 DEF SerialInv, Senders, FansOut, Carries
<1> QED
  BY <1>1, <1>2, SorStays, CalmKeeps

LEMMA WrittenKeeps ==
    ASSUME SerialInv, NEW t \in Tasks, UpsertComplete(t) \/ WriteJoined(t)
    PROVE  ProfileInv'
<1>1. TaskWrites(t)
  BY DEF UpsertComplete, WriteJoined, TaskWrites
<1>2. /\ UNCHANGED <<pending, sor>> /\ pc'[t] = "enrich_read" /\ pc[t] # "enrich_write" /\ SameJob(t)
      /\ \A u \in Tasks \ {t} : Still(u) /\ SameJob(u)
  BY DEF UpsertComplete, WriteJoined, Goto, Still, SameJob, sorVars, joinVars, SerialInv,
     DeliveryInv, IInv, TypeOK, TasksOK
<1> QED
  BY <1>1, <1>2, WriteKeeps

LEMMA PendingKeeps ==
    ASSUME SerialInv, NEW t \in Tasks, OpenPending(t) \/ JoinPending(t) \/ CompletePending(t)
    PROVE  ProfileInv'
<1>1. \A u \in Tasks \ {t} : Still(u) /\ SameJob(u)
  BY DEF OpenPending, JoinPending, CompletePending, Answer, Release, Goto, Still, SameJob,
     SerialInv, DeliveryInv, IInv, TypeOK, TasksOK
<1>2. CASE OpenPending(t) \/ JoinPending(t)
  <2>1. UNCHANGED sor
    BY <1>2, AnswerSends DEF OpenPending, JoinPending, SerialInv, DeliveryInv, NothingSent
  <2> QED
    BY <1>1, <1>2, <2>1, JoinKeeps
<1>3. CASE CompletePending(t)
  BY <1>1, <1>3, CompleteKeeps
<1> QED
  BY <1>2, <1>3

LEMMA SerialStep ==
    ASSUME Serially, SerialInv, [Next]_vars
    PROVE  SerialInv'
<1>1. DeliveryInv' /\ Senders'
  BY DeliveryStep, SendersStep DEF Serially, SerialInv
<1>2. ASSUME UNCHANGED vars
      PROVE  ProfileInv'
  <2>1. UNCHANGED <<hot, pending, sor, pc, draft, job>>
    BY <1>2 DEF vars, cacheVars, sorVars, joinVars, taskVars
  <2> QED
    BY <2>1, AtRest DEF SameJob
<1>3. ASSUME NEW t \in Tasks, Request(t)
      PROVE  ProfileInv'
  <2> USE DEF CommitsGrow, Committed, SerialInv, DeliveryInv, IInv, TypeOK, SorOK, RequiredDomains
  <2>1. ASSUME NEW c \in Customers, NEW d \in RequiredDomains, UpdateCustomer(t, c, d)
        PROVE  CommitsGrow
    <3>1. sor' = sor \/ sor' = [sor EXCEPT ![c][d] = @ + 1]
      BY <2>1 DEF UpdateCustomer, ChangeRecord, Recapture
    <3>2. DOMAIN sor = Customers /\ \A e \in Customers : DOMAIN sor[e] = RequiredDomains
      OBVIOUS
    <3>3. CASE sor' = [sor EXCEPT ![c][d] = @ + 1]
      BY <3>2, <3>3
    <3> QED
      BY <3>1, <3>3
  <2>2. UpdateProduct(t) => CommitsGrow
    BY DEF UpdateProduct, ChangePrice
  <2> HIDE DEF CommitsGrow, SerialInv
  <2> QED
    BY <1>3, <2>1, <2>2, SubmitKeeps DEF Request, UpdateCustomer, UpdateProduct
<1>4. ASSUME NEW t \in Tasks, NEW c \in Customers, NEW d \in RequiredDomains, StartupEmit(t, c, d)
      PROVE  ProfileInv'
  <2>1. UNCHANGED sor
    BY <1>4 DEF StartupEmit, sorVars
  <2> QED
    BY <1>4, <2>1, SorStays, SubmitKeeps DEF StartupEmit
<1>5. ASSUME NEW t \in Tasks, Handle(t)
      PROVE  ProfileInv'
  <2>1. CASE EnrichNothing(t) \/ EnrichWrite(t)
    BY <2>1, EndKeeps DEF EnrichNothing, EnrichWrite, TaskWrites, cacheVars, joinVars
  <2> QED
    BY <1>5, <2>1, LookupKeeps, EnrichKeeps, FanOutKeeps, WrittenKeeps, PendingKeeps, Excluded
       DEF Handle, Serially, SerialInv
<1>6. ASSUME NEW t \in Tasks, TaskFault(t)
      PROVE  ProfileInv'
  <2>1. CASE PostLost(t) \/ CallFails(t) \/ ReplyLost(t) \/ EnrichCallFails(t)
    BY <2>1, EndKeeps DEF PostLost, CallFails, ReplyLost, EnrichCallFails, TaskWrites, cacheVars,
       joinVars
  <2>2. CASE PostTimeout(t)
    <3>1. UNCHANGED <<hot, pending, sor, pc, draft>> /\ \A u \in Tasks : SameJob(u)
      BY <2>2, FaultSends DEF PostTimeout, TaskFault, SameJob, StartupAnswered, cacheVars, joinVars,
         SerialInv, DeliveryInv, IInv, TypeOK, TasksOK, Jobs
    <3> QED
      BY <3>1, AtRest
  <2> QED
    BY <1>6, <2>1, <2>2, EnrichKeeps DEF TaskFault
<1>7. ASSUME CdcRestarts
      PROVE  ProfileInv'
  <2>1. /\ UNCHANGED <<hot, sor>> /\ \A t \in Tasks : pc'[t] = "idle"
        /\ \A c \in Customers : DOMAIN pending'[c].revs = {}
    BY <1>7 DEF CdcRestarts, cacheVars, NoJoin, NoRecord
  <2> QED
    <3>1. \A t \in Tasks : Carries(t)'
      BY <2>1 DEF Carries
    <3>2. \A c \in Customers : WrittenOnce(c)'
      BY <2>1 DEF WrittenOnce, Writing, Joining, RequiredDomains
    <3>3. \A c \in Customers : ProfileBounded(c)'
      BY <2>1 DEF SerialInv, ProfileInv, ProfileBounded, Committed, ProfileRev
    <3> QED
      BY <3>1, <3>2, <3>3 DEF ProfileInv
<1> QED
  BY <1>1, <1>2, <1>3, <1>4, <1>5, <1>6, <1>7, Excluded DEF Next, Startup, Serially, SerialInv

LEMMA CommitsStep ==
    ASSUME Serially, SerialInv, [Next]_vars
    PROVE  CommitsGrow
<1>1. ASSUME NEW t \in Tasks, NEW c \in Customers, NEW d \in RequiredDomains, Sends(t, c, d)
      PROVE  CommitsGrow
  <2>1. sor \in [Customers -> [RequiredDomains -> Nat]]
    BY DEF SerialInv, DeliveryInv, IInv, TypeOK, SorOK
  <2>2. CASE sor' = sor
    BY <2>2, SorStays
  <2>3. CASE sor' = [sor EXCEPT ![c][d] = @ + 1]
    BY <2>1, <2>3 DEF CommitsGrow, Committed, RequiredDomains
  <2> QED
    BY <1>1, <2>2, <2>3 DEF Sends
<1> QED
  BY <1>1, SentStep, SorStays DEF NothingSent, Serially, SerialInv

LEMMA SerialInit == Init => SerialInv
BY DeliveryInit DEF Init, CacheInit, SorInit, NoRecord, NoJoin, Exists, SerialInv, Senders,
   LatestSent, OneSender, CustomerTask, FansOut, ProfileInv, Carries, WrittenOnce, Writing, Joining,
   ProfileBounded, Committed, RequiredDomains

-----------------------------------------------------------------------------
(***************************************************************************)
(* The refinement.  A step commits a revision of the customer domain, or a  *)
(* task writes and the cache learns one, or neither is seen from outside.   *)
(***************************************************************************)
Known(c) == IF "profile" \in DOMAIN hot[c] THEN ProfileRev(hot[c]) ELSE 0

LEMMA KnownIsWhole ==
    ASSUME DeliveryInv, NEW c \in Customers
    PROVE  Known(c) = IF Exists(hot[c]) THEN ProfileRev(hot[c]) ELSE 0
<1>1. Exists(hot[c]) => "profile" \in DOMAIN hot[c]
  BY DEF DeliveryInv, RecordsWhole, Whole, FieldGroups, FieldGroup, RequiredDomains
<1>2. "profile" \in DOMAIN hot[c] => Exists(hot[c])
  BY DEF Exists
<1> QED
  BY <1>1, <1>2 DEF Known

LEMMA CacheMoves ==
    ASSUME Undisturbed, DeliveryInv, Senders, [Next]_vars
    PROVE  UNCHANGED hot \/ \E t \in Tasks : TaskWrites(t) /\ UNCHANGED sor
<1> USE DEF cacheVars
<1>1. CASE UNCHANGED vars
  BY <1>1 DEF vars
<1>2. CASE Startup \/ \E t \in Tasks : Request(t)
  BY <1>2 DEF Startup, StartupEmit, Request, UpdateCustomer, UpdateProduct, Submit
<1>3. ASSUME NEW t \in Tasks, Handle(t)
      PROVE  UNCHANGED hot \/ (TaskWrites(t) /\ UNCHANGED sor)
  <2>1. UNCHANGED sor
    BY <1>3, HandleSends DEF DeliveryInv, NothingSent
  <2>2. UNCHANGED hot \/ TaskWrites(t)
    BY <1>3, Excluded DEF Handle, TaskWrites, LookupHit, LookupMiss, UpsertComplete, OpenPending,
       JoinPending, CompletePending, WriteJoined, EnrichRead, EnrichNothing, EnrichFetch,
       EnrichWrite, ScanRecords, FanOutDone, FanOutNext
  <2> QED
    BY <2>1, <2>2
<1>4. ASSUME NEW t \in Tasks, TaskFault(t)
      PROVE  UNCHANGED hot \/ (TaskWrites(t) /\ UNCHANGED sor)
  <2>1. UNCHANGED sor
    BY <1>4, FaultSends DEF DeliveryInv, NothingSent
  <2>2. UNCHANGED hot \/ TaskWrites(t)
    BY <1>4 DEF TaskFault, TaskWrites, PostLost, PostTimeout, CallFails, EnrichCallFails, ReplyLost,
       CatalogueDown
  <2> QED
    BY <2>1, <2>2
<1>5. CASE CdcRestarts
  BY <1>5 DEF CdcRestarts
<1> QED
  BY <1>1, <1>2, <1>3, <1>4, <1>5, Excluded DEF Next

\* What a write teaches the cache.
LEMMA Learns ==
    ASSUME SerialInv, NEW t \in Tasks, TaskWrites(t), NEW e \in Customers, e = job[t].cust
    PROVE  /\ Known(e)' = Known(e) \/ Known(e)' \in Known(e) + 1 .. Committed(e)
           /\ \A c \in Customers \ {e} : Known(c)' = Known(c)
<1>1. \A c \in Customers \ {e} : Known(c)' = Known(c)
  BY ProfileWritten DEF Known
<1>2. "profile" \in DOMAIN hot'[e]
  BY WriteDelivers DEF SerialInv, RecordsWhole, Whole, FieldGroups, FieldGroup, RequiredDomains
<1>3. Known(e)' = ProfileRev(hot'[e])
  BY <1>2 DEF Known, ProfileRev
<1>4. Committed(e) \in Nat /\ Committed(e) >= 1
  BY DEF SerialInv, DeliveryInv, IInv, TypeOK, SorOK, ProfileInv, ProfileBounded, Committed,
     RequiredDomains
<1>5. CASE pc[t] = "write"
  BY <1>1, <1>3, <1>4, <1>5, ProfileWritten, KnownIsWhole DEF SerialInv, ProfileInv, Carries
<1>6. CASE pc[t] # "write"
  <2>1. Exists(hot[e]) /\ ProfileRev(hot[e]) \in 1 .. Committed(e) /\ Known(e) = ProfileRev(hot[e])
    BY <1>6, ProfileWritten, KnownIsWhole DEF SerialInv, ProfileInv, ProfileBounded
  <2>2. CASE pc[t] = "upsert" /\ job[t].domain = "customer"
    <3>1. job[t].rev = Committed(e)
      BY <2>2, Customer DEF SerialInv, DeliveryInv, Senders, LatestSent, Committed
    <3> QED
      BY <1>1, <1>3, <1>4, <2>1, <2>2, <3>1, ProfileWritten
  <2>3. CASE ~(pc[t] = "upsert" /\ job[t].domain = "customer")
    BY <1>1, <1>3, <1>6, <2>1, <2>3, ProfileWritten
  <2> QED
    BY <2>2, <2>3
<1> QED
  BY <1>5, <1>6

(***************************************************************************)
(* For serial clients the cached profile is the last-known state of the     *)
(* customer domain: it moves forward only, to revisions the CRM committed,  *)
(* through joins, upserts, enrichments, failed calls and restarts of the    *)
(* service alike (process_event; cache_app.py, write_record).               *)
(***************************************************************************)
THEOREM ProfileFollowsCrm == ASSUME Serially PROVE Spec => ProfileImplementsLastKnown
<1>1. Init => Profile!Init
  BY DEF Init, SorInit, CacheInit, NoRecord, RequiredDomains, Profile!Init
<1>2. ASSUME SerialInv, [Next]_vars
      PROVE  [Profile!Next]_<<[c \in Customers |-> sor[c]["customer"]],
                              [c \in Customers |-> IF "profile" \in DOMAIN hot[c]
                                                   THEN hot[c]["profile"].rev ELSE 0]>>
  <2> DEFINE committed == [c \in Customers |-> sor[c]["customer"]]
             known     == [c \in Customers |-> IF "profile" \in DOMAIN hot[c]
                                               THEN hot[c]["profile"].rev ELSE 0]
  <2>1. /\ \A c \in Customers : known[c] = Known(c) /\ committed[c] = Committed(c)
        /\ \A c \in Customers : known'[c] = Known(c)' /\ committed'[c] = Committed(c)'
    BY DEF Known, Committed, ProfileRev
  <2>2. known = [c \in Customers |-> known[c]] /\ committed = [c \in Customers |-> committed[c]]
    OBVIOUS
  <2>3. known' = [c \in Customers |-> known'[c]] /\ committed' = [c \in Customers |-> committed'[c]]
    OBVIOUS
  <2>4. CASE NothingSent /\ UNCHANGED hot
    <3>1. UNCHANGED <<committed, known>>
      BY <2>4 DEF NothingSent
    <3> QED
      BY <3>1
  <2>5. ASSUME NEW t \in Tasks, TaskWrites(t), UNCHANGED sor
        PROVE  UNCHANGED <<committed, known>> \/ \E c \in Customers : Profile!Learn(c)
    <3>1. PICK e \in Customers : e = job[t].cust
      BY <1>2, <2>5, WriteDelivers DEF SerialInv
    <3>2. /\ Known(e)' = Known(e) \/ Known(e)' \in Known(e) + 1 .. Committed(e)
          /\ \A c \in Customers \ {e} : Known(c)' = Known(c)
      BY <1>2, <2>5, <3>1, Learns
    <3>3. UNCHANGED committed
      BY <2>5
    <3> HIDE DEF known, committed
    <3>4. CASE Known(e)' = Known(e)
      BY <2>1, <2>2, <2>3, <3>2, <3>3, <3>4
    <3>5. CASE Known(e)' \in Known(e) + 1 .. Committed(e)
      <4>1. known' = [known EXCEPT ![e] = Known(e)']
        BY <2>1, <2>2, <2>3, <3>2
      <4>2. Known(e)' \in known[e] + 1 .. committed[e]
        BY <2>1, <3>5
      <4> QED
        BY <3>3, <4>1, <4>2 DEF Profile!Learn, known, committed
    <3> QED
      BY <3>2, <3>4, <3>5
  <2>6. ASSUME NEW t \in Tasks, NEW c \in Customers, NEW d \in RequiredDomains, Sends(t, c, d)
        PROVE  UNCHANGED <<committed, known>> \/ Profile!Commit(c)
    <3>1. UNCHANGED known
      BY <2>6 DEF Sends, Submit, cacheVars
    <3>2. DOMAIN sor = Customers /\ \A e \in Customers : DOMAIN sor[e] = RequiredDomains
      BY <1>2 DEF SerialInv, DeliveryInv, IInv, TypeOK, SorOK
    <3>3. CASE sor' = sor
      BY <3>1, <3>3
    <3>4. CASE sor' = [sor EXCEPT ![c][d] = @ + 1] /\ d = "customer"
      <4>1. committed' = [committed EXCEPT ![c] = @ + 1]
        BY <3>2, <3>4
      <4> QED
        BY <3>1, <4>1 DEF Profile!Commit
    <3>5. CASE sor' = [sor EXCEPT ![c][d] = @ + 1] /\ d # "customer"
      <4>1. UNCHANGED committed
        BY <3>2, <3>5 DEF RequiredDomains
      <4> QED
        BY <3>1, <4>1
    <3> QED
      BY <2>6, <3>3, <3>4, <3>5 DEF Sends
  <2>7. \/ NothingSent /\ UNCHANGED hot
        \/ \E t \in Tasks : TaskWrites(t) /\ UNCHANGED sor
        \/ \E t \in Tasks, c \in Customers, d \in RequiredDomains : Sends(t, c, d)
    BY <1>2, SentStep, CacheMoves DEF Serially, SerialInv
  <2> QED
    BY <2>4, <2>5, <2>6, <2>7 DEF Profile!Next
<1> QED
  BY SerialInit, SerialStep, <1>1, <1>2, PTL DEF Spec, ProfileImplementsLastKnown, Profile!Spec
-----------------------------------------------------------------------------
(***************************************************************************)
(* Acknowledged profiles.  A revision that is cached, pending or in a join  *)
(* that is being written is only ever passed on, or replaced by a later     *)
(* one: what a task brings is the latest there is.                          *)
(***************************************************************************)
Keeps(c, n) == \/ Known(c) >= n
               \/ "customer" \in DOMAIN pending[c].revs /\ pending[c].revs["customer"] >= n
               \/ \E t \in Tasks : Writing(t, c) /\ ProfileRev(draft[t]) >= n

AckKept(c) == LET n == acked[c]["customer"] IN n <= Committed(c) /\ Keeps(c, n)

\* A step loses no revision, and acknowledges only one that is kept.
KeepsOn == \A c \in Customers :
              /\ \A m \in Nat : m <= Committed(c) /\ Keeps(c, m) => Keeps(c, m)'
              /\ acked'[c]["customer"] # acked[c]["customer"] => AckKept(c)'

LEMMA KnownGrows ==
    ASSUME SerialInv, NEW t \in Tasks, UNCHANGED hot \/ TaskWrites(t), NEW c \in Customers
    PROVE  Known(c) \in Nat /\ Known(c)' \in Nat /\ Known(c)' >= Known(c)
<1>1. /\ Known(c) \in Nat /\ Committed(c) \in Nat
      /\ \A u \in Tasks : TaskWrites(u) => job[u].cust \in Customers
  BY KnownIsWhole, WriteDelivers DEF SerialInv, ProfileInv, ProfileBounded, DeliveryInv, IInv,
     TypeOK, SorOK, Committed, RequiredDomains
<1>2. CASE UNCHANGED hot
  BY <1>1, <1>2 DEF Known, ProfileRev
<1>3. CASE TaskWrites(t)
  <2>1. PICK e \in Customers : e = job[t].cust
    BY <1>1, <1>3
  <2>2. /\ Known(e)' = Known(e) \/ Known(e)' \in Known(e) + 1 .. Committed(e)
        /\ \A x \in Customers \ {e} : Known(x)' = Known(x)
    BY <1>3, <2>1, Learns
  <2>3. Committed(e) \in Nat
    BY DEF SerialInv, DeliveryInv, IInv, TypeOK, SorOK, Committed, RequiredDomains
  <2> QED
    BY <1>1, <2>2, <2>3
<1> QED
  BY <1>2, <1>3

LEMMA StillKept ==
    ASSUME NEW t \in Tasks, \A u \in Tasks \ {t} : Still(u), NEW c \in Customers, NEW m \in Nat,
           Known(c) \in Nat, Known(c)' \in Nat, Known(c)' >= Known(c), Keeps(c, m),
           "customer" \in DOMAIN pending[c].revs /\ pending[c].revs["customer"] >= m =>
               Keeps(c, m)',
           Writing(t, c) /\ ProfileRev(draft[t]) >= m => Keeps(c, m)'
    PROVE  Keeps(c, m)'
<1>1. CASE Known(c) >= m
  BY <1>1 DEF Keeps
<1>2. ASSUME NEW u \in Tasks \ {t}, Writing(u, c), ProfileRev(draft[u]) >= m
      PROVE  Keeps(c, m)'
  BY <1>2 DEF Keeps, Writing, Still, ProfileRev
<1> QED
  BY <1>1, <1>2 DEF Keeps

LEMMA MoveKept ==
    ASSUME SerialInv, NEW t \in Tasks, pc[t] # "write",
           \A u \in Tasks \ {t} : Still(u), UNCHANGED <<pending, acked>>,
           UNCHANGED hot \/ TaskWrites(t)
    PROVE  KeepsOn
<1>1. \A c \in Customers : ~Writing(t, c)
  BY DEF Writing
<1>2. ASSUME NEW c \in Customers, NEW m \in Nat, Keeps(c, m)
      PROVE  Keeps(c, m)'
  <2>1. Known(c) \in Nat /\ Known(c)' \in Nat /\ Known(c)' >= Known(c)
    BY KnownGrows
  <2>2. "customer" \in DOMAIN pending[c].revs /\ pending[c].revs["customer"] >= m => Keeps(c, m)'
    BY DEF Keeps
  <2> QED
    BY <1>1, <1>2, <2>1, <2>2, StillKept
<1> QED
  BY <1>2 DEF KeepsOn

\* Who is acknowledged, and what.
LEMMA AckedRevision ==
    ASSUME SerialInv, NEW t \in Tasks, Answer(t, TRUE), pc[t] # "idle", NEW c \in Customers,
           acked'[c]["customer"] # acked[c]["customer"]
    PROVE  /\ job[t].cust = c /\ job[t].domain = "customer"
           /\ acked'[c]["customer"] = job[t].rev /\ job[t].rev = Committed(c)
           /\ Committed(c) \in Nat /\ Committed(c)' = Committed(c)
<1>0. Committed(c)' = Committed(c)
  BY DEF Answer, StartupAnswered, sorVars, Committed
<1>1. /\ job[t].cust = c /\ job[t].domain = "customer"
      /\ acked'[c]["customer"] = job[t].rev
  BY DEF Answer, Acknowledge, SerialInv, DeliveryInv, IInv, TypeOK, SorOK, RequiredDomains
<1>2. CustomerTask(t)
  BY <1>1 DEF CustomerTask, RequiredDomains
<1> QED
  BY <1>0, <1>1, <1>2 DEF SerialInv, Senders, LatestSent, Committed, DeliveryInv, IInv, TypeOK,
     SorOK, RequiredDomains

LEMMA EndKept ==
    ASSUME SerialInv, NEW t \in Tasks, EndEnrichment(t), UNCHANGED pending,
           pc[t] \in {"enrich_read", "enrich_write"}, UNCHANGED hot \/ TaskWrites(t)
    PROVE  KeepsOn
<1>1. \A u \in Tasks \ {t} : Still(u)
  BY DEF EndEnrichment, Answer, Release, Goto, Still, SerialInv, DeliveryInv, IInv, TypeOK, TasksOK
<1>2. CASE UNCHANGED acked
  BY <1>1, <1>2, MoveKept
<1>3. CASE Answer(t, TRUE)
  <2>1. ASSUME NEW c \in Customers, NEW m \in Nat, Keeps(c, m)
        PROVE  Keeps(c, m)'
    <3>1. Known(c) \in Nat /\ Known(c)' \in Nat /\ Known(c)' >= Known(c)
      BY KnownGrows
    <3>2. ~Writing(t, c)
      BY DEF Writing
    <3>3. "customer" \in DOMAIN pending[c].revs /\ pending[c].revs["customer"] >= m => Keeps(c, m)'
      BY DEF Keeps
    <3> QED
      BY <1>1, <2>1, <3>1, <3>2, <3>3, StillKept
  <2>2. ASSUME NEW c \in Customers, acked'[c]["customer"] # acked[c]["customer"]
        PROVE  AckKept(c)'
    <3>1. /\ job[t].cust = c /\ job[t].domain = "customer"
          /\ acked'[c]["customer"] = job[t].rev /\ job[t].rev = Committed(c)
          /\ Committed(c) \in Nat /\ Committed(c)' = Committed(c)
      BY <1>3, <2>2, AckedRevision
    <3>2. Known(c) = job[t].rev
      BY <3>1, KnownIsWhole DEF SerialInv, DeliveryInv, Delivers, ProfileInv, Carries
    <3>3. Known(c)' \in Nat /\ Known(c)' >= Known(c)
      BY KnownGrows
    <3> QED
      BY <3>1, <3>2, <3>3 DEF AckKept, Keeps
  <2> QED
    BY <2>1, <2>2 DEF KeepsOn
<1> QED
  BY <1>2, <1>3 DEF EndEnrichment

\* The joined record is written, whether the answer arrives or not.
LEMMA WrittenKept ==
    ASSUME SerialInv, NEW t \in Tasks, TaskWrites(t), \A u \in Tasks \ {t} : Still(u),
           UNCHANGED <<pending, acked>>
    PROVE  KeepsOn
<1>1. ASSUME NEW c \in Customers, NEW m \in Nat, Keeps(c, m)
      PROVE  Keeps(c, m)'
  <2>1. Known(c) \in Nat /\ Known(c)' \in Nat /\ Known(c)' >= Known(c)
    BY KnownGrows
  <2>2. "customer" \in DOMAIN pending[c].revs /\ pending[c].revs["customer"] >= m => Keeps(c, m)'
    BY DEF Keeps
  <2>3. ASSUME Writing(t, c), ProfileRev(draft[t]) >= m
        PROVE  Keeps(c, m)'
    <3>1. ProfileRev(hot'[c]) = ProfileRev(draft[t]) /\ Exists(hot'[c])
      BY <2>3, ProfileWritten DEF Writing
    <3>2. "profile" \in DOMAIN hot'[c]
      BY <3>1, WriteDelivers DEF SerialInv, RecordsWhole, Whole, FieldGroups, FieldGroup,
         RequiredDomains
    <3> QED
      BY <2>3, <3>1, <3>2 DEF Keeps, Known, ProfileRev
  <2> QED
    BY <1>1, <2>1, <2>2, <2>3, StillKept
<1> QED
  BY <1>1 DEF KeepsOn

\* A join that goes on has a revision of the customer domain no older than before.
LEMMA ReceivesOn ==
    ASSUME SerialInv, NEW t \in Tasks, pc[t] = "join", NEW e \in Customers, e = job[t].cust,
           NEW m \in Nat, m <= Committed(e), "customer" \in DOMAIN pending[e].revs,
           pending[e].revs["customer"] >= m
    PROVE  "customer" \in DOMAIN Received(t) /\ Received(t)["customer"] >= m
<1>1. CASE job[t].domain = "customer"
  <2>1. CustomerTask(t)
    BY Customer DEF SerialInv, DeliveryInv
  <2>2. job[t].rev = Committed(e)
    BY <1>1, <2>1 DEF SerialInv, Senders, LatestSent, Committed
  <2>3. "customer" \in DOMAIN Received(t) /\ Received(t)["customer"] = job[t].rev
    BY <1>1 DEF Received, Update
  <2> QED
    BY <2>2, <2>3 DEF SerialInv, DeliveryInv, IInv, TypeOK, SorOK, Committed, RequiredDomains
<1>2. CASE job[t].domain # "customer"
  BY <1>2 DEF Received, Update
<1> QED
  BY <1>1, <1>2

LEMMA JoinKept ==
    ASSUME SerialInv, NEW t \in Tasks, OpenPending(t) \/ JoinPending(t) \/ CompletePending(t)
    PROVE  KeepsOn
<1>1. pc[t] = "join" /\ UNCHANGED hot /\ \A u \in Tasks \ {t} : Still(u)
  BY DEF OpenPending, JoinPending, CompletePending, Answer, Release, Goto, Still, cacheVars,
     SerialInv, DeliveryInv, IInv, TypeOK, TasksOK
<1>2. PICK e \in Customers : e = job[t].cust
  BY <1>1 DEF SerialInv, DeliveryInv, IInv, JobsFit, JobFits
<1>3. DOMAIN pending = Customers /\ IsJoin(pending[e])
  BY DEF SerialInv, DeliveryInv, IInv, TypeOK, JoinsOK
<1>4. \A c \in Customers \ {e} : pending'[c] = pending[c]
  BY <1>2, <1>3 DEF OpenPending, JoinPending, CompletePending
<1>5. CASE OpenPending(t) \/ JoinPending(t)
  <2>1. pending'[e].revs = Received(t)
    <3>1. CASE OpenPending(t)
      BY <1>2, <1>3, <3>1 DEF OpenPending
    <3>2. CASE JoinPending(t)
      BY <1>2, <1>3, <3>2 DEF JoinPending, IsJoin
    <3> QED
      BY <1>5, <3>1, <3>2
  <2>2. ASSUME NEW c \in Customers, NEW m \in Nat, m <= Committed(c), Keeps(c, m)
        PROVE  Keeps(c, m)'
    <3>1. Known(c) \in Nat /\ Known(c)' \in Nat /\ Known(c)' >= Known(c)
      BY <1>1, KnownGrows
    <3>2. ~Writing(t, c)
      BY <1>1 DEF Writing
    <3>3. ASSUME "customer" \in DOMAIN pending[c].revs, pending[c].revs["customer"] >= m
          PROVE  Keeps(c, m)'
      <4>1. CASE c = e
        BY <1>1, <1>2, <2>1, <2>2, <3>3, <4>1, ReceivesOn DEF Keeps
      <4>2. CASE c # e
        BY <1>4, <3>3, <4>2 DEF Keeps
      <4> QED
        BY <4>1, <4>2
    <3> QED
      BY <1>1, <2>2, <3>1, <3>2, <3>3, StillKept
  <2>3. ASSUME NEW c \in Customers, acked'[c]["customer"] # acked[c]["customer"]
        PROVE  AckKept(c)'
    <3>1. /\ job[t].cust = c /\ job[t].domain = "customer"
          /\ acked'[c]["customer"] = job[t].rev /\ job[t].rev = Committed(c)
          /\ Committed(c) \in Nat /\ Committed(c)' = Committed(c)
      BY <1>1, <1>5, <2>3, AckedRevision DEF OpenPending, JoinPending
    <3>2. "customer" \in DOMAIN Received(t) /\ Received(t)["customer"] = job[t].rev
      BY <3>1 DEF Received, Update
    <3> QED
      BY <1>2, <2>1, <3>1, <3>2 DEF AckKept, Keeps
  <2> QED
    BY <2>2, <2>3 DEF KeepsOn
<1>6. CASE CompletePending(t)
  <2>1. /\ pc'[t] = "write" /\ job' = job /\ acked' = acked
        /\ RequiredDomains \subseteq DOMAIN Received(t)
        /\ draft'[t] = Update(MergeDomains(Received(t)),
                              [assembly_state |-> "complete", missing_domains |-> {}])
    BY <1>6 DEF CompletePending, Goto, SerialInv, DeliveryInv, IInv, TypeOK, TasksOK
  <2>2. ProfileRev(draft'[t]) = Received(t)["customer"]
    <3>1. DOMAIN Received(t) = RequiredDomains
      BY <1>1, <2>1, ReceivedOK DEF SerialInv, DeliveryInv
    <3>2. draft'[t]["profile"] = Content("customer", Received(t)["customer"])
      BY <2>1, <3>1, JoinedBodyKeys DEF FieldGroup, RequiredDomains
    <3> QED
      BY <3>1, <3>2 DEF ProfileRev, Content, RequiredDomains
  <2>3. Writing(t, e)'
    BY <1>2, <2>1 DEF Writing
  <2>4. ASSUME NEW c \in Customers, NEW m \in Nat, m <= Committed(c), Keeps(c, m)
        PROVE  Keeps(c, m)'
    <3>1. Known(c) \in Nat /\ Known(c)' \in Nat /\ Known(c)' >= Known(c)
      BY <1>1, KnownGrows
    <3>2. ~Writing(t, c)
      BY <1>1 DEF Writing
    <3>3. ASSUME "customer" \in DOMAIN pending[c].revs, pending[c].revs["customer"] >= m
          PROVE  Keeps(c, m)'
      <4>1. CASE c = e
        <5>1. Received(t)["customer"] >= m
          BY <1>1, <1>2, <2>4, <3>3, <4>1, ReceivesOn
        <5> QED
          BY <2>2, <2>3, <4>1, <5>1 DEF Keeps, ProfileRev
      <4>2. CASE c # e
        BY <1>4, <3>3, <4>2 DEF Keeps
      <4> QED
        BY <4>1, <4>2
    <3> QED
      BY <1>1, <2>4, <3>1, <3>2, <3>3, StillKept
  <2> QED
    BY <2>1, <2>4 DEF KeepsOn
<1> QED
  BY <1>5, <1>6

LEMMA KeptStep ==
    ASSUME NothingLost, SerialClients, SerialInv, [Next]_vars
    PROVE  KeepsOn
<1>0. DeliveryInv /\ TypeOK /\ TasksOK
  BY DEF SerialInv, DeliveryInv, IInv, TypeOK
<1> USE DEF TasksOK
<1>1. CASE UNCHANGED vars
  BY <1>1 DEF vars, cacheVars, joinVars, taskVars, KeepsOn, Keeps, Known, ProfileRev, Writing
<1>2. ASSUME NEW t \in Tasks, NEW j, Submit(t, j)
      PROVE  KeepsOn
  BY <1>0, <1>2, MoveKept DEF Submit, Goto, Still, cacheVars, joinVars
<1>3. ASSUME NEW t \in Tasks, Handle(t)
      PROVE  KeepsOn
  <2>1. CASE LookupHit(t) \/ LookupMiss(t) \/ EnrichRead(t) \/ EnrichFetch(t)
    BY <1>0, <2>1, MoveKept DEF LookupHit, LookupMiss, EnrichRead, EnrichFetch, Goto, Still,
       cacheVars, joinVars
  <2>2. CASE UpsertComplete(t) \/ WriteJoined(t)
    <3>1. TaskWrites(t)
      BY <2>2 DEF UpsertComplete, WriteJoined, TaskWrites
    <3>2. UNCHANGED <<pending, acked>> /\ \A u \in Tasks \ {t} : Still(u)
      BY <1>0, <2>2 DEF UpsertComplete, WriteJoined, Goto, Still, joinVars
    <3> QED
      BY <3>1, <3>2, WrittenKept
  <2>3. CASE OpenPending(t) \/ JoinPending(t) \/ CompletePending(t)
    BY <2>3, JoinKept
  <2>4. CASE EnrichNothing(t) \/ EnrichWrite(t)
    BY <2>4, EndKept DEF EnrichNothing, EnrichWrite, TaskWrites, cacheVars, joinVars
  <2>5. CASE ScanRecords(t) \/ FanOutDone(t)
    BY <1>0, <2>5, MoveKept DEF ScanRecords, FanOutDone, Release, Goto, Still, cacheVars, joinVars
  <2>6. ASSUME NEW c \in Customers, FanOutNext(t, c)
        PROVE  KeepsOn
    BY <1>0, <2>6, MoveKept DEF FanOutNext, Goto, Still, cacheVars, joinVars, Jobs
  <2> QED
    BY <1>0, <1>3, <2>1, <2>2, <2>3, <2>4, <2>5, <2>6, Excluded DEF Handle, NothingLost
<1>4. ASSUME NEW t \in Tasks, TaskFault(t)
      PROVE  KeepsOn
  <2>1. CASE PostLost(t) \/ CatalogueDown(t)
    <3>1. UNCHANGED <<hot, pending, acked>>
      BY <2>1 DEF PostLost, CatalogueDown, Answer, cacheVars, joinVars
    <3>2. pc[t] # "write" /\ \A u \in Tasks \ {t} : Still(u)
      BY <1>0, <2>1 DEF PostLost, CatalogueDown, Answer, Release, Goto, Still
    <3> QED
      BY <3>1, <3>2, MoveKept
  <2>2. CASE PostTimeout(t)
    <3>1. UNCHANGED <<hot, pending, acked, pc, draft>> /\ \A u \in Tasks : job'[u].cust = job[u].cust
      BY <1>0, <2>2 DEF PostTimeout, StartupAnswered, cacheVars, joinVars, Jobs
    <3> QED
      BY <3>1 DEF KeepsOn, Keeps, Known, ProfileRev, Writing
  <2>3. CASE ReplyLost(t)
    <3>1. TaskWrites(t) /\ UNCHANGED <<pending, acked>>
      BY <2>3 DEF ReplyLost, TaskWrites, Answer, joinVars
    <3>2. \A u \in Tasks \ {t} : Still(u)
      BY <1>0, <2>3 DEF ReplyLost, Answer, Release, Goto, Still
    <3> QED
      BY <3>1, <3>2, WrittenKept
  <2> QED
    BY <1>4, <2>1, <2>2, <2>3 DEF TaskFault, CallFails, EnrichCallFails, Fault, NothingLost
<1>5. CASE \/ \E t \in Tasks : Request(t)
           \/ Startup
  BY <1>2, <1>5 DEF Request, UpdateCustomer, UpdateProduct, Startup, StartupEmit
<1> QED
  BY <1>0, <1>1, <1>3, <1>4, <1>5, Excluded DEF Next, NothingLost, CdcRestarts, Fault

\* What is kept is among the revisions the property speaks of.
LEMMA KeptIsHeld ==
    ASSUME DeliveryInv, NEW c \in Customers, NEW n \in Nat \ {0}, Keeps(c, n)
    PROVE  \E rev \in RevisionsHeld(c, "customer") : rev >= n
<1>1. CASE Known(c) >= n
  <2>1. "profile" \in DOMAIN hot[c]
    BY <1>1 DEF Known
  <2> QED
    BY <1>1, <2>1 DEF Known, ProfileRev, RevisionsHeld, FieldGroup
<1>2. CASE "customer" \in DOMAIN pending[c].revs /\ pending[c].revs["customer"] >= n
  BY <1>2 DEF RevisionsHeld
<1>3. ASSUME NEW t \in Tasks, Writing(t, c), ProfileRev(draft[t]) >= n
      PROVE  \E rev \in RevisionsHeld(c, "customer") : rev >= n
  <2>1. "profile" \in DOMAIN draft[t]
    BY <1>3 DEF DeliveryInv, Delivers, Writing, Whole, FieldGroups, FieldGroup, RequiredDomains
  <2>2. draft[t]["profile"].rev \in RevisionsHeld(c, "customer")
    BY <1>3, <2>1 DEF RevisionsHeld, FieldGroup
  <2> QED
    BY <1>3, <2>2 DEF ProfileRev
<1> QED
  BY <1>1, <1>2, <1>3 DEF Keeps

(***************************************************************************)
(* For serial clients, while the service and the cache run on, no           *)
(* acknowledged revision of a profile is lost: it, or a later one, is       *)
(* cached, pending or being written (process_event).                        *)
(***************************************************************************)
THEOREM AckedProfilesAreKept ==
    ASSUME NothingLost, SerialClients PROVE Spec => []ProfileKept
<1> DEFINE AckedKept == \A c \in Customers : AckKept(c)
<1>1. Serially
  BY DEF NothingLost, Serially
<1>2. Init => AckedKept
  <2> SUFFICES ASSUME Init, NEW c \in Customers PROVE AckKept(c)
    OBVIOUS
  <2>1. acked[c]["customer"] = 0
    BY DEF Init, RequiredDomains
  <2>2. Committed(c) = 1
    BY DEF Init, SorInit, Committed, RequiredDomains
  <2>3. Known(c) = 0
    BY DEF Init, CacheInit, NoRecord, Known
  <2> QED
    BY <2>1, <2>2, <2>3 DEF AckKept, Keeps
<1>3. ASSUME SerialInv, AckedKept, [Next]_vars
      PROVE  SerialInv' /\ AckedKept'
  <2>1. SerialInv'
    BY <1>1, <1>3, SerialStep
  <2>2. KeepsOn
    BY <1>3, KeptStep
  <2>3. CommitsGrow
    BY <1>1, <1>3, CommitsStep
  <2>4. ASSUME NEW c \in Customers
        PROVE  AckKept(c)'
    <3>1. acked[c]["customer"] \in Nat /\ Committed(c) \in Nat
      BY <1>3 DEF SerialInv, DeliveryInv, IInv, TypeOK, SorOK, Committed, RequiredDomains
    <3>2. CASE acked'[c]["customer"] # acked[c]["customer"]
      BY <2>2, <3>2 DEF KeepsOn
    <3>3. CASE acked'[c]["customer"] = acked[c]["customer"]
      <4>1. PICK n \in Nat : n = acked[c]["customer"]
        BY <3>1
      <4>2. n <= Committed(c) /\ Keeps(c, n)
        BY <1>3, <4>1 DEF AckKept
      <4>3. Keeps(c, n)' /\ n <= Committed(c)'
        BY <2>2, <2>3, <3>1, <4>2 DEF KeepsOn, CommitsGrow
      <4> QED
        BY <3>3, <4>1, <4>3 DEF AckKept
    <3> QED
      BY <3>2, <3>3
  <2> QED
    BY <2>1, <2>4
<1>4. ASSUME SerialInv, AckedKept
      PROVE  ProfileKept
  <2>1. ASSUME NEW c \in Customers, acked[c]["customer"] > 0
        PROVE  \E rev \in RevisionsHeld(c, "customer") : rev >= acked[c]["customer"]
    <3>1. PICK n \in Nat \ {0} : n = acked[c]["customer"]
      BY <1>4, <2>1 DEF SerialInv, DeliveryInv, IInv, TypeOK, SorOK, RequiredDomains
    <3>2. Keeps(c, n)
      BY <1>4, <3>1 DEF AckKept
    <3> QED
      BY <1>4, <3>1, <3>2, KeptIsHeld DEF SerialInv
  <2> QED
    BY <2>1 DEF ProfileKept, RevisionKept
<1> HIDE DEF AckedKept
<1> QED
  BY SerialInit, <1>2, <1>3, <1>4, PTL DEF Spec
=============================================================================
