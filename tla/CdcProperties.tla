--------------------------- MODULE CdcProperties ----------------------------
(***************************************************************************)
(* What the assembly service and the cache promise together.  Some promises *)
(* hold whatever happens, some only while the join timeout stays out of the *)
(* way, and some do not hold: the runs say which.                           *)
(***************************************************************************)
EXTENDS CdcAssembly

IsRecord(r) ==
    /\ DOMAIN r \subseteq ControlFields \cup FieldGroups \cup {"version"}
    /\ "profile" \in DOMAIN r => r["profile"] \in [rev : Nat, meta : RequiredDomains]
    /\ "commercial_state" \in DOMAIN r =>
          r["commercial_state"] \in [rev : Nat, price : Nat, meta : RequiredDomains]
    /\ "assembly_state" \in DOMAIN r => r["assembly_state"] \in ValidAssemblyStates
    /\ "missing_domains" \in DOMAIN r => r["missing_domains"] \subseteq RequiredDomains
    /\ "provenance" \in DOMAIN r => r["provenance"] \subseteq RequiredDomains
    /\ "version" \in DOMAIN r => r["version"] \in Nat

\* A tier holds a customer's record with its version, or nothing.
IsStored(r) == IsRecord(r) /\ (Exists(r) => "version" \in DOMAIN r)

IsJoin(join) ==
    /\ DOMAIN join = {"id", "revs", "due"}
    /\ join.id \in Nat
    /\ join.due \in BOOLEAN
    /\ DOMAIN join.revs \subseteq RequiredDomains
    /\ \A d \in DOMAIN join.revs : join.revs[d] \in Nat
    /\ ~Open(join) => DOMAIN join.revs = {}

Labels == {"idle", "post", "upsert", "join", "write", "enrich_read", "enrich_fetch",
           "enrich_write", "fanout"}

Jobs == [cust : Customers \cup {None}, domain : RequiredDomains \cup {"product", None},
         rev : Nat, startup : BOOLEAN]

CacheOK == /\ DOMAIN hot = Customers /\ \A c \in Customers : IsStored(hot[c])
           /\ DOMAIN permanent = Customers /\ \A c \in Customers : IsStored(permanent[c])

SorOK == /\ sor \in [Customers -> [RequiredDomains -> Nat]]
         /\ listPrice \in Nat
         /\ unsent \in [RequiredDomains -> SUBSET Customers]
         /\ recaptures \in Nat
         /\ acked \in [Customers -> [RequiredDomains -> Nat]]

JoinsOK == /\ DOMAIN pending = Customers /\ \A c \in Customers : IsJoin(pending[c])
           /\ opened \in [Customers -> Nat]

TasksOK == /\ pc \in [Tasks -> Labels]
           /\ job \in [Tasks -> Jobs]
           /\ DOMAIN draft = Tasks /\ \A t \in Tasks : IsRecord(draft[t])
           /\ assembly \in [Tasks -> Nat]
           /\ todo \in [Tasks -> SUBSET Customers]

CheckerOK == /\ DOMAIN checker = {"pc", "todo", "cust", "body", "id"}
             /\ checker.pc \in {"sleep", "evict", "write"}
             /\ checker.todo \subseteq Customers
             /\ checker.cust \in Customers \cup {None}
             /\ IsRecord(checker.body)
             /\ checker.id \in Nat

(***************************************************************************)
(* Type correctness of the cache, the systems of record, the pending store, *)
(* the tasks and the checker.                                               *)
(***************************************************************************)
TypeOK == CacheOK /\ SorOK /\ JoinsOK /\ TasksOK /\ CheckerOK /\ faults \in Nat

-----------------------------------------------------------------------------
(* Whatever happens.                                                          *)

(***************************************************************************)
(* A join leaves the pending store in the very step in which its last       *)
(* domain arrives: no open join is empty or holds every required domain     *)
(* (process_event, the section under _pending_lock).                        *)
(***************************************************************************)
PendingIsPartial ==
    \A c \in Customers : Open(pending[c]) =>
        /\ DOMAIN pending[c].revs # {}
        /\ ~ (RequiredDomains \subseteq DOMAIN pending[c].revs)

(***************************************************************************)
(* Each join has one owner: the pending store, the one event handler that   *)
(* completed it, or the timeout checker that evicted it.  So a join and its *)
(* timeout never both write the record (the two sections under              *)
(* _pending_lock each remove what they act on).                             *)
(***************************************************************************)
Writing(t, c) == pc[t] = "write" /\ job[t].cust = c
Evicted(c) == checker.pc = "write" /\ checker.cust = c

AssemblyHasOneOwner ==
    \A c \in Customers :
        /\ \A t \in Tasks : Writing(t, c) => /\ assembly[t] # pending[c].id
                                             /\ Evicted(c) => assembly[t] # checker.id
        /\ \A t, u \in Tasks : Writing(t, c) /\ Writing(u, c) /\ t # u => assembly[t] # assembly[u]
        /\ Evicted(c) => checker.id # pending[c].id

(***************************************************************************)
(* The cache never answers 422 to the assembly service: every body about to *)
(* be written passes validate_cache_record, top-level keys and field groups *)
(* alike.  An enrichment sends back what it read from the cache, so that    *)
(* nothing the cache adds to a record may get into its body.                *)
(***************************************************************************)
DeclaredBodies ==
    /\ \A t \in Tasks : pc[t] \in {"upsert", "write", "enrich_write"} =>
                            ValidateCacheRecord(draft[t])
    /\ checker.pc = "write" => ValidateCacheRecord(checker.body)

(***************************************************************************)
(* The ACG falls back from the hot cache to the permanent store: as nothing *)
(* is evicted, both hold the same record, version included, whatever mix of *)
(* full writes and upserts produced it.                                     *)
(***************************************************************************)
TiersAgree == hot = permanent

(***************************************************************************)
(* A reader that sees the same version twice sees the same record: a record *)
(* never changes under an unchanged version, and versions only grow, until  *)
(* the cache restarts.                                                      *)
(***************************************************************************)
VersionAdvances ==
    [][\A c \in Customers :
          hot'[c] # hot[c] =>
             \/ ~Exists(hot'[c])
             \/ hot'[c]["version"] = (IF Exists(hot[c]) THEN hot[c]["version"] ELSE 0) + 1]_vars

(***************************************************************************)
(* Every open join ends: completed, evicted or lost with the process.  (A   *)
(* join that never ended would leave its customer's entry open for ever.)   *)
(***************************************************************************)
JoinsEnd == \A c \in Customers : []<>~Open(pending[c])

(***************************************************************************)
(* Every request that reached the service, and every fan-out, ends.         *)
(***************************************************************************)
TasksEnd == \A t \in Tasks : []<>(pc[t] = "idle")

-----------------------------------------------------------------------------
(* While every join completes within its 30 seconds.                          *)

(***************************************************************************)
(* The cache only ever holds finished records: both field groups, state     *)
(* "complete", nothing missing.  Whatever is half-assembled stays in the    *)
(* pending store, although hits, misses, joins and enrichments of the same  *)
(* customer interleave freely and any call may fail.                        *)
(***************************************************************************)
RecordsComplete ==
    \A c \in Customers : Exists(hot[c]) =>
        /\ DomainsHeld(hot[c]) = RequiredDomains
        /\ hot[c]["assembly_state"] = "complete"
        /\ hot[c]["missing_domains"] = {}

\* The revisions of domain d of customer c that are stored, pending or being written.
RevisionsHeld(c, d) ==
    LET inRecord(r) == IF FieldGroup(d) \in DOMAIN r THEN {r[FieldGroup(d)].rev} ELSE {}
        inJoin      == IF d \in DOMAIN pending[c].revs THEN {pending[c].revs[d]} ELSE {}
        inFlight    == UNION {inRecord(draft[t]) : t \in {u \in Tasks : Writing(u, c)}}
        evicted     == IF Evicted(c) THEN inRecord(checker.body) ELSE {}
    IN  inRecord(hot[c]) \cup inJoin \cup inFlight \cup evicted

(***************************************************************************)
(* A domain whose event was answered with a success is never lost again: it *)
(* is in the record, in the pending store, or in a join being written.      *)
(***************************************************************************)
AckedDomainsHeld ==
    \A c \in Customers, d \in RequiredDomains : acked[c][d] > 0 => RevisionsHeld(c, d) # {}

(***************************************************************************)
(* When clients wait for each answer before they write the same record      *)
(* again, no acknowledged revision of a domain is lost: the one             *)
(* acknowledged last, or a later one, is held somewhere.                    *)
(***************************************************************************)
RevisionKept(d) ==
    \A c \in Customers : acked[c][d] > 0 =>
        \E rev \in RevisionsHeld(c, d) : rev >= acked[c][d]

ProfileKept == RevisionKept("customer")
CommercialStateKept == RevisionKept("billing")

(***************************************************************************)
(* Under the same conditions the cached profile is the last-known state of  *)
(* the customer domain: it implements LastKnownState, never going back to   *)
(* an older revision through a join, an upsert or an enrichment.            *)
(***************************************************************************)
Profile == INSTANCE LastKnownState WITH
    committed <- [c \in Customers |-> sor[c]["customer"]],
    known     <- [c \in Customers |-> IF "profile" \in DOMAIN hot[c]
                                      THEN hot[c]["profile"].rev ELSE 0]

ProfileImplementsLastKnown == Profile!Spec

\* The customer's record is complete, enriched and made of the latest revisions.
UpToDate(c) ==
    /\ DomainsHeld(hot[c]) = RequiredDomains
    /\ hot[c]["assembly_state"] = "complete"
    /\ \A d \in RequiredDomains : hot[c][FieldGroup(d)].rev = sor[c][d]
    /\ hot[c]["commercial_state"].price = listPrice
=============================================================================
