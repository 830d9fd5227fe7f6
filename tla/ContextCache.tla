---------------------------- MODULE ContextCache ----------------------------
(***************************************************************************)
(* context_cache/cache_app.py: the two tiers of the context cache and its   *)
(* one write operation.  Both tiers are dictionaries in memory, written     *)
(* together under one lock, so a write is a single step, as is a read.      *)
(* No code evicts a record.                                                 *)
(***************************************************************************)
EXTENDS Ontology

VARIABLES hot,        \* _store: the hot cache (tiers 2 and 3)
          permanent   \* _permanent: the permanent store (tier 1)

cacheVars == <<hot, permanent>>

\* A customer with no record: Python's empty dictionary is falsy.
NoRecord == [k \in {} |-> 0]
Exists(record) == DOMAIN record # {}

CacheInit == /\ hot = [c \in Customers |-> NoRecord]
             /\ permanent = [c \in Customers |-> NoRecord]

\* Mutants of Stored: the full write forgets the version, or starts it again.
StoredUnversioned(existing, body, merge) ==
    IF merge /\ Exists(existing)
    THEN Update(Update(existing, body), [version |-> existing["version"] + 1])
    ELSE body

StoredReset(existing, body, merge) ==
    IF merge /\ Exists(existing)
    THEN Update(Update(existing, body), [version |-> existing["version"] + 1])
    ELSE Update(body, [version |-> 1])

(***************************************************************************)
(* What a tier stores for a body: a body written with the _merge_domain     *)
(* hint goes over the existing record and keeps the keys it does not name;  *)
(* any other body replaces the record.  Each tier counts its own versions.  *)
(***************************************************************************)
Stored(existing, body, merge) ==
    LET version == IF Exists(existing) THEN existing["version"] + 1 ELSE 1
        kept    == IF merge /\ Exists(existing) THEN existing ELSE NoRecord
    IN  Update(Update(kept, body), [version |-> version])

\* Mutant of WriteRecord: the permanent store never merges.
WriteRecordNoPermanentMerge(c, body, merge) ==
    /\ ValidateCacheRecord(body)
    /\ hot' = [hot EXCEPT ![c] = Stored(hot[c], body, merge)]
    /\ permanent' = [permanent EXCEPT ![c] = Stored(permanent[c], body, FALSE)]

(***************************************************************************)
(* PUT /records/{customer_id}.  A body the ontology rejects would be        *)
(* answered with 422 and change nothing: DeclaredBodies shows that the      *)
(* assembly service never sends one.                                        *)
(***************************************************************************)
WriteRecord(c, body, merge) ==
    /\ ValidateCacheRecord(body)
    /\ hot' = [hot EXCEPT ![c] = Stored(hot[c], body, merge)]
    /\ permanent' = [permanent EXCEPT ![c] = Stored(permanent[c], body, merge)]

\* The process restarts: both tiers live in its memory.
CacheRestart == /\ hot' = [c \in Customers |-> NoRecord]
                /\ permanent' = [c \in Customers |-> NoRecord]
=============================================================================
