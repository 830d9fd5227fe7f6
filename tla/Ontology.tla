------------------------------ MODULE Ontology ------------------------------
(***************************************************************************)
(* The part of ontology/ontology.py that the assembly path runs: the        *)
(* domains to join, the shape of a cached record, the assembly of a domain  *)
(* event into a partial record, the merge of partials and the validation    *)
(* the cache gates its writes with.                                         *)
(*                                                                          *)
(* A record is a dictionary: a function whose DOMAIN is the set of keys it  *)
(* holds, and so is a field group.  Of the values only what the properties  *)
(* tell apart is kept.  In a field group "rev" stands for the data mapped   *)
(* from the system of record (the profile's fields, the subscriptions): the *)
(* revision of the entry it was read from.  "price" stands for what the     *)
(* enrichment adds to billing data (the prices in the lines and the         *)
(* discount_summary): the revision of the list price, 0 if not enriched.    *)
(* "meta" is the _meta block, of which the source domain is kept.           *)
(* provenance is the set of domains it records an origin for; customer_id   *)
(* and assembled_at are left out.                                           *)
(***************************************************************************)
EXTENDS Naturals

CONSTANT Customers  \* the values of the join key, customer_id

RequiredDomains == {"customer", "billing"}

FieldGroup(d) == IF d = "customer" THEN "profile" ELSE "commercial_state"

FieldGroups == {FieldGroup(d) : d \in RequiredDomains}

SourceDomain(group) == IF group = "profile" THEN "customer" ELSE "billing"

AwaitingState(d) == IF d = "customer" THEN "awaiting_customer" ELSE "awaiting_billing"

ValidAssemblyStates ==
    {"complete", "partial_timed_out"} \cup {AwaitingState(d) : d \in RequiredDomains}

ControlFields == {"assembly_state", "missing_domains", "provenance"}

(***************************************************************************)
(* The dictionary {**record, **body}.                                       *)
(***************************************************************************)
Update(record, body) ==
    [k \in DOMAIN record \cup DOMAIN body |-> IF k \in DOMAIN body THEN body[k] ELSE record[k]]

\* Mutant of Content: the billing group is assembled without its _meta block.
ContentNoMeta(d, rev) ==
    IF d = "customer" THEN [rev |-> rev, meta |-> d] ELSE [rev |-> rev, price |-> 0]

\* The field group assembled from revision rev of a source record.
Content(d, rev) == IF d = "customer" THEN [rev |-> rev, meta |-> d]
                                     ELSE [rev |-> rev, price |-> 0, meta |-> d]

\* The partial record of one domain event.
AssembleDomain(d, rev) ==
    [k \in {FieldGroup(d), "provenance"} |-> IF k = "provenance" THEN {d} ELSE Content(d, rev)]

(***************************************************************************)
(* The union of the partials of several domains.  revs maps each domain     *)
(* received to the revision its partial was assembled from.                 *)
(***************************************************************************)
MergeDomains(revs) ==
    [k \in {FieldGroup(d) : d \in DOMAIN revs} \cup {"provenance"} |->
        IF k = "provenance" THEN DOMAIN revs ELSE Content(SourceDomain(k), revs[SourceDomain(k)])]

\* The domains whose field group a record holds.
DomainsHeld(record) == {d \in RequiredDomains : FieldGroup(d) \in DOMAIN record}

\* _field_group_allowed_keys
AllowedKeys(group) ==
    IF group = "profile" THEN {"rev", "meta"} ELSE {"rev", "price", "meta"}

(***************************************************************************)
(* What the cache accepts: declared keys only, at the top level (the        *)
(* version, which the cache adds, is none of them) and in each field group, *)
(* a _meta block in each field group, and a declared state.                 *)
(***************************************************************************)
ValidateCacheRecord(body) ==
    /\ DOMAIN body \subseteq ControlFields \cup FieldGroups
    /\ \A group \in FieldGroups \cap DOMAIN body :
          /\ "meta" \in DOMAIN body[group]
          /\ DOMAIN body[group] \subseteq AllowedKeys(group)
    /\ "assembly_state" \in DOMAIN body => body["assembly_state"] \in ValidAssemblyStates
=============================================================================
