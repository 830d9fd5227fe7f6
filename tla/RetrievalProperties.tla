------------------------ MODULE RetrievalProperties -------------------------
(***************************************************************************)
(* What the gateway's answers promise to an agent.                          *)
(***************************************************************************)
EXTENDS ContextRetrieval, CdcProperties

(***************************************************************************)
(* A packet is the whole context: as long as no join has timed out and no   *)
(* call failed, what an agent is served has both field groups, is           *)
(* "complete" and misses nothing, and offers were computed from a billing   *)
(* state.  A miss of the hot cache may be answered from the permanent       *)
(* store, and other events of the customer are handled at the same time.    *)
(***************************************************************************)
AnswersWhole ==
    ~disturbed =>
        /\ answer.kind = "packet" =>
              /\ FieldGroups \subseteq DOMAIN answer.packet
              /\ answer.packet["assembly_state"] = "complete"
              /\ answer.packet["missing_domains"] = {}
        /\ answer.kind = "offers" => "commercial_state" \in DOMAIN answer.packet

(***************************************************************************)
(* An agent that reads a customer again never goes back: the version does   *)
(* not fall, the same version is the same context whichever tier it came    *)
(* from, and who was found once is not answered with 404.                   *)
(***************************************************************************)
Context(packet) == [k \in DOMAIN packet \ {"cache_hit"} |-> packet[k]]

ReadsAdvance ==
    [][LET before == answer.packet
           after  == answer'.packet
       IN  answer.kind = "packet" /\ answer'.cust = answer.cust =>
              /\ answer'.kind # "404"
              /\ answer'.kind = "packet" =>
                    /\ after["version"] >= before["version"]
                    /\ after["version"] = before["version"] => Context(after) = Context(before)]_rvars

(***************************************************************************)
(* A customer of whom both systems of record have had an event acknowledged *)
(* is found, unless the join was disturbed or its record is being written   *)
(* just then.  The miss of the hot cache may be long past.                  *)
(***************************************************************************)
NotFound == CacheReadPermanent /\ retrieval'.pc = "idle" /\ answer'.kind = "404"

FoundOnceAcked ==
    [][NotFound /\ ~disturbed =>
          \/ \E d \in RequiredDomains : acked[retrieval.cust][d] = 0
          \/ \E t \in Tasks : Writing(t, retrieval.cust)]_rvars

(***************************************************************************)
(* The startup emissions end in a complete record of every customer,        *)
(* enriched with the list price as it is then, and it stays so: requests    *)
(* that are lost, retries after a timeout and a price update with its       *)
(* fan-out, whenever it comes, do no harm.  What may prevent it is a join   *)
(* that times out early, a write or an enrichment that fails, a restart, a  *)
(* price event that is lost (the catalogue does not send it again), and an  *)
(* enrichment that holds a price already superseded when it writes.         *)
(***************************************************************************)
HoldsSuperseded ==
    \E t \in Tasks : pc[t] = "enrich_write" /\ draft[t].commercial_state.price # listPrice

StartupConvergesUndisturbed ==
    \/ <>[](disturbed \/ \A c \in Customers : UpToDate(c))
    \/ <>HoldsSuperseded

-----------------------------------------------------------------------------
(***************************************************************************)
(* "complete: All domains assembled. All declared field groups are present  *)
(* and valid"; "missing_domains: Domain names absent from this record due   *)
(* to a pending join or timeout" (ontology.py, the response contract).  The *)
(* code leaves the missing_domains of a timed-out join in the record that   *)
(* the late event completes, and a timed-out join may be written over the   *)
(* domain of a complete one.                                                *)
(***************************************************************************)
CompleteIsWhole ==
    answer.kind = "packet" /\ answer.packet["assembly_state"] = "complete" =>
        /\ FieldGroups \subseteq DOMAIN answer.packet
        /\ answer.packet["missing_domains"] = {}
=============================================================================
