-------------------------- MODULE RetrievalProofs ---------------------------
(***************************************************************************)
(* What an agent is served, for every instance: the context is whole and    *)
(* who was confirmed is found, unless the assembly was disturbed; and reads *)
(* never go back, unless the cache restarts.                                *)
(***************************************************************************)
EXTENDS RetrievalProperties, CdcSafetyProofs

-----------------------------------------------------------------------------
(***************************************************************************)
(* The assembly under the gateway: an agent's reads change nothing of it,   *)
(* so what holds of it alone holds here.                                    *)
(***************************************************************************)
LEMMA ReadsWriteNothing == [RNext]_rvars => [Next]_vars
BY DEF RNext, Assemble, Read, rvars

LEMMA AssemblyRuns == RSpec => Spec
<1>1. RInit => Init
  BY DEF RInit
<1> QED
  BY <1>1, ReadsWriteNothing, PTL DEF RSpec, Spec

\* What is proved of the assembly alone.
Assembled == IInv /\ TiersAgree /\ PendingIsPartial

LEMMA AlwaysAssembled == RSpec => []Assembled
<1>1. Spec => []IInv
  BY InitInv, NextInv, PTL DEF Spec
<1>2. IInv /\ TiersAgree /\ PendingIsPartial => Assembled
  BY DEF Assembled
<1> QED
  BY <1>1, <1>2, AssemblyRuns, TiersAlwaysAgree, PendingAlwaysPartial, PTL

(***************************************************************************)
(* Where a retrieval stands.                                                *)
(***************************************************************************)
RetrievalOK ==
    /\ DOMAIN retrieval = {"pc", "plan", "cust", "hit", "record"}
    /\ retrieval.pc # "idle" => retrieval.cust \in Customers
    /\ disturbed \in BOOLEAN

LEMMA RetrievalStep ==
    ASSUME RetrievalOK, [RNext]_rvars
    PROVE  RetrievalOK'
<1>1. CASE UNCHANGED <<readVars, disturbed>>
  BY <1>1 DEF readVars, RetrievalOK
<1>2. CASE Assemble
  BY <1>2 DEF Assemble, readVars, RetrievalOK
<1>3. ASSUME Read
      PROVE  RetrievalOK'
  <2>1. disturbed' = disturbed
    BY <1>3 DEF Read
  <2>2. CASE \E c \in Customers, plan \in Plans : Retrieve(c, plan)
    BY <2>1, <2>2 DEF Retrieve, NoRetrieval, RetrievalOK
  <2>3. ASSUME NEW kind, NEW packet, Reply(kind, packet)
        PROVE  RetrievalOK'
    BY <2>1, <2>3 DEF Reply, NoRetrieval, RetrievalOK
  <2>4. ASSUME NEW r, NEW hit, Found(r, hit), retrieval.pc # "idle"
        PROVE  RetrievalOK'
    BY <2>1, <2>3, <2>4 DEF Found, RetrievalOK
  <2>5. CASE CacheRead
    BY <2>1, <2>4, <2>5 DEF CacheRead, RetrievalOK
  <2>6. CASE CacheReadPermanent
    BY <2>3, <2>4, <2>6 DEF CacheReadPermanent
  <2>7. CASE FetchCompatibleOffers \/ RetrievalFails
    BY <2>3, <2>7 DEF FetchCompatibleOffers, RetrievalFails
  <2> QED
    BY <1>3, <2>2, <2>5, <2>6, <2>7 DEF Read
<1> QED
  BY <1>1, <1>2, <1>3 DEF RNext, rvars

-----------------------------------------------------------------------------
(***************************************************************************)
(* The assembly undisturbed.  A seed record is still to be emitted until    *)
(* its event is confirmed, and a confirmed domain is held.  So a join that  *)
(* is open while nothing of its customer is still to come would have every  *)
(* domain, and it is gone by then: no join times out late, and the argument *)
(* for whole records (DeliveryInv) needs no assumption about timeouts.      *)
(***************************************************************************)
Accounted(c, d) == /\ acked[c][d] > 0 => Held(c, d)
                   /\ c \in unsent[d] \/ Held(c, d)

Undiminished == /\ DeliveryInv
                /\ \A c \in Customers, d \in RequiredDomains : Accounted(c, d)

LEMMA LateJoinsAreOver ==
    ASSUME Undiminished, PendingIsPartial, NEW c \in Customers, Expire(c)
    PROVE  Early(c)
<1> SUFFICES ASSUME ~Early(c) PROVE FALSE
  OBVIOUS
<1>1. \A d \in RequiredDomains : Held(c, d)
  BY DEF Undiminished, Accounted, Early
<1>2. \A t \in Tasks : ~Writing(t, c)
  BY DEF Writing, Early
<1>3. RequiredDomains \subseteq DOMAIN pending[c].revs
  BY <1>1, <1>2 DEF Held, Early
<1> QED
  BY <1>3 DEF Expire, PendingIsPartial

LEMMA UndisturbedStep ==
    ASSUME Undiminished, PendingIsPartial, [Next]_vars, ~Disturbance
    PROVE  Undiminished'
<1>1. LosesNothing
  BY LateJoinsAreOver DEF Disturbance, LosesNothing, Calm
<1>2. DeliveryInv'
  BY <1>1, CalmStep DEF Undiminished, LosesNothing
<1>3. HoldsOn
  BY <1>1, HoldsStep DEF Undiminished
<1>4. ASSUME NEW c \in Customers, NEW d \in RequiredDomains
      PROVE  Accounted(c, d)'
  BY <1>3 DEF HoldsOn, Confirmed, Undiminished, Accounted
<1> QED
  BY <1>2, <1>4 DEF Undiminished

LEMMA StutterDisturbsNothing == ASSUME IInv, UNCHANGED vars PROVE ~Disturbance
<1>1. \A kind : ~Fault(kind)
  BY DEF Fault, vars, IInv, TypeOK
<1>2. \A c \in Customers : ~Expire(c)
  BY DEF Expire, vars, joinVars, IInv, TypeOK, JoinsOK, IsJoin
<1> QED
  BY <1>1, <1>2 DEF Disturbance, CallFails, EnrichCallFails, PostLost, CacheRestarts, CdcRestarts

-----------------------------------------------------------------------------
(***************************************************************************)
(* The invariant: undisturbed, the assembly is as above and what the        *)
(* gateway read, keeps and answered is whole.                               *)
(***************************************************************************)
ReadsWhole == /\ retrieval.pc = "offers" => Whole(retrieval.record)
              /\ answer.kind = "packet" => Whole(answer.packet)
              /\ answer.kind = "offers" => "commercial_state" \in DOMAIN answer.packet

WholeInv == RetrievalOK /\ (~disturbed => Undiminished /\ ReadsWhole)

LEMMA WholePacket ==
    ASSUME NEW r, Whole(r), NEW hit
    PROVE  Whole(Packet(r, hit))
<1> DEFINE fields == [assembly_state  |-> Default(r, "assembly_state", "complete"),
                      missing_domains |-> Default(r, "missing_domains", {}),
                      cache_hit       |-> hit]
<1>1. /\ DOMAIN fields = {"assembly_state", "missing_domains", "cache_hit"}
      /\ fields["assembly_state"] = "complete"
      /\ fields["missing_domains"] = {}
  BY DEF Whole, Default
<1> HIDE DEF fields
<1>2. Whole(Update(r, fields))
  BY <1>1 DEF Whole, Update
<1> QED
  BY <1>2 DEF Packet, fields

LEMMA WholeOffers ==
    ASSUME NEW r, Whole(r), NEW hit
    PROVE  "commercial_state" \in DOMAIN OffersPacket(r, hit)
BY DEF Whole, OffersPacket, FieldGroups, FieldGroup, RequiredDomains

\* Found with a whole record.
LEMMA WholeFound ==
    ASSUME RetrievalOK, ReadsWhole, NEW r, Whole(r), NEW hit, Found(r, hit)
    PROVE  ReadsWhole'
<1>1. CASE Reply("packet", Packet(r, hit))
  BY <1>1, WholePacket DEF Reply, NoRetrieval, ReadsWhole
<1>2. CASE /\ retrieval' = [retrieval EXCEPT !.pc = "offers", !.hit = hit, !.record = r]
           /\ UNCHANGED answer
  BY <1>2 DEF ReadsWhole, RetrievalOK
<1> QED
  BY <1>1, <1>2 DEF Found

LEMMA ReadStaysWhole ==
    ASSUME RetrievalOK, TiersAgree, RecordsWhole, ReadsWhole, Read
    PROVE  ReadsWhole'
<1>1. CASE \E c \in Customers, plan \in Plans : Retrieve(c, plan)
  BY <1>1 DEF Retrieve, NoRetrieval, ReadsWhole
<1>2. CASE CacheRead
  <2>1. CASE Exists(hot[retrieval.cust])
    BY <1>2, <2>1, WholeFound DEF CacheRead, RetrievalOK, RecordsWhole
  <2>2. CASE ~Exists(hot[retrieval.cust])
    BY <1>2, <2>2 DEF CacheRead, RetrievalOK, ReadsWhole
  <2> QED
    BY <2>1, <2>2
<1>3. CASE CacheReadPermanent
  <2>1. CASE Exists(permanent[retrieval.cust])
    BY <1>3, <2>1, WholeFound DEF CacheReadPermanent, RetrievalOK, RecordsWhole, TiersAgree
  <2>2. CASE ~Exists(permanent[retrieval.cust])
    BY <1>3, <2>2 DEF CacheReadPermanent, Reply, NoRetrieval, ReadsWhole
  <2> QED
    BY <2>1, <2>2
<1>4. CASE FetchCompatibleOffers
  <2>1. "commercial_state" \in DOMAIN OffersPacket(retrieval.record, retrieval.hit)
    BY <1>4, WholeOffers DEF FetchCompatibleOffers, ReadsWhole
  <2> QED
    BY <1>4, <2>1 DEF FetchCompatibleOffers, Reply, NoRetrieval, ReadsWhole
<1>5. CASE RetrievalFails
  BY <1>5 DEF RetrievalFails, Reply, NoRetrieval, ReadsWhole
<1> QED
  BY <1>1, <1>2, <1>3, <1>4, <1>5 DEF Read

LEMMA WholeInit == RInit => WholeInv
<1> SUFFICES ASSUME RInit PROVE WholeInv
  OBVIOUS
<1>1. RetrievalOK /\ ReadsWhole
  BY DEF RInit, NoRetrieval, NoAnswer, RetrievalOK, ReadsWhole
<1>2. Undiminished
  BY DeliveryInit DEF RInit, Init, SorInit, Undiminished, Accounted
<1> QED
  BY <1>1, <1>2 DEF WholeInv

LEMMA WholeStep ==
    ASSUME Assembled, WholeInv, [RNext]_rvars
    PROVE  WholeInv'
<1>1. RetrievalOK'
  BY RetrievalStep DEF WholeInv
<1>2. ASSUME ~disturbed'
      PROVE  Undiminished' /\ ReadsWhole'
  <2>1. CASE Assemble
    <3>1. ~disturbed /\ ~Disturbance /\ Next
      BY <1>2, <2>1 DEF Assemble, WholeInv, RetrievalOK
    <3>2. Undiminished'
      BY <3>1, UndisturbedStep DEF WholeInv, Assembled
    <3> QED
      BY <2>1, <3>1, <3>2 DEF Assemble, readVars, WholeInv, ReadsWhole
  <2>2. CASE Read
    <3>1. ~disturbed /\ UNCHANGED vars
      BY <1>2, <2>2 DEF Read
    <3>2. Undiminished'
      BY <3>1, UndisturbedStep, StutterDisturbsNothing DEF WholeInv, Assembled
    <3>3. ReadsWhole'
      BY <2>2, <3>1, ReadStaysWhole DEF WholeInv, Assembled, Undiminished, DeliveryInv
    <3> QED
      BY <3>2, <3>3
  <2>3. CASE UNCHANGED rvars
    <3>1. ~disturbed /\ UNCHANGED vars /\ UNCHANGED readVars
      BY <1>2, <2>3 DEF rvars
    <3>2. Undiminished'
      BY <3>1, UndisturbedStep, StutterDisturbsNothing DEF WholeInv, Assembled
    <3> QED
      BY <3>1, <3>2 DEF readVars, WholeInv, ReadsWhole
  <2> QED
    BY <2>1, <2>2, <2>3 DEF RNext
<1> QED
  BY <1>1, <1>2 DEF WholeInv

LEMMA AlwaysWhole == RSpec => [](Assembled /\ WholeInv)
BY AlwaysAssembled, WholeInit, WholeStep, PTL DEF RSpec

(***************************************************************************)
(* Undisturbed, an agent is served whole contexts only, and offers that     *)
(* were computed from a billing state (acg_app.py, the two retrieval plans; *)
(* cdc_app.py, process_event).                                              *)
(***************************************************************************)
THEOREM AnswersAlwaysWhole == RSpec => []AnswersWhole
<1>1. WholeInv => AnswersWhole
  BY DEF WholeInv, ReadsWhole, Whole, AnswersWhole
<1> QED
  BY <1>1, AlwaysWhole, PTL

(***************************************************************************)
(* Undisturbed, an agent that is answered 404 asked for a customer of whom  *)
(* a domain was never confirmed, or whose record is just being written      *)
(* (cdc_app.py, process_event; acg_app.py, the fallback to the permanent    *)
(* store).                                                                  *)
(***************************************************************************)
THEOREM ConfirmedAreFound == RSpec => FoundOnceAcked
<1> DEFINE Excuse == NotFound /\ ~disturbed =>
              \/ \E d \in RequiredDomains : acked[retrieval.cust][d] = 0
              \/ \E t \in Tasks : Writing(t, retrieval.cust)
<1>1. Assembled /\ WholeInv /\ [RNext]_rvars => [Excuse]_rvars
  <2> SUFFICES ASSUME Assembled, WholeInv, NotFound, ~disturbed,
                      \A d \in RequiredDomains : acked[retrieval.cust][d] # 0,
                      \A t \in Tasks : ~Writing(t, retrieval.cust)
               PROVE  FALSE
    OBVIOUS
  <2> DEFINE c == retrieval.cust
  <2>1. c \in Customers
    BY DEF NotFound, CacheReadPermanent, WholeInv, RetrievalOK
  <2>2. ~Exists(permanent[c])
    <3>1. Found(permanent[c], FALSE) \/ ~Exists(permanent[c])
      BY DEF NotFound, CacheReadPermanent
    <3>2. ~Found(permanent[c], FALSE)
      <4>1. retrieval'.pc = "idle" /\ answer'.kind = "404"
        BY DEF NotFound
      <4>2. \A packet : ~Reply("packet", packet)
        BY <4>1 DEF Reply
      <4>3. retrieval' # [retrieval EXCEPT !.pc = "offers", !.hit = FALSE, !.record = permanent[c]]
        BY <4>1 DEF WholeInv, RetrievalOK
      <4> QED
        BY <4>2, <4>3 DEF Found
    <3> QED
      BY <3>1, <3>2
  <2>3. ~Exists(hot[c])
    BY <2>1, <2>2 DEF Assembled, TiersAgree
  <2>4. \A d \in RequiredDomains : acked[c][d] > 0
    BY <2>1 DEF Assembled, IInv, TypeOK, SorOK
  <2>5. \A d \in RequiredDomains : Held(c, d)
    BY <2>1, <2>4 DEF WholeInv, Undiminished, Accounted
  <2>6. RequiredDomains \subseteq DOMAIN pending[c].revs
    BY <2>3, <2>5 DEF Held
  <2>7. Open(pending[c])
    BY <2>1, <2>6 DEF Assembled, IInv, TypeOK, JoinsOK, IsJoin, RequiredDomains
  <2> QED
    BY <2>1, <2>6, <2>7 DEF Assembled, PendingIsPartial
<1> QED
  BY <1>1, AlwaysWhole, PTL DEF RSpec, FoundOnceAcked

-----------------------------------------------------------------------------
(***************************************************************************)
(* Reading again.  The record behind the last answer is still there, at     *)
(* the version served or at a later one, and at the version served it is    *)
(* the one served.                                                          *)
(***************************************************************************)
Served(r, packet) ==
    /\ Exists(r)
    /\ packet["version"] \in Nat
    /\ packet["version"] <= r["version"]
    /\ packet["version"] = r["version"] => Context(packet) = Context(Packet(r, TRUE))

LastRead == answer.kind = "packet" => /\ answer.cust \in Customers
                                      /\ Served(hot[answer.cust], answer.packet)

\* The packet of a stored record carries its version ...
LEMMA PacketVersion ==
    ASSUME NEW r, IsStored(r), Exists(r), NEW hit
    PROVE  Packet(r, hit)["version"] = r["version"] /\ r["version"] \in Nat
BY DEF Packet, Update, IsStored, IsRecord

\* ... and, apart from cache_hit, does not depend on the tier.
LEMMA PacketContext ==
    ASSUME NEW r, NEW hit
    PROVE  Context(Packet(r, hit)) = Context(Packet(r, TRUE))
<1> DEFINE p(h) == Packet(r, h)
<1>1. \A h : /\ DOMAIN p(h) = DOMAIN r \cup {"assembly_state", "missing_domains", "cache_hit"}
             /\ p(h)["assembly_state"] = Default(r, "assembly_state", "complete")
             /\ p(h)["missing_domains"] = Default(r, "missing_domains", {})
             /\ \A k \in DOMAIN r \ {"assembly_state", "missing_domains", "cache_hit"} :
                   p(h)[k] = r[k]
  BY DEF Packet, Update
<1> HIDE DEF p
<1>2. /\ DOMAIN p(hit) \ {"cache_hit"} = DOMAIN p(TRUE) \ {"cache_hit"}
      /\ \A k \in DOMAIN p(hit) \ {"cache_hit"} : p(hit)[k] = p(TRUE)[k]
  BY <1>1
<1>3. Context(p(hit)) = Context(p(TRUE))
  BY <1>2 DEF Context
<1> QED
  BY <1>3 DEF p

LEMMA ServedByPacket ==
    ASSUME NEW r, IsStored(r), Exists(r), NEW hit
    PROVE  Served(r, Packet(r, hit)) /\ Packet(r, hit)["version"] = r["version"]
<1>1. PICK packet : packet = Packet(r, hit)
  OBVIOUS
<1>2. packet["version"] = r["version"] /\ r["version"] \in Nat
  BY <1>1, PacketVersion
<1>3. Context(packet) = Context(Packet(r, TRUE))
  BY <1>1, PacketContext
<1>4. Served(r, packet)
  BY <1>2, <1>3 DEF Served
<1> QED
  BY <1>1, <1>2, <1>4

\* A write leaves the record in place with a later version.
LEMMA ServedAgain ==
    ASSUME NEW r, IsStored(r), NEW packet, Served(r, packet), NEW body, NEW m
    PROVE  Served(Stored(r, body, m), packet)
<1>1. r["version"] \in Nat
  BY DEF Served, IsStored, IsRecord
<1>2. /\ Exists(Stored(r, body, m))
      /\ Stored(r, body, m)["version"] = r["version"] + 1
  BY StoredVersion DEF Served
<1>3. PICK next : next = Stored(r, body, m)
  OBVIOUS
<1>4. /\ packet["version"] \in Nat
      /\ packet["version"] <= r["version"]
  BY DEF Served
<1>5. Exists(next) /\ next["version"] = r["version"] + 1
  BY <1>2, <1>3 DEF Exists
<1>6. packet["version"] <= next["version"] /\ packet["version"] # next["version"]
  BY <1>1, <1>4, <1>5
<1>7. Served(next, packet)
  BY <1>4, <1>5, <1>6 DEF Served
<1> QED
  BY <1>3, <1>7

LEMMA AssemblyKeepsServed ==
    ASSUME "cache_restart" \notin FaultKinds, IInv, [Next]_vars, LastRead, UNCHANGED answer
    PROVE  LastRead'
<1> SUFFICES ASSUME answer.kind = "packet" PROVE LastRead'
  BY DEF LastRead
<1> DEFINE c == answer.cust
<1>1. c \in Customers /\ Served(hot[c], answer.packet) /\ IsStored(hot[c]) /\ DOMAIN hot = Customers
  BY DEF LastRead, IInv, TypeOK, CacheOK
<1>2. hot'[c] = hot[c] \/ \E body, m : hot'[c] = Stored(hot[c], body, m)
  <2>1. CASE Written
    <3>1. PICK d \in Customers : \E body, m : hot' = [hot EXCEPT ![d] = Stored(hot[d], body, m)]
      BY <2>1 DEF Written, WriteRecord
    <3> QED
      BY <1>1, <3>1
  <2>2. CASE UNCHANGED cacheVars
    BY <2>2 DEF cacheVars
  <2> QED
    BY <2>1, <2>2, CacheStep DEF CacheRestarts, Fault
<1>3. Served(hot'[c], answer.packet)
  BY <1>1, <1>2, ServedAgain
<1> QED
  BY <1>1, <1>3 DEF LastRead

\* A retrieval that finds a record answers with it, if it answers at all.
LEMMA AnswersFound ==
    ASSUME Assembled, RetrievalOK, Read
    PROVE  \/ answer' = answer
           \/ /\ answer'.kind = "packet"
              /\ answer'.cust \in Customers
              /\ Served(hot[answer'.cust], answer'.packet)
              /\ answer'.packet["version"] = hot[answer'.cust]["version"]
           \/ answer'.kind = "404" /\ answer'.cust \in Customers /\ ~Exists(hot[answer'.cust])
           \/ answer'.kind \in {"offers", "500"}
<1> DEFINE c == retrieval.cust
<1>1. retrieval.pc # "idle" => /\ c \in Customers
                               /\ permanent[c] = hot[c]
                               /\ IsStored(hot[c])
  BY DEF RetrievalOK, Assembled, TiersAgree, IInv, TypeOK, CacheOK
<1>2. ASSUME NEW r, r = hot[c], NEW hit, Found(r, hit), Exists(hot[c]), retrieval.pc # "idle", answer' # answer
      PROVE  /\ answer'.kind = "packet" /\ answer'.cust = c
             /\ Served(hot[c], answer'.packet)
             /\ answer'.packet["version"] = hot[c]["version"]
  BY <1>1, <1>2, ServedByPacket DEF Found, Reply
<1>3. CASE \E d \in Customers, plan \in Plans : Retrieve(d, plan)
  BY <1>3 DEF Retrieve
<1>4. CASE CacheRead
  BY <1>1, <1>2, <1>4 DEF CacheRead
<1>5. CASE CacheReadPermanent
  <2>1. CASE Exists(hot[c])
    <3>1. Found(permanent[c], FALSE) /\ retrieval.pc # "idle" /\ permanent[c] = hot[c]
      BY <1>1, <1>5, <2>1 DEF CacheReadPermanent
    <3> QED
      BY <1>1, <1>2, <2>1, <3>1
  <2>2. CASE ~Exists(hot[c])
    <3>1. c \in Customers /\ ~Exists(permanent[c])
      BY <1>1, <1>5, <2>2 DEF CacheReadPermanent, Exists
    <3>2. Reply("404", NoRecord)
      BY <1>5, <3>1 DEF CacheReadPermanent
    <3> QED
      BY <2>2, <3>1, <3>2 DEF Reply
  <2> QED
    BY <2>1, <2>2
<1>6. CASE FetchCompatibleOffers \/ RetrievalFails
  BY <1>6 DEF FetchCompatibleOffers, RetrievalFails, Reply
<1> QED
  BY <1>3, <1>4, <1>5, <1>6 DEF Read

LEMMA ReadInit == RInit => RetrievalOK /\ LastRead
<1> SUFFICES ASSUME RInit PROVE RetrievalOK /\ LastRead
  OBVIOUS
<1>1. RetrievalOK
  BY WholeInit DEF WholeInv
<1>2. answer.kind # "packet"
  BY DEF RInit, NoAnswer
<1> QED
  BY <1>1, <1>2 DEF LastRead

(***************************************************************************)
(* While the cache keeps running, an agent that reads a customer again is   *)
(* never served an older version, nor a different context under the same    *)
(* version, and is not answered 404 (acg_app.py, CacheRead and              *)
(* CacheReadPermanent; cache_app.py, write_record).                         *)
(***************************************************************************)
THEOREM ReadsNeverGoBack ==
    ASSUME "cache_restart" \notin FaultKinds PROVE RSpec => ReadsAdvance
<1> DEFINE Onward == answer.kind = "packet" /\ answer'.cust = answer.cust =>
                       /\ answer'.kind # "404"
                       /\ answer'.kind = "packet" =>
                             /\ answer'.packet["version"] >= answer.packet["version"]
                             /\ answer'.packet["version"] = answer.packet["version"] =>
                                   Context(answer'.packet) = Context(answer.packet)
<1>1. Assembled /\ RetrievalOK /\ LastRead /\ [RNext]_rvars => RetrievalOK' /\ LastRead'
  <2> SUFFICES ASSUME Assembled, RetrievalOK, LastRead, [RNext]_rvars PROVE LastRead'
    BY RetrievalStep
  <2>1. CASE UNCHANGED answer
    BY <2>1, ReadsWriteNothing, AssemblyKeepsServed DEF Assembled
  <2>2. CASE Read
    <3>1. hot' = hot
      BY <2>2 DEF Read, vars, cacheVars
    <3> QED
      BY <2>2, <3>1, AnswersFound DEF LastRead
  <2> QED
    BY <2>1, <2>2 DEF RNext, Assemble, readVars, rvars
<1>2. Assembled /\ RetrievalOK /\ LastRead /\ [RNext]_rvars => [Onward]_rvars
  <2> SUFFICES ASSUME Assembled, RetrievalOK, LastRead, [RNext]_rvars,
                      answer.kind = "packet", answer'.cust = answer.cust
               PROVE  Onward
    OBVIOUS
  <2>1. Served(hot[answer.cust], answer.packet)
    BY DEF LastRead
  <2>2. CASE UNCHANGED answer
    BY <2>1, <2>2 DEF Served
  <2>3. CASE Read
    <3>1. CASE /\ answer'.kind = "packet"
               /\ Served(hot[answer'.cust], answer'.packet)
               /\ answer'.packet["version"] = hot[answer'.cust]["version"]
      <4>1. Context(answer'.packet) = Context(Packet(hot[answer.cust], TRUE))
        BY <3>1 DEF Served
      <4> QED
        BY <2>1, <3>1, <4>1 DEF Served
    <3>2. CASE answer'.kind \in {"offers", "500"}
      BY <3>2
    <3>3. ~(answer'.kind = "404" /\ ~Exists(hot[answer'.cust]))
      BY <2>1 DEF Served
    <3> QED
      BY <2>2, <2>3, <3>1, <3>2, <3>3, AnswersFound
  <2> QED
    BY <2>2, <2>3 DEF RNext, Assemble, readVars, rvars
<1> QED
  BY ReadInit, <1>1, <1>2, AlwaysAssembled, PTL DEF RSpec, ReadsAdvance
=============================================================================
