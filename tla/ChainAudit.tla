----------------------------- MODULE ChainAudit -----------------------------
(***************************************************************************)
(* Tamper evidence: PgEventStore.verifyStream, PgChainAnchorSealer and     *)
(* PgChainAnchorRunner, over the hashes the log's writers leave.           *)
(*                                                                         *)
(* An anchor's hash is, like an event's, all that went into it: the        *)
(* sequence of the member sets sealed so far.                              *)
(***************************************************************************)
EXTENDS EventLog

CONSTANTS
  Sealers, Verifiers,
  MaxSealErrors               \* bound: sealing transactions that fail

ASSUME AuditAssumption == MaxSealErrors \in Nat

VARIABLES
  anchors,    \* event_chain_anchors with their members, per tenant
  stage,      \* where a sealer is
  round,      \* tenants a sealer still has to visit, the one at work included
  sealing,    \* the tenant at work and the anchor_seq it read, if any
  heads,      \* the stream heads it read
  sealErrors, \* failures left
  reading,    \* what a verifier has read of a stream's events, if anything
  verdict     \* the result of its last verification

auditVars == <<anchors, stage, round, sealing, heads, sealErrors, reading, verdict>>

Heads == [stream : Streams, version : Nat, head : Hashes]
Anchors == [prev : Seq(SUBSET Heads), hash : Seq(SUBSET Heads), members : SUBSET Heads]

AuditTypeOK ==
  /\ anchors \in [Tenants -> Seq(Anchors)]
  /\ stage \in [Sealers -> {"idle", "round", "heads", "insert"}]
  /\ round \in [Sealers -> SUBSET Tenants]
  /\ sealing \in [Sealers -> SUBSET [tenant : Tenants, prev : Nat]]
  /\ heads \in [Sealers -> SUBSET Heads] /\ sealErrors \in Nat
  /\ reading \in [Verifiers -> SUBSET [stream : Streams, rows : SUBSET Rows]]
  /\ verdict \in [Verifiers -> {"none", "ok", "broken"}]

AuditInit ==
  /\ anchors = [t \in Tenants |-> <<>>]
  /\ stage = [z \in Sealers |-> "idle"] /\ round = [z \in Sealers |-> {}]
  /\ sealing = [z \in Sealers |-> {}] /\ heads = [z \in Sealers |-> {}]
  /\ sealErrors = MaxSealErrors
  /\ reading = [v \in Verifiers |-> {}] /\ verdict = [v \in Verifiers |-> "none"]

-----------------------------------------------------------------------------
(* verifyStream.                                                           *)

ChainedIn(rs) == {r \in rs : r.hash # NoHash}

\* From the first protected row on: no NULL hash, no gap, every hash the link
\* of its predecessor's to its event, and the last one the stored head.
Follows(rs, first, storedHead) ==
  LET tail == {r \in rs : r.version >= first.version}
      prev(r) == IF r = first THEN {Genesis} ELSE {q.hash : q \in {q \in tail : q.version = r.version - 1}}
  IN /\ \A r \in tail : r.hash # NoHash /\ \E h \in prev(r) : r.hash = Link(h, r.pos)
     /\ \E last \in tail : last.hash = storedHead /\ \A r \in tail : r.version <= last.version

\* Mistake: no protected event is left, so nothing is wrong.
WrongStreamVerdict(rs, storedHead) ==
  IF \A first \in ChainedIn(rs) :
       (\A r \in ChainedIn(rs) : first.version <= r.version) => Follows(rs, first, storedHead)
  THEN "ok" ELSE "broken"

StreamVerdict(rs, storedHead) ==
  IF \/ ChainedIn(rs) = {} /\ storedHead = NoHash
     \/ \E first \in ChainedIn(rs) :
          /\ \A r \in ChainedIn(rs) : first.version <= r.version
          /\ Follows(rs, first, storedHead)
  THEN "ok" ELSE "broken"

\* The first statement: all events of the stream, dismissed or not.
ReadEvents(v, s) ==
  /\ v \in deployed /\ reading[v] = {} /\ version[s] > 0
  /\ reading' = [reading EXCEPT ![v] = {[stream |-> s, rows |-> {r \in rows : r.stream = s}]}]
  /\ verdict' = [verdict EXCEPT ![v] = "none"]
  /\ UNCHANGED <<anchors, stage, round, sealing, heads, sealErrors>>

\* The second, which sees what was committed in between; then the walk.
Verify(v) ==
  /\ \E read \in reading[v] :
       verdict' = [verdict EXCEPT ![v] = StreamVerdict(read.rows, head[read.stream])]
  /\ reading' = [reading EXCEPT ![v] = {}]
  /\ UNCHANGED <<anchors, stage, round, sealing, heads, sealErrors>>

-----------------------------------------------------------------------------
(* PgChainAnchorRunner.runOnce and PgChainAnchorSealer.seal.               *)

\* computeAnchorHash.
AnchorHash(prev, members) == Append(prev, members)

HashOf(t, n) == IF n = 0 THEN <<>> ELSE anchors[t][n].hash

\* The members that name a stream, by anchor.
SealedAt(t, s, n) == {m \in anchors[t][n].members : m.stream = s}

\* The latest member of a stream (DISTINCT ON ... ORDER BY anchor_seq DESC).
LatestSealed(t, s) ==
  UNION {SealedAt(t, s, n) : n \in {n \in DOMAIN anchors[t] :
           \A later \in DOMAIN anchors[t] : later > n => SealedAt(t, s, later) = {}}}

\* tenantsWithChainedStreams, in a transaction of its own.
DiscoverChained(z) ==
  /\ z \in deployed /\ stage[z] = "idle"
  /\ round' = [round EXCEPT ![z] = {TenantOf[s] : s \in {s \in Streams : head[s] # NoHash}}]
  /\ round'[z] # {}
  /\ stage' = [stage EXCEPT ![z] = "round"]
  /\ UNCHANGED <<anchors, sealing, heads, sealErrors, reading, verdict>>

ReadAnchor(z, t) ==
  /\ stage[z] = "round" /\ t \in round[z]
  /\ sealing' = [sealing EXCEPT ![z] = {[tenant |-> t, prev |-> Len(anchors[t])]}]
  /\ stage' = [stage EXCEPT ![z] = "heads"]
  /\ UNCHANGED <<anchors, round, heads, sealErrors, reading, verdict>>

ReadHeads(z) ==
  /\ stage[z] = "heads"
  /\ \E job \in sealing[z] :
       heads' = [heads EXCEPT ![z] =
         {[stream |-> s, version |-> version[s], head |-> head[s]] :
            s \in {s \in Streams : TenantOf[s] = job.tenant /\ head[s] # NoHash}}]
  /\ stage' = [stage EXCEPT ![z] = "insert"]
  /\ UNCHANGED <<anchors, round, sealing, sealErrors, reading, verdict>>

\* Mistake: a stream is sealed once.
WrongOnceDelta(t, hs) == {h \in hs : LatestSealed(t, h.stream) = {}}

\* Streams that are new or have advanced.
Delta(t, hs) == {h \in hs : \A m \in LatestSealed(t, h.stream) : h.version > m.version}

\* Mistake: the next number is taken from the table as it is now.
WrongVacant(job) == TRUE

\* PRIMARY KEY (tenant_id, anchor_seq).
Vacant(job) == Len(anchors[job.tenant]) = job.prev

DoneWith(z, t) ==
  /\ round' = [round EXCEPT ![z] = @ \ {t}]
  /\ sealing' = [sealing EXCEPT ![z] = {}] /\ heads' = [heads EXCEPT ![z] = {}]
  /\ stage' = [stage EXCEPT ![z] = IF round[z] = {t} THEN "idle" ELSE "round"]

(* The sealed versions are read and the anchor and its members inserted    *)
(* and committed.  If another sealer came first the insert would violate   *)
(* the primary key, wherever between these statements it did.              *)
Seal(z) ==
  /\ stage[z] = "insert"
  /\ \E job \in sealing[z] :
       LET t == job.tenant
           members == Delta(t, heads[z])
           prev == HashOf(t, job.prev)
       IN /\ Vacant(job) /\ members # {}
          /\ anchors' = [anchors EXCEPT ![t] =
               Append(@, [prev |-> prev, hash |-> AnchorHash(prev, members), members |-> members])]
          /\ DoneWith(z, t)
  /\ UNCHANGED <<sealErrors, reading, verdict>>

\* Nothing has advanced, or the insert violates the primary key.
SealNothing(z) ==
  /\ stage[z] = "insert"
  /\ \E job \in sealing[z] :
       /\ Delta(job.tenant, heads[z]) = {} \/ ~Vacant(job)
       /\ DoneWith(z, job.tenant)
  /\ UNCHANGED <<anchors, sealErrors, reading, verdict>>

\* Reported through onError; the round goes on with the next tenant.
SealFails(z) ==
  /\ sealErrors > 0 /\ sealErrors' = sealErrors - 1
  /\ \E job \in sealing[z] : DoneWith(z, job.tenant)
  /\ UNCHANGED <<anchors, reading, verdict>>

SealerStep(z) ==
  \/ DiscoverChained(z) \/ ReadHeads(z) \/ Seal(z) \/ SealNothing(z)
  \/ \E t \in Tenants : ReadAnchor(z, t)

VerifierStep(v) == Verify(v) \/ \E s \in Streams : ReadEvents(v, s)

AuditStep ==
  \/ \E z \in Sealers : SealerStep(z) \/ SealFails(z)
  \/ \E v \in Verifiers : VerifierStep(v)

-----------------------------------------------------------------------------
(* verifyAnchors changes nothing: what it reports in a given state.  Its   *)
(* statements may be far apart, but what it has read never changes while   *)
(* it runs: anchors are only added, and events leave only with a partition *)
(* its transaction locks.                                                  *)

ChainHolds(t) ==
  \A n \in DOMAIN anchors[t] :
    /\ anchors[t][n].prev = HashOf(t, n - 1)
    /\ anchors[t][n].hash = AnchorHash(HashOf(t, n - 1), anchors[t][n].members)

StillThere(m) ==
  \E r \in rows : r.stream = m.stream /\ r.version = m.version /\ r.hash = m.head

AnchorsVerify(t) ==
  ChainHolds(t) /\ \A s \in Streams : \A m \in LatestSealed(t, s) : StillThere(m)
=============================================================================
