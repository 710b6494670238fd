------------------------------ MODULE EventLog ------------------------------
(***************************************************************************)
(* The event log as its other readers see it: PgEventStore.append with the *)
(* hash chain, dismissals and detached partitions.                         *)
(*                                                                         *)
(* A writer's transaction appends one batch to one stream.  An event is    *)
(* named by its global position, which the sequence hands out when the     *)
(* INSERT runs and not when it commits.  A keyed hash is modelled by what  *)
(* it stands for: HMAC(prev, event) is prev with the event appended, so    *)
(* two hashes are equal if and only if all that went into them is.         *)
(***************************************************************************)
EXTENDS Integers, Sequences, FiniteSets

CONSTANTS
  Writers, Streams, Tenants,
  TenantOf,                   \* the tenant of each stream
  AppendsTo,                  \* the streams each writer appends to ...
  ChainedBy,                  \* ... and those its store has chaining enabled for
  MaxPos, MaxBatch,           \* bounds: the position sequence, events per append
  MaxDismissed,               \* bound: dismissals
  PartitionEnds,              \* last positions of the partitions that may be detached
  Deployments                 \* the sets of processes and operator scripts to look at

Positions == 1 .. MaxPos

ASSUME LogAssumption ==
  /\ MaxPos \in Nat /\ MaxBatch \in Nat \ {0} /\ MaxDismissed \in Nat
  /\ TenantOf \in [Streams -> Tenants] /\ IsFiniteSet(Streams) /\ IsFiniteSet(Tenants)
  /\ AppendsTo \in [Writers -> SUBSET Streams] /\ ChainedBy \in [Writers -> SUBSET Streams]
  /\ PartitionEnds \subseteq Positions

VARIABLES
  deployed,   \* the one this behaviour is about
  nextPos,    \* the sequence behind events.global_position
  rows,       \* the events table
  version,    \* stream_versions.current_version (0: no row)
  head,       \* stream_versions.head_hash
  tx,         \* the transaction each writer has open, if any
  dismissed,  \* positions with dismissed_at set
  detached,   \* rows that left the table with their partition
  late        \* history: positions that became visible behind a later one of their tenant

logVars == <<deployed, nextPos, rows, version, head, tx, dismissed, detached, late>>

Genesis == <<>>
NoHash == <<0>>               \* NULL
Hashes == Seq(Positions) \cup {NoHash}
Rows == [pos : Positions, stream : Streams, version : Nat \ {0}, hash : Hashes]
Transactions == [stream : Streams, rows : SUBSET Rows, version : Nat, head : Hashes]

LogTypeOK ==
  /\ nextPos \in 1 .. MaxPos + 1
  /\ rows \subseteq Rows /\ detached \subseteq Rows
  /\ version \in [Streams -> Nat] /\ head \in [Streams -> Hashes]
  /\ tx \in [Writers -> SUBSET Transactions]
  /\ dismissed \subseteq Positions /\ late \subseteq Positions

LogInit ==
  /\ deployed \in Deployments
  /\ nextPos = 1 /\ rows = {}
  /\ version = [s \in Streams |-> 0] /\ head = [s \in Streams |-> NoHash]
  /\ tx = [w \in Writers |-> {}]
  /\ dismissed = {} /\ detached = {} /\ late = {}

TenantRows(t) == {r \in rows : TenantOf[r.stream] = t}

\* The row of stream_versions is locked by the transaction that wrote it.
StreamFree(s) == \A w \in Writers : \A open \in tx[w] : open.stream # s

\* computeEventHash.
Link(prev, event) == Append(prev, event)

\* chainBatch: the hash of the i-th of a batch of events.
ChainBatch(prev, events, i) == prev \o SubSeq(events, 1, i)

\* The hash a chained append starts from: head_hash, or genesis for a stream
\* that is new or whose events so far are not chained.
PrevHash(s) == IF head[s] = NoHash THEN Genesis ELSE head[s]

\* An append with chaining off bumps the version and leaves head_hash alone.
HeadAfter(s, chained, events) == IF chained THEN PrevHash(s) \o events ELSE head[s]

\* What a transaction holds that appended n events to a stream, numbered from
\* the position `first` on.
Appended(s, chained, first, n) ==
  LET events == [i \in 1 .. n |-> first + i - 1]
  IN [stream |-> s, version |-> version[s] + n,
      head |-> HeadAfter(s, chained, events),
      rows |-> {[pos |-> events[i], stream |-> s, version |-> version[s] + i,
                 hash |-> IF chained THEN ChainBatch(PrevHash(s), events, i) ELSE NoHash] :
                  i \in 1 .. n}]

\* The writer expects the current version: other appends are rejected and
\* leave nothing behind (module Session).
AppendBatch(w, s, n) ==
  /\ w \in deployed /\ tx[w] = {} /\ StreamFree(s)
  /\ nextPos + n - 1 <= MaxPos
  /\ tx' = [tx EXCEPT ![w] = {Appended(s, s \in ChainedBy[w], nextPos, n)}]
  /\ nextPos' = nextPos + n
  /\ UNCHANGED <<deployed, rows, version, head, dismissed, detached, late>>

Overtaken(t, pos) == \E r \in TenantRows(t) \cup detached : TenantOf[r.stream] = t /\ r.pos > pos

CommitAppend(w) ==
  /\ \E open \in tx[w] :
       /\ rows' = rows \cup open.rows
       /\ version' = [version EXCEPT ![open.stream] = open.version]
       /\ head' = [head EXCEPT ![open.stream] = open.head]
       /\ late' = late \cup {r.pos : r \in {q \in open.rows : Overtaken(TenantOf[q.stream], q.pos)}}
  /\ tx' = [tx EXCEPT ![w] = {}]
  /\ UNCHANGED <<deployed, nextPos, dismissed, detached>>

\* The positions are gone for good.
RollbackAppend(w) ==
  /\ tx[w] # {}
  /\ tx' = [tx EXCEPT ![w] = {}]
  /\ UNCHANGED <<deployed, nextPos, rows, version, head, dismissed, detached, late>>

Dismiss(pos) ==
  /\ "dismiss" \in deployed /\ Cardinality(dismissed) < MaxDismissed
  /\ \E r \in rows : r.pos = pos
  /\ dismissed' = dismissed \cup {pos}
  /\ UNCHANGED <<deployed, nextPos, rows, version, head, tx, detached, late>>

\* DETACH PARTITION takes an exclusive lock: writers have ended.  Whether
\* readers have is for LogReaders to say.
Detach(last) ==
  /\ "detach" \in deployed
  /\ \A w \in Writers : tx[w] = {}
  /\ last < nextPos
  /\ \E r \in rows : r.pos <= last
  /\ detached' = detached \cup {r \in rows : r.pos <= last}
  /\ rows' = {r \in rows : r.pos > last}
  /\ UNCHANGED <<deployed, nextPos, version, head, tx, dismissed, late>>

WriterStep(w) ==
  \/ \E s \in AppendsTo[w], n \in 1 .. MaxBatch : AppendBatch(w, s, n)
  \/ CommitAppend(w) \/ RollbackAppend(w)
=============================================================================
