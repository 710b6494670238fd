---------------------------- MODULE SessionProofs ----------------------------
(* Proofs about Session, for every value of its constants.                 *)
EXTENDS SessionProperties, FiniteSetTheorems, SequenceTheorems, TLAPS

-----------------------------------------------------------------------------
(* Type correctness.                                                       *)

\* The initial state is well typed.
LEMMA TypeInit == Init => TypeOK
<1> SUFFICES ASSUME Init PROVE TypeOK
  OBVIOUS
<1>1. NoSnapshot \in Snapshots /\ Fresh \in Aggregates
  BY DEF NoSnapshot, Snapshots, Fresh, Aggregates
<1>2. 1 \in Nat \ {0} /\ MaxEvents \in Nat
  BY SessionAssumption
<1>3. snaps \in [Streams -> Snapshots] /\ tracked \in [Clients -> [Streams -> Aggregates]]
  BY <1>1 DEF Init
<1>4. /\ via \in [Clients -> {"session", "repository"}]
      /\ order \in [Clients -> Seq(Streams)] /\ ops \in [Clients -> Seq(Operations)]
  BY DEF Init
<1>5. version \in [Streams -> Nat] /\ wVersion \in [Clients -> [Streams -> Nat]]
  BY DEF Init, NoWrite
<1>6. wRows \in [Clients -> SUBSET Rows] /\ basis \in [Events -> (SUBSET Events) \cup {NotDecided}]
  BY DEF Init
<1>7. reading \in [Clients -> SUBSET [stream : Streams, snap : Snapshots]]
  BY DEF Init
<1>8. /\ pc \in [Clients -> {"idle", "loading", "saving", "gate", "failed"}]
      /\ at \in [Clients -> Nat \ {0}] /\ expect \in [Clients -> Nat]
  BY <1>2 DEF Init
<1>9. /\ rows \subseteq Rows /\ dismissed \subseteq Events
      /\ lastEvent \in 0 .. MaxEvents /\ faults \in Nat
      /\ mine \in [Clients -> SUBSET Events] /\ overtaken \in [Clients -> SUBSET Streams]
  BY <1>2, SessionAssumption DEF Init
<1> QED BY <1>3, <1>4, <1>5, <1>6, <1>7, <1>8, <1>9 DEF TypeOK

\* What a save does to the transaction when it ends keeps it well typed.
LEMMA EndTxType ==
  ASSUME TypeOK, NEW c \in Clients, EndTx(c)
  PROVE  /\ at' \in [Clients -> Nat \ {0}] /\ expect' \in [Clients -> Nat]
         /\ wVersion' \in [Clients -> [Streams -> Nat]]
         /\ wRows' \in [Clients -> SUBSET Rows]
BY DEF TypeOK, EndTx, NoWrite

\* A new event is one of Events.
LEMMA CreateType ==
  ASSUME TypeOK, NEW c \in Clients, Create(c)
  PROVE  /\ lastEvent' \in Events /\ lastEvent' \in 0 .. MaxEvents
         /\ mine' \in [Clients -> SUBSET Events]
BY SessionAssumption DEF TypeOK, Create, Events

\* A queued operation is well typed.
LEMMA QueueType ==
  ASSUME TypeOK, NEW c \in Clients, NEW kind, NEW s \in Streams,
         NEW expected \in Nat \cup {Unknown}, Queue(c, kind, s, expected)
  PROVE  TypeOK'
<1>1. lastEvent' \in Events /\ lastEvent' \in 0 .. MaxEvents /\ mine' \in [Clients -> SUBSET Events]
  BY CreateType DEF Queue
<1> DEFINE op == [kind |-> IF kind = "startStream" THEN kind ELSE "append", stream |-> s,
                  expected |-> expected, events |-> <<lastEvent'>>]
<1>2. op \in Operations
  BY <1>1 DEF Operations
<1> HIDE DEF op
<1>3. ops[c] \in Seq(Operations)
  BY DEF TypeOK
<1>4. Append(ops[c], op) \in Seq(Operations)
  BY <1>2, <1>3
<1>5. ops' = [ops EXCEPT ![c] = Append(@, op)]
  BY DEF Queue, op
<1>6. ops' \in [Clients -> Seq(Operations)]
  BY <1>4, <1>5 DEF TypeOK
<1> QED BY <1>1, <1>6 DEF Queue, TypeOK, dbVars, saveVars

\* The aggregate a load puts in the identity map is well typed.
LEMMA TrackType ==
  ASSUME TypeOK, NEW c \in Clients, NEW s \in Streams, NEW agg \in Aggregates, Track(c, s, agg)
  PROVE  /\ tracked' \in [Clients -> [Streams -> Aggregates]]
         /\ order' \in [Clients -> Seq(Streams)]
         /\ overtaken' \in [Clients -> SUBSET Streams]
<1>1. Append(order[c], s) \in Seq(Streams) /\ order[c] \in Seq(Streams)
  BY DEF TypeOK
<1> QED BY <1>1 DEF TypeOK, Track

\* A load makes an aggregate of a snapshot and a history, with nothing pending.
LEMMA LoadTracks ==
  ASSUME TypeOK, NEW c \in Clients, LoadStream(c)
  PROVE  \E load \in reading[c], agg \in Aggregates :
           load.stream \in Streams /\ agg.pending = <<>> /\ Track(c, load.stream, agg)
<1>1. PICK load \in reading[c], last \in Nat :
        Track(c, load.stream, [version |-> last, pending |-> <<>>,
              state |-> load.snap.state \cup EventsIn(Replayed(load.stream, load.snap))])
  <2>1. \A load \in reading[c] : load.snap.version \in Nat
    BY DEF TypeOK, Snapshots
  <2>2. \A load \in reading[c] : \A r \in Replayed(load.stream, load.snap) : r.version \in Nat
    BY DEF TypeOK, Replayed, Rows
  <2> QED BY <2>1, <2>2 DEF LoadStream
<1>2. load.stream \in Streams /\ load.snap.state \in SUBSET Events
  BY DEF TypeOK, Snapshots
<1>3. EventsIn(Replayed(load.stream, load.snap)) \in SUBSET Events
  BY DEF TypeOK, Replayed, Rows, EventsIn
<1>4. [version |-> last, pending |-> <<>>,
       state |-> load.snap.state \cup EventsIn(Replayed(load.stream, load.snap))] \in Aggregates
  BY <1>2, <1>3 DEF Aggregates
<1> PICK agg \in Aggregates :
      agg = [version |-> last, pending |-> <<>>,
             state |-> load.snap.state \cup EventsIn(Replayed(load.stream, load.snap))]
  BY <1>4
<1> QED BY <1>1, <1>2

\* A load keeps the state well typed.
LEMMA LoadType ==
  ASSUME TypeOK, NEW c \in Clients, LoadStream(c) PROVE TypeOK'
<1>1. PICK load \in reading[c], agg \in Aggregates : load.stream \in Streams /\ Track(c, load.stream, agg)
  BY LoadTracks
<1>2. /\ tracked' \in [Clients -> [Streams -> Aggregates]]
      /\ order' \in [Clients -> Seq(Streams)]
      /\ overtaken' \in [Clients -> SUBSET Streams]
  BY <1>1, TrackType
<1> QED BY <1>2 DEF LoadStream, TypeOK, GoTo, dbVars, saveVars

\* The updates of an aggregate keep it well typed.
LEMMA AggregateUpdate ==
  ASSUME NEW agg \in Aggregates, NEW pending \in Seq(Events), NEW state \in SUBSET Events, NEW v \in Nat
  PROVE  /\ [agg EXCEPT !.pending = pending] \in Aggregates
         /\ [agg EXCEPT !.state = state, !.pending = pending] \in Aggregates
         /\ [agg EXCEPT !.version = v] \in Aggregates
BY DEF Aggregates

\* Raising an event changes one aggregate, in memory.
LEMMA RaiseType ==
  ASSUME TypeOK, NEW c \in Clients, NEW s \in Streams, Raise(c, s) PROVE TypeOK'
<1>1. lastEvent' \in Events /\ lastEvent' \in 0 .. MaxEvents /\ mine' \in [Clients -> SUBSET Events]
  BY CreateType DEF Raise
<1>2. tracked[c][s] \in Aggregates
  BY DEF TypeOK
<1> DEFINE agg == [tracked[c][s] EXCEPT !.state = @ \cup {lastEvent'}, !.pending = Append(@, lastEvent')]
<1>3. agg \in Aggregates
  <2>1. tracked[c][s].state \cup {lastEvent'} \in SUBSET Events
    BY <1>1, <1>2 DEF Aggregates
  <2>2. Append(tracked[c][s].pending, lastEvent') \in Seq(Events)
    BY <1>1, <1>2 DEF Aggregates
  <2> QED BY <1>2, <2>1, <2>2, AggregateUpdate
<1>4. tracked' = [tracked EXCEPT ![c] = [tracked[c] EXCEPT ![s] = agg]]
  BY DEF Raise, TypeOK
<1> HIDE DEF agg
<1>5. tracked' \in [Clients -> [Streams -> Aggregates]]
  BY <1>3, <1>4 DEF TypeOK
<1>6. basis' \in [Events -> (SUBSET Events) \cup {NotDecided}]
  BY <1>1, <1>2 DEF Raise, TypeOK, Aggregates
<1> QED BY <1>1, <1>5, <1>6 DEF Raise, TypeOK, dbVars, saveVars

\* Pending events become operations.
LEMMA BeginType ==
  ASSUME TypeOK, NEW c \in Clients, BeginSave(c) PROVE TypeOK'
<1>1. PICK streams \in [1 .. Cardinality(Dirty(c)) -> Dirty(c)] :
        ops' = [ops EXCEPT ![c] = Submitted(c, [i \in DOMAIN streams |-> PulledOp(c, streams[i])])]
  BY DEF BeginSave
<1> DEFINE n == Cardinality(Dirty(c))
           pulled == [i \in 1 .. n |-> PulledOp(c, streams[i])]
<1>2. n \in Nat
  BY FS_Subset, FS_CardinalityType, SessionAssumption DEF Dirty
<1>3. \A s \in Streams : PulledOp(c, s) \in Operations
  BY DEF PulledOp, Operations, TypeOK, Aggregates
<1>4. pulled \in Seq(Operations)
  <2>1. \A i \in 1 .. n : PulledOp(c, streams[i]) \in Operations
    BY <1>1, <1>3 DEF Dirty
  <2> HIDE DEF n
  <2> QED BY <1>2, <2>1, IsASeq
<1>5. ops[c] \o pulled \in Seq(Operations)
  <2> HIDE DEF pulled
  <2> QED BY <1>4 DEF TypeOK
<1>6. ops' \in [Clients -> Seq(Operations)]
  BY <1>1, <1>5 DEF TypeOK, Submitted
<1>7. tracked' \in [Clients -> [Streams -> Aggregates]]
  <2>1. \A s \in Streams : [tracked[c][s] EXCEPT !.pending = <<>>] \in Aggregates
    <3>1. <<>> \in Seq(Events) /\ {} \in SUBSET Events
      OBVIOUS
    <3>2. \A s \in Streams : tracked[c][s] \in Aggregates
      BY DEF TypeOK
    <3> QED BY <3>1, <3>2, AggregateUpdate
  <2>2. tracked' = [tracked EXCEPT ![c] = [s \in Streams |-> [tracked[c][s] EXCEPT !.pending = <<>>]]]
    BY DEF BeginSave
  <2> QED BY <2>1, <2>2 DEF TypeOK
<1> QED BY <1>6, <1>7 DEF BeginSave, TypeOK, GoTo, dbVars, saveVars, historyVars

\* appendUnsafe reads a version.
LEMMA ResolveType ==
  ASSUME TypeOK, NEW c \in Clients, ResolveVersion(c) PROVE TypeOK'
<1>1. at[c] \in DOMAIN ops[c]
  BY DEF ResolveVersion, HasOp, TypeOK
<1>2. Op(c) \in Operations
  BY <1>1 DEF Op, TypeOK
<1>3. Visible(c, Op(c).stream) \in Nat
  <2>1. Op(c).stream \in Streams
    BY <1>2 DEF Operations
  <2> QED BY <2>1 DEF Visible, TypeOK
<1> QED BY <1>3 DEF ResolveVersion, TypeOK, GoTo, dbVars, memVars, historyVars

\* An operation about to run, and the version it expects, are well typed.
LEMMA OpType ==
  ASSUME TypeOK, NEW c \in Clients, GateOpen(c)
  PROVE  /\ Op(c) \in Operations /\ Op(c).stream \in Streams
         /\ Op(c).events \in Seq(Events) /\ Len(Op(c).events) \in Nat
         /\ Expected(c) \in Nat /\ Visible(c, Op(c).stream) \in Nat
<1>1. at[c] \in DOMAIN ops[c]
  BY DEF GateOpen, HasOp, TypeOK
<1>2. Op(c) \in Operations
  BY <1>1 DEF Op, TypeOK
<1>3. Op(c).stream \in Streams /\ Op(c).events \in Seq(Events) /\ Op(c).expected \in Nat \cup {Unknown}
  BY <1>2 DEF Operations
<1>4. Expected(c) \in Nat
  BY <1>3 DEF GateOpen, Expected, TypeOK
<1>5. Visible(c, Op(c).stream) \in Nat
  BY <1>3 DEF Visible, TypeOK
<1> QED BY <1>2, <1>3, <1>4, <1>5

\* The rows an append inserts are well typed.
LEMMA AppendType ==
  ASSUME TypeOK, NEW c \in Clients, AppendOp(c) PROVE TypeOK'
<1> DEFINE op == Op(c)
           base == Expected(c)
           next == base + Len(op.events)
           new == {[stream |-> op.stream, version |-> base + i, event |-> op.events[i]] :
                     i \in DOMAIN op.events}
<1>1. /\ op.stream \in Streams /\ op.events \in Seq(Events)
      /\ base \in Nat /\ next \in Nat
  BY OpType DEF AppendOp
<1>2. new \subseteq Rows
  BY <1>1 DEF Rows
<1>3. wVersion' \in [Clients -> [Streams -> Nat]]
  <2> HIDE DEF op, base, next
  <2>1. wVersion' = [wVersion EXCEPT ![c][op.stream] = next]
    BY DEF AppendOp, op, base, next
  <2> QED BY <1>1, <2>1 DEF TypeOK
<1>4. wRows' = [wRows EXCEPT ![c] = @ \cup new]
  BY DEF AppendOp
<1>5. wRows' \in [Clients -> SUBSET Rows]
  <2> HIDE DEF new
  <2> QED BY <1>2, <1>4 DEF TypeOK
<1>6. tracked' \in [Clients -> [Streams -> Aggregates]]
  <2> HIDE DEF op, base, next
  <2>1. tracked' = tracked \/ tracked' = [tracked EXCEPT ![c][op.stream].version = next]
    BY DEF AppendOp, Advanced, op, base, next
  <2>2. tracked[c][op.stream] \in Aggregates
    BY <1>1 DEF TypeOK
  <2>3. [tracked[c][op.stream] EXCEPT !.version = next] \in Aggregates
    <3>1. <<>> \in Seq(Events) /\ {} \in SUBSET Events
      OBVIOUS
    <3> QED BY <1>1, <2>2, <3>1, AggregateUpdate
  <2>4. CASE tracked' = tracked
    BY <2>4 DEF TypeOK
  <2>5. CASE tracked' = [tracked EXCEPT ![c][op.stream].version = next]
    <3> DEFINE agg == [tracked[c][op.stream] EXCEPT !.version = next]
    <3>1. tracked' = [tracked EXCEPT ![c] = [tracked[c] EXCEPT ![op.stream] = agg]]
      BY <1>1, <2>5 DEF TypeOK
    <3> HIDE DEF agg
    <3>2. agg \in Aggregates
      BY <2>3 DEF agg
    <3> QED BY <1>1, <3>1, <3>2 DEF TypeOK
  <2> QED BY <2>1, <2>4, <2>5
<1>7. at' \in [Clients -> Nat \ {0}]
  BY DEF AppendOp, TypeOK
<1> HIDE DEF op, base, next, new
<1> QED BY <1>3, <1>5, <1>6, <1>7 DEF AppendOp, TypeOK, GoTo, dbVars, historyVars

\* A save that fails keeps the state well typed.
LEMMA RollbackType ==
  ASSUME TypeOK, NEW c \in Clients, Rollback(c), faults' \in Nat PROVE TypeOK'
<1>1. EndTx(c)
  BY DEF Rollback
<1> QED BY <1>1, EndTxType DEF Rollback, TypeOK, GoTo, dbVars, memVars, historyVars

\* What the transaction wrote is well typed, and so are the snapshots.
LEMMA PublishType ==
  ASSUME TypeOK, NEW c \in Clients, Publish(c)
  PROVE  /\ version' \in [Streams -> Nat] /\ rows' \subseteq Rows
         /\ snaps' \in [Streams -> Snapshots] /\ overtaken' \in [Clients -> SUBSET Streams]
<1>1. \A s \in Streams : Visible(c, s) \in Nat
  BY DEF Visible, TypeOK
<1>2. version' \in [Streams -> Nat]
  BY <1>1 DEF Publish
<1>3. rows' \subseteq Rows
  BY DEF Publish, TypeOK
<1>4. \A s \in Streams : SnapshotState(c, s) \in SUBSET Events
  <2> TAKE s \in Streams
  <2>1. tracked[c][s] \in Aggregates /\ wRows[c] \subseteq Rows
    BY DEF TypeOK
  <2>2. tracked[c][s].state \in SUBSET Events
    BY <2>1 DEF Aggregates
  <2>3. EventsIn({r \in wRows[c] : r.stream = s}) \in SUBSET Events
    BY <2>1 DEF EventsIn, Rows
  <2> QED BY <2>2, <2>3 DEF SnapshotState
<1>5. snaps' \in [Streams -> Snapshots]
  <2>1. \A s \in Streams : wVersion[c][s] \in Nat /\ snaps[s] \in Snapshots
    BY DEF TypeOK
  <2>2. \A s \in Streams : [version |-> wVersion[c][s], state |-> SnapshotState(c, s)] \in Snapshots
    BY <1>4, <2>1 DEF Snapshots
  <2> QED BY <2>1, <2>2 DEF Publish
<1>6. overtaken' \in [Clients -> SUBSET Streams]
  BY DEF Publish, TypeOK
<1> QED BY <1>2, <1>3, <1>5, <1>6

\* A commit, whether the client learns of it or not, keeps the state well typed.
LEMMA CommitType ==
  ASSUME TypeOK, NEW c \in Clients, Commit(c) \/ CommitUnknown(c) PROVE TypeOK'
<1>1. Publish(c) /\ EndTx(c)
  BY DEF Commit, CommitUnknown, Publish
<1>2. ops' \in [Clients -> Seq(Operations)] /\ mine' \in [Clients -> SUBSET Events]
  <2>1. <<>> \in Seq(Operations) /\ {} \in SUBSET Events
    OBVIOUS
  <2>2. ops' = [ops EXCEPT ![c] = <<>>] \/ ops' = ops
    BY DEF Commit, CommitUnknown
  <2>3. mine' = [mine EXCEPT ![c] = {}] \/ mine' = mine
    BY DEF Commit, CommitUnknown
  <2> QED BY <2>1, <2>2, <2>3 DEF TypeOK
<1>3. faults' \in Nat
  BY DEF Commit, CommitUnknown, Fault, TypeOK
<1>4. pc' \in [Clients -> {"idle", "loading", "saving", "gate", "failed"}]
  BY DEF Commit, CommitUnknown, GoTo, TypeOK
<1>5. UNCHANGED <<dismissed, via, order, tracked, reading, lastEvent, basis>>
  BY <1>1 DEF Publish
<1> QED BY <1>1, <1>2, <1>3, <1>4, <1>5, PublishType, EndTxType DEF TypeOK

\* A new session starts empty.
LEMMA NewSessionType ==
  ASSUME TypeOK, NEW c \in Clients, NewSession(c) PROVE TypeOK'
<1>1. [s \in Streams |-> Fresh] \in [Streams -> Aggregates]
  BY DEF Fresh, Aggregates
<1>2. <<>> \in Seq(Streams) /\ <<>> \in Seq(Operations)
  OBVIOUS
<1>4. via' \in [Clients -> {"session", "repository"}]
  BY DEF NewSession, TypeOK
<1> DEFINE fresh == [s \in Streams |-> Fresh]
<1>3. tracked' = [tracked EXCEPT ![c] = fresh] /\ fresh \in [Streams -> Aggregates]
  BY <1>1 DEF NewSession
<1> HIDE DEF fresh
<1> QED BY <1>2, <1>3, <1>4 DEF NewSession, TypeOK, GoTo, dbVars, saveVars

\* Every step keeps the state well typed.
LEMMA TypeStep == TypeOK /\ [Next]_vars => TypeOK'
<1> SUFFICES ASSUME TypeOK, [Next]_vars PROVE TypeOK'
  OBVIOUS
<1>1. CASE UNCHANGED vars
  BY <1>1 DEF TypeOK, vars, dbVars, memVars, saveVars, historyVars
<1>2. ASSUME NEW c \in Clients, SaveStep(c) PROVE TypeOK'
  <2>1. CASE ResolveVersion(c)
    BY <2>1, ResolveType
  <2>2. CASE AppendOp(c)
    BY <2>2, AppendType
  <2>3. CASE Reject(c) \/ DeadlockVictim(c)
    <3>1. Rollback(c) /\ faults' = faults
      BY <2>3 DEF Reject, DeadlockVictim
    <3>2. faults' \in Nat
      BY <3>1 DEF TypeOK
    <3> QED BY <3>1, <3>2, RollbackType
  <2>4. CASE Commit(c)
    BY <2>4, CommitType
  <2> QED BY <1>2, <2>1, <2>2, <2>3, <2>4 DEF SaveStep
<1>3. ASSUME NEW c \in Clients, NEW s \in Streams,
             \/ StartStream(c, s) \/ AppendEvents(c, s) \/ AppendUnsafe(c, s)
             \/ LoadSnapshotRow(c, s) \/ LoadSnapshotOnly(c, s) \/ Raise(c, s)
      PROVE  TypeOK'
  <2>1. CASE StartStream(c, s)
    BY <2>1, QueueType DEF StartStream
  <2>2. CASE AppendEvents(c, s)
    <3>1. version[s] \in Nat
      BY DEF TypeOK
    <3> QED BY <2>2, <3>1, QueueType DEF AppendEvents
  <2>3. CASE AppendUnsafe(c, s)
    BY <2>3, QueueType DEF AppendUnsafe
  <2>4. CASE LoadSnapshotRow(c, s)
    <3>1. [stream |-> s, snap |-> snaps[s]] \in [stream : Streams, snap : Snapshots]
      BY DEF TypeOK
    <3>2. reading' = [reading EXCEPT ![c] = {[stream |-> s, snap |-> snaps[s]]}]
      BY <2>4 DEF LoadSnapshotRow
    <3>3. reading' \in [Clients -> SUBSET [stream : Streams, snap : Snapshots]]
      BY <3>1, <3>2 DEF TypeOK
    <3> QED BY <2>4, <3>3 DEF LoadSnapshotRow, TypeOK, GoTo, dbVars, memVars, saveVars, historyVars
  <2>5. CASE LoadSnapshotOnly(c, s)
    <3>1. snaps[s].version \in Nat /\ snaps[s].state \in SUBSET Events
      BY DEF TypeOK, Snapshots
    <3>2. [version |-> snaps[s].version, state |-> snaps[s].state, pending |-> <<>>] \in Aggregates
      BY <3>1 DEF Aggregates
    <3>3. /\ tracked' \in [Clients -> [Streams -> Aggregates]]
          /\ order' \in [Clients -> Seq(Streams)]
          /\ overtaken' \in [Clients -> SUBSET Streams]
      BY <2>5, <3>2, TrackType DEF LoadSnapshotOnly
    <3> QED BY <2>5, <3>3 DEF LoadSnapshotOnly, TypeOK, dbVars, saveVars
  <2>6. CASE Raise(c, s)
    BY <2>6, RaiseType
  <2> QED BY <1>3, <2>1, <2>2, <2>3, <2>4, <2>5, <2>6
<1>4. ASSUME NEW c \in Clients,
             \/ LoadStream(c) \/ BeginSave(c) \/ NewSession(c) \/ KeepSession(c)
             \/ DbError(c) \/ CommitUnknown(c)
      PROVE  TypeOK'
  <2>1. CASE KeepSession(c)
    <3>1. ops' \in [Clients -> Seq(Operations)]
      <4>1. ops[c] \in Seq(Operations) /\ <<>> \in Seq(Operations)
        BY DEF TypeOK
      <4> QED BY <2>1, <4>1 DEF KeepSession, Kept, TypeOK
    <3> QED BY <2>1, <3>1 DEF KeepSession, TypeOK, GoTo, dbVars, saveVars, historyVars
  <2>2. CASE DbError(c)
    <3>1. Rollback(c) /\ faults' \in Nat
      BY <2>2 DEF DbError, Fault, TypeOK
    <3> QED BY <3>1, RollbackType
  <2>3. CASE CommitUnknown(c)
    BY <2>3, CommitType
  <2> QED BY <1>4, <2>1, <2>2, <2>3, LoadType, BeginType, NewSessionType
<1>5. ASSUME NEW e \in Events, Dismiss(e) PROVE TypeOK'
  BY <1>5 DEF Dismiss, TypeOK, memVars, saveVars, historyVars
<1> QED BY <1>1, <1>2, <1>3, <1>4, <1>5 DEF Next, ClientStep

\* Spec only reaches states of the declared types.
THEOREM TypeCorrect == Spec => []TypeOK
<1>1. Init => TypeOK
  BY TypeInit
<1>2. TypeOK /\ [Next]_vars => TypeOK'
  BY TypeStep
<1> QED BY <1>1, <1>2, PTL DEF Spec

-----------------------------------------------------------------------------
(* Streams have no gap.                                                    *)

\* A step that writes nothing and ends no save preserves the invariant.
LEMMA QuietStep ==
  ASSUME IInv, TypeOK', UNCHANGED <<version, rows, wVersion, wRows>>,
         \A c \in Clients : Running(c) => Running(c)'
  PROVE  IInv'
<1>1. StreamsGapless'
  BY DEF IInv, StreamsGapless, RowsOf
<1>2. ASSUME NEW c \in Clients, NEW s \in Streams PROVE TxOk(c, s)'
  <2>1. TxOk(c, s)
    BY DEF IInv
  <2>2. Own(c, s)' = Own(c, s) /\ (LockFree(c, s) => LockFree(c, s)')
    BY DEF Own, LockFree
  <2> QED BY <2>1, <2>2 DEF TxOk
<1> QED BY <1>1, <1>2 DEF IInv

\* While a client has not written a stream, its transaction has no row of it.
LEMMA NoOwn ==
  ASSUME IInv, NEW c \in Clients, NEW s \in Streams, wVersion[c][s] = 0
  PROVE  Own(c, s) = {}
<1>1. {r.version : r \in Own(c, s)} = 0 + 1 .. 0
  BY DEF IInv, TxOk
<1>2. {r.version : r \in Own(c, s)} = {}
  BY <1>1
<1> QED BY <1>2

\* When a transaction ends, the others keep what they hold.
LEMMA EndedTx ==
  ASSUME IInv, TypeOK', NEW c \in Clients, EndTx(c), ~Running(c)',
         \A d \in Clients \ {c} : pc'[d] = pc[d],
         \A s \in Streams : wVersion[c][s] = 0 => version'[s] = version[s]
  PROVE  \A d \in Clients, s \in Streams : TxOk(d, s)'
<1> TAKE d \in Clients, s \in Streams
<1>1. CASE d = c
  <2>1. wVersion'[c][s] = 0 /\ Own(c, s)' = {}
    BY DEF EndTx, NoWrite, Own, IInv, TypeOK
  <2> QED BY <1>1, <2>1 DEF TxOk
<1>2. CASE d # c
  <2>1. TxOk(d, s)
    BY DEF IInv
  <2>2. wVersion'[d] = wVersion[d] /\ Own(d, s)' = Own(d, s)
    BY <1>2 DEF EndTx, Own, IInv, TypeOK
  <2>3. LockFree(d, s) => LockFree(d, s)'
    BY <2>2 DEF LockFree, EndTx, NoWrite, IInv, TypeOK
  <2>4. wVersion[d][s] > 0 => version'[s] = version[s]
    <3>1. wVersion[d][s] > 0 => wVersion[c][s] = 0
      BY <1>2, <2>1 DEF TxOk, LockFree
    <3> QED BY <3>1
  <2>5. Running(d)' <=> Running(d)
    BY <1>2 DEF Running
  <2> QED BY <2>1, <2>2, <2>3, <2>4, <2>5 DEF TxOk
<1> QED BY <1>1, <1>2

\* A save that fails leaves the streams as they were.
LEMMA RollbackStep ==
  ASSUME IInv, TypeOK', NEW c \in Clients, Rollback(c) PROVE IInv'
<1>1. EndTx(c) /\ UNCHANGED dbVars
  BY DEF Rollback
<1>2. ~Running(c)' /\ \A d \in Clients \ {c} : pc'[d] = pc[d]
  BY DEF Rollback, GoTo, Running, IInv, TypeOK
<1>3. StreamsGapless'
  BY <1>1 DEF IInv, StreamsGapless, RowsOf, dbVars
<1>4. \A s \in Streams : wVersion[c][s] = 0 => version'[s] = version[s]
  BY <1>1 DEF dbVars
<1>5. \A d \in Clients, s \in Streams : TxOk(d, s)'
  BY <1>1, <1>2, <1>4, EndedTx
<1> QED BY <1>3, <1>5 DEF IInv

\* A commit publishes versions that carry on from the committed ones.
LEMMA PublishStep ==
  ASSUME IInv, TypeOK', NEW c \in Clients, Commit(c) \/ CommitUnknown(c) PROVE IInv'
<1>1. Publish(c) /\ EndTx(c)
  BY DEF Commit, CommitUnknown, Publish
<1>2. ~Running(c)' /\ \A d \in Clients \ {c} : pc'[d] = pc[d]
  BY DEF Commit, CommitUnknown, GoTo, Running, IInv, TypeOK
<1>3. \A s \in Streams : version'[s] = Visible(c, s)
  BY <1>1 DEF Publish
<1>4. \A s \in Streams : wVersion[c][s] = 0 => version'[s] = version[s]
  BY <1>3 DEF Visible
<1>5. \A d \in Clients, s \in Streams : TxOk(d, s)'
  BY <1>1, <1>2, <1>4, EndedTx
<1>6. StreamsGapless'
  <2> SUFFICES ASSUME NEW s \in Streams
               PROVE  /\ {r.version : r \in RowsOf(s)'} = 1 .. version'[s]
                      /\ \A a, b \in RowsOf(s)' : a.version = b.version => a = b
    BY DEF StreamsGapless
  <2>1. RowsOf(s)' = RowsOf(s) \cup Own(c, s)
    BY <1>1 DEF Publish, RowsOf, Own
  <2>2. /\ {r.version : r \in RowsOf(s)} = 1 .. version[s]
        /\ \A a, b \in RowsOf(s) : a.version = b.version => a = b
    BY DEF IInv, StreamsGapless
  <2>3. TxOk(c, s) /\ version[s] \in Nat /\ wVersion[c][s] \in Nat
    BY DEF IInv, TypeOK
  <2>4. CASE wVersion[c][s] = 0
    <3>1. Own(c, s) = {} /\ version'[s] = version[s]
      BY <2>4, <1>4, NoOwn
    <3> QED BY <2>1, <2>2, <3>1
  <2>5. CASE wVersion[c][s] > 0
    <3>1. version'[s] = wVersion[c][s]
      BY <1>3, <2>5 DEF Visible
    <3>2. /\ {r.version : r \in Own(c, s)} = version[s] + 1 .. wVersion[c][s]
          /\ version[s] <= wVersion[c][s]
          /\ \A a, b \in Own(c, s) : a.version = b.version => a = b
      BY <2>3, <2>5 DEF TxOk
    <3>3. {r.version : r \in RowsOf(s)'} = {r.version : r \in RowsOf(s)} \cup {r.version : r \in Own(c, s)}
      BY <2>1
    <3>4. {r.version : r \in RowsOf(s)'} = 1 .. version'[s]
      BY <2>2, <2>3, <3>1, <3>2, <3>3
    <3>5. \A a \in RowsOf(s), b \in Own(c, s) : a.version # b.version
      <4>1. \A a \in RowsOf(s) : a.version \in 1 .. version[s]
        BY <2>2
      <4>2. \A b \in Own(c, s) : b.version \in version[s] + 1 .. wVersion[c][s]
        BY <3>2
      <4> QED BY <2>3, <4>1, <4>2
    <3> QED BY <2>1, <2>2, <3>2, <3>4, <3>5
  <2> QED BY <2>3, <2>4, <2>5
<1> QED BY <1>5, <1>6 DEF IInv

\* A session that passes the gate holds the row of the stream alone.
LEMMA GateExclusive ==
  ASSUME IInv, NEW c \in Clients, GateOpen(c), Passes(c) PROVE LockFree(c, Op(c).stream)
<1>1. Visible(c, Op(c).stream) = Expected(c) /\ Expected(c) \in Nat
  BY OpType DEF Passes, IInv
<1> QED BY <1>1 DEF GateOpen

\* The events of an append carry on from the version its gate checked.
LEMMA AppendStep ==
  ASSUME IInv, TypeOK', NEW c \in Clients, AppendOp(c) PROVE IInv'
<1>0. PICK t \in Streams : t = Op(c).stream
  BY OpType DEF AppendOp, IInv
<1> DEFINE base == Expected(c)
           len == Len(Op(c).events)
           new == {[stream |-> t, version |-> base + i, event |-> Op(c).events[i]] :
                     i \in DOMAIN Op(c).events}
<1>1. t \in Streams /\ base \in Nat /\ len \in Nat /\ base = Visible(c, t) /\ TypeOK
  BY <1>0, OpType DEF AppendOp, Passes, IInv
<1>2. DOMAIN Op(c).events = 1 .. len
  BY OpType DEF AppendOp, IInv
<1>3. LockFree(c, t)
  BY <1>0, GateExclusive DEF AppendOp
<1>4. wVersion' = [wVersion EXCEPT ![c][t] = base + len] /\ wRows' = [wRows EXCEPT ![c] = @ \cup new]
  BY <1>0 DEF AppendOp
<1>5. UNCHANGED dbVars /\ Running(c) /\ Running(c)' /\ \A d \in Clients \ {c} : pc'[d] = pc[d]
  BY <1>1 DEF AppendOp, GateOpen, HasOp, Running, GoTo, TypeOK
<1>6. /\ {r.version : r \in new} = base + 1 .. base + len
      /\ \A r \in new : r.stream = t
      /\ \A a, b \in new : a.version = b.version => a = b
  <2> DEFINE row(i) == [stream |-> t, version |-> base + i, event |-> Op(c).events[i]]
  <2>1. new = {row(i) : i \in 1 .. len}
    BY <1>2
  <2>2. \A i \in 1 .. len : row(i).stream = t /\ row(i).version = base + i
    OBVIOUS
  <2>3. \A v \in base + 1 .. base + len : v - base \in 1 .. len /\ v = base + (v - base)
    <3> HIDE DEF base, len
    <3> QED BY <1>1
  <2> HIDE DEF base, len, new, row
  <2>4. \A r \in new : r.version \in base + 1 .. base + len
    BY <1>1, <2>1, <2>2
  <2>5. \A v \in base + 1 .. base + len : \E r \in new : r.version = v
    BY <1>1, <2>1, <2>2, <2>3
  <2>6. \A a, b \in new : a.version = b.version => a = b
    BY <1>1, <2>1, <2>2
  <2>7. {r.version : r \in new} = base + 1 .. base + len
    BY <2>4, <2>5
  <2>8. \A r \in new : r.stream = t
    BY <2>1, <2>2
  <2> QED BY <2>6, <2>7, <2>8
<1> HIDE DEF base, len, new
<1>7. /\ \A d \in Clients : wRows'[d] = IF d = c THEN wRows[c] \cup new ELSE wRows[d]
      /\ \A d \in Clients, s \in Streams :
           wVersion'[d][s] = IF d = c /\ s = t THEN base + len ELSE wVersion[d][s]
  <2>1. wRows \in [Clients -> SUBSET Rows] /\ wVersion \in [Clients -> [Streams -> Nat]]
    BY DEF IInv, TypeOK
  <2>2. \A d \in Clients : wRows'[d] = IF d = c THEN wRows[c] \cup new ELSE wRows[d]
    BY <1>1, <1>4, <2>1
  <2>3. \A d \in Clients, s \in Streams :
          wVersion'[d][s] = IF d = c /\ s = t THEN base + len ELSE wVersion[d][s]
    BY <1>1, <1>4, <2>1
  <2> QED BY <2>2, <2>3
<1>8. ASSUME NEW d \in Clients, NEW s \in Streams, d # c \/ s # t PROVE TxOk(d, s)'
  <2>1. TxOk(d, s) /\ version'[s] = version[s]
    BY <1>5 DEF IInv, dbVars
  <2>2. Running(d)' <=> Running(d)
    BY <1>5 DEF Running
  <2>3. wVersion'[d][s] = wVersion[d][s]
    BY <1>7, <1>8
  <2>4. Own(d, s)' = Own(d, s)
    BY <1>6, <1>7, <1>8 DEF Own
  <2>5. wVersion[d][s] > 0 /\ LockFree(d, s) => LockFree(d, s)'
    BY <1>3, <1>7, <1>8 DEF LockFree
  <2> QED BY <2>1, <2>2, <2>3, <2>4, <2>5 DEF TxOk
<1>9. TxOk(c, t)'
  <2>1. TxOk(c, t) /\ version[t] \in Nat /\ wVersion[c][t] \in Nat /\ version'[t] = version[t]
    BY <1>1, <1>5 DEF IInv, TypeOK, dbVars
  <2>2. wVersion'[c][t] = base + len
    BY <1>1, <1>7
  <2>3. Own(c, t)' = Own(c, t) \cup new
    BY <1>6, <1>7 DEF Own
  <2>4. LockFree(c, t)'
    BY <1>1, <1>3, <1>7 DEF LockFree
  <2>5. {r.version : r \in Own(c, t)'} = {r.version : r \in Own(c, t)} \cup {r.version : r \in new}
    BY <2>3
  <2>6. CASE wVersion[c][t] = 0
    <3>1. Own(c, t) = {} /\ base = version[t]
      BY <1>1, <2>6, NoOwn DEF Visible
    <3>2. {r.version : r \in Own(c, t)'} = version[t] + 1 .. base + len
      BY <1>6, <2>5, <3>1
    <3>3. \A a, b \in Own(c, t)' : a.version = b.version => a = b
      BY <1>6, <2>3, <3>1
    <3> QED BY <1>1, <1>5, <2>1, <2>2, <2>4, <3>1, <3>2, <3>3 DEF TxOk
  <2>7. CASE wVersion[c][t] > 0
    <3>1. base = wVersion[c][t]
      BY <1>1, <2>7 DEF Visible
    <3>2. /\ version[t] <= base
          /\ {r.version : r \in Own(c, t)} = version[t] + 1 .. base
          /\ \A a, b \in Own(c, t) : a.version = b.version => a = b
      BY <2>1, <2>7, <3>1 DEF TxOk
    <3>3. {r.version : r \in Own(c, t)'} = version[t] + 1 .. base + len
      BY <1>1, <1>6, <2>1, <2>5, <3>2
    <3>4. \A a \in Own(c, t), b \in new : a.version # b.version
      <4>1. \A a \in Own(c, t) : a.version \in version[t] + 1 .. base
        BY <3>2
      <4>2. \A b \in new : b.version \in base + 1 .. base + len
        BY <1>6
      <4> QED BY <1>1, <2>1, <4>1, <4>2
    <3>5. \A a, b \in Own(c, t)' : a.version = b.version => a = b
      BY <1>6, <2>3, <3>2, <3>4
    <3> QED BY <1>1, <1>5, <2>1, <2>2, <2>4, <2>7, <3>1, <3>2, <3>3, <3>5 DEF TxOk
  <2> QED BY <2>1, <2>6, <2>7
<1>10. \A d \in Clients, s \in Streams : TxOk(d, s)'
  BY <1>8, <1>9 DEF TxOk, LockFree, Own, Running
<1>11. StreamsGapless'
  BY <1>5 DEF IInv, StreamsGapless, RowsOf, dbVars
<1> QED BY <1>10, <1>11 DEF IInv

\* The initial state has no stream and no transaction.
LEMMA InvInit == Init => IInv
<1> SUFFICES ASSUME Init PROVE IInv
  OBVIOUS
<1>1. StreamsGapless
  BY DEF Init, StreamsGapless, RowsOf, NoWrite
<1>2. ASSUME NEW c \in Clients, NEW s \in Streams PROVE TxOk(c, s)
  <2>1. wVersion[c][s] = 0 /\ Own(c, s) = {}
    BY DEF Init, NoWrite, Own
  <2> QED BY <2>1 DEF TxOk
<1> QED BY <1>1, <1>2, TypeInit DEF IInv

\* Every step preserves the invariant.
LEMMA InvStep == IInv /\ [Next]_vars => IInv'
<1> SUFFICES ASSUME IInv, [Next]_vars PROVE IInv'
  OBVIOUS
<1>1. TypeOK /\ TypeOK'
  BY TypeStep DEF IInv
<1>2. CASE UNCHANGED vars
  <2>1. UNCHANGED <<version, rows, wVersion, wRows>> /\ \A c \in Clients : Running(c) => Running(c)'
    BY <1>2 DEF vars, dbVars, saveVars, Running
  <2> QED BY <1>1, <2>1, QuietStep
<1>3. ASSUME NEW c \in Clients, SaveStep(c) PROVE IInv'
  <2>1. CASE ResolveVersion(c)
    <3>1. UNCHANGED <<version, rows, wVersion, wRows>>
      BY <2>1 DEF ResolveVersion, dbVars
    <3>2. \A d \in Clients : Running(d) => Running(d)'
      BY <1>1, <2>1 DEF ResolveVersion, GoTo, Running, TypeOK
    <3> QED BY <1>1, <3>1, <3>2, QuietStep
  <2>2. CASE Reject(c) \/ DeadlockVictim(c)
    BY <1>1, <2>2, RollbackStep DEF Reject, DeadlockVictim
  <2> QED BY <1>1, <1>3, <2>1, <2>2, AppendStep, PublishStep DEF SaveStep
<1>4. ASSUME NEW c \in Clients, ClientStep(c) PROVE IInv'
  <2>1. CASE DbError(c)
    BY <1>1, <2>1, RollbackStep DEF DbError
  <2>2. CASE CommitUnknown(c)
    BY <1>1, <2>2, PublishStep
  <2>3. CASE BeginSave(c) \/ NewSession(c) \/ KeepSession(c) \/ LoadStream(c)
    <3>1. UNCHANGED <<version, rows, wVersion, wRows>>
      BY <2>3 DEF BeginSave, NewSession, KeepSession, LoadStream, dbVars, saveVars
    <3>2. \A d \in Clients : Running(d) => Running(d)'
      BY <1>1, <2>3 DEF BeginSave, NewSession, KeepSession, LoadStream, GoTo, Running, TypeOK
    <3> QED BY <1>1, <3>1, <3>2, QuietStep
  <2>4. ASSUME NEW s \in Streams,
               \/ StartStream(c, s) \/ AppendEvents(c, s) \/ AppendUnsafe(c, s)
               \/ LoadSnapshotRow(c, s) \/ LoadSnapshotOnly(c, s) \/ Raise(c, s)
        PROVE  IInv'
    <3>1. UNCHANGED <<version, rows, wVersion, wRows>>
      BY <2>4 DEF StartStream, AppendEvents, AppendUnsafe, Queue, LoadSnapshotRow,
                  LoadSnapshotOnly, Raise, dbVars, saveVars
    <3>2. \A d \in Clients : Running(d) => Running(d)'
      BY <1>1, <2>4 DEF StartStream, AppendEvents, AppendUnsafe, Queue, LoadSnapshotRow,
                        LoadSnapshotOnly, Raise, GoTo, Running, TypeOK
    <3> QED BY <1>1, <3>1, <3>2, QuietStep
  <2> QED BY <1>4, <2>1, <2>2, <2>3, <2>4 DEF ClientStep
<1>5. ASSUME NEW e \in Events, Dismiss(e) PROVE IInv'
  <2>1. UNCHANGED <<version, rows, wVersion, wRows>> /\ \A c \in Clients : Running(c) => Running(c)'
    BY <1>5 DEF Dismiss, saveVars, Running
  <2> QED BY <1>1, <2>1, QuietStep
<1> QED BY <1>2, <1>3, <1>4, <1>5 DEF Next

\* The versions of every stream are 1 to current_version, each with one event.
THEOREM Gapless == Spec => []StreamsGapless
<1>1. Init => IInv
  BY InvInit
<1>2. IInv /\ [Next]_vars => IInv'
  BY InvStep
<1>3. IInv => StreamsGapless
  BY DEF IInv
<1> QED BY <1>1, <1>2, <1>3, PTL DEF Spec

-----------------------------------------------------------------------------
(* An event is stored at most once.                                        *)

\* What a step of client c leaves alone: the memory and the transactions of the others.
OthersAlone(c) ==
  \A d \in Clients \ {c} :
    /\ order'[d] = order[d] /\ tracked'[d] = tracked[d] /\ ops'[d] = ops[d] /\ via'[d] = via[d]
    /\ pc'[d] = pc[d] /\ at'[d] = at[d] /\ mine'[d] = mine[d]
    /\ wVersion'[d] = wVersion[d] /\ wRows'[d] = wRows[d]

\* A step of one client leaves the others alone.
LEMMA StepAlone ==
  ASSUME TypeOK, NEW c \in Clients, SaveStep(c) \/ ClientStep(c)
  PROVE  OthersAlone(c)
<1> USE DEF TypeOK
<1>1. CASE ResolveVersion(c)
  BY <1>1 DEF ResolveVersion, GoTo, OthersAlone, memVars, historyVars
<1>2. CASE AppendOp(c)
  BY <1>2 DEF AppendOp, Advanced, GoTo, OthersAlone, historyVars
<1>3. CASE Rollback(c)
  BY <1>3 DEF Rollback, EndTx, GoTo, OthersAlone, memVars, historyVars
<1>4. CASE Commit(c) \/ CommitUnknown(c)
  BY <1>4 DEF Commit, CommitUnknown, Publish, EndTx, GoTo, OthersAlone
<1>5. ASSUME NEW s \in Streams,
             StartStream(c, s) \/ AppendEvents(c, s) \/ AppendUnsafe(c, s)
      PROVE  OthersAlone(c)
  BY <1>5 DEF StartStream, AppendEvents, AppendUnsafe, Queue, Create, OthersAlone, saveVars
<1>6. ASSUME NEW s \in Streams, LoadSnapshotRow(c, s) PROVE OthersAlone(c)
  BY <1>6 DEF LoadSnapshotRow, GoTo, OthersAlone, memVars, saveVars, historyVars
<1>7. ASSUME NEW s \in Streams, LoadSnapshotOnly(c, s) PROVE OthersAlone(c)
  BY <1>7 DEF LoadSnapshotOnly, Track, OthersAlone, saveVars
<1>8. ASSUME NEW s \in Streams, Raise(c, s) PROVE OthersAlone(c)
  BY <1>8 DEF Raise, Create, OthersAlone, saveVars
<1>9. CASE LoadStream(c)
  BY <1>9 DEF LoadStream, Track, GoTo, OthersAlone, saveVars
<1>10. CASE BeginSave(c)
  BY <1>10 DEF BeginSave, GoTo, OthersAlone, saveVars, historyVars
<1>11. CASE NewSession(c)
  BY <1>11 DEF NewSession, GoTo, OthersAlone, saveVars
<1>12. CASE KeepSession(c)
  BY <1>12 DEF KeepSession, GoTo, OthersAlone, saveVars, historyVars
<1> HIDE DEF TypeOK
<1>13. CASE Reject(c) \/ DeadlockVictim(c) \/ DbError(c)
  BY <1>3, <1>13 DEF Reject, DeadlockVictim, DbError
<1> QED BY <1>1, <1>2, <1>4, <1>5, <1>6, <1>7, <1>8, <1>9, <1>10, <1>11, <1>12, <1>13
           DEF SaveStep, ClientStep

\* What another client stores does not spend what a session has queued.
LEMMA OthersKept ==
  ASSUME OnceInv, NEW c \in Clients, OthersAlone(c), IInv,
         \A s \in Streams : version[s] <= version'[s],
         version' \in [Streams -> Nat],
         \A r \in rows' : r \in rows \/ r.event \in mine[c],
         NEW d \in Clients \ {c}
  PROVE  OwnInv(d)' /\ WroteInv(d)' /\ SpentInv(d)'
<1>1. /\ order'[d] = order[d] /\ tracked'[d] = tracked[d] /\ ops'[d] = ops[d] /\ via'[d] = via[d]
      /\ pc'[d] = pc[d] /\ at'[d] = at[d] /\ mine'[d] = mine[d]
      /\ wVersion'[d] = wVersion[d] /\ wRows'[d] = wRows[d]
  BY DEF OthersAlone
<1>2. OwnInv(d) /\ WroteInv(d) /\ SpentInv(d) /\ mine[c] \cap mine[d] = {}
  BY DEF OnceInv
<1>3. OwnInv(d)'
  BY <1>1, <1>2 DEF OwnInv, InQueue, InPending
<1>4. WroteInv(d)'
  BY <1>1, <1>2 DEF WroteInv, Running
<1>5. /\ \A e \in Events : InQueue(d, e)' <=> InQueue(d, e)
      /\ \A e \in Events : InPending(d, e)' <=> InPending(d, e)
  BY <1>1 DEF InQueue, InPending
<1>6. ASSUME NEW e \in Events, InQueue(d, e) \/ InPending(d, e), Stored(e)' PROVE Stored(e)
  <2>1. e \in mine[d] /\ e \notin mine[c]
    BY <1>2, <1>6 DEF OwnInv
  <2> QED BY <1>6, <2>1 DEF Stored
<1>7. Stuck(d) => Stuck(d)'
  <2> SUFFICES ASSUME Stuck(d) PROVE Stuck(d)'
    OBVIOUS
  <2>1. ops[d] \in Seq(Operations) /\ ops[d] # <<>>
    BY DEF Stuck, IInv, TypeOK
  <2>2. ops[d][1] \in Operations
    BY <2>1
  <2>3. PICK x \in Streams, v \in Int : x = ops[d][1].stream /\ v = ops[d][1].expected
    BY <2>2 DEF Operations, Unknown
  <2>4. v < version[x] /\ version[x] <= version'[x] /\ version[x] \in Nat /\ version'[x] \in Nat
    BY <2>3 DEF Stuck, IInv, TypeOK
  <2>5. v < version'[x]
    BY <2>4
  <2> QED BY <1>1, <2>1, <2>3, <2>5 DEF Stuck
<1>8. SpentInv(d)'
  <2>1. \A e \in Events : InPending(d, e)' => ~Stored(e)'
    BY <1>2, <1>5, <1>6 DEF SpentInv
  <2>2. ASSUME NEW e \in Events, InQueue(d, e)', Stored(e)'
        PROVE  (d \in Reuse /\ Stuck(d)') \/ (pc'[d] = "failed" /\ ~(d \in Reuse /\ InSession(d)'))
    <3>1. InQueue(d, e) /\ Stored(e)
      BY <1>5, <1>6, <2>2
    <3> QED BY <1>1, <1>2, <1>7, <3>1 DEF SpentInv, InSession
  <2>3. d \in Reuse =>
       /\ pc'[d] # "gate" /\ \A i \in DOMAIN ops'[d] : ops'[d][i].expected # Unknown
       /\ at'[d] > 1 => ops'[d] # <<>> /\ wVersion'[d][ops'[d][1].stream] > ops'[d][1].expected
    BY <1>1, <1>2 DEF SpentInv
  <2> QED BY <2>1, <2>2, <2>3 DEF SpentInv
<1> QED BY <1>3, <1>4, <1>8

\* The invariant holds after a step if it does for the client that took it.
LEMMA OnceFrame ==
  ASSUME OnceInv, NEW c \in Clients, OthersAlone(c), IInv, TypeOK',
         \A s \in Streams : version[s] <= version'[s],
         \A r \in rows' : r \in rows \/ r.event \in mine[c],
         lastEvent <= lastEvent',
         \A e \in mine'[c] : e \in mine[c] \/ (lastEvent < e /\ e <= lastEvent'),
         EventOnce', OwnInv(c)', WroteInv(c)', SpentInv(c)'
  PROVE  OnceInv'
<1>1. /\ lastEvent \in Nat /\ lastEvent' \in Nat /\ version' \in [Streams -> Nat]
      /\ \A d \in Clients : mine[d] \subseteq Nat /\ mine'[d] \subseteq Nat
      /\ \A r \in rows : r.event \in Nat
  <2>1. lastEvent \in Nat /\ lastEvent' \in Nat /\ version' \in [Streams -> Nat]
    BY SessionAssumption DEF IInv, TypeOK
  <2>2. /\ \A d \in Clients : mine[d] \subseteq Events /\ mine'[d] \subseteq Events
        /\ \A r \in rows : r.event \in Events
    BY DEF IInv, TypeOK, Rows
  <2>3. Events \subseteq Nat
    BY DEF Events
  <2> QED BY <2>1, <2>2, <2>3
<1>2. \A e \in Events : Stored(e)' => e <= lastEvent'
  <2> SUFFICES ASSUME NEW r \in rows', r.event \in Events PROVE r.event <= lastEvent'
    BY DEF Stored
  <2>1. r.event <= lastEvent /\ r.event \in Nat
    <3>1. r \in rows => r.event <= lastEvent
      BY DEF OnceInv, Stored
    <3>2. r.event \in mine[c] => r.event <= lastEvent
      BY DEF OnceInv
    <3> QED BY <3>1, <3>2 DEF Events
  <2> QED BY <1>1, <2>1
<1>3. ASSUME NEW d \in Clients, NEW e \in mine'[d] PROVE e <= lastEvent'
  <2>1. e \in mine[d] \/ e <= lastEvent'
    BY <1>3 DEF OthersAlone
  <2>2. e \in mine[d] => e <= lastEvent
    BY DEF OnceInv
  <2> QED BY <1>1, <2>1, <2>2
<1>4. ASSUME NEW a \in Clients, NEW d \in Clients, a # d, NEW e, e \in mine'[a], e \in mine'[d] PROVE FALSE
  <2>1. \A x \in Clients : \A y \in mine[x] : y <= lastEvent /\ y \in Nat
    BY <1>1 DEF OnceInv
  <2>2. \A x, y \in Clients : x # y => ~(e \in mine[x] /\ e \in mine[y])
    BY DEF OnceInv
  <2>3. \A x \in Clients : x # c => mine'[x] = mine[x]
    BY DEF OthersAlone
  <2>4. e \in Nat
    BY <1>1, <1>4
  <2>5. \A x \in Clients : e \in mine[x] => ~(lastEvent < e)
    BY <1>1, <2>1, <2>4
  <2> QED BY <1>4, <2>2, <2>3, <2>5
<1>5. \A d \in Clients : OwnInv(d)' /\ WroteInv(d)' /\ SpentInv(d)'
  BY <1>1, OthersKept
<1> QED BY <1>2, <1>3, <1>4, <1>5 DEF OnceInv
\* A step that changes neither what a session holds nor the table of events.
LEMMA HeldAsIs ==
  ASSUME OnceInv, NEW c \in Clients, ops'[c] = ops[c], order'[c] = order[c], mine'[c] = mine[c],
         \A s \in Streams : tracked'[c][s].pending = tracked[c][s].pending
  PROVE  /\ OwnInv(c)'
         /\ \A e \in Events : (InQueue(c, e)' <=> InQueue(c, e)) /\ (InPending(c, e)' <=> InPending(c, e))
<1>1. OwnInv(c)
  BY DEF OnceInv
<1>2. OwnInv(c)'
  BY <1>1 DEF OwnInv, InQueue, InPending
<1>3. \A e \in Events : (InQueue(c, e)' <=> InQueue(c, e)) /\ (InPending(c, e)' <=> InPending(c, e))
  BY DEF InQueue, InPending
<1> QED BY <1>2, <1>3

\* A step that changes no table and makes no event preserves the invariant when
\* it does for the client that took it.
LEMMA MemoryFrame ==
  ASSUME OnceInv, NEW c \in Clients, OthersAlone(c), IInv, TypeOK',
         UNCHANGED <<version, rows, lastEvent>>, mine'[c] \subseteq mine[c],
         OwnInv(c)', WroteInv(c)', SpentInv(c)'
  PROVE  OnceInv'
<1>1. EventOnce'
  BY DEF OnceInv, EventOnce
<1>2. \A s \in Streams : version[s] <= version'[s]
  BY DEF IInv, TypeOK
<1>3. lastEvent <= lastEvent'
  BY SessionAssumption DEF IInv, TypeOK
<1>4. (\A r \in rows' : r \in rows \/ r.event \in mine[c]) /\ (\A e \in mine'[c] : e \in mine[c])
  OBVIOUS
<1> QED BY <1>1, <1>2, <1>3, <1>4, OnceFrame

\* A save that fails keeps its session, or gives up what it pulled.
LEMMA OnceRollback ==
  ASSUME OnceInv, NEW c \in Clients, OthersAlone(c), IInv, TypeOK', Rollback(c), Running(c)
  PROVE  OnceInv'
<1>1. UNCHANGED <<version, rows, lastEvent>> /\ UNCHANGED <<mine, ops, order, tracked, via>>
  BY DEF Rollback, dbVars, memVars, historyVars
<1>2. /\ OwnInv(c)'
      /\ \A e \in Events : (InQueue(c, e)' <=> InQueue(c, e)) /\ (InPending(c, e)' <=> InPending(c, e))
  BY <1>1, HeldAsIs
<1>3. /\ wRows'[c] = {} /\ at'[c] = 1 /\ pc'[c] = "failed" /\ \A s \in Streams : wVersion'[c][s] = 0
  BY DEF Rollback, EndTx, GoTo, NoWrite, IInv, TypeOK
<1>4. WroteInv(c) /\ SpentInv(c)
  BY DEF OnceInv
<1>5. WroteInv(c)'
  BY <1>1, <1>3, <1>4 DEF WroteInv, Running
<1>6. SpentInv(c)'
  <2>1. \A e \in Events : InPending(c, e)' => ~Stored(e)'
    BY <1>1, <1>2, <1>4 DEF SpentInv, Stored
  <2>2. ASSUME NEW e \in Events, InQueue(c, e)', Stored(e)'
        PROVE  (c \in Reuse /\ Stuck(c)') \/ (pc'[c] = "failed" /\ ~(c \in Reuse /\ InSession(c)'))
    <3>1. InQueue(c, e) /\ Stored(e)
      BY <1>1, <1>2, <2>2 DEF Stored
    <3>2. c \in Reuse /\ Stuck(c)
      BY <1>4, <3>1 DEF SpentInv, Running
    <3> QED BY <1>1, <1>3, <3>2 DEF Stuck
  <2>3. c \in Reuse =>
       /\ pc'[c] # "gate" /\ \A i \in DOMAIN ops'[c] : ops'[c][i].expected # Unknown
       /\ ~(at'[c] > 1)
    BY <1>1, <1>3, <1>4 DEF SpentInv
  <2> QED BY <2>1, <2>2, <2>3 DEF SpentInv
<1> QED BY <1>1, <1>2, <1>5, <1>6, MemoryFrame

\* A save that reads the version of a stream has stored nothing yet.
LEMMA OnceResolve ==
  ASSUME OnceInv, NEW c \in Clients, OthersAlone(c), IInv, TypeOK', ResolveVersion(c)
  PROVE  OnceInv'
<1>1. /\ UNCHANGED <<version, rows, lastEvent, mine, ops, order, tracked, via, at, wVersion, wRows>>
      /\ pc[c] = "saving" /\ pc'[c] = "gate" /\ at[c] \in DOMAIN ops[c] /\ Op(c).expected = Unknown
  BY DEF ResolveVersion, HasOp, GoTo, dbVars, memVars, historyVars, IInv, TypeOK
<1>2. /\ OwnInv(c)'
      /\ \A e \in Events : (InQueue(c, e)' <=> InQueue(c, e)) /\ (InPending(c, e)' <=> InPending(c, e))
  BY <1>1, HeldAsIs
<1>3. WroteInv(c) /\ SpentInv(c)
  BY DEF OnceInv
<1>4. WroteInv(c)'
  BY <1>1, <1>3 DEF WroteInv, Running
<1>5. c \notin Reuse
  BY <1>1, <1>3 DEF SpentInv, Op
<1>6. \A e \in Events : InQueue(c, e) => ~Stored(e)
  BY <1>1, <1>3, <1>5 DEF SpentInv
<1>7. SpentInv(c)'
  BY <1>1, <1>2, <1>3, <1>5, <1>6 DEF SpentInv, Stored
<1> QED BY <1>1, <1>2, <1>4, <1>7, MemoryFrame

\* The first operation of a kept session that runs moves its stream past the
\* version it expected.
LEMMA OnceAppend ==
  ASSUME OnceInv, NEW c \in Clients, OthersAlone(c), IInv, TypeOK', AppendOp(c)
  PROVE  OnceInv'
<1> PICK o \in Operations : o = Op(c)
  BY OpType DEF AppendOp, IInv
<1> PICK base \in Nat : base = Expected(c)
  BY OpType DEF AppendOp, IInv
<1> PICK s \in Streams : s = o.stream
  BY DEF Operations
<1> PICK n \in Nat : n = Len(o.events) /\ DOMAIN o.events = 1 .. n
  BY DEF Operations
<1>1. /\ UNCHANGED <<version, rows, lastEvent, mine, ops, order, via>>
      /\ pc[c] \in {"saving", "gate"} /\ pc'[c] = "saving"
      /\ at[c] \in Nat \ {0} /\ at'[c] = at[c] + 1 /\ at[c] \in DOMAIN ops[c] /\ o = ops[c][at[c]]
  BY DEF AppendOp, GateOpen, HasOp, Running, GoTo, dbVars, historyVars, IInv, TypeOK, Op
<1>2. /\ wRows'[c] = wRows[c] \cup
            {[stream |-> s, version |-> base + i, event |-> o.events[i]] : i \in DOMAIN o.events}
      /\ wVersion'[c] = [wVersion[c] EXCEPT ![s] = base + n]
  BY DEF AppendOp, IInv, TypeOK
<1>3. \A x \in Streams : tracked'[c][x].pending = tracked[c][x].pending
  <2>1. tracked' = tracked \/ tracked' = [tracked EXCEPT ![c][s].version = base + n]
    BY DEF AppendOp, Advanced
  <2>2. CASE tracked' = tracked
    BY <2>2
  <2>3. CASE tracked' = [tracked EXCEPT ![c][s].version = base + n]
    <3>1. tracked'[c] = [tracked[c] EXCEPT ![s] = [tracked[c][s] EXCEPT !.version = base + n]]
      BY <2>3 DEF IInv, TypeOK
    <3>2. [tracked[c][s] EXCEPT !.version = base + n].pending = tracked[c][s].pending
      BY DEF IInv, TypeOK, Aggregates
    <3> QED BY <3>1, <3>2 DEF IInv, TypeOK
  <2> QED BY <2>1, <2>2, <2>3
<1>4. /\ OwnInv(c)'
      /\ \A e \in Events : (InQueue(c, e)' <=> InQueue(c, e)) /\ (InPending(c, e)' <=> InPending(c, e))
  BY <1>1, <1>3, HeldAsIs
<1>5. WroteInv(c) /\ SpentInv(c) /\ OwnInv(c)
  BY DEF OnceInv
<1>6. c \in Reuse => base = o.expected /\ o.expected \in Nat
  BY <1>1, <1>5 DEF SpentInv, Expected
<1>7. wVersion[c] \in [Streams -> Nat] /\ version \in [Streams -> Nat] /\ ops[c] \in Seq(Operations)
  BY DEF IInv, TypeOK
<1>8. Visible(c, s) = base
  BY DEF AppendOp, Passes
<1>9. n > 0
  BY <1>1, <1>5 DEF OwnInv
<1>10. \A e \in Events : InQueue(c, e) => ~Stored(e)
  <2> SUFFICES ASSUME NEW e \in Events, InQueue(c, e), Stored(e) PROVE FALSE
    OBVIOUS
  <2>1. c \in Reuse /\ Stuck(c)
    BY <1>1, <1>5 DEF SpentInv
  <2>2. at[c] = 1 /\ o.expected < version[s] /\ wVersion[c][s] = 0
    BY <1>1, <1>5, <2>1 DEF Stuck, WroteInv
  <2>3. version[s] = base
    BY <1>8, <2>2 DEF Visible
  <2> QED BY <1>6, <1>7, <2>1, <2>2, <2>3
<1>11. WroteInv(c)'
  <2>1. ASSUME NEW r \in wRows'[c]
        PROVE  \/ r \in wRows[c] /\ \E i \in DOMAIN ops[c] : i < at[c] /\ \E k \in DOMAIN ops[c][i].events : r.event = ops[c][i].events[k]
               \/ \E k \in DOMAIN o.events : r = [stream |-> s, version |-> base + k, event |-> o.events[k]]
    BY <1>2, <1>5 DEF WroteInv
  <2>2. \A r \in wRows'[c] :
          \E i \in DOMAIN ops'[c] : i < at'[c] /\ \E k \in DOMAIN ops'[c][i].events : r.event = ops'[c][i].events[k]
    <3> SUFFICES ASSUME NEW r \in wRows'[c]
                 PROVE  \E i \in DOMAIN ops[c] : i < at'[c] /\ \E k \in DOMAIN ops[c][i].events : r.event = ops[c][i].events[k]
      BY <1>1
    <3>1. \A i \in DOMAIN ops[c] : i \in Nat
      BY <1>7
    <3>2. \A i \in DOMAIN ops[c] : i <= at[c] => i < at'[c]
      BY <1>1, <3>1
    <3>3. \A i \in DOMAIN ops[c] : i < at[c] => i < at'[c]
      BY <1>1, <3>1
    <3>4. at[c] < at'[c]
      BY <1>1
    <3>5. CASE r \in wRows[c] /\ \E i \in DOMAIN ops[c] : i < at[c] /\ \E k \in DOMAIN ops[c][i].events : r.event = ops[c][i].events[k]
      BY <3>3, <3>5
    <3>6. CASE \E k \in DOMAIN o.events : r = [stream |-> s, version |-> base + k, event |-> o.events[k]]
      <4>1. \E k \in DOMAIN o.events : r.event = o.events[k]
        BY <3>6
      <4> QED BY <1>1, <3>4, <4>1
    <3> QED BY <2>1, <3>5, <3>6
  <2>3. \A a, b \in wRows'[c] : a.event = b.event => a = b
    <3>1. ASSUME NEW a \in wRows[c], NEW k \in DOMAIN o.events, a.event = o.events[k] PROVE FALSE
      <4>1. PICK i \in DOMAIN ops[c] : i < at[c] /\ \E l \in DOMAIN ops[c][i].events : a.event = ops[c][i].events[l]
        BY <1>5 DEF WroteInv
      <4>2. i # at[c]
        BY <1>1, <1>7, <4>1
      <4>3. PICK l \in DOMAIN ops[c][i].events : a.event = ops[c][i].events[l]
        BY <4>1
      <4>4. ops[c][i].events[l] = ops[c][at[c]].events[k]
        BY <1>1, <3>1, <4>3
      <4> QED BY <1>1, <1>5, <4>2, <4>3, <4>4 DEF OwnInv
    <3>2. \A k, l \in DOMAIN o.events : o.events[k] = o.events[l] => k = l
      BY <1>1, <1>5 DEF OwnInv
    <3>3. \A a, b \in wRows[c] : a.event = b.event => a = b
      BY <1>5 DEF WroteInv
    <3>4. ASSUME NEW k \in DOMAIN o.events, NEW a, a = [stream |-> s, version |-> base + k, event |-> o.events[k]]
          PROVE  a.event = o.events[k]
      BY <3>4
    <3> SUFFICES ASSUME NEW a \in wRows'[c], NEW b \in wRows'[c], a.event = b.event PROVE a = b
      OBVIOUS
    <3>5. CASE a \in wRows[c] /\ b \in wRows[c]
      BY <3>3, <3>5
    <3>6. CASE a \in wRows[c] /\ \E k \in DOMAIN o.events : b = [stream |-> s, version |-> base + k, event |-> o.events[k]]
      BY <3>1, <3>4, <3>6
    <3>7. CASE b \in wRows[c] /\ \E k \in DOMAIN o.events : a = [stream |-> s, version |-> base + k, event |-> o.events[k]]
      BY <3>1, <3>4, <3>7
    <3>8. ASSUME NEW k \in DOMAIN o.events, a = [stream |-> s, version |-> base + k, event |-> o.events[k]],
                 NEW l \in DOMAIN o.events, b = [stream |-> s, version |-> base + l, event |-> o.events[l]]
          PROVE  a = b
      BY <3>2, <3>4, <3>8
    <3> QED BY <2>1, <3>5, <3>6, <3>7, <3>8
  <2>4. pc'[c] \in {"saving", "gate", "failed"} => \A x \in Streams : tracked'[c][x].pending = <<>>
    BY <1>1, <1>3, <1>5 DEF WroteInv
  <2>5. Running(c)' /\ at'[c] # 1
    BY <1>1 DEF Running
  <2> QED BY <2>2, <2>3, <2>4, <2>5 DEF WroteInv
<1>12. c \in Reuse => ops[c] # <<>> /\ wVersion'[c][ops[c][1].stream] > ops[c][1].expected
  <2> SUFFICES ASSUME c \in Reuse PROVE ops[c] # <<>> /\ wVersion'[c][ops[c][1].stream] > ops[c][1].expected
    OBVIOUS
  <2>1. ops[c] # <<>> /\ ops[c][1] \in Operations
    BY <1>1, <1>7
  <2>2. PICK x \in Streams, v \in Int : x = ops[c][1].stream /\ v = ops[c][1].expected
    <3>1. ops[c][1].stream \in Streams /\ ops[c][1].expected \in Nat \cup {Unknown}
      BY <2>1 DEF Operations
    <3>2. ops[c][1].expected \in Int
      BY <3>1 DEF Unknown
    <3> QED BY <3>1, <3>2
  <2>3. wVersion'[c][x] = IF x = s THEN base + n ELSE wVersion[c][x]
    BY <1>2, <1>7
  <2>4. CASE at[c] = 1
    <3>1. x = s /\ v = base
      BY <1>1, <1>6, <2>2, <2>4
    <3> QED BY <1>9, <2>1, <2>2, <2>3, <3>1
  <2>5. CASE at[c] # 1
    <3>1. wVersion[c][x] > v /\ wVersion[c][x] \in Nat
      BY <1>1, <1>5, <1>7, <2>2, <2>5 DEF SpentInv
    <3>2. CASE x = s
      <4>1. wVersion[c][s] > 0
        <5>1. v \in Nat
          BY <1>1, <1>5, <1>7, <2>1, <2>2 DEF SpentInv, Operations, Unknown
        <5> QED BY <3>1, <3>2, <5>1
      <4>2. base = wVersion[c][s]
        BY <1>8, <4>1 DEF Visible
      <4>3. base + n > v
        BY <1>9, <3>1, <3>2, <4>2
      <4> QED BY <2>1, <2>2, <2>3, <3>2, <4>3
    <3> QED BY <2>1, <2>2, <2>3, <3>1, <3>2
  <2> QED BY <2>4, <2>5
<1>13. SpentInv(c)'
  <2>1. \A e \in Events : (InQueue(c, e)' \/ InPending(c, e)') => ~Stored(e)'
    BY <1>1, <1>4, <1>5, <1>10 DEF SpentInv, Stored
  <2>2. c \in Reuse =>
       /\ pc'[c] # "gate" /\ \A i \in DOMAIN ops'[c] : ops'[c][i].expected # Unknown
       /\ at'[c] > 1 => ops'[c] # <<>> /\ wVersion'[c][ops'[c][1].stream] > ops'[c][1].expected
    BY <1>1, <1>5, <1>12 DEF SpentInv
  <2> QED BY <2>1, <2>2 DEF SpentInv
<1> QED BY <1>1, <1>4, <1>11, <1>13, MemoryFrame

\* A commit stores each event of the queue for the first time; when the client
\* does not learn of it, the first operation can never pass its gate again.
LEMMA OncePublish ==
  ASSUME OnceInv, NEW c \in Clients, OthersAlone(c), IInv, TypeOK', Commit(c) \/ CommitUnknown(c)
  PROVE  OnceInv'
<1>1. /\ Publish(c) /\ UNCHANGED <<lastEvent, order, tracked, via>>
      /\ pc[c] = "saving" /\ Len(ops[c]) < at[c] /\ at[c] \in Nat \ {0} /\ ops[c] \in Seq(Operations)
  BY DEF Commit, CommitUnknown, Publish, IInv, TypeOK
<1>2. /\ rows' = rows \cup wRows[c] /\ \A s \in Streams : version'[s] = Visible(c, s)
      /\ wRows'[c] = {} /\ at'[c] = 1 /\ \A s \in Streams : wVersion'[c][s] = 0
  BY <1>1 DEF Publish, EndTx, NoWrite, IInv, TypeOK
<1>3. \/ ops'[c] = <<>> /\ mine'[c] = {} /\ pc'[c] = "idle"
      \/ ops'[c] = ops[c] /\ mine'[c] = mine[c] /\ pc'[c] = "failed"
  BY DEF Commit, CommitUnknown, GoTo, IInv, TypeOK
<1>4. OwnInv(c) /\ WroteInv(c) /\ SpentInv(c)
  BY DEF OnceInv
<1>5. \A s \in Streams : version[s] <= version'[s]
  <2> SUFFICES ASSUME NEW s \in Streams PROVE version[s] <= version'[s]
    OBVIOUS
  <2>1. TxOk(c, s) /\ version[s] \in Nat
    BY DEF IInv, TypeOK
  <2> QED BY <1>2, <2>1 DEF Visible, TxOk
<1>6. \A s \in Streams : tracked[c][s].pending = <<>>
  BY <1>1, <1>4 DEF WroteInv
<1>7. ASSUME NEW e \in Events, InQueue(c, e) PROVE ~Stored(e)
  <2> SUFFICES ASSUME Stored(e) PROVE FALSE
    OBVIOUS
  <2>1. Stuck(c)
    BY <1>1, <1>4, <1>7 DEF SpentInv
  <2>2. ops[c] # <<>> /\ at[c] = 1
    BY <2>1 DEF Stuck
  <2> QED BY <1>1, <2>2
<1>8. ASSUME NEW r \in wRows[c]
      PROVE  r.event \in Events /\ InQueue(c, r.event) /\ r.event \in mine[c] /\ \A q \in rows : q.event # r.event
  <2>1. r.event \in Events
    BY DEF IInv, TypeOK, Rows
  <2>2. InQueue(c, r.event)
    BY <1>4 DEF WroteInv, InQueue
  <2>3. r.event \in mine[c]
    BY <1>4, <2>1, <2>2 DEF OwnInv
  <2>4. ~Stored(r.event)
    BY <1>7, <2>1, <2>2
  <2> QED BY <2>1, <2>2, <2>3, <2>4 DEF Stored
<1>9. EventOnce'
  <2>1. (\A a, b \in rows : a.event = b.event => a = b) /\ (\A a, b \in wRows[c] : a.event = b.event => a = b)
    BY <1>4 DEF OnceInv, EventOnce, WroteInv
  <2> QED BY <1>2, <1>8, <2>1 DEF EventOnce
<1>10. WroteInv(c)'
  BY <1>1, <1>2, <1>3, <1>6 DEF WroteInv, Running
<1>11. OwnInv(c)' /\ SpentInv(c)'
  <2>1. CASE ops'[c] = <<>> /\ mine'[c] = {} /\ pc'[c] = "idle"
    <3>1. \A e \in Events : ~InQueue(c, e)' /\ ~InPending(c, e)'
      BY <1>1, <1>6, <2>1 DEF InQueue, InPending
    <3>2. OwnInv(c)'
      <4>1. \A m, n \in DOMAIN order[c] : order[c][m] = order[c][n] => m = n
        BY <1>4 DEF OwnInv
      <4> QED BY <1>1, <1>6, <2>1, <3>1, <4>1 DEF OwnInv
    <3>3. SpentInv(c)'
      BY <1>2, <2>1, <3>1 DEF SpentInv
    <3> QED BY <3>2, <3>3
  <2>2. CASE ops'[c] = ops[c] /\ mine'[c] = mine[c] /\ pc'[c] = "failed"
    <3>1. /\ OwnInv(c)'
          /\ \A e \in Events : (InQueue(c, e)' <=> InQueue(c, e)) /\ (InPending(c, e)' <=> InPending(c, e))
      BY <1>1, <2>2, HeldAsIs
    <3>2. \A e \in Events : ~InPending(c, e)
      BY <1>6 DEF InPending
    <3>3. ASSUME NEW e \in Events, InQueue(c, e), c \in Reuse PROVE Stuck(c)'
      <4>1. ops[c] # <<>> /\ ops[c][1] \in Operations
        BY <1>1, <3>3 DEF InQueue
      <4>2. PICK x \in Streams, v \in Int : x = ops[c][1].stream /\ v = ops[c][1].expected
        <5>1. ops[c][1].stream \in Streams /\ ops[c][1].expected \in Nat \cup {Unknown}
          BY <4>1 DEF Operations
        <5>2. ops[c][1].expected \in Int
          BY <5>1 DEF Unknown
        <5> QED BY <5>1, <5>2
      <4>3. at[c] > 1
        BY <1>1, <4>1
      <4>4. wVersion[c][x] > v /\ wVersion[c][x] \in Nat /\ version[x] \in Nat
        BY <1>4, <3>3, <4>2, <4>3 DEF SpentInv, IInv, TypeOK
      <4>5. ops[c][1].expected # Unknown
        BY <1>1, <1>4, <3>3, <4>1 DEF SpentInv
      <4>6. v >= 0
        BY <4>1, <4>2, <4>5 DEF Operations
      <4>7. version'[x] = wVersion[c][x]
        BY <1>2, <4>4, <4>6 DEF Visible
      <4>8. v < version'[x]
        BY <4>4, <4>7
      <4> QED BY <1>2, <2>2, <4>1, <4>2, <4>8 DEF Stuck
    <3>4. ASSUME NEW e \in Events, InQueue(c, e)', Stored(e)'
          PROVE  (c \in Reuse /\ Stuck(c)') \/ (pc'[c] = "failed" /\ ~(c \in Reuse /\ InSession(c)'))
      BY <2>2, <3>1, <3>3, <3>4
    <3>5. c \in Reuse =>
       /\ pc'[c] # "gate" /\ \A i \in DOMAIN ops'[c] : ops'[c][i].expected # Unknown
       /\ ~(at'[c] > 1)
      BY <1>2, <1>4, <2>2 DEF SpentInv
    <3> QED BY <3>1, <3>2, <3>4, <3>5 DEF SpentInv
  <2> QED BY <1>3, <2>1, <2>2
<1>12. lastEvent <= lastEvent'
  BY <1>1, SessionAssumption DEF IInv, TypeOK
<1>13. (\A r \in rows' : r \in rows \/ r.event \in mine[c]) /\ (\A e \in mine'[c] : e \in mine[c])
  BY <1>2, <1>3, <1>8
<1> QED BY <1>5, <1>9, <1>10, <1>11, <1>12, <1>13, OnceFrame

\* What Append returns, for any set of elements.
LEMMA AppendedTo ==
  ASSUME NEW S, NEW s \in Seq(S), NEW e \in S
  PROVE  /\ Len(s) \in Nat /\ DOMAIN s = 1 .. Len(s)
         /\ \A m \in DOMAIN Append(s, e) : m \in DOMAIN s \/ m = Len(s) + 1
         /\ \A m \in DOMAIN s : Append(s, e)[m] = s[m] /\ m \in DOMAIN Append(s, e) /\ m # Len(s) + 1
         /\ Append(s, e)[Len(s) + 1] = e /\ Len(s) + 1 \in DOMAIN Append(s, e)
<1>1. Append(s, e) \in Seq(S) /\ Len(Append(s, e)) = Len(s) + 1
  BY AppendProperties
<1>2. DOMAIN Append(s, e) = 1 .. Len(s) + 1 /\ Len(s) \in Nat /\ DOMAIN s = 1 .. Len(s)
  BY <1>1
<1>3. \A m \in 1 .. Len(s) + 1 : m \in 1 .. Len(s) \/ m = Len(s) + 1
  BY <1>2
<1>4. \A m \in 1 .. Len(s) : m # Len(s) + 1 /\ m \in 1 .. Len(s) + 1
  BY <1>2
<1>5. Append(s, e)[Len(s) + 1] = e /\ \A m \in 1 .. Len(s) : Append(s, e)[m] = s[m]
  BY AppendProperties
<1>6. Len(s) + 1 \in 1 .. Len(s) + 1
  BY <1>2
<1> QED BY <1>2, <1>3, <1>4, <1>5, <1>6

\* A session that runs no save has an empty transaction.
LEMMA AtRest ==
  ASSUME OnceInv, NEW c \in Clients, ~Running(c)
  PROVE  at[c] = 1 /\ wRows[c] = {} /\ \A s \in Streams : wVersion[c][s] = 0
BY DEF OnceInv, WroteInv

\* A new event is nobody's and nowhere stored.
LEMMA NewEvent ==
  ASSUME OnceInv, IInv, NEW c \in Clients, Create(c)
  PROVE  /\ lastEvent' \in Events /\ lastEvent < lastEvent' /\ lastEvent \in Nat
         /\ mine'[c] = mine[c] \cup {lastEvent'}
         /\ lastEvent' \notin mine[c] /\ ~Stored(lastEvent')
         /\ ~InQueue(c, lastEvent') /\ ~InPending(c, lastEvent')
<1>1. lastEvent' \in Events /\ lastEvent < lastEvent' /\ lastEvent \in Nat
  <2>1. lastEvent \in Nat /\ lastEvent' = lastEvent + 1 /\ lastEvent' <= MaxEvents
    BY SessionAssumption DEF Create, IInv, TypeOK
  <2> QED BY <2>1, SessionAssumption DEF Events
<1>2. mine'[c] = mine[c] \cup {lastEvent'}
  BY DEF Create, IInv, TypeOK
<1>3. ~(lastEvent' <= lastEvent)
  BY <1>1 DEF Events
<1>4. lastEvent' \notin mine[c] /\ ~Stored(lastEvent')
  BY <1>1, <1>3 DEF OnceInv
<1>5. ~InQueue(c, lastEvent') /\ ~InPending(c, lastEvent')
  BY <1>1, <1>4 DEF OnceInv, OwnInv
<1> QED BY <1>1, <1>2, <1>4, <1>5

\* Appending to a stream queues an event of the session's own.
LEMMA OnceQueue ==
  ASSUME OnceInv, NEW c \in Clients, OthersAlone(c), IInv, TypeOK',
         NEW kind, NEW s \in Streams, NEW expected \in Nat \cup {Unknown},
         Queue(c, kind, s, expected), c \in Reuse => expected # Unknown
  PROVE  OnceInv'
<1> PICK x \in Events : x = lastEvent'
  BY NewEvent DEF Queue
<1> PICK op \in Operations : op = [kind |-> IF kind = "startStream" THEN kind ELSE "append", stream |-> s,
                                   expected |-> expected, events |-> <<x>>]
  <2>1. <<x>> \in Seq(Events)
    OBVIOUS
  <2>2. (IF kind = "startStream" THEN kind ELSE "append") \in {"startStream", "append"}
    OBVIOUS
  <2> QED BY <2>1, <2>2 DEF Operations
<1> PICK old \in Seq(Operations) : old = ops[c]
  BY DEF IInv, TypeOK
<1> PICK new : new = Append(old, op)
  OBVIOUS
<1>1. /\ UNCHANGED <<version, rows, order, tracked, pc, at, wVersion, wRows, via>> /\ pc[c] = "idle"
      /\ ops'[c] = new
  BY DEF Queue, dbVars, saveVars, IInv, TypeOK
<1>2. /\ lastEvent < x /\ mine'[c] = mine[c] \cup {x} /\ x \notin mine[c]
      /\ ~Stored(x) /\ ~InQueue(c, x) /\ ~InPending(c, x) /\ lastEvent \in Nat
  BY NewEvent DEF Queue
<1>3. /\ Len(old) \in Nat /\ DOMAIN old = 1 .. Len(old)
      /\ \A m \in DOMAIN new : m \in DOMAIN old \/ m = Len(old) + 1
      /\ \A m \in DOMAIN old : new[m] = old[m] /\ m \in DOMAIN new /\ m # Len(old) + 1
      /\ new[Len(old) + 1] = op /\ Len(old) + 1 \in DOMAIN new
  BY AppendedTo
<1>4. op.events = <<x>> /\ op.events # <<>> /\ op.expected = expected
      /\ \A k \in DOMAIN op.events : k = 1 /\ op.events[k] = x
  OBVIOUS
<1>5. OwnInv(c) /\ WroteInv(c) /\ SpentInv(c)
  BY DEF OnceInv
<1>6. \A e \in Events : (InQueue(c, e)' => InQueue(c, e) \/ e = x) /\ (InPending(c, e)' <=> InPending(c, e))
  BY <1>1, <1>3, <1>4 DEF InQueue, InPending
<1>7. OwnInv(c)'
  <2>1. \A e \in Events : InQueue(c, e)' \/ InPending(c, e)' => e \in mine'[c]
    BY <1>2, <1>5, <1>6 DEF OwnInv
  <2>2. \A e \in Events : ~(InQueue(c, e)' /\ InPending(c, e)')
    BY <1>2, <1>5, <1>6 DEF OwnInv
  <2>3. ASSUME NEW i \in DOMAIN new, NEW j \in DOMAIN new, NEW k \in DOMAIN new[i].events, NEW l \in DOMAIN new[j].events,
               new[i].events[k] = new[j].events[l]
        PROVE  i = j /\ k = l
    <3>1. \A m \in DOMAIN old : \A n \in DOMAIN old[m].events : old[m].events[n] # x
      BY <1>2 DEF InQueue
    <3>2. CASE i \in DOMAIN old /\ j \in DOMAIN old
      BY <1>3, <1>5, <2>3, <3>2 DEF OwnInv
    <3>3. CASE i = Len(old) + 1 /\ j = Len(old) + 1
      BY <1>3, <1>4, <3>3
    <3>4. CASE i \in DOMAIN old /\ j = Len(old) + 1
      BY <1>3, <1>4, <2>3, <3>1, <3>4
    <3>5. CASE i = Len(old) + 1 /\ j \in DOMAIN old
      BY <1>3, <1>4, <2>3, <3>1, <3>5
    <3> QED BY <1>3, <3>2, <3>3, <3>4, <3>5
  <2>4. \A i \in DOMAIN new : new[i].events # <<>>
    BY <1>3, <1>4, <1>5 DEF OwnInv
  <2>5. \A y, z \in Streams : \A k \in DOMAIN tracked[c][y].pending, l \in DOMAIN tracked[c][z].pending :
          tracked[c][y].pending[k] = tracked[c][z].pending[l] => y = z /\ k = l
    BY <1>5 DEF OwnInv
  <2>6. \A m, n \in DOMAIN order[c] : order[c][m] = order[c][n] => m = n
    BY <1>5 DEF OwnInv
  <2> QED BY <1>1, <2>1, <2>2, <2>3, <2>4, <2>5, <2>6 DEF OwnInv
<1>8. WroteInv(c)'
  <2>1. ~Running(c)
    BY <1>1 DEF Running
  <2>2. at[c] = 1 /\ wRows[c] = {} /\ \A y \in Streams : wVersion[c][y] = 0
    BY <2>1, AtRest
  <2> QED BY <1>1, <2>2 DEF WroteInv
<1>9. SpentInv(c)'
  <2>1. \A e \in Events : Stored(e)' <=> Stored(e)
    BY <1>1 DEF Stored
  <2>2. \A e \in Events : InPending(c, e)' => ~Stored(e)'
    BY <1>5, <1>6, <2>1 DEF SpentInv
  <2>3. ASSUME NEW e \in Events, InQueue(c, e)', Stored(e)'
        PROVE  c \in Reuse /\ Stuck(c)'
    <3>1. InQueue(c, e) /\ Stored(e)
      BY <1>2, <1>6, <2>1, <2>3
    <3>2. c \in Reuse /\ Stuck(c)
      BY <1>1, <1>5, <3>1 DEF SpentInv
    <3>3. 1 \in DOMAIN old
      BY <1>3, <3>2 DEF Stuck
    <3>4. ops'[c][1] = ops[c][1] /\ ops'[c] # <<>>
      BY <1>1, <1>3, <3>3
    <3> QED BY <1>1, <3>2, <3>4 DEF Stuck
  <2>4. c \in Reuse =>
       /\ pc'[c] # "gate" /\ \A i \in DOMAIN ops'[c] : ops'[c][i].expected # Unknown
       /\ ~(at'[c] > 1)
    <3>1. at[c] = 1
      BY <1>1, AtRest DEF Running
    <3>2. c \in Reuse => \A i \in DOMAIN old : old[i].expected # Unknown
      BY <1>5 DEF SpentInv
    <3>3. c \in Reuse => \A i \in DOMAIN new : new[i].expected # Unknown
      BY <1>3, <1>4, <3>2
    <3> QED BY <1>1, <3>1, <3>3
  <2> QED BY <2>2, <2>3, <2>4 DEF SpentInv
<1>10. EventOnce' /\ (\A y \in Streams : version[y] <= version'[y])
  BY <1>1 DEF OnceInv, EventOnce, IInv, TypeOK
<1>11. lastEvent <= lastEvent' /\ \A e \in mine'[c] : e \in mine[c] \/ (lastEvent < e /\ e <= lastEvent')
  BY <1>2 DEF Events
<1> QED BY <1>1, <1>7, <1>8, <1>9, <1>10, <1>11, OnceFrame

\* Where no save runs, a step that keeps the queue keeps the transaction's part.
LEMMA RestKept ==
  ASSUME OnceInv, NEW c \in Clients, ~Running(c), pc'[c] \in {"idle", "loading"},
         at'[c] = at[c], wRows'[c] = wRows[c], wVersion'[c] = wVersion[c]
  PROVE  WroteInv(c)' /\ at'[c] = 1
<1>1. at[c] = 1 /\ wRows[c] = {} /\ \A s \in Streams : wVersion[c][s] = 0
  BY AtRest
<1> QED BY <1>1 DEF WroteInv, Running

\* What a session at rest has queued stays where it is, spent or not.
LEMMA SpentKept ==
  ASSUME OnceInv, NEW c \in Clients, pc[c] \in {"idle", "loading"}, pc'[c] \in {"idle", "loading"},
         UNCHANGED <<version, rows>>, ops'[c] = ops[c], at'[c] = at[c],
         at[c] = 1,
         \A e \in Events : InPending(c, e)' => ~Stored(e)
  PROVE  SpentInv(c)'
<1>1. SpentInv(c)
  BY DEF OnceInv
<1>2. \A e \in Events : (Stored(e)' <=> Stored(e)) /\ (InQueue(c, e)' <=> InQueue(c, e))
  BY DEF Stored, InQueue
<1>3. ASSUME NEW e \in Events, InQueue(c, e)', Stored(e)' PROVE c \in Reuse /\ Stuck(c)'
  <2>1. c \in Reuse /\ Stuck(c)
    BY <1>1, <1>2, <1>3 DEF SpentInv
  <2> QED BY <2>1 DEF Stuck
<1>4. c \in Reuse =>
       /\ pc'[c] # "gate" /\ \A i \in DOMAIN ops'[c] : ops'[c][i].expected # Unknown
       /\ ~(at'[c] > 1)
  BY <1>1 DEF SpentInv
<1> QED BY <1>2, <1>3, <1>4 DEF SpentInv

\* An aggregate that is loaded has nothing pending.
LEMMA OnceTracked ==
  ASSUME OnceInv, NEW c \in Clients, OthersAlone(c), IInv, TypeOK',
         NEW s \in Streams, NEW agg \in Aggregates, agg.pending = <<>>, Track(c, s, agg),
         pc[c] \in {"idle", "loading"}, pc'[c] = "idle",
         UNCHANGED <<version, rows, lastEvent, mine, ops, via, at, wVersion, wRows>>
  PROVE  OnceInv'
<1>1. ~Running(c) /\ OwnInv(c) /\ SpentInv(c) /\ at[c] = 1
  BY AtRest DEF Running, OnceInv
<1>2. \A x \in Streams : tracked'[c][x] = IF x = s THEN agg ELSE tracked[c][x]
  BY DEF Track, IInv, TypeOK
<1>3. \A x \in Streams : tracked'[c][x].pending = <<>> \/ tracked'[c][x].pending = tracked[c][x].pending
  BY <1>2
<1>4. \A e \in Events : (InQueue(c, e)' <=> InQueue(c, e)) /\ (InPending(c, e)' => InPending(c, e))
  BY <1>3 DEF InQueue, InPending
<1>5. \A m, n \in DOMAIN order'[c] : order'[c][m] = order'[c][n] => m = n
  <2> PICK old \in Seq(Streams) : old = order[c]
    BY DEF IInv, TypeOK
  <2>1. \A m, n \in DOMAIN old : old[m] = old[n] => m = n
    BY <1>1 DEF OwnInv
  <2>2. order'[c] = IF IsTracked(c, s) THEN old ELSE Append(old, s)
    BY DEF Track, IInv, TypeOK
  <2>3. CASE ~IsTracked(c, s)
    <3>1. \A m \in DOMAIN old : old[m] # s
      BY <2>3 DEF IsTracked
    <3> PICK new : new = Append(old, s)
      OBVIOUS
    <3>2. /\ \A m \in DOMAIN new : m \in DOMAIN old \/ m = Len(old) + 1
          /\ \A m \in DOMAIN old : new[m] = old[m]
          /\ new[Len(old) + 1] = s
      BY AppendedTo
    <3>3. \A m, n \in DOMAIN new : new[m] = new[n] => m = n
      BY <2>1, <3>1, <3>2
    <3> QED BY <2>2, <2>3, <3>3
  <2> QED BY <2>1, <2>2, <2>3
<1>6. OwnInv(c)'
  <2>1. \A e \in Events : InQueue(c, e)' \/ InPending(c, e)' => e \in mine'[c]
    BY <1>1, <1>4 DEF OwnInv
  <2>2. \A e \in Events : ~(InQueue(c, e)' /\ InPending(c, e)')
    BY <1>1, <1>4 DEF OwnInv
  <2>3. \A x, y \in Streams : \A k \in DOMAIN tracked'[c][x].pending, l \in DOMAIN tracked'[c][y].pending :
          tracked'[c][x].pending[k] = tracked'[c][y].pending[l] => x = y /\ k = l
    <3> SUFFICES ASSUME NEW x \in Streams, NEW y \in Streams,
                        NEW k \in DOMAIN tracked'[c][x].pending, NEW l \in DOMAIN tracked'[c][y].pending,
                        tracked'[c][x].pending[k] = tracked'[c][y].pending[l]
                 PROVE  x = y /\ k = l
      OBVIOUS
    <3>1. tracked'[c][x].pending = tracked[c][x].pending /\ tracked'[c][y].pending = tracked[c][y].pending
      BY <1>3
    <3> QED BY <1>1, <3>1 DEF OwnInv
  <2>4. /\ \A i, j \in DOMAIN ops[c] : \A k \in DOMAIN ops[c][i].events, l \in DOMAIN ops[c][j].events :
             ops[c][i].events[k] = ops[c][j].events[l] => i = j /\ k = l
        /\ \A i \in DOMAIN ops[c] : ops[c][i].events # <<>>
    BY <1>1 DEF OwnInv
  <2> QED BY <1>5, <2>1, <2>2, <2>3, <2>4 DEF OwnInv
<1>7. WroteInv(c)'
  BY <1>1, RestKept
<1>8. \A e \in Events : InPending(c, e)' => ~Stored(e)
  BY <1>1, <1>4 DEF SpentInv
<1>9. SpentInv(c)'
  BY <1>1, <1>8, SpentKept
<1> QED BY <1>6, <1>7, <1>9, MemoryFrame

\* A load adds an aggregate, or replaces one by a snapshot.
LEMMA OnceLoad ==
  ASSUME OnceInv, NEW c \in Clients, OthersAlone(c), IInv, TypeOK',
         LoadStream(c) \/ \E s \in Streams : LoadSnapshotRow(c, s) \/ LoadSnapshotOnly(c, s)
  PROVE  OnceInv'
<1>1. CASE LoadStream(c)
  <2>1. PICK load \in reading[c], agg \in Aggregates :
          load.stream \in Streams /\ agg.pending = <<>> /\ Track(c, load.stream, agg)
    BY <1>1, LoadTracks DEF IInv
  <2>4. /\ pc[c] = "loading" /\ pc'[c] = "idle"
        /\ UNCHANGED <<version, rows, lastEvent, mine, ops, via, at, wVersion, wRows>>
    <3>1. pc[c] = "loading" /\ pc'[c] = "idle"
      BY <1>1 DEF LoadStream, GoTo, IInv, TypeOK
    <3>2. UNCHANGED <<version, rows, lastEvent, mine, ops, via, at, wVersion, wRows>>
      BY <1>1 DEF LoadStream, dbVars, saveVars
    <3> QED BY <3>1, <3>2
  <2> QED BY <2>1, <2>4, OnceTracked
<1>2. ASSUME NEW s \in Streams, LoadSnapshotOnly(c, s) PROVE OnceInv'
  <2>1. snaps[s].version \in Nat /\ snaps[s].state \in SUBSET Events
    BY DEF IInv, TypeOK, Snapshots
  <2>4. [version |-> snaps[s].version, state |-> snaps[s].state, pending |-> <<>>] \in Aggregates
    BY <2>1 DEF Aggregates
  <2> PICK agg \in Aggregates : agg = [version |-> snaps[s].version, state |-> snaps[s].state, pending |-> <<>>]
    BY <2>4
  <2>2. /\ pc[c] = "idle" /\ pc'[c] = "idle"
        /\ UNCHANGED <<version, rows, lastEvent, mine, ops, via, at, wVersion, wRows>>
    BY <1>2 DEF LoadSnapshotOnly, dbVars, saveVars
  <2>3. Track(c, s, agg) /\ agg.pending = <<>>
    BY <1>2 DEF LoadSnapshotOnly
  <2> QED BY <2>2, <2>3, OnceTracked
<1>3. ASSUME NEW s \in Streams, LoadSnapshotRow(c, s) PROVE OnceInv'
  <2>1. /\ pc[c] = "idle" /\ pc'[c] = "loading"
        /\ UNCHANGED <<version, rows, lastEvent, mine, order, tracked, ops, via, at, wVersion, wRows>>
    BY <1>3 DEF LoadSnapshotRow, GoTo, IInv, TypeOK, dbVars, memVars, saveVars, historyVars
  <2>2. ~Running(c) /\ SpentInv(c) /\ at[c] = 1
    BY <2>1, AtRest DEF Running, OnceInv
  <2>3. /\ OwnInv(c)'
        /\ \A e \in Events : (InQueue(c, e)' <=> InQueue(c, e)) /\ (InPending(c, e)' <=> InPending(c, e))
    BY <2>1, HeldAsIs
  <2>4. WroteInv(c)'
    BY <2>1, <2>2, RestKept
  <2>5. \A e \in Events : InPending(c, e)' => ~Stored(e)
    BY <2>2, <2>3 DEF SpentInv
  <2>6. SpentInv(c)'
    BY <2>1, <2>2, <2>5, SpentKept
  <2> QED BY <2>1, <2>3, <2>4, <2>6, MemoryFrame
<1> QED BY <1>1, <1>2, <1>3

\* What raising an event does to the aggregates of the session.
LEMMA RaisedOn ==
  ASSUME TypeOK, NEW c \in Clients, NEW s \in Streams, Raise(c, s)
  PROVE  \A y \in Streams :
           /\ tracked'[c][y].pending =
                IF y = s THEN Append(tracked[c][s].pending, lastEvent') ELSE tracked[c][y].pending
           /\ tracked'[c][y].state =
                IF y = s THEN tracked[c][s].state \cup {lastEvent'} ELSE tracked[c][y].state
           /\ tracked'[c][y].version = tracked[c][y].version
<1> DEFINE agg == [tracked[c][s] EXCEPT !.state = @ \cup {lastEvent'}, !.pending = Append(@, lastEvent')]
<1>1. tracked' = [tracked EXCEPT ![c] = [tracked[c] EXCEPT ![s] = agg]]
  BY DEF Raise, TypeOK
<1>2. /\ agg.pending = Append(tracked[c][s].pending, lastEvent')
      /\ agg.state = tracked[c][s].state \cup {lastEvent'}
      /\ agg.version = tracked[c][s].version
  <2>1. tracked[c][s] \in Aggregates
    BY DEF TypeOK
  <2> PICK pending, state : pending = Append(tracked[c][s].pending, lastEvent') /\ state = tracked[c][s].state \cup {lastEvent'}
    OBVIOUS
  <2>2. agg = [tracked[c][s] EXCEPT !.state = state, !.pending = pending]
    OBVIOUS
  <2> HIDE DEF agg
  <2> QED BY <2>1, <2>2 DEF Aggregates
<1> HIDE DEF agg
<1> QED BY <1>1, <1>2 DEF TypeOK

\* A domain method adds an event of the session's own to one aggregate.
LEMMA OnceRaise ==
  ASSUME OnceInv, NEW c \in Clients, OthersAlone(c), IInv, TypeOK', NEW s \in Streams, Raise(c, s)
  PROVE  OnceInv'
<1> PICK x \in Events : x = lastEvent'
  BY NewEvent DEF Raise
<1> PICK old \in Seq(Events) : old = tracked[c][s].pending
  <2>1. tracked[c][s] \in Aggregates
    BY DEF IInv, TypeOK
  <2> QED BY <2>1 DEF Aggregates
<1> PICK new : new = Append(old, x)
  OBVIOUS
<1>1. UNCHANGED <<version, rows, order, ops, pc, at, wVersion, wRows, via>> /\ pc[c] = "idle"
  BY DEF Raise, dbVars, saveVars
<1>2. /\ lastEvent < x /\ mine'[c] = mine[c] \cup {x} /\ x \notin mine[c]
      /\ ~Stored(x) /\ ~InQueue(c, x) /\ ~InPending(c, x) /\ lastEvent \in Nat
  BY NewEvent DEF Raise
<1>3. \A y \in Streams : tracked'[c][y].pending = IF y = s THEN new ELSE tracked[c][y].pending
  BY RaisedOn DEF IInv
<1>4. /\ \A m \in DOMAIN new : m \in DOMAIN old \/ m = Len(old) + 1
      /\ \A m \in DOMAIN old : new[m] = old[m] /\ m \in DOMAIN new /\ m # Len(old) + 1
      /\ new[Len(old) + 1] = x /\ Len(old) + 1 \in DOMAIN new
  BY AppendedTo
<1>5. OwnInv(c) /\ WroteInv(c) /\ SpentInv(c)
  BY DEF OnceInv
<1>6. \A e \in Events : (InQueue(c, e)' <=> InQueue(c, e)) /\ (InPending(c, e)' => InPending(c, e) \/ e = x)
  <2>1. \A e \in Events : InQueue(c, e)' <=> InQueue(c, e)
    BY <1>1 DEF InQueue
  <2>2. ASSUME NEW e \in Events, NEW y \in Streams, NEW k \in DOMAIN tracked'[c][y].pending,
               tracked'[c][y].pending[k] = e
        PROVE  e = x \/ \E n \in DOMAIN tracked[c][y].pending : tracked[c][y].pending[n] = e
    <3>1. CASE y = s
      <4>1. e = x \/ (k \in DOMAIN old /\ old[k] = e)
        BY <1>3, <1>4, <2>2, <3>1
      <4> QED BY <3>1, <4>1
    <3>2. CASE y # s
      BY <1>3, <2>2, <3>2
    <3> QED BY <3>1, <3>2
  <2> QED BY <2>1, <2>2 DEF InPending
<1>7. OwnInv(c)'
  <2>1. \A e \in Events : InQueue(c, e)' \/ InPending(c, e)' => e \in mine'[c]
    BY <1>2, <1>5, <1>6 DEF OwnInv
  <2>2. \A e \in Events : ~(InQueue(c, e)' /\ InPending(c, e)')
    BY <1>2, <1>5, <1>6 DEF OwnInv
  <2>3. ASSUME NEW y \in Streams, NEW z \in Streams,
               NEW k \in DOMAIN tracked'[c][y].pending, NEW l \in DOMAIN tracked'[c][z].pending,
               tracked'[c][y].pending[k] = tracked'[c][z].pending[l]
        PROVE  y = z /\ k = l
    <3> DEFINE p(t) == tracked[c][t].pending
    <3>1. \A t \in Streams : \A n \in DOMAIN p(t) : p(t)[n] # x
      BY <1>2 DEF InPending
    <3>2. \A t, u \in Streams : \A m \in DOMAIN p(t), n \in DOMAIN p(u) : p(t)[m] = p(u)[n] => t = u /\ m = n
      BY <1>5 DEF OwnInv
    <3>3. p(s) = old
      OBVIOUS
    <3>4. \A t \in Streams : \A n : n \in DOMAIN tracked'[c][t].pending =>
            \/ n \in DOMAIN p(t) /\ tracked'[c][t].pending[n] = p(t)[n]
            \/ t = s /\ n = Len(old) + 1 /\ tracked'[c][t].pending[n] = x
      BY <1>3, <1>4
    <3> HIDE DEF p
    <3>5. \/ k \in DOMAIN p(y) /\ tracked'[c][y].pending[k] = p(y)[k]
          \/ y = s /\ k = Len(old) + 1 /\ tracked'[c][y].pending[k] = x
      BY <2>3, <3>4
    <3>6. \/ l \in DOMAIN p(z) /\ tracked'[c][z].pending[l] = p(z)[l]
          \/ z = s /\ l = Len(old) + 1 /\ tracked'[c][z].pending[l] = x
      BY <2>3, <3>4
    <3> QED BY <2>3, <3>1, <3>2, <3>5, <3>6
  <2>4. /\ \A i, j \in DOMAIN ops[c] : \A k \in DOMAIN ops[c][i].events, l \in DOMAIN ops[c][j].events :
             ops[c][i].events[k] = ops[c][j].events[l] => i = j /\ k = l
        /\ \A i \in DOMAIN ops[c] : ops[c][i].events # <<>>
        /\ \A m, n \in DOMAIN order[c] : order[c][m] = order[c][n] => m = n
    BY <1>5 DEF OwnInv
  <2> QED BY <1>1, <2>1, <2>2, <2>3, <2>4 DEF OwnInv
<1>8. at[c] = 1
  BY <1>1, AtRest DEF Running
<1>9. WroteInv(c)'
  BY <1>1, RestKept DEF Running
<1>10. \A e \in Events : InPending(c, e)' => ~Stored(e)
  BY <1>2, <1>5, <1>6 DEF SpentInv
<1>11. SpentInv(c)'
  BY <1>1, <1>8, <1>10, SpentKept
<1>12. EventOnce' /\ (\A y \in Streams : version[y] <= version'[y])
  BY <1>1 DEF OnceInv, EventOnce, IInv, TypeOK
<1>13. lastEvent <= lastEvent' /\ \A e \in mine'[c] : e \in mine[c] \/ (lastEvent < e /\ e <= lastEvent')
  BY <1>2 DEF Events
<1> QED BY <1>1, <1>7, <1>9, <1>11, <1>12, <1>13, OnceFrame

\* A new session holds nothing.
LEMMA OnceNewSession ==
  ASSUME OnceInv, NEW c \in Clients, OthersAlone(c), IInv, TypeOK', NewSession(c)
  PROVE  OnceInv'
<1>1. /\ UNCHANGED <<version, rows, lastEvent, at, wVersion, wRows>> /\ pc[c] \in {"idle", "failed"}
      /\ pc'[c] = "idle" /\ ops'[c] = <<>> /\ order'[c] = <<>> /\ mine'[c] = {}
  BY DEF NewSession, GoTo, IInv, TypeOK, dbVars, saveVars
<1>2. \A s \in Streams : tracked'[c][s].pending = <<>>
  <2>1. tracked'[c] = [s \in Streams |-> Fresh]
    BY DEF NewSession, IInv, TypeOK
  <2> QED BY <2>1 DEF Fresh
<1>3. \A e \in Events : ~InQueue(c, e)' /\ ~InPending(c, e)'
  BY <1>1, <1>2 DEF InQueue, InPending
<1>4. OwnInv(c)'
  BY <1>1, <1>2, <1>3 DEF OwnInv
<1>5. WroteInv(c)' /\ at'[c] = 1
  BY <1>1, RestKept DEF Running
<1>6. SpentInv(c)'
  BY <1>1, <1>3, <1>5 DEF SpentInv
<1> QED BY <1>1, <1>4, <1>5, <1>6, MemoryFrame

\* A session goes on with its queue; a repository has none.
LEMMA OnceKeepSession ==
  ASSUME OnceInv, NEW c \in Clients, OthersAlone(c), IInv, TypeOK', KeepSession(c)
  PROVE  OnceInv'
<1>1. /\ UNCHANGED <<version, rows, lastEvent, mine, order, tracked, via, at, wVersion, wRows>>
      /\ c \in Reuse /\ pc[c] = "failed" /\ pc'[c] = "idle"
      /\ ops'[c] = IF InSession(c) THEN ops[c] ELSE <<>>
  BY DEF KeepSession, Kept, GoTo, IInv, TypeOK, dbVars, saveVars, historyVars
<1>2. OwnInv(c) /\ SpentInv(c)
  BY DEF OnceInv
<1>3. \A e \in Events : (InQueue(c, e)' => InQueue(c, e) /\ InSession(c)) /\ (InPending(c, e)' <=> InPending(c, e))
  BY <1>1 DEF InQueue, InPending
<1>4. OwnInv(c)'
  <2>1. CASE InSession(c)
    BY <1>1, <2>1, HeldAsIs
  <2>2. CASE ~InSession(c)
    <3>1. ops'[c] = <<>>
      BY <1>1, <2>2
    <3> QED BY <1>1, <1>2, <1>3, <3>1 DEF OwnInv
  <2> QED BY <2>1, <2>2
<1>5. WroteInv(c)' /\ at'[c] = 1
  BY <1>1, RestKept DEF Running
<1>6. SpentInv(c)'
  <2>1. \A e \in Events : Stored(e)' <=> Stored(e)
    BY <1>1 DEF Stored
  <2>2. \A e \in Events : InPending(c, e)' => ~Stored(e)'
    BY <1>2, <1>3, <2>1 DEF SpentInv
  <2>3. ASSUME NEW e \in Events, InQueue(c, e)', Stored(e)' PROVE Stuck(c)'
    <3>1. InQueue(c, e) /\ Stored(e) /\ InSession(c)
      BY <1>3, <2>1, <2>3
    <3>2. Stuck(c)
      BY <1>1, <1>2, <3>1 DEF SpentInv
    <3> QED BY <1>1, <3>1, <3>2 DEF Stuck
  <2>4. \A i \in DOMAIN ops'[c] : ops'[c][i].expected # Unknown
    BY <1>1, <1>2 DEF SpentInv
  <2> QED BY <1>1, <1>5, <2>2, <2>3, <2>4 DEF SpentInv
<1> QED BY <1>1, <1>4, <1>5, <1>6, MemoryFrame

\* What concatenation returns.
LEMMA Concatenated ==
  ASSUME NEW S, NEW s \in Seq(S), NEW t \in Seq(S)
  PROVE  /\ Len(s) \in Nat /\ DOMAIN s = 1 .. Len(s)
         /\ \A m \in DOMAIN (s \o t) :
              \/ m \in DOMAIN s /\ (s \o t)[m] = s[m]
              \/ m - Len(s) \in DOMAIN t /\ m > Len(s) /\ m \in Nat /\ (s \o t)[m] = t[m - Len(s)]
         /\ \A m \in DOMAIN s : m \in DOMAIN (s \o t) /\ m \in Nat /\ m <= Len(s)
<1>1. /\ Len(s) \in Nat /\ Len(t) \in Nat /\ DOMAIN s = 1 .. Len(s) /\ DOMAIN t = 1 .. Len(t)
      /\ s \o t \in Seq(S) /\ Len(s \o t) = Len(s) + Len(t)
  BY ConcatProperties
<1>2. DOMAIN (s \o t) = 1 .. Len(s) + Len(t)
  BY <1>1
<1>3. \A m \in 1 .. Len(s) + Len(t) :
        (s \o t)[m] = IF m <= Len(s) THEN s[m] ELSE t[m - Len(s)]
  BY ConcatProperties
<1>4. ASSUME NEW m \in 1 .. Len(s) + Len(t)
      PROVE  (m \in 1 .. Len(s) /\ m <= Len(s)) \/ (m - Len(s) \in 1 .. Len(t) /\ m > Len(s) /\ m \in Nat)
  BY <1>1
<1>5. \A m \in 1 .. Len(s) : m \in 1 .. Len(s) + Len(t) /\ m \in Nat /\ m <= Len(s)
  BY <1>1
<1>6. \A m \in Nat : ~(m > Len(s) /\ m <= Len(s))
  BY <1>1
<1> QED BY <1>1, <1>2, <1>3, <1>4, <1>5, <1>6

\* The pending events of each aggregate become one operation, behind the queue.
LEMMA OnceBegin ==
  ASSUME OnceInv, NEW c \in Clients, OthersAlone(c), IInv, TypeOK', BeginSave(c)
  PROVE  OnceInv'
<1> PICK n \in Nat : n = Cardinality(Dirty(c))
  BY FS_Subset, FS_CardinalityType, SessionAssumption DEF Dirty
<1>2. PICK streams \in [1 .. n -> Dirty(c)] :
        /\ InMapOrder(c, streams)
        /\ ops' = [ops EXCEPT ![c] = Submitted(c, [i \in DOMAIN streams |-> PulledOp(c, streams[i])])]
  BY DEF BeginSave
<1> PICK old \in Seq(Operations) : old = ops[c]
  BY DEF IInv, TypeOK
<1> PICK pulled \in Seq(Operations) : pulled = [i \in 1 .. n |-> PulledOp(c, streams[i])]
  <2>1. \A s \in Streams : PulledOp(c, s) \in Operations
    <3>1. \A s \in Streams : tracked[c][s] \in Aggregates
      BY DEF IInv, TypeOK
    <3> QED BY <3>1 DEF PulledOp, Operations, Aggregates
  <2>2. \A i \in 1 .. n : PulledOp(c, streams[i]) \in Operations
    BY <1>2, <2>1 DEF Dirty
  <2>3. [i \in 1 .. n |-> PulledOp(c, streams[i])] \in Seq(Operations)
    BY <2>2, IsASeq
  <2> QED BY <2>3
<1> PICK new : new = old \o pulled
  OBVIOUS
<1>3. /\ UNCHANGED <<version, rows, lastEvent, mine, order, via, at, wVersion, wRows>>
      /\ pc[c] = "idle" /\ pc'[c] = "saving"
  <2>1. pc[c] = "idle" /\ pc'[c] = "saving"
    BY DEF BeginSave, GoTo, IInv, TypeOK
  <2> QED BY <2>1 DEF BeginSave, dbVars, saveVars, historyVars
<1>4. ops'[c] = new
  BY <1>2 DEF Submitted, IInv, TypeOK
<1>5. \A s \in Streams : tracked'[c][s].pending = <<>>
  <2>1. \A s \in Streams : [tracked[c][s] EXCEPT !.pending = <<>>].pending = <<>>
    BY DEF IInv, TypeOK, Aggregates
  <2>2. tracked'[c] = [s \in Streams |-> [tracked[c][s] EXCEPT !.pending = <<>>]]
    BY DEF BeginSave, IInv, TypeOK
  <2> QED BY <2>1, <2>2
<1>6. OwnInv(c) /\ WroteInv(c) /\ SpentInv(c) /\ at[c] = 1
  BY <1>3, AtRest DEF OnceInv, Running
<1>7. \A i \in 1 .. n : /\ streams[i] \in Streams
                        /\ pulled[i].events = tracked[c][streams[i]].pending
                        /\ pulled[i].events # <<>>
                        /\ pulled[i].expected = tracked[c][streams[i]].version
  <2> SUFFICES ASSUME NEW i \in 1 .. n
               PROVE  /\ streams[i] \in Streams
                      /\ pulled[i].events = tracked[c][streams[i]].pending
                      /\ pulled[i].events # <<>>
                      /\ pulled[i].expected = tracked[c][streams[i]].version
    OBVIOUS
  <2>1. streams[i] \in Streams /\ tracked[c][streams[i]].pending # <<>>
    BY <1>2 DEF Dirty
  <2>2. pulled[i] = PulledOp(c, streams[i])
    OBVIOUS
  <2> QED BY <2>1, <2>2 DEF PulledOp
<1>8. \A i, j \in 1 .. n : streams[i] = streams[j] => i = j
  <2>1. ASSUME NEW i \in 1 .. n, NEW j \in 1 .. n, i < j, streams[i] = streams[j] PROVE FALSE
    <3>1. PICK k, l \in DOMAIN order[c] : k < l /\ order[c][k] = streams[i] /\ order[c][l] = streams[j]
      BY <1>2, <2>1 DEF InMapOrder
    <3>2. k = l
      BY <1>6, <2>1, <3>1 DEF OwnInv
    <3>3. DOMAIN order[c] \subseteq Nat
      <4>1. order[c] \in Seq(Streams)
        BY DEF IInv, TypeOK
      <4> QED BY <4>1
    <3> QED BY <3>1, <3>2, <3>3
  <2>2. ASSUME NEW i \in 1 .. n, NEW j \in 1 .. n, streams[i] = streams[j] PROVE i = j
    <3>1. ~(i < j) /\ ~(j < i)
      BY <2>1, <2>2
    <3> QED BY <3>1
  <2> QED BY <2>2
<1> PICK q \in Nat : q = Len(old)
  OBVIOUS
<1>9. /\ \A m \in DOMAIN new : \/ m \in DOMAIN old /\ new[m] = old[m]
                               \/ m - q \in 1 .. n /\ m > q /\ m \in Nat /\ new[m] = pulled[m - q]
      /\ \A m \in DOMAIN old : m \in DOMAIN new /\ m \in Nat /\ m <= q
  <2>1. DOMAIN pulled = 1 .. n
    OBVIOUS
  <2> QED BY <2>1, Concatenated
<1>10. \A m \in DOMAIN old : new[m] = old[m]
  <2>1. \A m \in Nat : ~(m > q /\ m <= q)
    OBVIOUS
  <2> QED BY <1>9, <2>1
<1>11. ASSUME NEW e \in Events
       PROVE  (InQueue(c, e)' => InQueue(c, e) \/ InPending(c, e)) /\ ~InPending(c, e)'
  <2>1. ~InPending(c, e)'
    BY <1>5 DEF InPending
  <2>2. ASSUME NEW m \in DOMAIN new, NEW k \in DOMAIN new[m].events, new[m].events[k] = e
        PROVE  InQueue(c, e) \/ InPending(c, e)
    <3>1. CASE m \in DOMAIN old
      BY <1>10, <2>2, <3>1 DEF InQueue
    <3>2. CASE m - q \in 1 .. n /\ new[m] = pulled[m - q]
      BY <1>7, <2>2, <3>2 DEF InPending
    <3> QED BY <1>9, <3>1, <3>2
  <2> QED BY <1>4, <2>1, <2>2 DEF InQueue
<1>12. OwnInv(c)'
  <2>1. \A e \in Events : InQueue(c, e)' \/ InPending(c, e)' => e \in mine'[c]
    BY <1>3, <1>6, <1>11 DEF OwnInv
  <2>2. \A e \in Events : ~(InQueue(c, e)' /\ InPending(c, e)')
    BY <1>11
  <2>3. ASSUME NEW i \in DOMAIN ops'[c], NEW j \in DOMAIN ops'[c],
               NEW k \in DOMAIN ops'[c][i].events, NEW l \in DOMAIN ops'[c][j].events,
               ops'[c][i].events[k] = ops'[c][j].events[l]
        PROVE  i = j /\ k = l
    <3>7. /\ i \in DOMAIN new /\ j \in DOMAIN new
          /\ k \in DOMAIN new[i].events /\ l \in DOMAIN new[j].events
          /\ new[i].events[k] = new[j].events[l]
      BY <1>4, <2>3
    <3>1. \A m \in DOMAIN old, s \in Streams :
            \A a \in DOMAIN old[m].events, b \in DOMAIN tracked[c][s].pending : old[m].events[a] # tracked[c][s].pending[b]
      <4> SUFFICES ASSUME NEW m \in DOMAIN old, NEW s \in Streams,
                          NEW a \in DOMAIN old[m].events, NEW b \in DOMAIN tracked[c][s].pending,
                          old[m].events[a] = tracked[c][s].pending[b]
                   PROVE  FALSE
        OBVIOUS
      <4>1. old[m].events[a] \in Events
        <5>1. m \in 1 .. Len(old)
          OBVIOUS
        <5>2. old[m] \in Operations
          BY <5>1, ElementOfSeq
        <5>3. PICK evs \in Seq(Events) : evs = old[m].events
          BY <5>2 DEF Operations
        <5>4. a \in 1 .. Len(evs)
          BY <5>3
        <5> QED BY <5>3, <5>4, ElementOfSeq
      <4>2. InQueue(c, old[m].events[a])
        BY DEF InQueue
      <4>3. InPending(c, old[m].events[a])
        BY DEF InPending
      <4> QED BY <1>6, <4>1, <4>2, <4>3 DEF OwnInv
    <3>2. CASE i \in DOMAIN old /\ j \in DOMAIN old
      <4>1. new[i] = old[i] /\ new[j] = old[j]
        BY <1>10, <3>2
      <4>2. /\ k \in DOMAIN ops[c][i].events /\ l \in DOMAIN ops[c][j].events
            /\ ops[c][i].events[k] = ops[c][j].events[l]
        BY <3>7, <4>1
      <4> QED BY <1>6, <3>2, <4>2 DEF OwnInv
    <3>3. ASSUME NEW m \in DOMAIN new, m \notin DOMAIN old
          PROVE  m - q \in 1 .. n /\ m \in Nat /\ streams[m - q] \in Streams
                 /\ new[m].events = tracked[c][streams[m - q]].pending
      <4>1. m - q \in 1 .. n /\ m \in Nat /\ new[m] = pulled[m - q]
        BY <1>9, <3>3
      <4>2. PICK d \in 1 .. n : d = m - q
        BY <4>1
      <4>3. streams[d] \in Streams /\ pulled[d].events = tracked[c][streams[d]].pending
        BY <1>7
      <4> QED BY <4>1, <4>2, <4>3
    <3>4. CASE i \in DOMAIN old /\ j \notin DOMAIN old
      <4>1. new[i] = old[i]
        BY <1>10, <3>4
      <4>2. PICK s \in Streams : new[j].events = tracked[c][s].pending
        BY <3>3, <3>7, <3>4
      <4>3. /\ k \in DOMAIN old[i].events /\ l \in DOMAIN tracked[c][s].pending
            /\ old[i].events[k] = tracked[c][s].pending[l]
        BY <3>7, <4>1, <4>2
      <4> QED BY <3>1, <3>4, <4>3
    <3>5. CASE i \notin DOMAIN old /\ j \in DOMAIN old
      <4>1. new[j] = old[j]
        BY <1>10, <3>5
      <4>2. PICK s \in Streams : new[i].events = tracked[c][s].pending
        BY <3>3, <3>7, <3>5
      <4>3. /\ l \in DOMAIN old[j].events /\ k \in DOMAIN tracked[c][s].pending
            /\ old[j].events[l] = tracked[c][s].pending[k]
        BY <3>7, <4>1, <4>2
      <4> QED BY <3>1, <3>5, <4>3
    <3>6. CASE i \notin DOMAIN old /\ j \notin DOMAIN old
      <4>1. streams[i - q] = streams[j - q] /\ k = l
        <5>1. PICK s \in Streams : s = streams[i - q] /\ new[i].events = tracked[c][s].pending
          BY <3>3, <3>7, <3>6
        <5>2. PICK u \in Streams : u = streams[j - q] /\ new[j].events = tracked[c][u].pending
          BY <3>3, <3>7, <3>6
        <5>3. /\ k \in DOMAIN tracked[c][s].pending /\ l \in DOMAIN tracked[c][u].pending
              /\ tracked[c][s].pending[k] = tracked[c][u].pending[l]
          BY <3>7, <5>1, <5>2
        <5>4. s = u /\ k = l
          BY <1>6, <5>3 DEF OwnInv
        <5> QED BY <5>1, <5>2, <5>4
      <4>2. i - q = j - q /\ i \in Nat /\ j \in Nat
        BY <1>8, <3>3, <3>6, <3>7, <4>1
      <4>3. i = j
        BY <4>2
      <4> QED BY <4>1, <4>3
    <3> QED BY <3>2, <3>4, <3>5, <3>6
  <2>4. \A i \in DOMAIN new : new[i].events # <<>>
    <3>1. \A i \in DOMAIN old : old[i].events # <<>>
      BY <1>6 DEF OwnInv
    <3> QED BY <1>7, <1>9, <3>1
  <2>5. \A m, k \in DOMAIN order[c] : order[c][m] = order[c][k] => m = k
    BY <1>6 DEF OwnInv
  <2>6. \A s \in Streams : DOMAIN tracked'[c][s].pending = {}
    BY <1>5
  <2>7. \A s, u \in Streams : \A k \in DOMAIN tracked'[c][s].pending, l \in DOMAIN tracked'[c][u].pending :
          tracked'[c][s].pending[k] = tracked'[c][u].pending[l] => s = u /\ k = l
    BY <2>6
  <2>8. ops'[c] = new /\ order'[c] = order[c]
    BY <1>3, <1>4
  <2>10. /\ \A i \in DOMAIN ops'[c] : ops'[c][i].events # <<>>
         /\ \A m, k \in DOMAIN order'[c] : order'[c][m] = order'[c][k] => m = k
    BY <2>4, <2>5, <2>8
  <2> QED BY <2>1, <2>2, <2>3, <2>7, <2>10 DEF OwnInv
<1>13. WroteInv(c)'
  <2>1. wRows[c] = {} /\ \A s \in Streams : wVersion[c][s] = 0
    BY <1>3, AtRest DEF Running
  <2> QED BY <1>3, <1>5, <1>6, <2>1 DEF WroteInv, Running
<1>14. SpentInv(c)'
  <2>1. \A e \in Events : Stored(e)' <=> Stored(e)
    BY <1>3 DEF Stored
  <2>2. ASSUME NEW e \in Events, InQueue(c, e)', Stored(e)' PROVE c \in Reuse /\ Stuck(c)'
    <3>1. InQueue(c, e)
      BY <1>6, <1>11, <2>1, <2>2 DEF SpentInv
    <3>2. c \in Reuse /\ Stuck(c)
      BY <1>3, <1>6, <2>1, <2>2, <3>1 DEF SpentInv
    <3>3. 1 \in DOMAIN old
      BY <3>2 DEF Stuck
    <3>4. new[1] = old[1] /\ new # <<>>
      BY <1>9, <1>10, <3>3
    <3> QED BY <1>3, <1>4, <3>2, <3>4 DEF Stuck
  <2>3. c \in Reuse => \A i \in DOMAIN new : new[i].expected # Unknown
    <3>1. \A s \in Streams : tracked[c][s].version \in Nat
      BY DEF IInv, TypeOK, Aggregates
    <3>2. Unknown \notin Nat
      BY DEF Unknown
    <3>3. c \in Reuse => \A i \in DOMAIN old : old[i].expected # Unknown
      BY <1>6 DEF SpentInv
    <3>4. \A i \in 1 .. n : pulled[i].expected # Unknown
      BY <1>7, <3>1, <3>2
    <3> QED BY <1>9, <3>3, <3>4
  <2>4. at'[c] = 1 /\ pc'[c] # "gate" /\ ops'[c] = new
    BY <1>3, <1>4, <1>6
  <2>5. ~(at'[c] > 1)
    BY <2>4
  <2> QED BY <1>11, <2>2, <2>3, <2>4, <2>5 DEF SpentInv
<1> QED BY <1>3, <1>12, <1>13, <1>14, MemoryFrame

\* Dismissing an event touches no session.
LEMMA OnceDismiss ==
  ASSUME OnceInv, NEW e \in Events, Dismiss(e) PROVE OnceInv'
<1>1. UNCHANGED <<version, rows, order, tracked, ops, via, pc, at, wVersion, wRows, lastEvent, mine>>
  BY DEF Dismiss, memVars, saveVars, historyVars
<1> QED BY <1>1 DEF OnceInv, EventOnce, Stored, OwnInv, WroteInv, SpentInv, Stuck, InQueue, InPending,
                    Running, InSession

\* No session, no event.
LEMMA OnceInit == Init => OnceInv
<1> SUFFICES ASSUME Init PROVE OnceInv
  OBVIOUS
<1>1. EventOnce /\ \A e \in Events : ~Stored(e)
  BY DEF Init, EventOnce, Stored
<1>2. \A c, d \in Clients : mine[c] = {}
  BY DEF Init
<1>3. ASSUME NEW c \in Clients PROVE OwnInv(c) /\ WroteInv(c) /\ SpentInv(c)
  <2>1. /\ order[c] = <<>> /\ ops[c] = <<>> /\ pc[c] = "idle" /\ at[c] = 1 /\ wRows[c] = {}
        /\ \A s \in Streams : tracked[c][s].pending = <<>> /\ wVersion[c][s] = 0
    BY <1>3 DEF Init, NoWrite, Fresh
  <2>2. \A e \in Events : ~InQueue(c, e) /\ ~InPending(c, e)
    BY <2>1 DEF InQueue, InPending
  <2>3. OwnInv(c)
    BY <2>1, <2>2 DEF OwnInv
  <2>4. WroteInv(c)
    BY <2>1 DEF WroteInv
  <2>5. SpentInv(c)
    BY <2>1, <2>2 DEF SpentInv
  <2> QED BY <2>3, <2>4, <2>5
<1> QED BY <1>1, <1>2, <1>3 DEF OnceInv

\* Every step preserves the invariant.
LEMMA OnceStep == IInv /\ NeverUnsafe /\ OnceInv /\ [Next]_vars => OnceInv'
<1> SUFFICES ASSUME IInv, NeverUnsafe, OnceInv, [Next]_vars PROVE OnceInv'
  OBVIOUS
<1>1. IInv' /\ TypeOK /\ TypeOK'
  BY InvStep DEF IInv
<1>2. CASE UNCHANGED vars
  <2>1. UNCHANGED <<version, rows, order, tracked, ops, via, pc, at, wVersion, wRows, lastEvent, mine>>
    BY <1>2 DEF vars, dbVars, memVars, saveVars, historyVars
  <2> QED BY <2>1 DEF OnceInv, EventOnce, Stored, OwnInv, WroteInv, SpentInv, Stuck, InQueue, InPending,
                      Running, InSession
<1>3. ASSUME NEW c \in Clients, SaveStep(c) \/ ClientStep(c) PROVE OnceInv'
  <2>1. OthersAlone(c)
    BY <1>1, <1>3, StepAlone
  <2>2. CASE ResolveVersion(c)
    BY <1>1, <2>1, <2>2, OnceResolve
  <2>3. CASE AppendOp(c)
    BY <1>1, <2>1, <2>3, OnceAppend
  <2>4. CASE Reject(c) \/ DeadlockVictim(c) \/ DbError(c)
    <3>1. Rollback(c)
      BY <2>4 DEF Reject, DeadlockVictim, DbError
    <3>2. Running(c)
      <4>1. DeadlockVictim(c) => HasOp(c)
        BY DEF DeadlockVictim, WaitsFor
      <4> QED BY <2>4, <4>1 DEF Reject, GateOpen, HasOp, DbError
    <3> QED BY <1>1, <2>1, <3>1, <3>2, OnceRollback
  <2>5. CASE Commit(c) \/ CommitUnknown(c)
    BY <1>1, <2>1, <2>5, OncePublish
  <2>6. ASSUME NEW s \in Streams, StartStream(c, s) \/ AppendEvents(c, s) \/ AppendUnsafe(c, s)
        PROVE  OnceInv'
    <3>1. CASE StartStream(c, s)
      <4>1. 0 \in Nat \cup {Unknown} /\ 0 # Unknown
        BY DEF Unknown
      <4> QED BY <1>1, <2>1, <3>1, <4>1, OnceQueue DEF StartStream
    <3>2. CASE AppendEvents(c, s)
      <4>1. version[s] \in Nat \cup {Unknown} /\ version[s] # Unknown
        BY <1>1 DEF Unknown, TypeOK
      <4> QED BY <1>1, <2>1, <3>2, <4>1, OnceQueue DEF AppendEvents
    <3>3. CASE AppendUnsafe(c, s)
      <4>1. Unknown \in Nat \cup {Unknown} /\ c \notin Reuse
        BY <3>3 DEF AppendUnsafe, Queue, NeverUnsafe
      <4> QED BY <1>1, <2>1, <3>3, <4>1, OnceQueue DEF AppendUnsafe
    <3> QED BY <2>6, <3>1, <3>2, <3>3
  <2>7. CASE LoadStream(c) \/ \E s \in Streams : LoadSnapshotRow(c, s) \/ LoadSnapshotOnly(c, s)
    BY <1>1, <2>1, <2>7, OnceLoad
  <2>8. ASSUME NEW s \in Streams, Raise(c, s) PROVE OnceInv'
    BY <1>1, <2>1, <2>8, OnceRaise
  <2>9. CASE BeginSave(c)
    BY <1>1, <2>1, <2>9, OnceBegin
  <2>10. CASE NewSession(c)
    BY <1>1, <2>1, <2>10, OnceNewSession
  <2>11. CASE KeepSession(c)
    BY <1>1, <2>1, <2>11, OnceKeepSession
  <2> QED BY <1>3, <2>2, <2>3, <2>4, <2>5, <2>6, <2>7, <2>8, <2>9, <2>10, <2>11 DEF SaveStep, ClientStep
<1>4. ASSUME NEW e \in Events, Dismiss(e) PROVE OnceInv'
  BY <1>4, OnceDismiss
<1> QED BY <1>2, <1>3, <1>4 DEF Next

\* When no kept session uses appendUnsafe, every event is stored at most once.
THEOREM StoredOnce == ASSUME NeverUnsafe PROVE Spec => []EventOnce
<1>1. Init => IInv /\ OnceInv
  BY InvInit, OnceInit
<1>2. IInv /\ OnceInv /\ [Next]_vars => (IInv /\ OnceInv)'
  BY InvStep, OnceStep
<1>3. OnceInv => EventOnce
  BY DEF OnceInv
<1> QED BY <1>1, <1>2, <1>3, PTL DEF Spec

-----------------------------------------------------------------------------
(* Events are decided on the latest state, and snapshots are folds.        *)

\* What has happened stays: streams only grow, past their version.
PastKept ==
  /\ \A s \in Streams : version[s] <= version'[s]
  /\ \A s \in Streams, v \in Nat, e \in Events : v <= version[s] => (Past(s, v, e)' <=> Past(s, v, e))
  /\ dismissed \subseteq dismissed'

\* Where the rows and versions are unchanged, so is the past.
LEMMA PastSame ==
  ASSUME TypeOK, UNCHANGED <<version, rows>>, dismissed \subseteq dismissed'
  PROVE  PastKept
BY DEF PastKept, Past, TypeOK

\* A commit adds to a stream what its transaction holds, and nothing to the past.
LEMMA PublishGrows ==
  ASSUME IInv, NEW c \in Clients, Publish(c), NEW s \in Streams
  PROVE  /\ version'[s] = Visible(c, s) /\ version[s] \in Nat /\ version'[s] \in Nat
         /\ version[s] <= version'[s]
         /\ RowsOf(s)' = RowsOf(s) \cup Own(c, s)
         /\ \A r \in RowsOf(s) : r.version <= version[s]
         /\ \A r \in Own(c, s) : version[s] < r.version /\ r.version <= version'[s]
<1>1. version'[s] = Visible(c, s) /\ RowsOf(s)' = RowsOf(s) \cup Own(c, s)
  BY DEF Publish, RowsOf, Own
<1>2. TxOk(c, s) /\ version[s] \in Nat /\ wVersion[c][s] \in Nat
  BY DEF IInv, TypeOK
<1>3. \A r \in RowsOf(s) : r.version <= version[s]
  <2>1. {r.version : r \in RowsOf(s)} = 1 .. version[s]
    BY DEF IInv, StreamsGapless
  <2>2. \A r \in RowsOf(s) : r.version \in 1 .. version[s]
    BY <2>1
  <2> QED BY <1>2, <2>2
<1>4. CASE wVersion[c][s] = 0
  <2>1. Own(c, s) = {} /\ version'[s] = version[s]
    BY <1>1, <1>4, NoOwn DEF Visible
  <2> QED BY <1>1, <1>2, <1>3, <2>1
<1>5. CASE wVersion[c][s] > 0
  <2>1. version'[s] = wVersion[c][s] /\ version[s] <= wVersion[c][s]
    BY <1>1, <1>2, <1>5 DEF Visible, TxOk
  <2>2. {r.version : r \in Own(c, s)} = version[s] + 1 .. wVersion[c][s]
    BY <1>2, <1>5 DEF TxOk
  <2>3. \A r \in Own(c, s) : r.version \in version[s] + 1 .. wVersion[c][s]
    BY <2>2
  <2>4. \A r \in Own(c, s) : version[s] < r.version /\ r.version <= wVersion[c][s]
    BY <1>2, <2>3
  <2> QED BY <1>1, <1>2, <1>3, <2>1, <2>4
<1> QED BY <1>2, <1>4, <1>5

\* What a commit leaves alone of the past.
LEMMA PublishPast ==
  ASSUME IInv, NEW c \in Clients, Publish(c)
  PROVE  PastKept
<1>1. \A s \in Streams : version[s] <= version'[s]
  BY PublishGrows
<1>2. ASSUME NEW s \in Streams, NEW v \in Nat, NEW e \in Events, v <= version[s]
      PROVE  Past(s, v, e)' <=> Past(s, v, e)
  <2>1. \A q : q \in rows' /\ q.stream = s <=> (q \in rows /\ q.stream = s) \/ (q \in wRows[c] /\ q.stream = s)
    BY DEF Publish
  <2>2. \A q \in wRows[c] : q.stream = s => ~(q.version <= v)
    <3>1. \A q \in Own(c, s) : version[s] < q.version /\ version[s] \in Nat
      BY PublishGrows
    <3>2. \A q \in wRows[c] : q.version \in Nat
      BY DEF IInv, TypeOK, Rows
    <3> QED BY <1>2, <3>1, <3>2 DEF Own
  <2> QED BY <2>1, <2>2 DEF Past
<1>3. dismissed' = dismissed
  BY DEF Publish
<1> QED BY <1>1, <1>2, <1>3 DEF PastKept

\* What is unsaved or past is an event.
LEMMA UnsavedType ==
  ASSUME TypeOK, NEW c \in Clients, NEW s \in Streams, NEW e
  PROVE  (Unsaved(c, s, e) => e \in Events) /\ \A v : Past(s, v, e) => e \in Events
<1>1. \A v : Past(s, v, e) => e \in Events
  BY DEF Past, TypeOK, Rows
<1>2. ASSUME NEW k \in DOMAIN tracked[c][s].pending, tracked[c][s].pending[k] = e PROVE e \in Events
  <2>1. tracked[c][s] \in Aggregates
    BY DEF TypeOK
  <2>2. PICK evs \in Seq(Events) : evs = tracked[c][s].pending
    BY <2>1 DEF Aggregates
  <2>3. k \in 1 .. Len(evs)
    BY <1>2, <2>2
  <2> QED BY <1>2, <2>2, <2>3, ElementOfSeq
<1>3. ASSUME NEW i \in DOMAIN ops[c], NEW k \in DOMAIN ops[c][i].events, ops[c][i].events[k] = e PROVE e \in Events
  <2>1. PICK all \in Seq(Operations) : all = ops[c]
    BY DEF TypeOK
  <2>2. i \in 1 .. Len(all)
    BY <1>3, <2>1
  <2>3. ops[c][i] \in Operations
    BY <2>1, <2>2, ElementOfSeq
  <2>4. PICK evs \in Seq(Events) : evs = ops[c][i].events
    BY <2>3 DEF Operations
  <2>5. k \in 1 .. Len(evs)
    BY <1>3, <2>4
  <2> QED BY <1>3, <2>4, <2>5, ElementOfSeq
<1> QED BY <1>1, <1>2, <1>3 DEF Unsaved

\* A snapshot that folds its stream goes on doing so.
LEMMA FaithfulKept ==
  ASSUME PastKept, TypeOK, TypeOK', NEW s \in Streams, NEW snap \in Snapshots, Faithful(s, snap)
  PROVE  Faithful(s, snap)'
<1> PICK v \in Nat : v = snap.version
  BY DEF Snapshots
<1>1. snap.state \subseteq Events
  BY DEF Snapshots
<1>2. v <= version[s] /\ \A e \in Events : Past(s, v, e)' <=> Past(s, v, e)
  BY DEF Faithful, PastKept
<1>3. v <= version'[s]
  BY <1>2 DEF PastKept, TypeOK
<1> QED BY <1>1, <1>2, <1>3 DEF Faithful, PastKept

\* A state that folds a stream goes on doing so.
LEMMA FoldsKept ==
  ASSUME PastKept, NEW c \in Clients, NEW s \in Streams, NEW v \in Nat, v <= version[s],
         NEW x, NEW state, state \subseteq Events,
         \A e \in Events : e < x => (Unsaved(c, s, e)' <=> Unsaved(c, s, e)),
         Folds(c, s, v, x, state)
  PROVE  Folds(c, s, v, x, state)'
<1>1. \A e \in Events : Past(s, v, e)' <=> Past(s, v, e)
  BY DEF PastKept
<1> QED BY <1>1 DEF Folds, PastKept

\* An aggregate goes on being known, where its session keeps its unsaved events.
LEMMA KnownKept ==
  ASSUME PastKept, TypeOK, TypeOK', NEW c \in Clients, NEW s \in Streams, NEW v \in Nat, KnownAt(c, s, v),
         \A e \in Events : Unsaved(c, s, e)' <=> Unsaved(c, s, e),
         tracked'[c][s].state = tracked[c][s].state, Expects(c, s, v)',
         \A e \in Events : Unsaved(c, s, e) => basis'[e] = basis[e]
  PROVE  KnownAt(c, s, v)'
<1>1. v <= version[s] /\ v <= version'[s]
  BY DEF KnownAt, PastKept, TypeOK
<1> PICK state : state = tracked[c][s].state
  OBVIOUS
<1>2. state \subseteq Events
  <2>1. tracked[c][s] \in Aggregates
    BY DEF TypeOK
  <2> QED BY <2>1 DEF Aggregates
<1>3. Folds(c, s, v, MaxEvents + 1, tracked[c][s].state)'
  <2> PICK x : x = MaxEvents + 1
    OBVIOUS
  <2>1. Folds(c, s, v, x, state)
    BY DEF KnownAt
  <2>2. Folds(c, s, v, x, state)'
    BY <1>1, <1>2, <2>1, FoldsKept
  <2> QED BY <2>2
<1>4. ASSUME NEW e \in Events, Unsaved(c, s, e)' PROVE Folds(c, s, v, e, basis[e])'
  <2> PICK b : b = basis[e]
    OBVIOUS
  <2>1. Unsaved(c, s, e) /\ basis'[e] = b /\ Folds(c, s, v, e, b)
    BY <1>4 DEF KnownAt
  <2>2. b \subseteq Events
    BY <2>1, UnsavedType DEF Folds
  <2>3. Folds(c, s, v, e, b)'
    BY <1>1, <2>1, <2>2, FoldsKept
  <2> QED BY <2>1, <2>3
<1> QED BY <1>1, <1>3, <1>4 DEF KnownAt

\* A queued operation is well typed.
LEMMA QueuedType ==
  ASSUME TypeOK, NEW c \in Clients, NEW i \in DOMAIN ops[c]
  PROVE  /\ i \in Nat /\ i <= Len(ops[c]) /\ Len(ops[c]) \in Nat
         /\ ops[c][i] \in Operations /\ ops[c][i].stream \in Streams
         /\ ops[c][i].events \in Seq(Events) /\ ops[c][i].kind \in {"startStream", "append"}
<1>1. PICK all \in Seq(Operations) : all = ops[c]
  BY DEF TypeOK
<1>2. i \in 1 .. Len(all) /\ Len(all) \in Nat
  BY <1>1
<1>3. ops[c][i] \in Operations
  BY <1>1, <1>2, ElementOfSeq
<1> QED BY <1>1, <1>2, <1>3 DEF Operations

\* An operation that cannot run any more never can.
LEMMA DoomedKept ==
  ASSUME PastKept, TypeOK, TypeOK', NEW c \in Clients, OriginInv(c), Doomed(c),
         \A i \in DOMAIN ops[c] : i \in DOMAIN ops'[c] /\ ops'[c][i] = ops[c][i]
  PROVE  Doomed(c)'
<1> PICK i \in DOMAIN ops[c] : ops[c][i].expected < version[ops[c][i].stream]
  BY DEF Doomed
<1> PICK s \in Streams : s = ops[c][i].stream
  BY QueuedType
<1> PICK v \in Nat : v = ops[c][i].expected
  BY DEF OriginInv
<1>1. v < version'[s]
  <2>1. version[s] \in Nat /\ version'[s] \in Nat /\ version[s] <= version'[s]
    BY DEF PastKept, TypeOK
  <2>2. v < version[s]
    OBVIOUS
  <2> QED BY <2>1, <2>2
<1>2. i \in DOMAIN ops'[c] /\ ops'[c][i].expected = v /\ ops'[c][i].stream = s
  OBVIOUS
<1>3. ops'[c][i].expected < version'[ops'[c][i].stream]
  BY <1>1, <1>2
<1> QED BY <1>2, <1>3 DEF Doomed

\* A step leaves a session and its transaction alone.
Untouched(d) ==
  /\ ops'[d] = ops[d] /\ order'[d] = order[d] /\ tracked'[d] = tracked[d] /\ via'[d] = via[d]
  /\ pc'[d] = pc[d] /\ at'[d] = at[d] /\ wVersion'[d] = wVersion[d] /\ wRows'[d] = wRows[d]
  /\ reading'[d] = reading[d]

\* Then what is known of it stays true.
LEMMA DecideUntouched ==
  ASSUME PastKept, TypeOK, TypeOK', OnceInv, NEW d \in Clients, Untouched(d),
         OriginInv(d), DoneInv(d), LiveInv(d),
         \A s \in Streams : wVersion[d][s] > 0 => version'[s] = version[s],
         \A e \in mine[d] : basis'[e] = basis[e]
  PROVE  OriginInv(d)' /\ DoneInv(d)' /\ LiveInv(d)'
<1> USE DEF Untouched
<1>1. \A i \in DOMAIN ops[d] : ops[d][i].stream \in Streams /\ ops[d][i] \in Operations
  BY QueuedType
<1>2. OwnInv(d) /\ \A s \in Streams : IsTracked(d, s)' <=> IsTracked(d, s)
  BY DEF OnceInv, IsTracked
<1>3. \A s \in Streams, e \in Events : (Unsaved(d, s, e)' <=> Unsaved(d, s, e)) /\ (Unsaved(d, s, e) => e \in mine[d])
  BY <1>2 DEF Unsaved, OwnInv, InQueue, InPending
<1>4. OriginInv(d)'
  <2>1. ASSUME NEW i \in DOMAIN ops[d]
        PROVE  /\ ops[d][i].expected \in Nat
               /\ ops[d][i].kind = "startStream" =>
                    /\ ops[d][i].expected = 0 /\ InSession(d)'
                    /\ \A k \in DOMAIN ops[d][i].events : basis'[ops[d][i].events[k]] = NotDecided
               /\ ops[d][i].kind = "append" => IsTracked(d, ops[d][i].stream)'
               /\ d \notin Reuse /\ pc'[d] \in {"idle", "loading"} => ops[d][i].kind = "startStream"
    <3>1. \A k \in DOMAIN ops[d][i].events : ops[d][i].events[k] \in mine[d]
      <4>1. \A k \in DOMAIN ops[d][i].events : ops[d][i].events[k] \in Events
        BY UnsavedType, <1>1 DEF Unsaved
      <4> QED BY <1>2, <4>1 DEF OwnInv, InQueue
    <3> QED BY <1>1, <1>2, <2>1, <3>1 DEF OriginInv, InSession
  <2>2. ASSUME NEW s \in Streams
        PROVE  /\ InSession(d)' /\ IsTracked(d, s)' => version'[s] > 0
               /\ ~IsTracked(d, s)' => tracked'[d][s].pending = <<>>
    <3>1. version[s] <= version'[s] /\ version[s] \in Nat /\ version'[s] \in Nat
      BY DEF PastKept, TypeOK
    <3> QED BY <1>2, <3>1 DEF OriginInv, InSession
  <2>3. ASSUME NEW load \in reading[d]
        PROVE  /\ pc'[d] = "loading" /\ ~IsTracked(d, load.stream)' /\ Faithful(load.stream, load.snap)'
               /\ InSession(d)' => version'[load.stream] > 0
    <3>1. PICK s \in Streams, snap \in Snapshots : s = load.stream /\ snap = load.snap
      BY DEF TypeOK
    <3>2. Faithful(s, snap)'
      BY <3>1, FaithfulKept DEF OriginInv
    <3>3. version[s] <= version'[s] /\ version[s] \in Nat /\ version'[s] \in Nat
      BY DEF PastKept, TypeOK
    <3> QED BY <1>2, <3>1, <3>2, <3>3 DEF OriginInv, InSession
  <2>4. (~InSession(d) => d \notin Reuse)' /\ pc'[d] # "gate"
    BY DEF OriginInv, InSession
  <2> QED BY <2>1, <2>2, <2>3, <2>4 DEF OriginInv
<1>5. DoneInv(d)'
  <2>1. ASSUME NEW i \in DOMAIN ops[d], i < at[d]
        PROVE  /\ version'[ops[d][i].stream] <= ops[d][i].expected /\ wVersion'[d][ops[d][i].stream] > 0
               /\ \A k \in DOMAIN ops[d][i].events :
                    \E r \in wRows'[d] : r.stream = ops[d][i].stream /\ r.event = ops[d][i].events[k]
    BY <1>1, <2>1 DEF DoneInv
  <2>2. \A s \in Streams : wVersion'[d][s] > 0 =>
       /\ \E i \in DOMAIN ops'[d] : i < at'[d] /\ ops'[d][i].stream = s
                                   /\ \A j \in DOMAIN ops'[d] : j < i => ops'[d][j].stream # s
       /\ IsTracked(d, s)' => tracked'[d][s].version = wVersion'[d][s]
    BY <1>2 DEF DoneInv
  <2>3. \A r \in wRows'[d] : \E i \in DOMAIN ops'[d] :
       i < at'[d] /\ r.stream = ops'[d][i].stream /\ \E k \in DOMAIN ops'[d][i].events : r.event = ops'[d][i].events[k]
    BY DEF DoneInv
  <2> QED BY <2>1, <2>2, <2>3 DEF DoneInv
<1>6. LiveInv(d)'
  <2> SUFFICES ASSUME Live(d)' PROVE SortedInv(d)' /\ InOrder(d)' /\ \A s \in Streams : IsTracked(d, s)' => \E v \in 0 .. version'[s] : KnownAt(d, s, v)'
    BY DEF LiveInv
  <2>1. Live(d)
    BY DoomedKept DEF Live
  <2>2. SortedInv(d)' /\ InOrder(d)'
    BY <2>1 DEF LiveInv, SortedInv, InOrder
  <2>3. ASSUME NEW s \in Streams, IsTracked(d, s)' PROVE \E v \in 0 .. version'[s] : KnownAt(d, s, v)'
    <3>1. PICK v \in 0 .. version[s] : KnownAt(d, s, v)
      BY <1>2, <2>1, <2>3 DEF LiveInv
    <3>2. v \in Nat /\ v \in 0 .. version'[s]
      BY <3>1 DEF PastKept, TypeOK
    <3>3. Expects(d, s, v)'
      BY <3>1 DEF KnownAt, Expects
    <3>4. KnownAt(d, s, v)'
      BY <1>3, <3>1, <3>2, <3>3, KnownKept
    <3> QED BY <3>2, <3>4
  <2> QED BY <2>2, <2>3
<1> QED BY <1>4, <1>5, <1>6

\* A step of one client leaves the loads of the others alone.
LEMMA ReadingAlone ==
  ASSUME TypeOK, NEW c \in Clients, SaveStep(c) \/ ClientStep(c)
  PROVE  \A d \in Clients \ {c} : Untouched(d)
<1>1. CASE SaveStep(c)
  BY <1>1, StepAlone DEF SaveStep, ResolveVersion, AppendOp, Reject, Rollback, Commit, Publish,
                         DeadlockVictim, OthersAlone, Untouched
<1>2. CASE ClientStep(c)
  <2>1. \A d \in Clients \ {c} : reading'[d] = reading[d]
    <3>1. CASE LoadStream(c)
      BY <3>1 DEF LoadStream, TypeOK
    <3>2. ASSUME NEW s \in Streams, LoadSnapshotRow(c, s) PROVE \A d \in Clients \ {c} : reading'[d] = reading[d]
      BY <3>2 DEF LoadSnapshotRow, TypeOK
    <3>3. ASSUME ~LoadStream(c), \A s \in Streams : ~LoadSnapshotRow(c, s) PROVE reading' = reading
      BY <1>2, <3>3 DEF ClientStep, StartStream, AppendEvents, AppendUnsafe, Queue, LoadSnapshotOnly,
           Raise, BeginSave, NewSession, KeepSession, DbError, Rollback, CommitUnknown, Publish
    <3> QED BY <3>1, <3>2, <3>3
  <2> QED BY <1>2, <2>1, StepAlone DEF OthersAlone, Untouched
<1> QED BY <1>1, <1>2

\* A step that stores nothing preserves the invariant where it does for its own session.
LEMMA DecideFrame ==
  ASSUME IInv, OnceInv, DecideInv, TypeOK', NEW c \in Clients, \A d \in Clients \ {c} : Untouched(d),
         UNCHANGED <<version, rows, snaps, dismissed>>,
         \A e \in Events : e <= lastEvent => basis'[e] = basis[e],
         \A e \in Events : lastEvent' < e => basis'[e] = NotDecided,
         OriginInv(c)', DoneInv(c)', LiveInv(c)'
  PROVE  DecideInv'
<1>1. TypeOK /\ PastKept
  BY PastSame DEF IInv
<1>2. DecidedOnLatest'
  <2>1. \A r \in rows : r.event \in Events /\ basis'[r.event] = basis[r.event]
    BY <1>1 DEF OnceInv, Stored, TypeOK, Rows
  <2> QED BY <2>1 DEF DecideInv, DecidedOnLatest, RowsOf, EventsIn
<1>3. ASSUME NEW s \in Streams PROVE Faithful(s, snaps[s])'
  <2> PICK snap \in Snapshots : snap = snaps[s]
    BY <1>1 DEF TypeOK
  <2>1. Faithful(s, snap)'
    BY <1>1, FaithfulKept DEF DecideInv
  <2> QED BY <2>1
<1>4. ASSUME NEW d \in Clients, d # c PROVE OriginInv(d)' /\ DoneInv(d)' /\ LiveInv(d)'
  <2>1. \A e \in mine[d] : basis'[e] = basis[e]
    <3>1. mine[d] \subseteq Events
      BY <1>1 DEF TypeOK
    <3> QED BY <3>1 DEF OnceInv
  <2> QED BY <1>1, <1>4, <2>1, DecideUntouched DEF DecideInv
<1> QED BY <1>2, <1>3, <1>4 DEF DecideInv

\* A step that touches no session and stores nothing preserves the invariant.
LEMMA DecideQuiet ==
  ASSUME IInv, OnceInv, DecideInv, TypeOK', \A d \in Clients : Untouched(d),
         UNCHANGED <<version, rows, snaps, basis, lastEvent>>, dismissed \subseteq dismissed'
  PROVE  DecideInv'
<1>1. TypeOK /\ PastKept
  BY PastSame DEF IInv
<1>2. DecidedOnLatest'
  BY DEF DecideInv, DecidedOnLatest, RowsOf, EventsIn
<1>3. ASSUME NEW s \in Streams PROVE Faithful(s, snaps[s])'
  <2> PICK snap \in Snapshots : snap = snaps[s]
    BY <1>1 DEF TypeOK
  <2>1. Faithful(s, snap)'
    BY <1>1, FaithfulKept DEF DecideInv
  <2> QED BY <2>1
<1>4. ASSUME NEW d \in Clients PROVE OriginInv(d)' /\ DoneInv(d)' /\ LiveInv(d)'
  BY <1>1, DecideUntouched DEF DecideInv
<1> QED BY <1>2, <1>3, <1>4 DEF DecideInv

\* No save of a disciplined client reads the version it expects.
LEMMA DecideResolve ==
  ASSUME IInv, DecideInv, NEW c \in Clients PROVE ~ResolveVersion(c)
<1> SUFFICES ASSUME ResolveVersion(c) PROVE FALSE
  OBVIOUS
<1>1. at[c] \in DOMAIN ops[c] /\ ops[c][at[c]].expected = Unknown
  BY DEF ResolveVersion, HasOp, Op, IInv, TypeOK
<1>2. ops[c][at[c]].expected \in Nat
  BY <1>1 DEF DecideInv, OriginInv
<1> QED BY <1>1, <1>2 DEF Unknown

\* What is in memory stays known while it is left as it is.
LEMMA LiveSame ==
  ASSUME PastKept, TypeOK, TypeOK', NEW c \in Clients, LiveInv(c), Live(c)' => Live(c),
         ops'[c] = ops[c], tracked'[c] = tracked[c], order'[c] = order[c], basis' = basis,
         wRows'[c] \subseteq wRows[c]
  PROVE  LiveInv(c)'
<1> SUFFICES ASSUME Live(c)' PROVE SortedInv(c)' /\ InOrder(c)' /\ \A s \in Streams : IsTracked(c, s)' => \E v \in 0 .. version'[s] : KnownAt(c, s, v)'
  BY DEF LiveInv
<1>1. SortedInv(c)' /\ InOrder(c)'
  BY DEF LiveInv, SortedInv, InOrder
<1>2. ASSUME NEW s \in Streams, IsTracked(c, s)' PROVE \E v \in 0 .. version'[s] : KnownAt(c, s, v)'
  <2>1. PICK v \in 0 .. version[s] : KnownAt(c, s, v)
    BY <1>2 DEF LiveInv, IsTracked
  <2>2. v \in Nat /\ v \in 0 .. version'[s]
    BY <2>1 DEF PastKept, TypeOK
  <2>3. \A e \in Events : Unsaved(c, s, e)' <=> Unsaved(c, s, e)
    BY DEF Unsaved
  <2>4. Expects(c, s, v)'
    BY <2>1 DEF KnownAt, Expects
  <2>5. KnownAt(c, s, v)'
    BY <2>1, <2>2, <2>3, <2>4, KnownKept
  <2> QED BY <2>2, <2>5
<1> QED BY <1>1, <1>2

\* A session whose transaction is empty and has run no operation.
LEMMA NothingDone ==
  ASSUME TypeOK', NEW c \in Clients, at'[c] = 1, wRows'[c] = {}, \A s \in Streams : wVersion'[c][s] = 0
  PROVE  DoneInv(c)'
<1>1. \A i \in DOMAIN ops'[c] : ~(i < at'[c])
  <2>1. \A i \in DOMAIN ops'[c] : i \in Nat \ {0}
    <3>1. ops'[c] \in Seq(Operations)
      BY DEF TypeOK
    <3> QED BY <3>1
  <2> QED BY <2>1
<1> QED BY <1>1 DEF DoneInv

\* Where the operations and aggregates come from does not depend on the save.
LEMMA OriginSame ==
  ASSUME PastKept, TypeOK, TypeOK', NEW c \in Clients, OriginInv(c), basis' = basis,
         ops'[c] = ops[c], tracked'[c] = tracked[c], order'[c] = order[c], via'[c] = via[c],
         pc'[c] # "gate", c \notin Reuse /\ pc'[c] \in {"idle", "loading"} => pc[c] \in {"idle", "loading"},
         reading'[c] = {}
  PROVE  OriginInv(c)'
<1>1. \A s \in Streams : IsTracked(c, s)' <=> IsTracked(c, s)
  BY DEF IsTracked
<1>2. \A i \in DOMAIN ops[c] : ops[c][i].stream \in Streams
  BY QueuedType
<1>3. ASSUME NEW i \in DOMAIN ops'[c]
      PROVE  /\ ops'[c][i].expected \in Nat
             /\ ops'[c][i].kind = "startStream" =>
                  /\ ops'[c][i].expected = 0 /\ InSession(c)'
                  /\ \A k \in DOMAIN ops'[c][i].events : basis'[ops'[c][i].events[k]] = NotDecided
             /\ ops'[c][i].kind = "append" => IsTracked(c, ops[c][i].stream)'
             /\ c \notin Reuse /\ pc'[c] \in {"idle", "loading"} => ops'[c][i].kind = "startStream"
  <2>1. PICK s \in Streams : s = ops[c][i].stream
    BY <1>2, <1>3
  <2>2. ops[c][i].kind = "append" => IsTracked(c, s)'
    BY <1>1, <1>3, <2>1 DEF OriginInv
  <2>3. ops[c][i].kind = "append" => IsTracked(c, ops[c][i].stream)'
    BY <2>1, <2>2 DEF IsTracked
  <2> QED BY <1>2, <1>3, <2>3 DEF OriginInv, InSession
<1>4. ASSUME NEW s \in Streams
      PROVE  /\ InSession(c)' /\ IsTracked(c, s)' => version'[s] > 0
             /\ ~IsTracked(c, s)' => tracked'[c][s].pending = <<>>
  <2>1. version[s] <= version'[s] /\ version[s] \in Nat /\ version'[s] \in Nat
    BY DEF PastKept, TypeOK
  <2> QED BY <1>1, <2>1 DEF OriginInv, InSession
<1> QED BY <1>3, <1>4 DEF OriginInv, InSession

\* A save that fails leaves the memory of the session as it is.
LEMMA DecideRollback ==
  ASSUME IInv, OnceInv, DecideInv, TypeOK', NEW c \in Clients, \A d \in Clients \ {c} : Untouched(d),
         Running(c), Rollback(c)
  PROVE  DecideInv'
<1>1. /\ UNCHANGED <<version, rows, snaps, dismissed, basis, lastEvent>>
      /\ ops'[c] = ops[c] /\ tracked'[c] = tracked[c] /\ order'[c] = order[c] /\ via'[c] = via[c]
      /\ reading'[c] = reading[c] /\ pc'[c] = "failed" /\ pc[c] = "saving"
      /\ at'[c] = 1 /\ wRows'[c] = {} /\ \A s \in Streams : wVersion'[c][s] = 0
  <2>1. pc[c] = "saving"
    BY DEF Running, DecideInv, OriginInv
  <2>2. pc'[c] = "failed" /\ at'[c] = 1 /\ wRows'[c] = {} /\ \A s \in Streams : wVersion'[c][s] = 0
    BY DEF Rollback, EndTx, NoWrite, GoTo, IInv, TypeOK
  <2> QED BY <2>1, <2>2 DEF Rollback, dbVars, memVars, historyVars
<1>2. TypeOK /\ PastKept /\ OriginInv(c) /\ LiveInv(c)
  BY <1>1, PastSame DEF IInv, DecideInv
<1>3. reading[c] = {}
  BY <1>1, <1>2 DEF OriginInv
<1>4. OriginInv(c)'
  BY <1>1, <1>2, <1>3, OriginSame
<1>5. DoneInv(c)'
  BY <1>1, NothingDone
<1>6. LiveInv(c)'
  <2>1. Live(c)' => Live(c)
    BY <1>1 DEF Live, Doomed
  <2> QED BY <1>1, <1>2, <2>1, LiveSame
<1> QED BY <1>1, <1>4, <1>5, <1>6, DecideFrame DEF DecideInv

\* A session that is kept is a plain one, and has what it had.
LEMMA DecideKeepSession ==
  ASSUME IInv, OnceInv, DecideInv, TypeOK', NEW c \in Clients, \A d \in Clients \ {c} : Untouched(d),
         KeepSession(c)
  PROVE  DecideInv'
<1>1. /\ UNCHANGED <<version, rows, snaps, dismissed, basis, lastEvent>>
      /\ tracked'[c] = tracked[c] /\ order'[c] = order[c] /\ via'[c] = via[c]
      /\ reading'[c] = reading[c] /\ pc'[c] = "idle" /\ pc[c] = "failed" /\ c \in Reuse
      /\ at'[c] = at[c] /\ wRows'[c] = wRows[c] /\ wVersion'[c] = wVersion[c]
  BY DEF KeepSession, GoTo, dbVars, saveVars, historyVars, IInv, TypeOK
<1>2. TypeOK /\ PastKept /\ OriginInv(c) /\ LiveInv(c)
  BY <1>1, PastSame DEF IInv, DecideInv
<1>3. reading[c] = {} /\ ops'[c] = ops[c]
  <2>1. InSession(c) /\ reading[c] = {}
    BY <1>1, <1>2 DEF OriginInv
  <2> QED BY <2>1 DEF KeepSession, Kept, IInv, TypeOK
<1>4. OriginInv(c)'
  BY <1>1, <1>2, <1>3, OriginSame
<1>5. DoneInv(c)'
  <2>1. at[c] = 1 /\ wRows[c] = {} /\ \A s \in Streams : wVersion[c][s] = 0
    BY <1>1, AtRest DEF Running
  <2> QED BY <1>1, <2>1, NothingDone
<1>6. LiveInv(c)'
  <2>1. Live(c)' => Live(c)
    BY <1>1, <1>3 DEF Live, Doomed
  <2> QED BY <1>1, <1>2, <1>3, <2>1, LiveSame
<1> QED BY <1>1, <1>4, <1>5, <1>6, DecideFrame DEF DecideInv

\* A new session has nothing; a client that would keep it uses no repository.
LEMMA DecideNewSession ==
  ASSUME IInv, OnceInv, DecideInv, Disciplined, TypeOK', NEW c \in Clients,
         \A d \in Clients \ {c} : Untouched(d), NewSession(c)
  PROVE  DecideInv'
<1>1. /\ UNCHANGED <<version, rows, snaps, dismissed, basis, lastEvent>>
      /\ ops'[c] = <<>> /\ order'[c] = <<>> /\ \A s \in Streams : tracked'[c][s].pending = <<>>
      /\ reading'[c] = reading[c] /\ pc'[c] = "idle" /\ pc[c] \in {"idle", "failed"}
      /\ at'[c] = at[c] /\ wRows'[c] = wRows[c] /\ wVersion'[c] = wVersion[c]
  <2>1. pc'[c] = "idle" /\ \A s \in Streams : tracked'[c][s].pending = <<>>
    BY DEF NewSession, GoTo, Fresh, IInv, TypeOK
  <2> QED BY <2>1 DEF NewSession, dbVars, saveVars, IInv, TypeOK
<1>2. c \in Reuse => InSession(c)'
  BY DEF NewSession, InSession, Disciplined, IInv, TypeOK
<1>3. at[c] = 1 /\ wRows[c] = {} /\ \A s \in Streams : wVersion[c][s] = 0
  BY <1>1, AtRest DEF Running
<1>4. \A s \in Streams : ~IsTracked(c, s)'
  BY <1>1 DEF IsTracked
<1>5. OriginInv(c)'
  <2>1. reading'[c] = {}
    BY <1>1 DEF DecideInv, OriginInv
  <2> QED BY <1>1, <1>2, <1>4, <2>1 DEF OriginInv
<1>6. DoneInv(c)'
  BY <1>1, <1>3, NothingDone
<1>7. LiveInv(c)'
  BY <1>1, <1>3, <1>4 DEF LiveInv, SortedInv, InOrder
<1> QED BY <1>1, <1>5, <1>6, <1>7, DecideFrame DEF DecideInv

\* What the tracked aggregates are after a load.
LEMMA TrackedBy ==
  ASSUME TypeOK, NEW c \in Clients, NEW s \in Streams, NEW agg, Track(c, s, agg)
  PROVE  /\ \A x \in Streams : tracked'[c][x] = IF x = s THEN agg ELSE tracked[c][x]
         /\ \A x \in Streams : IsTracked(c, x)' <=> IsTracked(c, x) \/ x = s
<1>1. \A x \in Streams : tracked'[c][x] = IF x = s THEN agg ELSE tracked[c][x]
  BY DEF Track, TypeOK
<1> PICK old \in Seq(Streams) : old = order[c]
  BY DEF TypeOK
<1>2. order'[c] = IF IsTracked(c, s) THEN old ELSE Append(old, s)
  BY DEF Track, TypeOK
<1>3. CASE IsTracked(c, s)
  BY <1>1, <1>2, <1>3 DEF IsTracked
<1>4. CASE ~IsTracked(c, s)
  <2> PICK new : new = Append(old, s)
    OBVIOUS
  <2>1. /\ \A m \in DOMAIN new : m \in DOMAIN old \/ m = Len(old) + 1
        /\ \A m \in DOMAIN old : new[m] = old[m] /\ m \in DOMAIN new
        /\ new[Len(old) + 1] = s /\ Len(old) + 1 \in DOMAIN new
    BY AppendedTo
  <2>2. order'[c] = new
    BY <1>2, <1>4
  <2>3. ASSUME NEW x \in Streams PROVE IsTracked(c, x)' <=> IsTracked(c, x) \/ x = s
    <3>1. ASSUME NEW m \in DOMAIN new, new[m] = x PROVE IsTracked(c, x) \/ x = s
      BY <2>1, <3>1 DEF IsTracked
    <3>2. ASSUME NEW m \in DOMAIN old, old[m] = x PROVE \E k \in DOMAIN new : new[k] = x
      BY <2>1, <3>2
    <3>3. \E k \in DOMAIN new : new[k] = s
      BY <2>1
    <3> QED BY <2>2, <3>1, <3>2, <3>3 DEF IsTracked
  <2> QED BY <1>1, <2>3
<1> QED BY <1>3, <1>4

\* An aggregate that is loaded folds its stream, and has nothing unsaved:
\* where an operation on its stream is queued, that can never run.
LEMMA DecideTracked ==
  ASSUME IInv, OnceInv, DecideInv, TypeOK', NEW c \in Clients, \A d \in Clients \ {c} : Untouched(d),
         NEW s \in Streams, NEW agg \in Aggregates, agg.pending = <<>>, Track(c, s, agg),
         UNCHANGED <<version, rows, snaps, dismissed, basis, lastEvent>>,
         ops'[c] = ops[c], via'[c] = via[c], at'[c] = at[c], wRows'[c] = wRows[c], wVersion'[c] = wVersion[c],
         reading'[c] = {}, pc[c] \in {"idle", "loading"}, pc'[c] = "idle",
         InSession(c) => version[s] > 0,
         \A i \in DOMAIN ops[c] : ops[c][i].stream = s => ops[c][i].kind = "startStream",
         agg.version <= version[s],
         \A e \in Events : Past(s, agg.version, e) /\ e \notin dismissed => e \in agg.state,
         \A e \in agg.state : Past(s, agg.version, e)
  PROVE  DecideInv'
<1>1. TypeOK /\ PastKept /\ OriginInv(c) /\ LiveInv(c)
  BY PastSame DEF IInv, DecideInv
<1>2. /\ \A x \in Streams : tracked'[c][x] = IF x = s THEN agg ELSE tracked[c][x]
      /\ \A x \in Streams : IsTracked(c, x)' <=> IsTracked(c, x) \/ x = s
  BY <1>1, TrackedBy
<1>3. \A i \in DOMAIN ops[c] : ops[c][i].stream \in Streams
  BY <1>1, QueuedType
<1>4. OriginInv(c)'
  <2>1. ASSUME NEW i \in DOMAIN ops'[c]
        PROVE  /\ ops'[c][i].expected \in Nat
               /\ ops'[c][i].kind = "startStream" =>
                    /\ ops'[c][i].expected = 0 /\ InSession(c)'
                    /\ \A k \in DOMAIN ops'[c][i].events : basis'[ops'[c][i].events[k]] = NotDecided
               /\ ops'[c][i].kind = "append" => IsTracked(c, ops[c][i].stream)'
               /\ c \notin Reuse /\ pc'[c] \in {"idle", "loading"} => ops'[c][i].kind = "startStream"
    <3>1. PICK x \in Streams : x = ops[c][i].stream
      BY <1>3, <2>1
    <3>2. ops[c][i].kind = "append" => IsTracked(c, x)'
      BY <1>1, <1>2, <2>1, <3>1 DEF OriginInv
    <3>3. ops[c][i].kind = "append" => IsTracked(c, ops[c][i].stream)'
      BY <3>1, <3>2 DEF IsTracked
    <3> QED BY <1>1, <2>1, <3>3 DEF OriginInv, InSession
  <2>2. ASSUME NEW x \in Streams
        PROVE  /\ InSession(c)' /\ IsTracked(c, x)' => version'[x] > 0
               /\ ~IsTracked(c, x)' => tracked'[c][x].pending = <<>>
    BY <1>1, <1>2 DEF OriginInv, InSession
  <2>3. (~InSession(c) => c \notin Reuse)' /\ pc'[c] # "gate"
    BY <1>1 DEF OriginInv, InSession
  <2> QED BY <2>1, <2>2, <2>3 DEF OriginInv
<1>5. DoneInv(c)'
  <2>1. at[c] = 1 /\ wRows[c] = {} /\ \A x \in Streams : wVersion[c][x] = 0
    BY AtRest DEF Running
  <2> QED BY <2>1, NothingDone
<1>6. LiveInv(c)'
  <2> SUFFICES ASSUME Live(c)' PROVE SortedInv(c)' /\ InOrder(c)' /\ \A x \in Streams : IsTracked(c, x)' => \E v \in 0 .. version'[x] : KnownAt(c, x, v)'
    BY DEF LiveInv
  <2>1. ~Doomed(c) /\ Live(c)
    BY DEF Live, Doomed
  <2>2. ASSUME NEW i \in DOMAIN ops[c] PROVE ops[c][i].stream # s
    <3> SUFFICES ASSUME ops[c][i].stream = s PROVE FALSE
      OBVIOUS
    <3>1. ops[c][i].expected = 0 /\ InSession(c)
      BY <1>1 DEF OriginInv
    <3> QED BY <2>1, <3>1 DEF Doomed
  <2>3. SortedInv(c) /\ InOrder(c)'
    BY <2>1, <1>1 DEF LiveInv, InOrder
  <2>4. SortedInv(c)'
    <3>1. DOMAIN tracked'[c][s].pending = {}
      BY <1>2
    <3>2. \A x \in Streams : x # s => tracked'[c][x].pending = tracked[c][x].pending
      BY <1>2
    <3>3. \A i \in DOMAIN ops[c] : tracked'[c][ops[c][i].stream].pending = tracked[c][ops[c][i].stream].pending
      BY <1>3, <2>2, <3>2
    <3>4. \A i, j \in DOMAIN ops'[c] : \A k \in DOMAIN ops'[c][i].events, l \in DOMAIN ops'[c][j].events :
            ops'[c][i].stream = ops'[c][j].stream /\ (i < j \/ (i = j /\ k < l))
              => ops'[c][i].events[k] < ops'[c][j].events[l]
      BY <2>3 DEF SortedInv
    <3>5. \A i \in DOMAIN ops'[c] : \A k \in DOMAIN ops'[c][i].events, l \in DOMAIN tracked'[c][ops'[c][i].stream].pending :
            ops'[c][i].events[k] < tracked'[c][ops'[c][i].stream].pending[l]
      BY <2>3, <3>3 DEF SortedInv
    <3>6. \A x \in Streams : \A k, l \in DOMAIN tracked'[c][x].pending :
            k < l => tracked'[c][x].pending[k] < tracked'[c][x].pending[l]
      <4> SUFFICES ASSUME NEW x \in Streams, NEW k \in DOMAIN tracked'[c][x].pending, NEW l \in DOMAIN tracked'[c][x].pending, k < l
                   PROVE  tracked'[c][x].pending[k] < tracked'[c][x].pending[l]
        OBVIOUS
      <4>1. x # s
        BY <3>1
      <4>2. tracked'[c][x].pending = tracked[c][x].pending
        BY <3>2, <4>1
      <4> QED BY <2>3, <4>2 DEF SortedInv
    <3> QED BY <3>4, <3>5, <3>6 DEF SortedInv
  <2>5. ASSUME NEW x \in Streams, IsTracked(c, x)', x # s PROVE \E v \in 0 .. version'[x] : KnownAt(c, x, v)'
    <3>1. PICK v \in 0 .. version[x] : KnownAt(c, x, v)
      BY <1>1, <1>2, <2>1, <2>5 DEF LiveInv
    <3>2. v \in Nat /\ v \in 0 .. version'[x] /\ tracked'[c][x] = tracked[c][x]
      BY <1>1, <1>2, <2>5, <3>1 DEF TypeOK
    <3>3. \A e \in Events : Unsaved(c, x, e)' <=> Unsaved(c, x, e)
      BY <3>2 DEF Unsaved
    <3>4. Expects(c, x, v)'
      BY <3>1, <3>2 DEF KnownAt, Expects
    <3>5. KnownAt(c, x, v)'
      BY <1>1, <3>1, <3>2, <3>3, <3>4, KnownKept
    <3> QED BY <3>2, <3>5
  <2>6. \E v \in 0 .. version'[s] : KnownAt(c, s, v)'
    <3> PICK v \in Nat : v = agg.version
      BY DEF Aggregates
    <3>1. v \in 0 .. version'[s]
      BY <1>1 DEF TypeOK
    <3>2. \A e : ~Unsaved(c, s, e)'
      <4>1. DOMAIN tracked'[c][s].pending = {}
        BY <1>2
      <4> QED BY <2>2, <4>1 DEF Unsaved
    <3>3. Expects(c, s, v)'
      BY <1>2, <2>2 DEF Expects
    <3>4. tracked'[c][s].state = agg.state
      BY <1>2
    <3>5. \A e : Past(s, v, e)' <=> Past(s, v, e)
      BY DEF Past
    <3>6. \A e \in Events : Past(s, v, e)' /\ e \notin dismissed' => e \in tracked'[c][s].state
      BY <3>4, <3>5
    <3>7. \A e \in tracked'[c][s].state : Past(s, v, e)'
      BY <3>4, <3>5
    <3>8. Folds(c, s, v, MaxEvents + 1, tracked[c][s].state)'
      BY <3>2, <3>6, <3>7 DEF Folds
    <3>9. KnownAt(c, s, v)'
      BY <3>2, <3>3, <3>8 DEF KnownAt
    <3> QED BY <3>1, <3>9
  <2> QED BY <2>3, <2>4, <2>5, <2>6
<1> QED BY <1>4, <1>5, <1>6, DecideFrame DEF DecideInv

\* The snapshot a load reads is faithful.
LEMMA DecideReading ==
  ASSUME IInv, OnceInv, DecideInv, TypeOK', NEW c \in Clients, \A d \in Clients \ {c} : Untouched(d),
         NEW s \in Streams, LoadSnapshotRow(c, s)
  PROVE  DecideInv'
<1>1. /\ UNCHANGED <<version, rows, snaps, dismissed, basis, lastEvent>>
      /\ ops'[c] = ops[c] /\ tracked'[c] = tracked[c] /\ order'[c] = order[c] /\ via'[c] = via[c]
      /\ reading'[c] = {[stream |-> s, snap |-> snaps[s]]} /\ pc'[c] = "loading" /\ pc[c] = "idle"
      /\ at'[c] = at[c] /\ wRows'[c] = wRows[c] /\ wVersion'[c] = wVersion[c]
  BY DEF LoadSnapshotRow, GoTo, dbVars, memVars, saveVars, historyVars, IInv, TypeOK
<1>2. TypeOK /\ PastKept /\ OriginInv(c) /\ LiveInv(c)
  BY <1>1, PastSame DEF IInv, DecideInv
<1>3. \A x \in Streams : IsTracked(c, x)' <=> IsTracked(c, x)
  BY <1>1 DEF IsTracked
<1>4. ~IsTracked(c, s)
  BY DEF LoadSnapshotRow, Loadable, IsTracked
<1>5. OriginInv(c)'
  <2>1. ASSUME NEW i \in DOMAIN ops'[c]
        PROVE  /\ ops'[c][i].expected \in Nat
               /\ ops'[c][i].kind = "startStream" =>
                    /\ ops'[c][i].expected = 0 /\ InSession(c)'
                    /\ \A k \in DOMAIN ops'[c][i].events : basis'[ops'[c][i].events[k]] = NotDecided
               /\ ops'[c][i].kind = "append" => IsTracked(c, ops[c][i].stream)'
               /\ c \notin Reuse /\ pc'[c] \in {"idle", "loading"} => ops'[c][i].kind = "startStream"
    BY <1>1, <1>2, <2>1 DEF OriginInv, InSession, IsTracked
  <2>2. \A x \in Streams : /\ InSession(c)' /\ IsTracked(c, x)' => version'[x] > 0
                           /\ ~IsTracked(c, x)' => tracked'[c][x].pending = <<>>
    BY <1>1, <1>2, <1>3 DEF OriginInv, InSession
  <2>3. ASSUME NEW load \in reading'[c]
        PROVE  /\ pc'[c] = "loading" /\ ~IsTracked(c, load.stream)' /\ Faithful(load.stream, load.snap)'
               /\ InSession(c)' => version'[load.stream] > 0
    <3> PICK snap \in Snapshots : snap = snaps[s]
      BY <1>2 DEF TypeOK
    <3>1. load.stream = s /\ load.snap = snap
      BY <1>1, <2>3
    <3>2. Faithful(s, snap)'
      BY <1>2, FaithfulKept DEF DecideInv
    <3>3. InSession(c) => version[s] > 0
      BY DEF LoadSnapshotRow, Loadable
    <3> QED BY <1>1, <1>3, <1>4, <3>1, <3>2, <3>3 DEF InSession
  <2>4. (~InSession(c) => c \notin Reuse)' /\ pc'[c] # "gate"
    BY <1>1, <1>2 DEF OriginInv, InSession
  <2> QED BY <2>1, <2>2, <2>3, <2>4 DEF OriginInv
<1>6. DoneInv(c)'
  <2>1. at[c] = 1 /\ wRows[c] = {} /\ \A x \in Streams : wVersion[c][x] = 0
    BY <1>1, AtRest DEF Running
  <2> QED BY <1>1, <2>1, NothingDone
<1>7. LiveInv(c)'
  <2>1. Live(c)' => Live(c)
    BY <1>1 DEF Live, Doomed
  <2> QED BY <1>1, <1>2, <2>1, LiveSame
<1> QED BY <1>1, <1>5, <1>6, <1>7, DecideFrame DEF DecideInv

\* The versions of a stream are at most its current version.
LEMMA UpToVersion ==
  ASSUME IInv, NEW r \in rows
  PROVE  r.stream \in Streams /\ r.event \in Events /\ r.version \in Nat /\ r.version <= version[r.stream]
<1>1. r.stream \in Streams /\ r.event \in Events /\ r.version \in Nat
  BY DEF IInv, TypeOK, Rows
<1> PICK s \in Streams : s = r.stream
  BY <1>1
<1>2. {q.version : q \in RowsOf(s)} = 1 .. version[s] /\ version[s] \in Nat
  BY DEF IInv, StreamsGapless, TypeOK
<1>3. r.version \in 1 .. version[s]
  BY <1>2 DEF RowsOf
<1> QED BY <1>1, <1>2, <1>3

\* A snapshot with the history after it is a fold of the stream.
LEMMA DecideLoad ==
  ASSUME IInv, OnceInv, DecideInv, TypeOK', NEW c \in Clients, \A d \in Clients \ {c} : Untouched(d),
         LoadStream(c)
  PROVE  DecideInv'
<1>1. PICK load \in reading[c] :
       LET history == Replayed(load.stream, load.snap)
           versions == {load.snap.version} \cup {r.version : r \in history}
       IN \E last \in versions :
            /\ \A v \in versions : v <= last
            /\ Track(c, load.stream, [version |-> last, pending |-> <<>>,
                                     state |-> load.snap.state \cup EventsIn(history)])
  BY DEF LoadStream
<1>2. PICK s \in Streams, snap \in Snapshots : s = load.stream /\ snap = load.snap
  BY <1>1 DEF IInv, TypeOK
<1>3. PICK history : history = Replayed(s, snap)
  OBVIOUS
<1>4. PICK last \in {snap.version} \cup {r.version : r \in history} :
        /\ \A v \in {snap.version} \cup {r.version : r \in history} : v <= last
        /\ Track(c, s, [version |-> last, pending |-> <<>>, state |-> snap.state \cup EventsIn(history)])
  BY <1>1, <1>2, <1>3
<1>5. \A r \in history : r \in rows /\ r.stream = s /\ r.version > snap.version /\ r.event \notin dismissed
  BY <1>3 DEF Replayed
<1>6. snap.version \in Nat /\ snap.state \in SUBSET Events
  BY DEF Snapshots
<1>7. \A r \in history : r.event \in Events /\ r.version \in Nat /\ r.version <= version[s]
  BY <1>5, UpToVersion
<1>8. Faithful(s, snap) /\ ~IsTracked(c, s) /\ (InSession(c) => version[s] > 0) /\ OriginInv(c) /\ TypeOK
  BY <1>1, <1>2 DEF DecideInv, OriginInv, IInv
<1>9. last \in Nat /\ last <= version[s] /\ snap.version <= last
  BY <1>4, <1>6, <1>7, <1>8 DEF Faithful
<1>10. EventsIn(history) \in SUBSET Events
  BY <1>7 DEF EventsIn
<1>11. [version |-> last, pending |-> <<>>, state |-> snap.state \cup EventsIn(history)] \in Aggregates
  BY <1>6, <1>9, <1>10 DEF Aggregates
<1>12. PICK agg \in Aggregates : agg = [version |-> last, pending |-> <<>>, state |-> snap.state \cup EventsIn(history)]
  BY <1>11
<1>13. agg.version = last /\ agg.pending = <<>> /\ agg.state = snap.state \cup EventsIn(history)
  BY <1>12
<1>14. ASSUME NEW e \in Events, Past(s, last, e), e \notin dismissed PROVE e \in agg.state
  <2>1. PICK r \in rows : r.stream = s /\ r.version <= last /\ r.event = e
    BY <1>14 DEF Past
  <2>2. CASE r.version <= snap.version
    <3>1. Past(s, snap.version, e)
      BY <2>1, <2>2 DEF Past
    <3> QED BY <1>8, <1>13, <1>14, <3>1 DEF Faithful
  <2>3. CASE r.version > snap.version
    <3>1. r \in history
      BY <1>3, <1>14, <2>1, <2>3 DEF Replayed
    <3> QED BY <1>13, <2>1, <3>1 DEF EventsIn
  <2>4. r.version \in Nat
    BY <2>1, UpToVersion
  <2> QED BY <1>6, <2>2, <2>3, <2>4
<1>15. ASSUME NEW e \in agg.state PROVE Past(s, last, e)
  <2>1. CASE e \in snap.state
    <3>1. PICK r \in rows : r.stream = s /\ r.version <= snap.version /\ r.event = e
      BY <1>8, <2>1 DEF Faithful, Past
    <3>2. r.version <= last
      BY <1>6, <1>9, <3>1, UpToVersion
    <3> QED BY <3>1, <3>2 DEF Past
  <2>2. CASE e \in EventsIn(history)
    <3>1. PICK r \in history : e = r.event
      BY <2>2 DEF EventsIn
    <3>2. r.version <= last
      BY <1>4, <3>1
    <3> QED BY <1>5, <3>1, <3>2 DEF Past
  <2> QED BY <1>13, <1>15, <2>1, <2>2
<1>16. \A i \in DOMAIN ops[c] : ops[c][i].stream = s => ops[c][i].kind = "startStream"
  <2>1. \A i \in DOMAIN ops[c] : ops[c][i].kind \in {"startStream", "append"}
    BY <1>8, QueuedType
  <2> QED BY <1>8, <2>1 DEF OriginInv
<1>17. /\ UNCHANGED <<version, rows, snaps, dismissed, basis, lastEvent>>
       /\ ops'[c] = ops[c] /\ via'[c] = via[c] /\ at'[c] = at[c] /\ wRows'[c] = wRows[c] /\ wVersion'[c] = wVersion[c]
       /\ reading'[c] = {} /\ pc[c] = "loading" /\ pc'[c] = "idle"
  BY DEF LoadStream, GoTo, dbVars, saveVars, IInv, TypeOK
<1>18. Track(c, s, agg)
  BY <1>4, <1>12
<1> QED BY <1>8, <1>9, <1>13, <1>14, <1>15, <1>16, <1>17, <1>18, DecideTracked

\* A bare snapshot is a fold of the stream, if an old one.
LEMMA DecideBare ==
  ASSUME IInv, OnceInv, DecideInv, Disciplined, TypeOK', NEW c \in Clients,
         \A d \in Clients \ {c} : Untouched(d), NEW s \in Streams, LoadSnapshotOnly(c, s)
  PROVE  DecideInv'
<1> PICK snap \in Snapshots : snap = snaps[s]
  BY DEF IInv, TypeOK
<1>1. snap.version \in Nat /\ snap.state \in SUBSET Events
  BY DEF Snapshots
<1>2. [version |-> snap.version, pending |-> <<>>, state |-> snap.state] \in Aggregates
  BY <1>1 DEF Aggregates
<1>3. PICK agg \in Aggregates : agg = [version |-> snap.version, pending |-> <<>>, state |-> snap.state]
  BY <1>2
<1>4. agg.version = snap.version /\ agg.pending = <<>> /\ agg.state = snap.state
  BY <1>3
<1>5. Faithful(s, snap) /\ OriginInv(c) /\ version[s] \in Nat
  BY DEF DecideInv, IInv, TypeOK
<1>6. /\ UNCHANGED <<version, rows, snaps, dismissed, basis, lastEvent>>
      /\ ops'[c] = ops[c] /\ via'[c] = via[c] /\ at'[c] = at[c] /\ wRows'[c] = wRows[c] /\ wVersion'[c] = wVersion[c]
      /\ reading'[c] = reading[c] /\ pc[c] = "idle" /\ pc'[c] = "idle"
  BY DEF LoadSnapshotOnly, dbVars, saveVars
<1>7. Track(c, s, agg) /\ snap.version > 0
  BY <1>3 DEF LoadSnapshotOnly
<1>8. c \notin Reuse
  BY DEF LoadSnapshotOnly, Disciplined
<1>9. reading'[c] = {} /\ \A i \in DOMAIN ops[c] : ops[c][i].kind = "startStream"
  BY <1>5, <1>6, <1>8 DEF OriginInv
<1>10. version[s] > 0
  BY <1>1, <1>5, <1>7 DEF Faithful
<1>11. /\ agg.version <= version[s]
       /\ \A e \in Events : Past(s, agg.version, e) /\ e \notin dismissed => e \in agg.state
       /\ \A e \in agg.state : Past(s, agg.version, e)
  BY <1>4, <1>5 DEF Faithful
<1> QED BY <1>4, <1>6, <1>7, <1>9, <1>10, <1>11, DecideTracked

\* What a session holds was made before the next event.
LEMMA OlderThanNew ==
  ASSUME IInv, OnceInv, NEW c \in Clients, Create(c), NEW s \in Streams, NEW e, Unsaved(c, s, e)
  PROVE  e \in Events /\ e < lastEvent' /\ e # lastEvent' /\ e <= lastEvent
<1>1. e \in Events
  BY UnsavedType DEF IInv
<1>2. e \in mine[c]
  BY <1>1 DEF OnceInv, OwnInv, InQueue, InPending, Unsaved
<1>3. e <= lastEvent /\ lastEvent < lastEvent' /\ lastEvent \in Nat /\ lastEvent' \in Events
  BY <1>1, <1>2, NewEvent DEF OnceInv
<1> QED BY <1>1, <1>3 DEF Events

\* Queued events are older than those pending.
LEMMA QueuedFirst ==
  ASSUME NEW c, SortedInv(c), NEW i \in DOMAIN ops[c],
         NEW k \in DOMAIN ops[c][i].events, NEW l \in DOMAIN tracked[c][ops[c][i].stream].pending
  PROVE  ops[c][i].events[k] < tracked[c][ops[c][i].stream].pending[l]
BY DEF SortedInv

\* Starting a stream that a loaded aggregate shows to exist dooms the session;
\* elsewhere the new event is behind the ones there are.
LEMMA DecideStart ==
  ASSUME IInv, OnceInv, DecideInv, TypeOK', NEW c \in Clients, \A d \in Clients \ {c} : Untouched(d),
         NEW s \in Streams, StartStream(c, s)
  PROVE  DecideInv'
<1> PICK x \in Events : x = lastEvent'
  BY NewEvent DEF StartStream, Queue
<1> PICK op \in Operations : op = [kind |-> "startStream", stream |-> s, expected |-> 0, events |-> <<x>>]
  <2>1. <<x>> \in Seq(Events)
    OBVIOUS
  <2> QED BY <2>1 DEF Operations
<1> PICK old \in Seq(Operations) : old = ops[c]
  BY DEF IInv, TypeOK
<1> PICK new : new = Append(old, op)
  OBVIOUS
<1>1. /\ UNCHANGED <<version, rows, snaps, dismissed, basis>> /\ Create(c)
      /\ order'[c] = order[c] /\ tracked'[c] = tracked[c] /\ via'[c] = via[c] /\ reading'[c] = reading[c]
      /\ at'[c] = at[c] /\ wRows'[c] = wRows[c] /\ wVersion'[c] = wVersion[c]
      /\ pc[c] = "idle" /\ pc'[c] = "idle" /\ InSession(c) /\ ops'[c] = new
  BY DEF StartStream, Queue, dbVars, saveVars, IInv, TypeOK
<1>2. lastEvent < x /\ lastEvent \in Nat /\ x \in Nat
  BY <1>1, NewEvent DEF Events
<1>3. /\ DOMAIN old = 1 .. Len(old) /\ Len(old) \in Nat
      /\ \A m \in DOMAIN new : m \in DOMAIN old \/ m = Len(old) + 1
      /\ \A m \in DOMAIN old : new[m] = old[m] /\ m \in DOMAIN new /\ m # Len(old) + 1
      /\ new[Len(old) + 1] = op /\ Len(old) + 1 \in DOMAIN new
  BY AppendedTo
<1>4. /\ op.events = <<x>> /\ op.expected = 0 /\ op.kind = "startStream" /\ op.stream = s
      /\ \A k \in DOMAIN op.events : k = 1 /\ op.events[k] = x
  OBVIOUS
<1>5. TypeOK /\ PastKept /\ OriginInv(c) /\ LiveInv(c)
  BY <1>1, PastSame DEF IInv, DecideInv
<1>6. \A y \in Streams : IsTracked(c, y)' <=> IsTracked(c, y)
  BY <1>1 DEF IsTracked
<1>7. basis[x] = NotDecided
  BY <1>2 DEF DecideInv
<1>8. \A i \in DOMAIN old : old[i].stream \in Streams /\ \A k \in DOMAIN old[i].events : old[i].events[k] < x
  <2> SUFFICES ASSUME NEW i \in DOMAIN old PROVE old[i].stream \in Streams /\ \A k \in DOMAIN old[i].events : old[i].events[k] < x
    OBVIOUS
  <2>1. old[i].stream \in Streams
    BY <1>5, QueuedType
  <2> QED BY <1>1, <2>1, OlderThanNew DEF Unsaved
<1>9. OriginInv(c)'
  <2>1. ASSUME NEW i \in DOMAIN ops'[c]
        PROVE  /\ ops'[c][i].expected \in Nat
               /\ ops'[c][i].kind = "startStream" =>
                    /\ ops'[c][i].expected = 0 /\ InSession(c)'
                    /\ \A k \in DOMAIN ops'[c][i].events : basis'[ops'[c][i].events[k]] = NotDecided
               /\ ops'[c][i].kind = "append" => \E m \in DOMAIN order'[c] : order'[c][m] = ops'[c][i].stream
               /\ c \notin Reuse /\ pc'[c] \in {"idle", "loading"} => ops'[c][i].kind = "startStream"
    <3>1. CASE i \in DOMAIN old
      BY <1>1, <1>3, <1>5, <3>1 DEF OriginInv, InSession, IsTracked
    <3>2. CASE i = Len(old) + 1
      <4>1. ops'[c][i] = op
        BY <1>1, <1>3, <3>2
      <4> QED BY <1>1, <1>4, <1>7, <4>1 DEF InSession
    <3> QED BY <1>1, <1>3, <2>1, <3>1, <3>2
  <2>2. \A y \in Streams : /\ InSession(c)' /\ IsTracked(c, y)' => version'[y] > 0
                           /\ ~IsTracked(c, y)' => tracked'[c][y].pending = <<>>
    BY <1>1, <1>5, <1>6 DEF OriginInv, InSession
  <2>3. reading'[c] = {}
    BY <1>1, <1>5 DEF OriginInv
  <2>4. (~InSession(c) => c \notin Reuse)' /\ pc'[c] # "gate"
    BY <1>1 DEF InSession
  <2> QED BY <2>1, <2>2, <2>3, <2>4 DEF OriginInv, IsTracked
<1>10. DoneInv(c)'
  <2>1. at[c] = 1 /\ wRows[c] = {} /\ \A y \in Streams : wVersion[c][y] = 0
    BY <1>1, AtRest DEF Running
  <2> QED BY <1>1, <2>1, NothingDone
<1>11. LiveInv(c)'
  <2> SUFFICES ASSUME Live(c)' PROVE SortedInv(c)' /\ InOrder(c)' /\ \A y \in Streams : IsTracked(c, y)' => \E v \in 0 .. version'[y] : KnownAt(c, y, v)'
    BY DEF LiveInv
  <2>1. Live(c)
    <3>1. Doomed(c) => Doomed(c)'
      BY <1>1, <1>3, <1>5, DoomedKept
    <3> QED BY <1>1, <3>1 DEF Live
  <2>2. ~IsTracked(c, s)
    <3> SUFFICES ASSUME IsTracked(c, s) PROVE FALSE
      OBVIOUS
    <3>1. version'[s] > 0
      BY <1>1, <1>5 DEF OriginInv
    <3>2. Doomed(c)'
      BY <1>1, <1>3, <1>4, <3>1 DEF Doomed
    <3> QED BY <3>2 DEF Live
  <2>3. SortedInv(c) /\ InOrder(c)'
    BY <1>1, <1>5, <2>1 DEF LiveInv, InOrder
  <2>4. SortedInv(c)'
    <3>1. ASSUME NEW i \in DOMAIN new, NEW j \in DOMAIN new, NEW k \in DOMAIN new[i].events, NEW l \in DOMAIN new[j].events,
                 new[i].stream = new[j].stream, i < j \/ (i = j /\ k < l)
          PROVE  new[i].events[k] < new[j].events[l]
      <4>1. CASE i \in DOMAIN old /\ j \in DOMAIN old
        <5>1. new[i] = ops[c][i] /\ new[j] = ops[c][j] /\ i \in DOMAIN ops[c] /\ j \in DOMAIN ops[c]
          BY <1>3, <4>1
        <5> QED BY <2>3, <3>1, <5>1 DEF SortedInv
      <4>2. CASE i \in DOMAIN old /\ j = Len(old) + 1
        BY <1>3, <1>4, <1>8, <3>1, <4>2
      <4>3. CASE i = Len(old) + 1
        <5>1. k = 1
          BY <1>3, <1>4, <4>3
        <5>2. ~(i < j)
          BY <1>3, <4>3
        <5>3. l = 1
          BY <1>3, <1>4, <3>1, <4>3, <5>2
        <5> QED BY <3>1, <5>1, <5>2, <5>3
      <4> QED BY <1>3, <4>1, <4>2, <4>3
    <3>2. \A i \in DOMAIN new : \A k \in DOMAIN new[i].events, l \in DOMAIN tracked[c][new[i].stream].pending :
            new[i].events[k] < tracked[c][new[i].stream].pending[l]
      <4>1. DOMAIN tracked[c][s].pending = {}
        BY <1>5, <2>2 DEF OriginInv
      <4>2. \A i \in DOMAIN old : \A k \in DOMAIN old[i].events, l \in DOMAIN tracked[c][old[i].stream].pending :
            old[i].events[k] < tracked[c][old[i].stream].pending[l]
        <5> SUFFICES ASSUME NEW i \in DOMAIN old, NEW k \in DOMAIN old[i].events,
                            NEW l \in DOMAIN tracked[c][old[i].stream].pending
                     PROVE  old[i].events[k] < tracked[c][old[i].stream].pending[l]
          OBVIOUS
        <5>1. i \in DOMAIN ops[c] /\ old[i] = ops[c][i]
          OBVIOUS
        <5>2. k \in DOMAIN ops[c][i].events /\ l \in DOMAIN tracked[c][ops[c][i].stream].pending
          BY <5>1
        <5>3. ops[c][i].events[k] < tracked[c][ops[c][i].stream].pending[l]
          BY <2>3, <5>1, <5>2, QueuedFirst
        <5> QED BY <5>1, <5>3
      <4> SUFFICES ASSUME NEW i \in DOMAIN new, NEW k \in DOMAIN new[i].events,
                          NEW l \in DOMAIN tracked[c][new[i].stream].pending
                   PROVE  new[i].events[k] < tracked[c][new[i].stream].pending[l]
        OBVIOUS
      <4>3. CASE i \in DOMAIN old
        <5>1. new[i] = old[i]
          BY <1>3, <4>3
        <5> QED BY <4>2, <4>3, <5>1
      <4>4. CASE i = Len(old) + 1
        <5>1. new[i].stream = s
          BY <1>3, <1>4, <4>4
        <5> QED BY <4>1, <5>1
      <4> QED BY <1>3, <4>3, <4>4
    <3>3. \A y \in Streams : \A k, l \in DOMAIN tracked'[c][y].pending :
            k < l => tracked'[c][y].pending[k] < tracked'[c][y].pending[l]
      BY <1>1, <2>3 DEF SortedInv
    <3>4. \A i, j \in DOMAIN ops'[c] : \A k \in DOMAIN ops'[c][i].events, l \in DOMAIN ops'[c][j].events :
            ops'[c][i].stream = ops'[c][j].stream /\ (i < j \/ (i = j /\ k < l))
              => ops'[c][i].events[k] < ops'[c][j].events[l]
      BY <1>1, <3>1
    <3>5. \A i \in DOMAIN ops'[c] : \A k \in DOMAIN ops'[c][i].events, l \in DOMAIN tracked'[c][ops'[c][i].stream].pending :
            ops'[c][i].events[k] < tracked'[c][ops'[c][i].stream].pending[l]
      BY <1>1, <3>2
    <3> QED BY <3>3, <3>4, <3>5 DEF SortedInv
  <2>5. ASSUME NEW y \in Streams, IsTracked(c, y)' PROVE \E v \in 0 .. version'[y] : KnownAt(c, y, v)'
    <3>1. PICK v \in 0 .. version[y] : KnownAt(c, y, v)
      BY <1>5, <1>6, <2>1, <2>5 DEF LiveInv
    <3>2. y # s /\ v \in Nat /\ v \in 0 .. version'[y]
      BY <1>1, <1>5, <1>6, <2>2, <2>5, <3>1 DEF TypeOK
    <3>3. \A e \in Events : Unsaved(c, y, e)' <=> Unsaved(c, y, e)
      <4> SUFFICES ASSUME NEW e \in Events PROVE Unsaved(c, y, e)' <=> Unsaved(c, y, e)
        OBVIOUS
      <4>1. (\E i \in DOMAIN new : new[i].stream = y /\ \E k \in DOMAIN new[i].events : new[i].events[k] = e)
              <=> (\E i \in DOMAIN old : old[i].stream = y /\ \E k \in DOMAIN old[i].events : old[i].events[k] = e)
        BY <1>3, <1>4, <3>2
      <4> QED BY <1>1, <4>1 DEF Unsaved
    <3>4. Expects(c, y, v)'
      <4>1. Expects(c, y, v)
        BY <3>1 DEF KnownAt
      <4>2. ASSUME NEW i \in DOMAIN new, new[i].stream = y, \A j \in DOMAIN new : j < i => new[j].stream # y
            PROVE  new[i].expected = v
        <5>1. i \in DOMAIN old /\ new[i] = old[i]
          BY <1>3, <1>4, <3>2, <4>2
        <5>2. \A j \in DOMAIN old : j < i => old[j].stream # y
          BY <1>3, <4>2
        <5> QED BY <4>1, <4>2, <5>1, <5>2 DEF Expects
      <4>3. (\A i \in DOMAIN new : new[i].stream # y) => tracked[c][y].version = v
        BY <1>3, <4>1 DEF Expects
      <4> QED BY <1>1, <4>2, <4>3 DEF Expects
    <3>5. KnownAt(c, y, v)'
      BY <1>1, <1>5, <3>1, <3>2, <3>3, <3>4, KnownKept
    <3> QED BY <3>2, <3>5
  <2> QED BY <2>3, <2>4, <2>5
<1>12. \A e \in Events : lastEvent' < e => basis'[e] = NotDecided
  BY <1>1, <1>2 DEF DecideInv, Events
<1> QED BY <1>1, <1>9, <1>10, <1>11, <1>12, DecideFrame DEF DecideInv

\* An event that is raised is decided on all there was and goes behind it.
LEMMA DecideRaise ==
  ASSUME IInv, OnceInv, DecideInv, TypeOK', NEW c \in Clients, \A d \in Clients \ {c} : Untouched(d),
         NEW s \in Streams, Raise(c, s)
  PROVE  DecideInv'
<1> PICK x \in Events : x = lastEvent'
  BY NewEvent DEF Raise
<1> PICK old \in Seq(Events), state \in SUBSET Events : old = tracked[c][s].pending /\ state = tracked[c][s].state
  <2>1. tracked[c][s] \in Aggregates
    BY DEF IInv, TypeOK
  <2> QED BY <2>1 DEF Aggregates
<1> PICK new : new = Append(old, x)
  OBVIOUS
<1>1. /\ UNCHANGED <<version, rows, snaps, dismissed>> /\ Create(c)
      /\ order'[c] = order[c] /\ ops'[c] = ops[c] /\ via'[c] = via[c] /\ reading'[c] = reading[c]
      /\ at'[c] = at[c] /\ wRows'[c] = wRows[c] /\ wVersion'[c] = wVersion[c]
      /\ pc[c] = "idle" /\ pc'[c] = "idle" /\ IsTracked(c, s)
      /\ \A e \in Events : basis'[e] = IF e = x THEN state ELSE basis[e]
  BY DEF Raise, dbVars, saveVars, IInv, TypeOK
<1>2. lastEvent < x /\ lastEvent \in Nat /\ x \in Nat /\ x < MaxEvents + 1
  BY <1>1, NewEvent, SessionAssumption DEF Events
<1>3. /\ \A m \in DOMAIN new : m \in DOMAIN old \/ m = Len(old) + 1
      /\ \A m \in DOMAIN old : new[m] = old[m] /\ m \in DOMAIN new /\ m # Len(old) + 1
      /\ new[Len(old) + 1] = x /\ Len(old) + 1 \in DOMAIN new
      /\ DOMAIN old = 1 .. Len(old) /\ Len(old) \in Nat
  BY AppendedTo
<1>4. \A y \in Streams :
        /\ tracked'[c][y].pending = IF y = s THEN new ELSE tracked[c][y].pending
        /\ tracked'[c][y].state = IF y = s THEN state \cup {x} ELSE tracked[c][y].state
        /\ tracked'[c][y].version = tracked[c][y].version
  <2>1. \A y \in Streams :
           /\ tracked'[c][y].pending =
                IF y = s THEN Append(tracked[c][s].pending, lastEvent') ELSE tracked[c][y].pending
           /\ tracked'[c][y].state =
                IF y = s THEN tracked[c][s].state \cup {lastEvent'} ELSE tracked[c][y].state
           /\ tracked'[c][y].version = tracked[c][y].version
    BY RaisedOn DEF IInv
  <2>2. Append(tracked[c][s].pending, lastEvent') = new /\ tracked[c][s].state \cup {lastEvent'} = state \cup {x}
    OBVIOUS
  <2> QED BY <2>1, <2>2
<1>5. TypeOK /\ PastKept /\ OriginInv(c) /\ LiveInv(c)
  BY <1>1, PastSame DEF IInv, DecideInv
<1>6. \A y \in Streams : IsTracked(c, y)' <=> IsTracked(c, y)
  BY <1>1 DEF IsTracked
<1>7. \A y \in Streams : \A e : Unsaved(c, y, e) => e \in Events /\ e < x /\ e # x
  BY <1>1, OlderThanNew
<1>8. ASSUME NEW y \in Streams, NEW e \in Events PROVE Unsaved(c, y, e)' <=> Unsaved(c, y, e) \/ (y = s /\ e = x)
  <2>1. (\E k \in DOMAIN new : new[k] = e) <=> (\E k \in DOMAIN old : old[k] = e) \/ e = x
    <3>1. ASSUME NEW k \in DOMAIN new, new[k] = e PROVE (\E m \in DOMAIN old : old[m] = e) \/ e = x
      BY <1>3, <3>1
    <3>2. ASSUME NEW k \in DOMAIN old, old[k] = e PROVE \E m \in DOMAIN new : new[m] = e
      BY <1>3, <3>2
    <3>3. \E m \in DOMAIN new : new[m] = x
      BY <1>3
    <3> QED BY <3>1, <3>2, <3>3
  <2>2. CASE y = s
    <3> PICK q : q <=> \E i \in DOMAIN ops[c] : ops[c][i].stream = y /\ \E k \in DOMAIN ops[c][i].events : ops[c][i].events[k] = e
      OBVIOUS
    <3>1. Unsaved(c, y, e) <=> q \/ \E k \in DOMAIN old : old[k] = e
      BY <2>2 DEF Unsaved
    <3>2. tracked'[c][y].pending = new
      BY <1>4, <2>2
    <3>3. Unsaved(c, y, e)' <=> q \/ \E k \in DOMAIN new : new[k] = e
      BY <1>1, <3>2 DEF Unsaved
    <3> QED BY <2>1, <2>2, <3>1, <3>3
  <2>3. CASE y # s
    BY <1>1, <1>4, <2>3 DEF Unsaved
  <2> QED BY <2>2, <2>3
<1>9. OriginInv(c)'
  <2>1. ASSUME NEW i \in DOMAIN ops'[c]
        PROVE  /\ ops'[c][i].expected \in Nat
               /\ ops'[c][i].kind = "startStream" =>
                    /\ ops'[c][i].expected = 0 /\ InSession(c)'
                    /\ \A k \in DOMAIN ops'[c][i].events : basis'[ops'[c][i].events[k]] = NotDecided
               /\ ops'[c][i].kind = "append" => \E m \in DOMAIN order'[c] : order'[c][m] = ops'[c][i].stream
               /\ c \notin Reuse /\ pc'[c] \in {"idle", "loading"} => ops'[c][i].kind = "startStream"
    <3>1. i \in DOMAIN ops[c] /\ ops'[c][i] = ops[c][i] /\ ops[c][i].stream \in Streams
      BY <1>1, <1>5, <2>1, QueuedType
    <3>2. \A k \in DOMAIN ops[c][i].events : basis'[ops[c][i].events[k]] = basis[ops[c][i].events[k]]
      <4>1. \A k \in DOMAIN ops[c][i].events : ops[c][i].events[k] \in Events /\ ops[c][i].events[k] # x
        BY <1>7, <3>1 DEF Unsaved
      <4> QED BY <1>1, <4>1
    <3> QED BY <1>1, <1>5, <3>1, <3>2 DEF OriginInv, InSession, IsTracked
  <2>2. \A y \in Streams : /\ InSession(c)' /\ IsTracked(c, y)' => version'[y] > 0
                           /\ ~IsTracked(c, y)' => tracked'[c][y].pending = <<>>
    BY <1>1, <1>4, <1>5, <1>6 DEF OriginInv, InSession
  <2>3. reading'[c] = {}
    BY <1>1, <1>5 DEF OriginInv
  <2>4. (~InSession(c) => c \notin Reuse)' /\ pc'[c] # "gate"
    BY <1>1, <1>5 DEF OriginInv, InSession
  <2> QED BY <2>1, <2>2, <2>3, <2>4 DEF OriginInv, IsTracked
<1>10. DoneInv(c)'
  <2>1. at[c] = 1 /\ wRows[c] = {} /\ \A y \in Streams : wVersion[c][y] = 0
    BY <1>1, AtRest DEF Running
  <2> QED BY <1>1, <2>1, NothingDone
<1>11. LiveInv(c)'
  <2> SUFFICES ASSUME Live(c)' PROVE SortedInv(c)' /\ InOrder(c)' /\ \A y \in Streams : IsTracked(c, y)' => \E v \in 0 .. version'[y] : KnownAt(c, y, v)'
    BY DEF LiveInv
  <2>1. Live(c)
    BY <1>1 DEF Live, Doomed
  <2>2. SortedInv(c) /\ InOrder(c)'
    BY <1>1, <1>5, <2>1 DEF LiveInv, InOrder
  <2>3. SortedInv(c)'
    <3>1. \A i, j \in DOMAIN ops'[c] : \A k \in DOMAIN ops'[c][i].events, l \in DOMAIN ops'[c][j].events :
            ops'[c][i].stream = ops'[c][j].stream /\ (i < j \/ (i = j /\ k < l))
              => ops'[c][i].events[k] < ops'[c][j].events[l]
      BY <1>1, <2>2 DEF SortedInv
    <3>2. ASSUME NEW i \in DOMAIN ops[c], NEW k \in DOMAIN ops[c][i].events,
                 NEW l \in DOMAIN tracked'[c][ops[c][i].stream].pending
          PROVE  ops[c][i].events[k] < tracked'[c][ops[c][i].stream].pending[l]
      <4>1. PICK y \in Streams : y = ops[c][i].stream
        BY <1>5, QueuedType
      <4>2. CASE y = s /\ l = Len(old) + 1
        <5>1. tracked'[c][ops[c][i].stream].pending[l] = x
          BY <1>3, <1>4, <4>1, <4>2
        <5>2. Unsaved(c, y, ops[c][i].events[k])
          BY <4>1 DEF Unsaved
        <5> QED BY <1>7, <5>1, <5>2
      <4>3. CASE y # s \/ l # Len(old) + 1
        <5>1. /\ l \in DOMAIN tracked[c][ops[c][i].stream].pending
              /\ tracked'[c][ops[c][i].stream].pending[l] = tracked[c][ops[c][i].stream].pending[l]
          BY <1>3, <1>4, <3>2, <4>1, <4>3
        <5>2. ops[c][i].events[k] < tracked[c][ops[c][i].stream].pending[l]
          BY <2>2, <5>1, QueuedFirst
        <5> QED BY <5>1, <5>2
      <4> QED BY <4>2, <4>3
    <3>3. ASSUME NEW y \in Streams, NEW k \in DOMAIN tracked'[c][y].pending, NEW l \in DOMAIN tracked'[c][y].pending, k < l
          PROVE  tracked'[c][y].pending[k] < tracked'[c][y].pending[l]
      <4>1. \A m, n \in DOMAIN tracked[c][y].pending : m < n => tracked[c][y].pending[m] < tracked[c][y].pending[n]
        BY <2>2 DEF SortedInv
      <4>2. CASE y # s
        BY <1>4, <3>3, <4>1, <4>2
      <4>3. CASE y = s
        <5>1. k \in DOMAIN new /\ l \in DOMAIN new /\ tracked'[c][y].pending = new
          BY <1>4, <3>3, <4>3
        <5>2. k \in DOMAIN old
          BY <1>3, <3>3, <5>1
        <5>3. CASE l \in DOMAIN old
          BY <1>3, <3>3, <4>1, <4>3, <5>1, <5>2, <5>3
        <5>4. CASE l = Len(old) + 1
          <6>1. Unsaved(c, s, old[k])
            BY <5>2 DEF Unsaved
          <6> QED BY <1>3, <1>7, <5>1, <5>2, <5>4, <6>1
        <5> QED BY <1>3, <5>1, <5>3, <5>4
      <4> QED BY <4>2, <4>3
    <3>4. \A i \in DOMAIN ops'[c] : \A k \in DOMAIN ops'[c][i].events, l \in DOMAIN tracked'[c][ops'[c][i].stream].pending :
            ops'[c][i].events[k] < tracked'[c][ops'[c][i].stream].pending[l]
      BY <1>1, <3>2
    <3> QED BY <3>1, <3>3, <3>4 DEF SortedInv
  <2>4. ASSUME NEW y \in Streams, IsTracked(c, y)' PROVE \E v \in 0 .. version'[y] : KnownAt(c, y, v)'
    <3>1. PICK v \in 0 .. version[y] : KnownAt(c, y, v)
      BY <1>5, <1>6, <2>1, <2>4 DEF LiveInv
    <3>2. v \in Nat /\ v \in 0 .. version'[y] /\ v <= version'[y] /\ v <= version[y]
      BY <1>1, <1>5, <3>1 DEF TypeOK
    <3>3. Expects(c, y, v)'
      BY <1>1, <1>4, <3>1 DEF KnownAt, Expects
    <3>4. CASE y # s
      <4>1. \A e \in Events : Unsaved(c, y, e)' <=> Unsaved(c, y, e)
        BY <1>8, <3>4
      <4>2. \A e \in Events : Unsaved(c, y, e) => basis'[e] = basis[e]
        BY <1>1, <1>7
      <4>3. tracked'[c][y].state = tracked[c][y].state
        BY <1>4, <3>4
      <4>4. KnownAt(c, y, v)'
        BY <1>5, <3>1, <3>2, <3>3, <4>1, <4>2, <4>3, KnownKept
      <4> QED BY <3>2, <4>4
    <3>5. CASE y = s
      <4>1. \A e \in Events : Past(s, v, e)' <=> Past(s, v, e)
        BY <1>1 DEF Past
      <4>2. Folds(c, s, v, MaxEvents + 1, state)
        BY <3>1, <3>5 DEF KnownAt
      <4>3. \A e \in Events : Past(s, v, e) /\ e \notin dismissed => e \in state
        BY <4>2 DEF Folds
      <4>4. \A e \in Events : Unsaved(c, s, e) => e \in state
        <5>1. \A e \in Events : e < MaxEvents + 1
          BY SessionAssumption DEF Events
        <5> QED BY <4>2, <5>1 DEF Folds
      <4>5. \A e \in state : Past(s, v, e) \/ Unsaved(c, s, e)
        BY <4>2 DEF Folds
      <4>6. Folds(c, s, v, MaxEvents + 1, tracked[c][s].state)'
        <5>1. tracked'[c][s].state = state \cup {x} /\ dismissed' = dismissed
          BY <1>1, <1>4
        <5>2. \A e \in Events : e < MaxEvents + 1
          BY SessionAssumption DEF Events
        <5>3. \A e \in Events : Past(s, v, e)' /\ e \notin dismissed' => e \in tracked'[c][s].state
          BY <4>1, <4>3, <5>1
        <5>4. \A e \in Events : Unsaved(c, s, e)' /\ e < MaxEvents + 1 => e \in tracked'[c][s].state
          BY <1>8, <4>4, <5>1
        <5>5. \A e \in tracked'[c][s].state : Past(s, v, e)' \/ (Unsaved(c, s, e)' /\ e < MaxEvents + 1)
          <6>1. \A e \in state : e \in Events
            OBVIOUS
          <6> QED BY <1>8, <4>1, <4>5, <5>1, <5>2, <6>1
        <5> QED BY <5>3, <5>4, <5>5 DEF Folds
      <4>7. ASSUME NEW e \in Events, Unsaved(c, s, e)' PROVE Folds(c, s, v, e, basis[e])'
        <5>1. CASE e = x
          <6>1. Folds(c, s, v, x, state)'
            <7>1. \A u \in Events : Unsaved(c, s, u)' /\ u < x => u \in state
              <8>1. \A u \in Events : u < x => u # x
                BY <1>2 DEF Events
              <8> QED BY <1>8, <4>4, <8>1
            <7>2. \A u \in state : Past(s, v, u)' \/ (Unsaved(c, s, u)' /\ u < x)
              <8>1. \A u \in state : u \in Events
                OBVIOUS
              <8> QED BY <1>7, <1>8, <4>1, <4>5, <8>1
            <7>3. \A u \in Events : Past(s, v, u)' /\ u \notin dismissed' => u \in state
              BY <1>1, <4>1, <4>3
            <7> QED BY <7>1, <7>2, <7>3 DEF Folds
          <6>2. basis'[e] = state
            BY <1>1, <5>1
          <6> QED BY <5>1, <6>1, <6>2
        <5>2. CASE e # x
          <6> PICK b : b = basis[e]
            OBVIOUS
          <6>1. Unsaved(c, s, e) /\ e < x /\ basis'[e] = b
            BY <1>1, <1>7, <1>8, <4>7, <5>2
          <6>2. Folds(c, s, v, e, b)
            BY <3>1, <3>5, <6>1 DEF KnownAt
          <6>3. b \subseteq Events
            BY <1>5, <6>2, UnsavedType DEF Folds
          <6>4. \A u \in Events : u < e => (Unsaved(c, s, u)' <=> Unsaved(c, s, u))
            <7>1. \A u \in Events : u < e => u # x
              BY <1>2, <6>1 DEF Events
            <7> QED BY <1>8, <7>1
          <6>5. Folds(c, s, v, e, b)'
            BY <1>5, <3>2, <3>5, <6>2, <6>3, <6>4, FoldsKept
          <6> QED BY <6>1, <6>5
        <5> QED BY <5>1, <5>2
      <4>8. KnownAt(c, s, v)'
        BY <3>2, <3>3, <3>5, <4>6, <4>7 DEF KnownAt
      <4> QED BY <3>2, <3>5, <4>8
    <3> QED BY <3>4, <3>5
  <2> QED BY <2>2, <2>3, <2>4
<1>12. /\ \A e \in Events : lastEvent' < e => basis'[e] = NotDecided
       /\ \A e \in Events : e <= lastEvent => basis'[e] = basis[e]
  <2>1. \A e \in Events : e \in Nat
    BY DEF Events
  <2> QED BY <1>1, <1>2, <2>1 DEF DecideInv
<1> QED BY <1>1, <1>9, <1>10, <1>11, <1>12, DecideFrame DEF DecideInv

\* A save pulls the pending events of each tracked aggregate once, into an
\* operation behind the queue.
LEMMA BeginPulls ==
  ASSUME IInv, OnceInv, NEW c \in Clients, BeginSave(c)
  PROVE  \E n \in Nat, q \in Nat : \E streams \in [1 .. n -> Streams] :
           /\ \A m \in DOMAIN ops'[c] :
                \/ m \in DOMAIN ops[c] /\ ops'[c][m] = ops[c][m]
                \/ m \in Nat /\ m > q /\ m - q \in 1 .. n /\ ops'[c][m] = PulledOp(c, streams[m - q])
           /\ \A m \in DOMAIN ops[c] : m \in DOMAIN ops'[c] /\ ops'[c][m] = ops[c][m] /\ m \in Nat /\ m <= q
           /\ \A i \in 1 .. n : q + i \in DOMAIN ops'[c] /\ q + i > q /\ ops'[c][q + i] = PulledOp(c, streams[i])
           /\ \A i \in 1 .. n : IsTracked(c, streams[i])
           /\ \A i, j \in 1 .. n : streams[i] = streams[j] => i = j
           /\ \A s \in Streams : IsTracked(c, s) /\ tracked[c][s].pending # <<>> => \E i \in 1 .. n : streams[i] = s
<1> PICK n \in Nat : n = Cardinality(Dirty(c))
  BY FS_Subset, FS_CardinalityType, SessionAssumption DEF Dirty
<1>1. PICK streams \in [1 .. n -> Dirty(c)] :
        /\ InMapOrder(c, streams)
        /\ ops' = [ops EXCEPT ![c] = Submitted(c, [i \in DOMAIN streams |-> PulledOp(c, streams[i])])]
  BY DEF BeginSave
<1> PICK old \in Seq(Operations) : old = ops[c]
  BY DEF IInv, TypeOK
<1> PICK pulled \in Seq(Operations) : pulled = [i \in 1 .. n |-> PulledOp(c, streams[i])]
  <2>1. \A s \in Streams : PulledOp(c, s) \in Operations
    <3>1. \A s \in Streams : tracked[c][s] \in Aggregates
      BY DEF IInv, TypeOK
    <3> QED BY <3>1 DEF PulledOp, Operations, Aggregates
  <2>2. \A i \in 1 .. n : PulledOp(c, streams[i]) \in Operations
    BY <1>1, <2>1 DEF Dirty
  <2>3. [i \in 1 .. n |-> PulledOp(c, streams[i])] \in Seq(Operations)
    BY <2>2, IsASeq
  <2> QED BY <2>3
<1> PICK q \in Nat : q = Len(old)
  OBVIOUS
<1> PICK new : new = old \o pulled
  OBVIOUS
<1>2. ops'[c] = new
  BY <1>1 DEF Submitted, IInv, TypeOK
<1>3. streams \in [1 .. n -> Streams] /\ \A i \in 1 .. n : IsTracked(c, streams[i])
  BY <1>1 DEF Dirty
<1>4. DOMAIN pulled = 1 .. n /\ \A i \in 1 .. n : pulled[i] = PulledOp(c, streams[i])
  OBVIOUS
<1>5. /\ \A m \in DOMAIN new : \/ m \in DOMAIN old /\ new[m] = old[m]
                               \/ m - q \in 1 .. n /\ m > q /\ m \in Nat /\ new[m] = pulled[m - q]
      /\ \A m \in DOMAIN old : m \in DOMAIN new /\ m \in Nat /\ m <= q
  BY <1>4, Concatenated
<1>6. \A m \in DOMAIN old : new[m] = old[m]
  <2>1. \A m \in Nat : ~(m > q /\ m <= q)
    OBVIOUS
  <2> QED BY <1>5, <2>1
<1>7. \A i \in 1 .. n : q + i \in DOMAIN new /\ q + i > q /\ new[q + i] = pulled[i]
  <2>1. Len(pulled) = n /\ Len(old) = q /\ new \in Seq(Operations) /\ Len(new) = q + n
    BY <1>4, ConcatProperties
  <2>2. DOMAIN new = 1 .. q + n
    BY <2>1
  <2>3. \A i \in 1 .. n : q + i \in 1 .. q + n /\ q + i > q /\ ~(q + i <= q) /\ (q + i) - q = i
    OBVIOUS
  <2>4. \A m \in 1 .. q + n : new[m] = IF m <= q THEN old[m] ELSE pulled[m - q]
    BY <2>1, ConcatProperties
  <2>5. ASSUME NEW i \in 1 .. n PROVE new[q + i] = pulled[i]
    <3> PICK m : m = q + i
      OBVIOUS
    <3>1. m \in 1 .. q + n /\ ~(m <= q) /\ m - q = i
      BY <2>3
    <3> QED BY <2>4, <3>1
  <2> QED BY <2>2, <2>3, <2>5
<1>8. \A i, j \in 1 .. n : streams[i] = streams[j] => i = j
  <2>1. ASSUME NEW i \in 1 .. n, NEW j \in 1 .. n, i < j, streams[i] = streams[j] PROVE FALSE
    <3>1. PICK k, l \in DOMAIN order[c] : k < l /\ order[c][k] = streams[i] /\ order[c][l] = streams[j]
      BY <1>1, <2>1 DEF InMapOrder
    <3>2. k = l
      BY <2>1, <3>1 DEF OnceInv, OwnInv
    <3>3. DOMAIN order[c] \subseteq Nat
      <4>1. order[c] \in Seq(Streams)
        BY DEF IInv, TypeOK
      <4> QED BY <4>1
    <3> QED BY <3>1, <3>2, <3>3
  <2>2. ASSUME NEW i \in 1 .. n, NEW j \in 1 .. n, streams[i] = streams[j] PROVE i = j
    <3>1. ~(i < j) /\ ~(j < i)
      BY <2>1, <2>2
    <3> QED BY <3>1
  <2> QED BY <2>2
<1>9. \A s \in Dirty(c) : \E i \in 1 .. n : streams[i] = s
  <2>1. IsFiniteSet(Dirty(c))
    BY FS_Subset, SessionAssumption DEF Dirty
  <2>2. Cardinality(1 .. n) = n
    BY FS_Interval
  <2>3. streams \in Injection(1 .. n, Dirty(c))
    BY <1>1, <1>8 DEF Injection, IsInjective
  <2>4. streams \in Surjection(1 .. n, Dirty(c))
    BY <2>1, <2>2, <2>3, FS_Injection
  <2> QED BY <2>4 DEF Surjection
<1>10. \A s \in Streams : IsTracked(c, s) /\ tracked[c][s].pending # <<>> => \E i \in 1 .. n : streams[i] = s
  BY <1>9 DEF Dirty
<1>11. \A m \in DOMAIN new : \/ m \in DOMAIN old /\ new[m] = old[m]
                             \/ m \in Nat /\ m > q /\ m - q \in 1 .. n /\ new[m] = PulledOp(c, streams[m - q])
  BY <1>4, <1>5
<1>12. \A i \in 1 .. n : q + i \in DOMAIN new /\ q + i > q /\ new[q + i] = PulledOp(c, streams[i])
  BY <1>4, <1>7
<1>13. \A m \in DOMAIN old : m \in DOMAIN new /\ new[m] = old[m] /\ m \in Nat /\ m <= q
  BY <1>5, <1>6
<1>14. /\ \A m \in DOMAIN ops'[c] :
            \/ m \in DOMAIN ops[c] /\ ops'[c][m] = ops[c][m]
            \/ m \in Nat /\ m > q /\ m - q \in 1 .. n /\ ops'[c][m] = PulledOp(c, streams[m - q])
       /\ \A m \in DOMAIN ops[c] : m \in DOMAIN ops'[c] /\ ops'[c][m] = ops[c][m] /\ m \in Nat /\ m <= q
       /\ \A i \in 1 .. n : q + i \in DOMAIN ops'[c] /\ q + i > q /\ ops'[c][q + i] = PulledOp(c, streams[i])
  BY <1>2, <1>11, <1>12, <1>13
<1> USE <1>3
<1> WITNESS n \in Nat, q \in Nat
<1> WITNESS streams \in [1 .. n -> Streams]
<1> QED BY <1>3, <1>8, <1>10, <1>14

\* Pulling moves what is unsaved from the aggregates to the queue.
LEMMA UnsavedPulled ==
  ASSUME IInv, OnceInv, DecideInv, TypeOK', NEW c \in Clients, BeginSave(c)
  PROVE  \A s \in Streams, e \in Events : Unsaved(c, s, e)' <=> Unsaved(c, s, e)
<1>2. TypeOK /\ OriginInv(c)
  BY DEF IInv, DecideInv
<1>3. \A s \in Streams : /\ tracked'[c][s].pending = <<>> /\ DOMAIN tracked'[c][s].pending = {}
                         /\ tracked'[c][s].state = tracked[c][s].state
                         /\ tracked'[c][s].version = tracked[c][s].version
  <2>1. \A s \in Streams : /\ [tracked[c][s] EXCEPT !.pending = <<>>].pending = <<>>
                           /\ [tracked[c][s] EXCEPT !.pending = <<>>].state = tracked[c][s].state
                           /\ [tracked[c][s] EXCEPT !.pending = <<>>].version = tracked[c][s].version
    <3>1. \A s \in Streams : tracked[c][s] \in Aggregates
      BY <1>2 DEF TypeOK
    <3> QED BY <3>1 DEF Aggregates
  <2>2. tracked'[c] = [s \in Streams |-> [tracked[c][s] EXCEPT !.pending = <<>>]]
    BY <1>2 DEF BeginSave, TypeOK
  <2>3. DOMAIN <<>> = {}
    OBVIOUS
  <2> QED BY <2>1, <2>2, <2>3
<1>4. PICK n \in Nat, q \in Nat : \E streams \in [1 .. n -> Streams] :
           /\ \A m \in DOMAIN ops'[c] :
                \/ m \in DOMAIN ops[c] /\ ops'[c][m] = ops[c][m]
                \/ m \in Nat /\ m > q /\ m - q \in 1 .. n /\ ops'[c][m] = PulledOp(c, streams[m - q])
           /\ \A m \in DOMAIN ops[c] : m \in DOMAIN ops'[c] /\ ops'[c][m] = ops[c][m] /\ m \in Nat /\ m <= q
           /\ \A i \in 1 .. n : q + i \in DOMAIN ops'[c] /\ q + i > q /\ ops'[c][q + i] = PulledOp(c, streams[i])
           /\ \A i \in 1 .. n : IsTracked(c, streams[i])
           /\ \A i, j \in 1 .. n : streams[i] = streams[j] => i = j
           /\ \A s \in Streams : IsTracked(c, s) /\ tracked[c][s].pending # <<>> => \E i \in 1 .. n : streams[i] = s
  BY BeginPulls
<1>5. PICK streams \in [1 .. n -> Streams] :
           /\ \A m \in DOMAIN ops'[c] :
                \/ m \in DOMAIN ops[c] /\ ops'[c][m] = ops[c][m]
                \/ m \in Nat /\ m > q /\ m - q \in 1 .. n /\ ops'[c][m] = PulledOp(c, streams[m - q])
           /\ \A m \in DOMAIN ops[c] : m \in DOMAIN ops'[c] /\ ops'[c][m] = ops[c][m] /\ m \in Nat /\ m <= q
           /\ \A i \in 1 .. n : q + i \in DOMAIN ops'[c] /\ q + i > q /\ ops'[c][q + i] = PulledOp(c, streams[i])
           /\ \A i \in 1 .. n : IsTracked(c, streams[i])
           /\ \A i, j \in 1 .. n : streams[i] = streams[j] => i = j
           /\ \A s \in Streams : IsTracked(c, s) /\ tracked[c][s].pending # <<>> => \E i \in 1 .. n : streams[i] = s
  BY <1>4
<1>6. ASSUME NEW m \in DOMAIN ops'[c], m \notin DOMAIN ops[c]
      PROVE  /\ m \in Nat /\ m > q /\ m - q \in 1 .. n /\ ops'[c][m].stream = streams[m - q]
             /\ ops'[c][m].stream \in Streams /\ ops'[c][m].kind = "append"
             /\ \E m2 \in DOMAIN order[c] : order[c][m2] = ops'[c][m].stream
             /\ ops'[c][m].events = tracked[c][ops'[c][m].stream].pending
             /\ ops'[c][m].expected = tracked[c][ops'[c][m].stream].version
  <2>1. m \in Nat /\ m > q /\ m - q \in 1 .. n /\ ops'[c][m] = PulledOp(c, streams[m - q])
    BY <1>5, <1>6
  <2>2. PICK i \in 1 .. n : i = m - q
    BY <2>1
  <2>3. streams[i] \in Streams /\ IsTracked(c, streams[i])
    BY <1>5, <2>2
  <2>4. ops'[c][m] = PulledOp(c, streams[i])
    BY <2>1, <2>2
  <2> QED BY <2>1, <2>2, <2>3, <2>4 DEF PulledOp, IsTracked
<1>9. ASSUME NEW s \in Streams, NEW e \in Events PROVE Unsaved(c, s, e)' <=> Unsaved(c, s, e)
  <2>1. ASSUME NEW m \in DOMAIN ops'[c], ops'[c][m].stream = s, NEW k \in DOMAIN ops'[c][m].events, ops'[c][m].events[k] = e
        PROVE  Unsaved(c, s, e)
    <3>1. CASE m \in DOMAIN ops[c]
      BY <1>5, <2>1, <3>1 DEF Unsaved
    <3>2. CASE m \notin DOMAIN ops[c]
      <4>1. ops'[c][m].events = tracked[c][s].pending
        BY <1>6, <2>1, <3>2
      <4> QED BY <2>1, <4>1 DEF Unsaved
    <3> QED BY <3>1, <3>2
  <2>2. ASSUME NEW m \in DOMAIN ops[c], ops[c][m].stream = s, NEW k \in DOMAIN ops[c][m].events, ops[c][m].events[k] = e
        PROVE  Unsaved(c, s, e)'
    <3>1. m \in DOMAIN ops'[c] /\ ops'[c][m] = ops[c][m]
      BY <1>5
    <3> QED BY <2>2, <3>1 DEF Unsaved
  <2>3. ASSUME NEW k \in DOMAIN tracked[c][s].pending, tracked[c][s].pending[k] = e PROVE Unsaved(c, s, e)'
    <3>1. tracked[c][s].pending # <<>>
      BY <2>3
    <3>2. IsTracked(c, s)
      BY <1>2, <3>1 DEF OriginInv
    <3>3. PICK i \in 1 .. n : streams[i] = s
      BY <1>5, <3>1, <3>2
    <3>4. PICK m \in DOMAIN ops'[c] : ops'[c][m] = PulledOp(c, s)
      BY <1>5, <3>3
    <3>5. ops'[c][m].stream = s /\ ops'[c][m].events = tracked[c][s].pending
      BY <3>4 DEF PulledOp
    <3> QED BY <2>3, <3>4, <3>5 DEF Unsaved
  <2>4. Unsaved(c, s, e)' => Unsaved(c, s, e)
    <3>1. DOMAIN tracked'[c][s].pending = {}
      BY <1>3
    <3> QED BY <2>1, <3>1 DEF Unsaved
  <2> QED BY <2>2, <2>3, <2>4 DEF Unsaved
<1> QED BY <1>9

\* Pulling moves what is unsaved from the aggregates to the queue; each stream
\* is stored behind the version it was loaded at.
LEMMA DecideBegin ==
  ASSUME IInv, OnceInv, DecideInv, TypeOK', NEW c \in Clients, \A d \in Clients \ {c} : Untouched(d),
         BeginSave(c)
  PROVE  DecideInv'
<1>1. /\ UNCHANGED <<version, rows, snaps, dismissed, basis, lastEvent>>
      /\ order'[c] = order[c] /\ via'[c] = via[c] /\ reading'[c] = reading[c]
      /\ at'[c] = at[c] /\ wRows'[c] = wRows[c] /\ wVersion'[c] = wVersion[c]
      /\ pc[c] = "idle" /\ pc'[c] = "saving"
  BY DEF BeginSave, GoTo, dbVars, saveVars, historyVars, IInv, TypeOK
<1>2. TypeOK /\ PastKept /\ OriginInv(c) /\ LiveInv(c)
  BY <1>1, PastSame DEF IInv, DecideInv
<1>3. \A s \in Streams : /\ tracked'[c][s].pending = <<>> /\ DOMAIN tracked'[c][s].pending = {}
                         /\ tracked'[c][s].state = tracked[c][s].state
                         /\ tracked'[c][s].version = tracked[c][s].version
  <2>1. \A s \in Streams : /\ [tracked[c][s] EXCEPT !.pending = <<>>].pending = <<>>
                           /\ [tracked[c][s] EXCEPT !.pending = <<>>].state = tracked[c][s].state
                           /\ [tracked[c][s] EXCEPT !.pending = <<>>].version = tracked[c][s].version
    <3>1. \A s \in Streams : tracked[c][s] \in Aggregates
      BY <1>2 DEF TypeOK
    <3> QED BY <3>1 DEF Aggregates
  <2>2. tracked'[c] = [s \in Streams |-> [tracked[c][s] EXCEPT !.pending = <<>>]]
    BY <1>2 DEF BeginSave, TypeOK
  <2>3. DOMAIN <<>> = {}
    OBVIOUS
  <2> QED BY <2>1, <2>2, <2>3
<1>4. PICK n \in Nat, q \in Nat : \E streams \in [1 .. n -> Streams] :
           /\ \A m \in DOMAIN ops'[c] :
                \/ m \in DOMAIN ops[c] /\ ops'[c][m] = ops[c][m]
                \/ m \in Nat /\ m > q /\ m - q \in 1 .. n /\ ops'[c][m] = PulledOp(c, streams[m - q])
           /\ \A m \in DOMAIN ops[c] : m \in DOMAIN ops'[c] /\ ops'[c][m] = ops[c][m] /\ m \in Nat /\ m <= q
           /\ \A i \in 1 .. n : q + i \in DOMAIN ops'[c] /\ q + i > q /\ ops'[c][q + i] = PulledOp(c, streams[i])
           /\ \A i \in 1 .. n : IsTracked(c, streams[i])
           /\ \A i, j \in 1 .. n : streams[i] = streams[j] => i = j
           /\ \A s \in Streams : IsTracked(c, s) /\ tracked[c][s].pending # <<>> => \E i \in 1 .. n : streams[i] = s
  BY BeginPulls
<1>5. PICK streams \in [1 .. n -> Streams] :
           /\ \A m \in DOMAIN ops'[c] :
                \/ m \in DOMAIN ops[c] /\ ops'[c][m] = ops[c][m]
                \/ m \in Nat /\ m > q /\ m - q \in 1 .. n /\ ops'[c][m] = PulledOp(c, streams[m - q])
           /\ \A m \in DOMAIN ops[c] : m \in DOMAIN ops'[c] /\ ops'[c][m] = ops[c][m] /\ m \in Nat /\ m <= q
           /\ \A i \in 1 .. n : q + i \in DOMAIN ops'[c] /\ q + i > q /\ ops'[c][q + i] = PulledOp(c, streams[i])
           /\ \A i \in 1 .. n : IsTracked(c, streams[i])
           /\ \A i, j \in 1 .. n : streams[i] = streams[j] => i = j
           /\ \A s \in Streams : IsTracked(c, s) /\ tracked[c][s].pending # <<>> => \E i \in 1 .. n : streams[i] = s
  BY <1>4
<1>6. ASSUME NEW m \in DOMAIN ops'[c], m \notin DOMAIN ops[c]
      PROVE  /\ m \in Nat /\ m > q /\ m - q \in 1 .. n /\ ops'[c][m].stream = streams[m - q]
             /\ ops'[c][m].stream \in Streams /\ ops'[c][m].kind = "append"
             /\ \E m2 \in DOMAIN order[c] : order[c][m2] = ops'[c][m].stream
             /\ ops'[c][m].events = tracked[c][ops'[c][m].stream].pending
             /\ ops'[c][m].expected = tracked[c][ops'[c][m].stream].version
  <2>1. m \in Nat /\ m > q /\ m - q \in 1 .. n /\ ops'[c][m] = PulledOp(c, streams[m - q])
    BY <1>5, <1>6
  <2>2. PICK i \in 1 .. n : i = m - q
    BY <2>1
  <2>3. streams[i] \in Streams /\ IsTracked(c, streams[i])
    BY <1>5, <2>2
  <2>4. ops'[c][m] = PulledOp(c, streams[i])
    BY <2>1, <2>2
  <2> QED BY <2>1, <2>2, <2>3, <2>4 DEF PulledOp, IsTracked
<1>7. \A s \in Streams : IsTracked(c, s)' <=> IsTracked(c, s)
  BY <1>1 DEF IsTracked
<1>8. \A m \in DOMAIN ops[c] : ops[c][m].stream \in Streams
  BY <1>2, QueuedType
<1>9. \A s \in Streams, e \in Events : Unsaved(c, s, e)' <=> Unsaved(c, s, e)
  BY UnsavedPulled
<1>10. OriginInv(c)'
  <2>1. ASSUME NEW i \in DOMAIN ops'[c]
        PROVE  /\ ops'[c][i].expected \in Nat
               /\ ops'[c][i].kind = "startStream" =>
                    /\ ops'[c][i].expected = 0 /\ InSession(c)'
                    /\ \A k \in DOMAIN ops'[c][i].events : basis'[ops'[c][i].events[k]] = NotDecided
               /\ ops'[c][i].kind = "append" => \E m \in DOMAIN order'[c] : order'[c][m] = ops'[c][i].stream
    <3>1. CASE i \in DOMAIN ops[c]
      <4>1. ops'[c][i] = ops[c][i]
        BY <1>5, <3>1
      <4> QED BY <1>1, <1>2, <3>1, <4>1 DEF OriginInv, InSession, IsTracked
    <3>2. CASE i \notin DOMAIN ops[c]
      <4>1. \A s \in Streams : tracked[c][s].version \in Nat
        BY <1>2 DEF TypeOK, Aggregates
      <4> QED BY <1>1, <1>6, <2>1, <3>2, <4>1
    <3> QED BY <3>1, <3>2
  <2>2. \A s \in Streams : /\ InSession(c)' /\ IsTracked(c, s)' => version'[s] > 0
                           /\ ~IsTracked(c, s)' => tracked'[c][s].pending = <<>>
    BY <1>1, <1>2, <1>3, <1>7 DEF OriginInv, InSession
  <2>3. reading'[c] = {}
    BY <1>1, <1>2 DEF OriginInv
  <2>4. (~InSession(c) => c \notin Reuse)' /\ pc'[c] # "gate" /\ pc'[c] \notin {"idle", "loading"}
    BY <1>1, <1>2 DEF OriginInv, InSession
  <2> QED BY <2>1, <2>2, <2>3, <2>4 DEF OriginInv, IsTracked
<1>11. DoneInv(c)'
  <2>1. at[c] = 1 /\ wRows[c] = {} /\ \A y \in Streams : wVersion[c][y] = 0
    BY <1>1, AtRest DEF Running
  <2> QED BY <1>1, <2>1, NothingDone
<1>12. LiveInv(c)'
  <2> SUFFICES ASSUME Live(c)' PROVE SortedInv(c)' /\ InOrder(c)' /\ \A y \in Streams : IsTracked(c, y)' => \E v \in 0 .. version'[y] : KnownAt(c, y, v)'
    BY DEF LiveInv
  <2>1. Live(c)
    <3>1. Doomed(c) => Doomed(c)'
      BY <1>2, <1>5, DoomedKept
    <3> QED BY <1>1, <3>1 DEF Live
  <2>2. SortedInv(c) /\ InOrder(c)'
    BY <1>1, <1>2, <2>1 DEF LiveInv, InOrder
  <2>3. SortedInv(c)'
    <3>1. ASSUME NEW i \in DOMAIN ops'[c], NEW j \in DOMAIN ops'[c],
                 NEW k \in DOMAIN ops'[c][i].events, NEW l \in DOMAIN ops'[c][j].events,
                 ops'[c][i].stream = ops'[c][j].stream, i < j \/ (i = j /\ k < l)
          PROVE  ops'[c][i].events[k] < ops'[c][j].events[l]
      <4>1. CASE i \in DOMAIN ops[c] /\ j \in DOMAIN ops[c]
        <5>1. ops'[c][i] = ops[c][i] /\ ops'[c][j] = ops[c][j]
          BY <1>5, <4>1
        <5> QED BY <2>2, <3>1, <4>1, <5>1 DEF SortedInv
      <4>2. CASE i \in DOMAIN ops[c] /\ j \notin DOMAIN ops[c]
        <5>1. ops'[c][i] = ops[c][i]
          BY <1>5, <4>2
        <5>2. ops'[c][j].events = tracked[c][ops[c][i].stream].pending
          BY <1>6, <3>1, <4>2, <5>1
        <5>3. k \in DOMAIN ops[c][i].events /\ l \in DOMAIN tracked[c][ops[c][i].stream].pending
          BY <3>1, <5>1, <5>2
        <5>4. ops[c][i].events[k] < tracked[c][ops[c][i].stream].pending[l]
          BY <2>2, <4>2, <5>3, QueuedFirst
        <5> QED BY <5>1, <5>2, <5>4
      <4>3. CASE i \notin DOMAIN ops[c] /\ j \in DOMAIN ops[c]
        <5>1. i \in Nat /\ i > q /\ j \in Nat /\ j <= q
          BY <1>5, <1>6, <3>1, <4>3
        <5>2. ~(i < j) /\ i # j
          BY <5>1
        <5> QED BY <3>1, <5>2
      <4>4. CASE i \notin DOMAIN ops[c] /\ j \notin DOMAIN ops[c]
        <5>1. i \in Nat /\ j \in Nat /\ i - q \in 1 .. n /\ j - q \in 1 .. n /\ streams[i - q] = streams[j - q]
          BY <1>6, <3>1, <4>4
        <5>2. i - q = j - q
          BY <1>5, <5>1
        <5>3. i = j /\ k < l
          BY <3>1, <5>1, <5>2
        <5>4. PICK s \in Streams : ops'[c][i].events = tracked[c][s].pending
          BY <1>6, <3>1, <4>4
        <5>5. \A a, b \in DOMAIN tracked[c][s].pending : a < b => tracked[c][s].pending[a] < tracked[c][s].pending[b]
          BY <2>2 DEF SortedInv
        <5> QED BY <3>1, <5>3, <5>4, <5>5
      <4> QED BY <4>1, <4>2, <4>3, <4>4
    <3>2. ASSUME NEW i \in DOMAIN ops'[c] PROVE DOMAIN tracked'[c][ops'[c][i].stream].pending = {}
      <4>1. ops'[c][i].stream \in Streams
        BY <1>5, <1>6, <1>8, <3>2
      <4> QED BY <1>3, <4>1
    <3>3. \A s \in Streams : DOMAIN tracked'[c][s].pending = {}
      BY <1>3
    <3> QED BY <3>1, <3>2, <3>3 DEF SortedInv
  <2>4. ASSUME NEW y \in Streams, IsTracked(c, y)' PROVE \E v \in 0 .. version'[y] : KnownAt(c, y, v)'
    <3>1. PICK v \in 0 .. version[y] : KnownAt(c, y, v)
      BY <1>2, <1>7, <2>1, <2>4 DEF LiveInv
    <3>2. v \in Nat /\ v \in 0 .. version'[y]
      BY <1>1, <1>2, <3>1 DEF TypeOK
    <3>3. Expects(c, y, v)'
      <4>1. Expects(c, y, v)
        BY <3>1 DEF KnownAt
      <4>2. ASSUME NEW i \in DOMAIN ops'[c], ops'[c][i].stream = y, \A j \in DOMAIN ops'[c] : j < i => ops'[c][j].stream # y
            PROVE  ops'[c][i].expected = v
        <5>1. CASE i \in DOMAIN ops[c]
          <6>1. ops'[c][i] = ops[c][i]
            BY <1>5, <5>1
          <6>2. \A j \in DOMAIN ops[c] : j < i => ops[c][j].stream # y
            BY <1>5, <4>2
          <6> QED BY <4>1, <4>2, <5>1, <6>1, <6>2 DEF Expects
        <5>2. CASE i \notin DOMAIN ops[c]
          <6>1. i \in Nat /\ i > q /\ ops'[c][i].expected = tracked[c][y].version
            BY <1>6, <4>2, <5>2
          <6>2. \A j \in DOMAIN ops[c] : j < i
            BY <1>5, <6>1
          <6>3. \A j \in DOMAIN ops[c] : ops[c][j].stream # y
            BY <1>5, <4>2, <6>2
          <6> QED BY <4>1, <6>1, <6>3 DEF Expects
        <5> QED BY <5>1, <5>2
      <4>3. (\A i \in DOMAIN ops'[c] : ops'[c][i].stream # y) => tracked'[c][y].version = v
        <5>1. (\A i \in DOMAIN ops'[c] : ops'[c][i].stream # y) => \A i \in DOMAIN ops[c] : ops[c][i].stream # y
          BY <1>5
        <5> QED BY <1>3, <4>1, <5>1 DEF Expects
      <4> QED BY <4>2, <4>3 DEF Expects
    <3>4. KnownAt(c, y, v)'
      BY <1>1, <1>2, <1>3, <1>9, <3>1, <3>2, <3>3, KnownKept
    <3> QED BY <3>2, <3>4
  <2> QED BY <2>2, <2>3, <2>4
<1>13. \A e \in Events : lastEvent' < e => basis'[e] = NotDecided
  BY <1>1 DEF DecideInv
<1> QED BY <1>1, <1>10, <1>11, <1>12, <1>13, DecideFrame

\* An operation that runs found the version it expects, and stores what it holds
\* behind what the transaction has stored of its stream.
LEMMA DecideAppend ==
  ASSUME IInv, OnceInv, DecideInv, TypeOK', NEW c \in Clients, \A d \in Clients \ {c} : Untouched(d),
         AppendOp(c)
  PROVE  DecideInv'
<1> PICK o \in Operations : o = Op(c)
  BY OpType DEF AppendOp, IInv
<1> PICK base \in Nat : base = Expected(c)
  BY OpType DEF AppendOp, IInv
<1> PICK s \in Streams : s = o.stream
  BY DEF Operations
<1> PICK n \in Nat : n = Len(o.events) /\ DOMAIN o.events = 1 .. n
  BY DEF Operations
<1> PICK m \in Nat : m = at[c]
  BY DEF IInv, TypeOK
<1>1. /\ UNCHANGED <<version, rows, snaps, dismissed, basis, lastEvent>>
      /\ ops'[c] = ops[c] /\ order'[c] = order[c] /\ via'[c] = via[c] /\ reading'[c] = reading[c]
      /\ pc[c] \in {"saving", "gate"} /\ pc'[c] = "saving"
      /\ m = at[c] /\ at'[c] = m + 1 /\ m \in DOMAIN ops[c] /\ o = ops[c][m]
  BY DEF AppendOp, GateOpen, HasOp, Running, GoTo, dbVars, historyVars, IInv, TypeOK, Op
<1>2. /\ wRows'[c] = wRows[c] \cup
            {[stream |-> s, version |-> base + i, event |-> o.events[i]] : i \in DOMAIN o.events}
      /\ wVersion'[c] = [wVersion[c] EXCEPT ![s] = base + n]
  BY DEF AppendOp, IInv, TypeOK
<1>3. TypeOK /\ PastKept /\ OriginInv(c) /\ DoneInv(c) /\ LiveInv(c)
  BY <1>1, PastSame DEF IInv, DecideInv
<1>4. pc[c] = "saving" /\ base = o.expected
  BY <1>1, <1>3 DEF OriginInv, Expected
<1>5. n > 0 /\ o.events # <<>>
  <2>1. o.events # <<>>
    BY <1>1 DEF OnceInv, OwnInv
  <2> QED BY <2>1
<1>6. /\ \A x \in Streams : tracked'[c][x].pending = tracked[c][x].pending
                         /\ tracked'[c][x].state = tracked[c][x].state
                         /\ (x # s => tracked'[c][x].version = tracked[c][x].version)
      /\ o.kind = "append" /\ IsTracked(c, s) => tracked'[c][s].version = base + n
  <2>1. CASE o.kind = "append" /\ IsTracked(c, s)
    <3>1. tracked' = [tracked EXCEPT ![c][s].version = base + n]
      BY <2>1 DEF AppendOp, Advanced
    <3>2. tracked'[c] = [tracked[c] EXCEPT ![s] = [tracked[c][s] EXCEPT !.version = base + n]]
      BY <1>3, <3>1 DEF TypeOK
    <3>3. /\ [tracked[c][s] EXCEPT !.version = base + n].pending = tracked[c][s].pending
          /\ [tracked[c][s] EXCEPT !.version = base + n].state = tracked[c][s].state
          /\ [tracked[c][s] EXCEPT !.version = base + n].version = base + n
      BY <1>3 DEF TypeOK, Aggregates
    <3>4. tracked[c] \in [Streams -> Aggregates]
      BY <1>3 DEF TypeOK
    <3>5. tracked'[c][s] = [tracked[c][s] EXCEPT !.version = base + n]
      BY <3>2, <3>4
    <3>6. \A x \in Streams : x # s => tracked'[c][x] = tracked[c][x]
      BY <3>2, <3>4
    <3>7. \A x \in Streams : tracked'[c][x].pending = tracked[c][x].pending
                          /\ tracked'[c][x].state = tracked[c][x].state
      BY <3>3, <3>5, <3>6
    <3>8. tracked'[c][s].version = base + n
      BY <3>3, <3>5
    <3> QED BY <3>6, <3>7, <3>8
  <2>2. CASE ~(o.kind = "append" /\ IsTracked(c, s))
    BY <2>2 DEF AppendOp, Advanced
  <2> QED BY <2>1, <2>2
<1>7. /\ wVersion[c] \in [Streams -> Nat] /\ version \in [Streams -> Nat]
      /\ wVersion'[c][s] = base + n /\ wVersion'[c][s] > 0
      /\ \A x \in Streams : x # s => wVersion'[c][x] = wVersion[c][x]
  <2>1. wVersion[c] \in [Streams -> Nat] /\ version \in [Streams -> Nat]
    BY <1>3 DEF TypeOK
  <2>2. base + n > 0
    BY <1>5
  <2>3. wVersion'[c][s] = base + n /\ \A x \in Streams : x # s => wVersion'[c][x] = wVersion[c][x]
    BY <1>2, <2>1
  <2> QED BY <2>1, <2>2, <2>3
<1>8. /\ version[s] <= base
      /\ \A r \in wRows[c] : r.stream = s => r.version <= base
  <2>1. Visible(c, s) = base
    BY DEF AppendOp, Passes
  <2>2. TxOk(c, s)
    BY DEF IInv
  <2>3. CASE wVersion[c][s] = 0
    <3>1. version[s] = base
      BY <2>1, <2>3 DEF Visible
    <3>2. Own(c, s) = {}
      BY <2>3, NoOwn
    <3> QED BY <1>7, <3>1, <3>2 DEF Own
  <2>4. CASE wVersion[c][s] > 0
    <3>1. wVersion[c][s] = base /\ version[s] <= wVersion[c][s]
      BY <2>1, <2>2, <2>4 DEF Visible, TxOk
    <3>2. {r.version : r \in Own(c, s)} = version[s] + 1 .. base
      BY <2>2, <2>4, <3>1 DEF TxOk
    <3>3. \A r \in Own(c, s) : r.version \in version[s] + 1 .. base
      BY <3>2
    <3>4. \A r \in Own(c, s) : r.version <= base
      BY <1>7, <3>3
    <3> QED BY <3>1, <3>4 DEF Own
  <2>5. wVersion[c][s] \in Nat
    BY <1>7
  <2> QED BY <2>3, <2>4, <2>5
<1>9. \A i \in DOMAIN ops[c] : i \in Nat /\ ops[c][i].stream \in Streams
  BY <1>3, QueuedType
<1>10. /\ \A i \in DOMAIN ops[c] : i < m => i < at'[c]
       /\ m < at'[c]
       /\ \A i \in DOMAIN ops[c] : i < at'[c] => i < m \/ i = m
  BY <1>1, <1>9
<1>11. \A x \in Streams : IsTracked(c, x)' <=> IsTracked(c, x)
  BY <1>1 DEF IsTracked
<1>12. /\ \A r \in wRows[c] : r \in wRows'[c]
       /\ \A k \in DOMAIN o.events : \E r \in wRows'[c] : r.stream = s /\ r.event = o.events[k]
       /\ \A r \in wRows'[c] : r \in wRows[c] \/ \E k \in DOMAIN o.events :
            r.stream = s /\ r.version = base + k /\ r.event = o.events[k]
  <2>1. \A k \in DOMAIN o.events : \A r :
          r = [stream |-> s, version |-> base + k, event |-> o.events[k]]
            => r.stream = s /\ r.version = base + k /\ r.event = o.events[k]
    OBVIOUS
  <2>2. \A r \in wRows[c] : r \in wRows'[c]
    BY <1>2
  <2>3. ASSUME NEW k \in DOMAIN o.events PROVE \E r \in wRows'[c] : r.stream = s /\ r.event = o.events[k]
    <3>1. [stream |-> s, version |-> base + k, event |-> o.events[k]] \in wRows'[c]
      BY <1>2, <2>3
    <3> QED BY <2>1, <3>1
  <2>4. ASSUME NEW r \in wRows'[c], r \notin wRows[c]
        PROVE  \E k \in DOMAIN o.events : r = [stream |-> s, version |-> base + k, event |-> o.events[k]]
    BY <1>2, <2>4
  <2>5. \A r \in wRows'[c] : r \in wRows[c] \/ \E k \in DOMAIN o.events :
            r.stream = s /\ r.version = base + k /\ r.event = o.events[k]
    BY <2>1, <2>4
  <2> QED BY <2>2, <2>3, <2>5
<1>13. OriginInv(c)'
  <2>1. ASSUME NEW i \in DOMAIN ops'[c]
        PROVE  /\ ops'[c][i].expected \in Nat
               /\ ops'[c][i].kind = "startStream" =>
                    /\ ops'[c][i].expected = 0 /\ InSession(c)'
                    /\ \A k \in DOMAIN ops'[c][i].events : basis'[ops'[c][i].events[k]] = NotDecided
               /\ ops'[c][i].kind = "append" => \E j \in DOMAIN order'[c] : order'[c][j] = ops'[c][i].stream
    BY <1>1, <1>3, <2>1 DEF OriginInv, InSession, IsTracked
  <2>2. \A x \in Streams : /\ InSession(c)' /\ IsTracked(c, x)' => version'[x] > 0
                           /\ ~IsTracked(c, x)' => tracked'[c][x].pending = <<>>
    BY <1>1, <1>3, <1>6, <1>11 DEF OriginInv, InSession
  <2>3. reading'[c] = {}
    BY <1>1, <1>3, <1>4 DEF OriginInv
  <2>4. (~InSession(c) => c \notin Reuse)' /\ pc'[c] # "gate" /\ pc'[c] \notin {"idle", "loading"}
    BY <1>1, <1>3 DEF OriginInv, InSession
  <2> QED BY <2>1, <2>2, <2>3, <2>4 DEF OriginInv, IsTracked
<1>14. DoneInv(c)'
  <2>1. ASSUME NEW i \in DOMAIN ops'[c], i < at'[c]
        PROVE  /\ version'[ops'[c][i].stream] <= ops'[c][i].expected /\ wVersion'[c][ops'[c][i].stream] > 0
               /\ \A k \in DOMAIN ops'[c][i].events :
                    \E r \in wRows'[c] : r.stream = ops'[c][i].stream /\ r.event = ops'[c][i].events[k]
    <3>1. ops'[c][i] = ops[c][i] /\ i \in DOMAIN ops[c]
      BY <1>1, <2>1
    <3>2. CASE i < m
      <4>1. /\ version[ops[c][i].stream] <= ops[c][i].expected /\ wVersion[c][ops[c][i].stream] > 0
            /\ \A k \in DOMAIN ops[c][i].events :
                 \E r \in wRows[c] : r.stream = ops[c][i].stream /\ r.event = ops[c][i].events[k]
        BY <1>1, <1>3, <3>1, <3>2 DEF DoneInv
      <4>2. wVersion'[c][ops[c][i].stream] > 0
        BY <1>7, <1>9, <3>1, <4>1
      <4> QED BY <1>1, <1>12, <3>1, <4>1, <4>2
    <3>3. CASE i = m
      <4>1. ops'[c][i] = o
        BY <1>1, <3>1, <3>3
      <4>2. version'[s] <= o.expected /\ wVersion'[c][s] > 0
        BY <1>1, <1>4, <1>7, <1>8
      <4> QED BY <1>12, <4>1, <4>2
    <3> QED BY <1>10, <2>1, <3>1, <3>2, <3>3
  <2>2. ASSUME NEW r \in wRows'[c]
        PROVE  \E i \in DOMAIN ops'[c] :
                 i < at'[c] /\ r.stream = ops'[c][i].stream /\ \E k \in DOMAIN ops'[c][i].events : r.event = ops'[c][i].events[k]
    <3>1. CASE r \in wRows[c]
      <4>1. PICK i \in DOMAIN ops[c] :
              i < m /\ r.stream = ops[c][i].stream /\ \E k \in DOMAIN ops[c][i].events : r.event = ops[c][i].events[k]
        BY <1>1, <1>3, <3>1 DEF DoneInv
      <4> QED BY <1>1, <1>10, <4>1
    <3>2. CASE \E k \in DOMAIN o.events : r.stream = s /\ r.version = base + k /\ r.event = o.events[k]
      BY <1>1, <1>10, <3>2
    <3> QED BY <1>12, <2>2, <3>1, <3>2
  <2>3. ASSUME NEW x \in Streams, wVersion'[c][x] > 0
        PROVE  /\ \E i \in DOMAIN ops'[c] : i < at'[c] /\ ops'[c][i].stream = x
                                           /\ \A j \in DOMAIN ops'[c] : j < i => ops'[c][j].stream # x
               /\ IsTracked(c, x)' => tracked'[c][x].version = wVersion'[c][x]
    <3>1. CASE x = s
      <4>1. \E i \in DOMAIN ops[c] : i < at'[c] /\ ops[c][i].stream = s
                                    /\ \A j \in DOMAIN ops[c] : j < i => ops[c][j].stream # s
        <5>1. CASE wVersion[c][s] > 0
          <6>1. PICK i \in DOMAIN ops[c] : i < m /\ ops[c][i].stream = s
                                          /\ \A j \in DOMAIN ops[c] : j < i => ops[c][j].stream # s
            BY <1>1, <1>3, <5>1 DEF DoneInv
          <6> QED BY <1>10, <6>1
        <5>2. CASE ~(wVersion[c][s] > 0)
          <6>1. \A j \in DOMAIN ops[c] : j < m => ops[c][j].stream # s
            BY <1>1, <1>3, <5>2 DEF DoneInv
          <6> QED BY <1>1, <1>10, <6>1
        <5> QED BY <5>1, <5>2
      <4>2. IsTracked(c, s) => o.kind = "append"
        <5>1. o.kind = "startStream" => base = 0 /\ InSession(c)
          BY <1>1, <1>3, <1>4 DEF OriginInv
        <5>2. InSession(c) /\ IsTracked(c, s) => version[s] > 0
          BY <1>3 DEF OriginInv
        <5>3. o.kind \in {"startStream", "append"} /\ version[s] \in Nat
          BY <1>7 DEF Operations
        <5> QED BY <1>8, <5>1, <5>2, <5>3
      <4>3. IsTracked(c, s)' => tracked'[c][s].version = wVersion'[c][s]
        BY <1>6, <1>7, <1>11, <4>2
      <4>4. \E i \in DOMAIN ops'[c] : i < at'[c] /\ ops'[c][i].stream = s
                                    /\ \A j \in DOMAIN ops'[c] : j < i => ops'[c][j].stream # s
        BY <1>1, <4>1
      <4> QED BY <3>1, <4>3, <4>4
    <3>2. CASE x # s
      <4>1. wVersion[c][x] > 0
        BY <1>7, <2>3, <3>2
      <4>2. PICK i \in DOMAIN ops[c] : i < m /\ ops[c][i].stream = x
                                      /\ \A j \in DOMAIN ops[c] : j < i => ops[c][j].stream # x
        BY <1>1, <1>3, <4>1 DEF DoneInv
      <4>3. IsTracked(c, x) => tracked[c][x].version = wVersion[c][x]
        BY <1>3, <4>1 DEF DoneInv
      <4> QED BY <1>1, <1>6, <1>7, <1>10, <1>11, <3>2, <4>2, <4>3
    <3> QED BY <3>1, <3>2
  <2> QED BY <2>1, <2>2, <2>3 DEF DoneInv
<1>15. LiveInv(c)'
  <2> SUFFICES ASSUME Live(c)' PROVE SortedInv(c)' /\ InOrder(c)' /\ \A y \in Streams : IsTracked(c, y)' => \E v \in 0 .. version'[y] : KnownAt(c, y, v)'
    BY DEF LiveInv
  <2>1. Live(c)
    BY <1>1, <1>4 DEF Live, Doomed
  <2>2. SortedInv(c) /\ InOrder(c)
    BY <1>3, <2>1 DEF LiveInv
  <2>3. SortedInv(c)'
    <3>1. \A i, j \in DOMAIN ops'[c] : \A k \in DOMAIN ops'[c][i].events, l \in DOMAIN ops'[c][j].events :
       ops'[c][i].stream = ops'[c][j].stream /\ (i < j \/ (i = j /\ k < l))
         => ops'[c][i].events[k] < ops'[c][j].events[l]
      BY <1>1, <2>2 DEF SortedInv
    <3>2. ASSUME NEW i \in DOMAIN ops'[c], NEW k \in DOMAIN ops'[c][i].events,
                 NEW l \in DOMAIN tracked'[c][ops'[c][i].stream].pending
          PROVE  ops'[c][i].events[k] < tracked'[c][ops'[c][i].stream].pending[l]
      <4>1. ops'[c][i] = ops[c][i] /\ i \in DOMAIN ops[c] /\ ops[c][i].stream \in Streams
        BY <1>1, <1>9, <3>2
      <4>2. tracked'[c][ops[c][i].stream].pending = tracked[c][ops[c][i].stream].pending
        BY <1>6, <4>1
      <4>3. k \in DOMAIN ops[c][i].events /\ l \in DOMAIN tracked[c][ops[c][i].stream].pending
        BY <3>2, <4>1, <4>2
      <4>4. ops[c][i].events[k] < tracked[c][ops[c][i].stream].pending[l]
        BY <2>2, <4>1, <4>3, QueuedFirst
      <4> QED BY <4>1, <4>2, <4>4
    <3>3. \A x \in Streams : \A k, l \in DOMAIN tracked'[c][x].pending :
            k < l => tracked'[c][x].pending[k] < tracked'[c][x].pending[l]
      BY <1>6, <2>2 DEF SortedInv
    <3> QED BY <3>1, <3>2, <3>3 DEF SortedInv
  <2>4. ASSUME NEW a \in wRows'[c], NEW b \in wRows'[c], a.stream = b.stream, a.version < b.version
        PROVE  a.event < b.event
    <3>1. CASE a \in wRows[c] /\ b \in wRows[c]
      BY <2>2, <2>4, <3>1 DEF InOrder
    <3>2. CASE a \in wRows[c] /\ \E k \in DOMAIN o.events : b.stream = s /\ b.version = base + k /\ b.event = o.events[k]
      <4>1. PICK l \in DOMAIN o.events : b.stream = s /\ b.event = o.events[l]
        BY <3>2
      <4>2. PICK i \in DOMAIN ops[c] : i < m /\ a.stream = ops[c][i].stream /\ \E k \in DOMAIN ops[c][i].events : a.event = ops[c][i].events[k]
        BY <1>1, <1>3, <3>2 DEF DoneInv
      <4>3. PICK k \in DOMAIN ops[c][i].events : a.event = ops[c][i].events[k]
        BY <4>2
      <4>4. ops[c][i].stream = ops[c][m].stream /\ l \in DOMAIN ops[c][m].events /\ b.event = ops[c][m].events[l]
        BY <1>1, <2>4, <4>1, <4>2
      <4>5. ops[c][i].events[k] < ops[c][m].events[l]
        BY <1>1, <2>2, <4>2, <4>3, <4>4 DEF SortedInv
      <4> QED BY <4>3, <4>4, <4>5
    <3>3. ASSUME b \in wRows[c], NEW k \in DOMAIN o.events, a.stream = s, a.version = base + k PROVE FALSE
      <4>1. b.version <= base
        BY <1>8, <2>4, <3>3
      <4>2. b.version \in Nat
        BY <1>3, <3>3 DEF TypeOK, Rows
      <4>3. k \in Nat
        BY <3>3
      <4> QED BY <2>4, <3>3, <4>1, <4>2, <4>3
    <3>4. ASSUME NEW k \in DOMAIN o.events, a.stream = s, a.version = base + k, a.event = o.events[k],
                 NEW l \in DOMAIN o.events, b.stream = s, b.version = base + l, b.event = o.events[l]
          PROVE  a.event < b.event
      <4>1. k \in Nat /\ l \in Nat
        BY <3>4
      <4>2. k < l
        BY <2>4, <3>4, <4>1
      <4>3. ops[c][m].events[k] < ops[c][m].events[l]
        BY <1>1, <2>2, <3>4, <4>2 DEF SortedInv
      <4> QED BY <1>1, <3>4, <4>3
    <3> QED BY <1>12, <2>4, <3>1, <3>2, <3>3, <3>4
  <2>5. InOrder(c)'
    BY <2>4 DEF InOrder
  <2>6. ASSUME NEW y \in Streams, IsTracked(c, y)' PROVE \E v \in 0 .. version'[y] : KnownAt(c, y, v)'
    <3>1. PICK v \in 0 .. version[y] : KnownAt(c, y, v)
      BY <1>3, <1>11, <2>1, <2>6 DEF LiveInv
    <3>2. v \in Nat /\ v \in 0 .. version'[y]
      BY <1>1, <1>7, <3>1
    <3>3. Expects(c, y, v)'
      <4>1. Expects(c, y, v)
        BY <3>1 DEF KnownAt
      <4>2. \A i \in DOMAIN ops'[c] :
              ops'[c][i].stream = y /\ (\A j \in DOMAIN ops'[c] : j < i => ops'[c][j].stream # y) => ops'[c][i].expected = v
        BY <1>1, <4>1 DEF Expects
      <4>3. (\A i \in DOMAIN ops'[c] : ops'[c][i].stream # y) => tracked'[c][y].version = v
        <5>1. (\A i \in DOMAIN ops[c] : ops[c][i].stream # y) => y # s
          BY <1>1
        <5> QED BY <1>1, <1>6, <4>1, <5>1 DEF Expects
      <4> QED BY <4>2, <4>3 DEF Expects
    <3>4. \A e \in Events : Unsaved(c, y, e)' <=> Unsaved(c, y, e)
      BY <1>1, <1>6 DEF Unsaved
    <3>5. KnownAt(c, y, v)'
      BY <1>1, <1>3, <1>6, <3>1, <3>2, <3>3, <3>4, KnownKept
    <3> QED BY <3>2, <3>5
  <2> QED BY <2>3, <2>5, <2>6
<1>16. \A e \in Events : lastEvent' < e => basis'[e] = NotDecided
  BY <1>1 DEF DecideInv
<1> QED BY <1>1, <1>13, <1>14, <1>15, <1>16, DecideFrame

\* When a save commits, every operation has run, each behind the version it expects.
LEMMA AllDone ==
  ASSUME IInv, OnceInv, DecideInv, NEW c \in Clients, Publish(c)
  PROVE  /\ \A i \in DOMAIN ops[c] : /\ version[ops[c][i].stream] <= ops[c][i].expected
                                     /\ wVersion[c][ops[c][i].stream] > 0
         /\ Live(c) /\ SortedInv(c) /\ InOrder(c)
         /\ \A s \in Streams : tracked[c][s].pending = <<>> /\ DOMAIN tracked[c][s].pending = {}
         /\ \A s \in Streams, e \in Events : Unsaved(c, s, e) <=> \E r \in wRows[c] : r.stream = s /\ r.event = e
<1>1. pc[c] = "saving" /\ TypeOK /\ OriginInv(c) /\ DoneInv(c) /\ LiveInv(c)
  BY DEF Publish, IInv, DecideInv
<1>2. \A i \in DOMAIN ops[c] : i < at[c]
  <2>1. \A i \in DOMAIN ops[c] : i \in Nat /\ i <= Len(ops[c]) /\ Len(ops[c]) \in Nat
    BY <1>1, QueuedType
  <2>2. at[c] \in Nat /\ at[c] > Len(ops[c])
    BY <1>1 DEF Publish, TypeOK
  <2> QED BY <2>1, <2>2
<1>3. \A i \in DOMAIN ops[c] : /\ version[ops[c][i].stream] <= ops[c][i].expected
                               /\ wVersion[c][ops[c][i].stream] > 0
  BY <1>1, <1>2 DEF DoneInv
<1>4. ~Doomed(c)
  <2> SUFFICES ASSUME NEW i \in DOMAIN ops[c], ops[c][i].expected < version[ops[c][i].stream] PROVE FALSE
    BY DEF Doomed
  <2>1. PICK s \in Streams, v \in Nat : s = ops[c][i].stream /\ v = ops[c][i].expected
    BY <1>1, QueuedType DEF OriginInv
  <2>2. version[s] \in Nat /\ version[s] <= v /\ v < version[s]
    BY <1>1, <1>3, <2>1 DEF TypeOK
  <2> QED BY <2>2
<1>5. Live(c) /\ SortedInv(c) /\ InOrder(c)
  BY <1>1, <1>4 DEF Live, LiveInv
<1>6. \A s \in Streams : tracked[c][s].pending = <<>> /\ DOMAIN tracked[c][s].pending = {}
  <2>1. DOMAIN <<>> = {}
    OBVIOUS
  <2>2. \A s \in Streams : tracked[c][s].pending = <<>>
    BY <1>1 DEF OnceInv, WroteInv
  <2> QED BY <2>1, <2>2
<1>7. ASSUME NEW s \in Streams, NEW e \in Events
      PROVE  Unsaved(c, s, e) <=> \E r \in wRows[c] : r.stream = s /\ r.event = e
  <2>1. Unsaved(c, s, e) <=>
          \E i \in DOMAIN ops[c] : ops[c][i].stream = s /\ \E k \in DOMAIN ops[c][i].events : ops[c][i].events[k] = e
    BY <1>6 DEF Unsaved
  <2>2. ASSUME NEW i \in DOMAIN ops[c], ops[c][i].stream = s, NEW k \in DOMAIN ops[c][i].events, ops[c][i].events[k] = e
        PROVE  \E r \in wRows[c] : r.stream = s /\ r.event = e
    BY <1>1, <1>2, <2>2 DEF DoneInv
  <2>3. ASSUME NEW r \in wRows[c], r.stream = s, r.event = e
        PROVE  \E i \in DOMAIN ops[c] : ops[c][i].stream = s /\ \E k \in DOMAIN ops[c][i].events : ops[c][i].events[k] = e
    <3>1. PICK i \in DOMAIN ops[c] : i < at[c] /\ r.stream = ops[c][i].stream /\ \E k \in DOMAIN ops[c][i].events : r.event = ops[c][i].events[k]
      BY <1>1, <2>3 DEF DoneInv
    <3> QED BY <2>3, <3>1
  <2> QED BY <2>1, <2>2, <2>3
<1> QED BY <1>3, <1>5, <1>6, <1>7

\* What is committed of a loaded aggregate was decided on its latest version.
LEMMA CommitsLatest ==
  ASSUME IInv, OnceInv, DecideInv, NEW c \in Clients, Publish(c), NEW s \in Streams,
         IsTracked(c, s), wVersion[c][s] > 0
  PROVE  KnownAt(c, s, version[s]) /\ tracked[c][s].version = version'[s]
<1>1. TypeOK /\ DoneInv(c) /\ LiveInv(c) /\ Live(c)
  BY AllDone DEF IInv, DecideInv
<1>2. PICK v \in 0 .. version[s] : KnownAt(c, s, v)
  BY <1>1 DEF LiveInv
<1>3. PICK i \in DOMAIN ops[c] : i < at[c] /\ ops[c][i].stream = s
                               /\ \A j \in DOMAIN ops[c] : j < i => ops[c][j].stream # s
  BY <1>1 DEF DoneInv
<1>4. ops[c][i].expected = v
  BY <1>2, <1>3 DEF KnownAt, Expects
<1>5. version[s] <= v
  BY <1>3, <1>4, AllDone
<1>6. v = version[s]
  <2>1. version[s] \in Nat
    BY <1>1 DEF TypeOK
  <2> QED BY <1>2, <1>5, <2>1
<1>7. tracked[c][s].version = version'[s]
  BY <1>1, PublishGrows DEF DoneInv, Visible
<1> QED BY <1>2, <1>6, <1>7

\* A commit stores events that were decided on all that comes before them.
LEMMA CommitDecided ==
  ASSUME IInv, OnceInv, DecideInv, NEW c \in Clients, Publish(c)
  PROVE  DecidedOnLatest'
<1>1. TypeOK /\ dismissed' = dismissed /\ basis' = basis /\ rows' = rows \cup wRows[c]
  BY DEF IInv, Publish
<1>2. \A r \in rows \cup wRows[c] : r.stream \in Streams /\ r.version \in Nat /\ r.event \in Events
  BY <1>1 DEF TypeOK, Rows
<1> SUFFICES ASSUME NEW r \in rows', basis[r.event] # NotDecided
             PROVE  LET before == {q.event : q \in {x \in RowsOf(r.stream)' : x.version < r.version}}
                    IN before \ dismissed \subseteq basis[r.event] /\ basis[r.event] \subseteq before
  BY <1>1 DEF DecidedOnLatest, EventsIn, RowsOf
<1> PICK s \in Streams : s = r.stream
  BY <1>1, <1>2
<1> PICK b : b = basis[r.event]
  OBVIOUS
<1> DEFINE earlier == {x \in RowsOf(s)' : x.version < r.version}
<1>3. RowsOf(s)' = RowsOf(s) \cup Own(c, s)
  BY PublishGrows
<1>4. version[s] \in Nat /\ r.version \in Nat /\ r.event \in Events
  BY <1>1, <1>2, PublishGrows
<1>5. /\ \A q \in RowsOf(s) : q.version <= version[s] /\ q.version \in Nat /\ q.event \in Events
      /\ \A q \in Own(c, s) : version[s] < q.version /\ q.version \in Nat /\ q.event \in Events
  BY <1>2, PublishGrows DEF RowsOf, Own
<1>6. CASE r \in rows
  <2>1. r \in RowsOf(s)
    BY <1>6 DEF RowsOf
  <2>2. \A q \in Own(c, s) : ~(q.version < r.version)
    BY <1>4, <1>5, <2>1
  <2>3. earlier = {x \in RowsOf(s) : x.version < r.version}
    BY <1>3, <2>2
  <2>4. LET before == {q.event : q \in {x \in RowsOf(s) : x.version < r.version}}
        IN before \ dismissed \subseteq b /\ b \subseteq before
    BY <1>6 DEF DecideInv, DecidedOnLatest, EventsIn
  <2> QED BY <2>3, <2>4
<1>7. CASE r \notin rows
  <2>1. r \in wRows[c] /\ r \in Own(c, s)
    BY <1>1, <1>7 DEF Own
  <2>2. IsTracked(c, s)
    <3>1. PICK i \in DOMAIN ops[c] : s = ops[c][i].stream /\ \E k \in DOMAIN ops[c][i].events : r.event = ops[c][i].events[k]
      BY <2>1 DEF DecideInv, DoneInv
    <3>2. ops[c][i].kind # "startStream"
      BY <3>1 DEF DecideInv, OriginInv
    <3>3. ops[c][i].kind = "append"
      BY <1>1, <3>1, <3>2, QueuedType
    <3> QED BY <3>1, <3>3 DEF DecideInv, OriginInv
  <2>3. wVersion[c][s] > 0
    <3>1. wVersion[c][s] # 0
      BY <2>1, NoOwn
    <3>2. wVersion[c][s] \in Nat
      BY <1>1 DEF TypeOK
    <3> QED BY <3>1, <3>2
  <2>4. KnownAt(c, s, version[s])
    BY <2>2, <2>3, CommitsLatest
  <2>5. \A e \in Events : Unsaved(c, s, e) <=> \E q \in Own(c, s) : q.event = e
    <3>1. \A e \in Events : Unsaved(c, s, e) <=> \E q \in wRows[c] : q.stream = s /\ q.event = e
      BY AllDone
    <3> QED BY <3>1 DEF Own
  <2>6. Folds(c, s, version[s], r.event, b)
    BY <1>4, <2>1, <2>4, <2>5 DEF KnownAt
  <2>7. InOrder(c) /\ TxOk(c, s)
    BY AllDone DEF IInv
  <2>8. ASSUME NEW q \in earlier, q.event \notin dismissed PROVE q.event \in b
    <3>1. CASE q \in RowsOf(s)
      <4>1. Past(s, version[s], q.event)
        BY <1>5, <3>1 DEF Past, RowsOf
      <4> QED BY <1>5, <2>6, <2>8, <3>1, <4>1 DEF Folds
    <3>2. CASE q \in Own(c, s)
      <4>1. q.event < r.event
        BY <2>1, <2>7, <2>8, <3>2 DEF InOrder, Own
      <4>2. q.event \in Events /\ Unsaved(c, s, q.event)
        BY <1>5, <2>5, <3>2
      <4> QED BY <2>6, <4>1, <4>2 DEF Folds
    <3> QED BY <1>3, <3>1, <3>2
  <2>9. ASSUME NEW e \in b PROVE \E q \in earlier : q.event = e
    <3>1. CASE Past(s, version[s], e)
      <4>1. PICK q \in rows : q.stream = s /\ q.version <= version[s] /\ q.event = e
        BY <3>1 DEF Past
      <4>2. q \in RowsOf(s)
        BY <4>1 DEF RowsOf
      <4>3. version[s] < r.version
        BY <1>5, <2>1
      <4>4. q.version < r.version
        BY <1>4, <1>5, <4>1, <4>2, <4>3
      <4> QED BY <1>3, <4>1, <4>2, <4>4
    <3>2. CASE Unsaved(c, s, e) /\ e < r.event
      <4>1. PICK q \in Own(c, s) : q.event = e
        BY <1>1, <2>5, <3>2, UnsavedType
      <4>2. e \in Nat /\ r.event \in Nat
        BY <1>4, <1>5, <4>1 DEF Events
      <4>3. q.version # r.version
        <5>1. q.event # r.event
          BY <3>2, <4>1, <4>2
        <5> QED BY <2>1, <2>7, <5>1 DEF TxOk
      <4>4. ~(r.version < q.version)
        <5>1. r.version < q.version => r.event < q.event
          BY <2>1, <2>7 DEF InOrder, Own
        <5> QED BY <3>2, <4>1, <4>2, <5>1
      <4>5. q.version < r.version
        BY <1>4, <1>5, <4>3, <4>4
      <4> QED BY <1>3, <4>1, <4>5
    <3> QED BY <2>6, <2>9, <3>1, <3>2 DEF Folds
  <2> QED BY <2>8, <2>9
<1> QED BY <1>6, <1>7

\* What is past of a stream a commit has written: the rows before, and its own.
LEMMA CommittedPast ==
  ASSUME IInv, NEW c \in Clients, Publish(c), NEW s \in Streams, NEW v \in Nat, v = version'[s], NEW e
  PROVE  Past(s, v, e)' <=> Past(s, version[s], e) \/ \E q \in Own(c, s) : q.event = e
<1>1. /\ RowsOf(s)' = RowsOf(s) \cup Own(c, s)
      /\ \A r \in RowsOf(s) : r.version <= version[s]
      /\ \A r \in Own(c, s) : r.version <= version'[s]
      /\ version[s] \in Nat /\ version'[s] \in Nat /\ version[s] <= version'[s]
  BY PublishGrows
<1>2. \A r \in RowsOf(s) : r.version \in Nat
  BY DEF IInv, TypeOK, Rows, RowsOf
<1>3. \A r \in RowsOf(s) : r.version <= v
  BY <1>1, <1>2
<1>4. Past(s, v, e)' <=> \E r \in RowsOf(s)' : r.version <= v /\ r.event = e
  BY DEF Past, RowsOf
<1>5. Past(s, version[s], e) <=> \E r \in RowsOf(s) : r.version <= version[s] /\ r.event = e
  BY DEF Past, RowsOf
<1> QED BY <1>1, <1>3, <1>4, <1>5

\* The state of an aggregate whose events have been committed folds its stream.
LEMMA CommittedState ==
  ASSUME IInv, OnceInv, DecideInv, NEW c \in Clients, Publish(c), NEW s \in Streams,
         IsTracked(c, s), wVersion[c][s] > 0, NEW v \in Nat, v = version'[s]
  PROVE  /\ \A e \in Events : Past(s, v, e)' /\ e \notin dismissed => e \in tracked[c][s].state
         /\ \A e \in tracked[c][s].state : Past(s, v, e)'
<1>1. Folds(c, s, version[s], MaxEvents + 1, tracked[c][s].state)
  BY CommitsLatest DEF KnownAt
<1>2. \A e \in Events : Unsaved(c, s, e) <=> \E q \in Own(c, s) : q.event = e
  <2>1. \A e \in Events : Unsaved(c, s, e) <=> \E q \in wRows[c] : q.stream = s /\ q.event = e
    BY AllDone
  <2> QED BY <2>1 DEF Own
<1>3. \A e \in Events : e < MaxEvents + 1
  BY SessionAssumption DEF Events
<1>4. \A e : Past(s, v, e)' <=> Past(s, version[s], e) \/ \E q \in Own(c, s) : q.event = e
  BY CommittedPast
<1>5. tracked[c][s].state \subseteq Events
  BY DEF IInv, TypeOK, Aggregates
<1> QED BY <1>1, <1>2, <1>3, <1>4, <1>5 DEF Folds

\* The snapshots a commit takes fold their streams.
LEMMA CommitFaithful ==
  ASSUME IInv, OnceInv, DecideInv, TypeOK', NEW c \in Clients, Publish(c), NEW s \in Streams
  PROVE  Faithful(s, snaps[s])'
<1>1. TypeOK /\ PastKept
  BY PublishPast DEF IInv
<1>2. CASE ~Snapshotted(c, s)
  <2> PICK snap \in Snapshots : snap = snaps[s]
    BY <1>1 DEF TypeOK
  <2>1. snaps'[s] = snap
    BY <1>2 DEF Publish
  <2>2. Faithful(s, snap)'
    BY <1>1, FaithfulKept DEF DecideInv
  <2> QED BY <2>1, <2>2
<1>3. CASE Snapshotted(c, s)
  <2> PICK v \in Nat : v = version'[s]
    BY <1>1 DEF TypeOK
  <2>1. snaps'[s] = [version |-> wVersion[c][s], state |-> SnapshotState(c, s)]
    BY <1>3 DEF Publish
  <2>2. wVersion[c][s] > 0 /\ version'[s] = wVersion[c][s]
    BY <1>3, PublishGrows DEF Snapshotted, Visible
  <2>3. snaps'[s].version = v /\ snaps'[s].state = SnapshotState(c, s) /\ dismissed' = dismissed
    BY <2>1, <2>2 DEF Publish
  <2>4. v <= version'[s]
    OBVIOUS
  <2>5. CASE IsTracked(c, s)
    <3>1. SnapshotState(c, s) = tracked[c][s].state
      BY <2>5 DEF SnapshotState
    <3> QED BY <2>2, <2>3, <2>4, <2>5, <3>1, CommittedState DEF Faithful
  <2>6. CASE ~IsTracked(c, s)
    <3>1. SnapshotState(c, s) = {q.event : q \in Own(c, s)}
      BY <2>6 DEF SnapshotState, EventsIn, Own
    <3>2. PICK i \in DOMAIN ops[c] : ops[c][i].stream = s
      BY <2>2 DEF DecideInv, DoneInv
    <3>3. ops[c][i].kind = "startStream"
      <4>1. ops[c][i].kind # "append"
        BY <2>6, <3>2 DEF DecideInv, OriginInv
      <4> QED BY <1>1, <4>1, QueuedType
    <3>4. version[s] <= 0
      <4>1. ops[c][i].expected = 0
        BY <3>3 DEF DecideInv, OriginInv
      <4>2. version[s] <= ops[c][i].expected
        BY <3>2, AllDone
      <4> QED BY <4>1, <4>2
    <3>5. \A e : ~Past(s, version[s], e)
      <4>1. \A q \in rows : q.stream = s => q.version \in Nat \ {0} /\ version[s] \in Nat
        BY <1>1 DEF TypeOK, Rows
      <4>2. \A q \in rows : q.stream = s => ~(q.version <= version[s])
        BY <3>4, <4>1
      <4> QED BY <4>2 DEF Past
    <3>6. \A e : Past(s, v, e)' <=> \E q \in Own(c, s) : q.event = e
      BY <3>5, CommittedPast
    <3> QED BY <2>3, <2>4, <3>1, <3>6 DEF Faithful
  <2> QED BY <2>5, <2>6
<1> QED BY <1>2, <1>3

\* A commit preserves the invariant where it does for its own session.
LEMMA PublishFrame ==
  ASSUME IInv, OnceInv, DecideInv, TypeOK', NEW c \in Clients, \A d \in Clients \ {c} : Untouched(d),
         Publish(c), OriginInv(c)', LiveInv(c)'
  PROVE  DecideInv'
<1>1. TypeOK /\ PastKept /\ UNCHANGED <<basis, lastEvent>>
  BY PublishPast DEF IInv, Publish
<1>2. DoneInv(c)'
  <2>1. at'[c] = 1 /\ wRows'[c] = {} /\ \A x \in Streams : wVersion'[c][x] = 0
    BY <1>1 DEF Publish, EndTx, NoWrite, TypeOK
  <2> QED BY <2>1, NothingDone
<1>3. ASSUME NEW d \in Clients, d # c PROVE OriginInv(d)' /\ DoneInv(d)' /\ LiveInv(d)'
  <2>1. ASSUME NEW x \in Streams, wVersion[d][x] > 0 PROVE version'[x] = version[x]
    <3>1. wVersion[c][x] = 0
      BY <1>3, <2>1 DEF IInv, TxOk, LockFree
    <3> QED BY <3>1, PublishGrows DEF Visible
  <2> QED BY <1>1, <1>3, <2>1, DecideUntouched DEF DecideInv
<1>4. \A e \in Events : lastEvent' < e => basis'[e] = NotDecided
  BY <1>1 DEF DecideInv
<1>5. DecidedOnLatest' /\ \A s \in Streams : Faithful(s, snaps[s])'
  BY CommitDecided, CommitFaithful
<1> QED BY <1>2, <1>3, <1>4, <1>5 DEF DecideInv

\* After a commit the session goes on from what it stored.
LEMMA DecideCommit ==
  ASSUME IInv, OnceInv, DecideInv, TypeOK', NEW c \in Clients, \A d \in Clients \ {c} : Untouched(d),
         Commit(c)
  PROVE  DecideInv'
<1>1. TypeOK /\ PastKept /\ Publish(c) /\ OriginInv(c) /\ LiveInv(c)
  BY PublishPast DEF IInv, DecideInv, Commit
<1>2. /\ UNCHANGED <<order, tracked, via, reading, basis, dismissed>>
      /\ pc[c] = "saving" /\ pc'[c] = "idle" /\ ops'[c] = <<>> /\ wRows'[c] = {}
      /\ DOMAIN ops'[c] = {}
  <2>1. DOMAIN <<>> = {}
    OBVIOUS
  <2>2. ops'[c] = <<>> /\ wRows'[c] = {}
    BY <1>1 DEF Commit, Publish, EndTx, TypeOK
  <2> QED BY <1>1, <2>1, <2>2 DEF Commit, Publish, GoTo, TypeOK
<1>3. \A s \in Streams : tracked'[c][s].pending = <<>> /\ DOMAIN tracked'[c][s].pending = {}
  BY <1>1, <1>2, AllDone
<1>4. \A s \in Streams : IsTracked(c, s)' <=> IsTracked(c, s)
  BY <1>2 DEF IsTracked
<1>5. OriginInv(c)'
  <2>1. reading'[c] = {}
    BY <1>1, <1>2 DEF OriginInv
  <2>2. ASSUME NEW s \in Streams PROVE InSession(c)' /\ IsTracked(c, s)' => version'[s] > 0
    <3>1. version[s] <= version'[s] /\ version[s] \in Nat /\ version'[s] \in Nat
      BY <1>1 DEF PastKept, TypeOK
    <3> QED BY <1>1, <1>2, <1>4, <3>1 DEF OriginInv, InSession
  <2>3. (~InSession(c) => c \notin Reuse)' /\ pc'[c] # "gate"
    BY <1>1, <1>2 DEF OriginInv, InSession
  <2> QED BY <1>2, <1>3, <2>1, <2>2, <2>3 DEF OriginInv
<1>6. \A s \in Streams, e \in Events : ~Unsaved(c, s, e)'
  BY <1>2, <1>3 DEF Unsaved
<1>7. LiveInv(c)'
  <2>1. SortedInv(c)' /\ InOrder(c)'
    BY <1>2, <1>3 DEF SortedInv, InOrder
  <2>2. ASSUME NEW s \in Streams, IsTracked(c, s)' PROVE \E v \in 0 .. version'[s] : KnownAt(c, s, v)'
    <3>1. version'[s] \in Nat /\ wVersion[c][s] \in Nat
      BY <1>1 DEF TypeOK
    <3>2. CASE wVersion[c][s] > 0
      <4>1. tracked'[c][s].version = version'[s] /\ tracked'[c][s].state = tracked[c][s].state
        BY <1>1, <1>2, <1>4, <2>2, <3>2, CommitsLatest
      <4>2. PICK v \in Nat : v = version'[s]
        BY <3>1
      <4>3. Expects(c, s, v)'
        BY <1>2, <4>1, <4>2 DEF Expects
      <4>4. /\ \A e \in Events : Past(s, v, e)' /\ e \notin dismissed' => e \in tracked'[c][s].state
            /\ \A e \in tracked'[c][s].state : Past(s, v, e)'
        BY <1>1, <1>2, <1>4, <2>2, <3>2, <4>1, <4>2, CommittedState
      <4>5. Folds(c, s, v, MaxEvents + 1, tracked[c][s].state)'
        BY <1>6, <4>4 DEF Folds
      <4>6. v <= version'[s] /\ v \in 0 .. version'[s]
        BY <4>2
      <4>7. KnownAt(c, s, v)'
        BY <1>6, <4>3, <4>5, <4>6 DEF KnownAt
      <4> QED BY <4>6, <4>7
    <3>3. CASE wVersion[c][s] = 0
      <4>1. PICK v \in 0 .. version[s] : KnownAt(c, s, v)
        BY <1>1, <1>4, <2>2, AllDone DEF LiveInv
      <4>2. v \in Nat /\ v \in 0 .. version'[s]
        BY <1>1, <4>1 DEF PastKept, TypeOK
      <4>3. \A i \in DOMAIN ops[c] : ops[c][i].stream # s
        <5>1. \A i \in DOMAIN ops[c] : wVersion[c][ops[c][i].stream] > 0
          BY <1>1, AllDone
        <5>2. ~(0 > 0)
          OBVIOUS
        <5> QED BY <3>3, <5>1, <5>2
      <4>4. tracked[c][s].version = v
        BY <4>1, <4>3 DEF KnownAt, Expects
      <4>5. Expects(c, s, v)'
        BY <1>2, <4>4 DEF Expects
      <4>6. \A e \in Events : ~Unsaved(c, s, e)
        <5>1. Own(c, s) = {}
          BY <3>3, NoOwn
        <5>2. \A e \in Events : Unsaved(c, s, e) <=> \E q \in wRows[c] : q.stream = s /\ q.event = e
          BY <1>1, AllDone
        <5> QED BY <5>1, <5>2 DEF Own
      <4>7. KnownAt(c, s, v)'
        BY <1>1, <1>2, <1>6, <4>1, <4>2, <4>5, <4>6, KnownKept
      <4> QED BY <4>2, <4>7
    <3> QED BY <3>1, <3>2, <3>3
  <2> QED BY <2>1, <2>2 DEF LiveInv
<1> QED BY <1>1, <1>5, <1>7, PublishFrame

\* After an ambiguous commit what was stored can not be stored again.
LEMMA DecideUnknown ==
  ASSUME IInv, OnceInv, DecideInv, TypeOK', NEW c \in Clients, \A d \in Clients \ {c} : Untouched(d),
         CommitUnknown(c)
  PROVE  DecideInv'
<1>1. TypeOK /\ PastKept /\ Publish(c) /\ OriginInv(c) /\ LiveInv(c) /\ DoneInv(c)
  BY PublishPast DEF IInv, DecideInv, CommitUnknown
<1>2. /\ UNCHANGED <<order, tracked, via, reading, basis, dismissed, ops>>
      /\ pc[c] = "saving" /\ pc'[c] = "failed" /\ wRows'[c] = {}
  BY <1>1 DEF CommitUnknown, Publish, EndTx, GoTo, TypeOK
<1>3. reading'[c] = {}
  BY <1>1, <1>2 DEF OriginInv
<1>4. OriginInv(c)'
  BY <1>1, <1>2, <1>3, OriginSame
<1>5. LiveInv(c)'
  <2>1. Live(c)
    BY <1>1, AllDone
  <2> QED BY <1>1, <1>2, <2>1, LiveSame
<1> QED BY <1>1, <1>4, <1>5, PublishFrame

\* No aggregate, no event.
LEMMA DecideStarts == Init => DecideInv
<1> SUFFICES ASSUME Init PROVE DecideInv
  OBVIOUS
<1>1. DecidedOnLatest /\ \A e \in Events : lastEvent < e => basis[e] = NotDecided
  BY DEF Init, DecidedOnLatest
<1>2. ASSUME NEW s \in Streams PROVE Faithful(s, snaps[s])
  <2>1. snaps[s].version = 0 /\ snaps[s].state = {} /\ version[s] = 0 /\ rows = {}
    BY <1>2 DEF Init, NoSnapshot, NoWrite
  <2>2. snaps[s].version <= version[s]
    BY <2>1
  <2>3. \A e : ~Past(s, snaps[s].version, e)
    BY <2>1 DEF Past
  <2> QED BY <2>1, <2>2, <2>3 DEF Faithful
<1>3. ASSUME NEW c \in Clients PROVE OriginInv(c) /\ DoneInv(c) /\ LiveInv(c)
  <2>1. DOMAIN <<>> = {} /\ ~(0 > 0)
    OBVIOUS
  <2>2. /\ order[c] = <<>> /\ ops[c] = <<>> /\ pc[c] = "idle" /\ at[c] = 1 /\ wRows[c] = {}
        /\ reading[c] = {} /\ via[c] = "session" /\ DOMAIN ops[c] = {} /\ DOMAIN order[c] = {}
        /\ \A s \in Streams : /\ tracked[c][s].pending = <<>> /\ wVersion[c][s] = 0
                              /\ DOMAIN tracked[c][s].pending = {}
    BY <1>3, <2>1 DEF Init, NoWrite, Fresh
  <2>3. \A s \in Streams : ~IsTracked(c, s)
    BY <2>2 DEF IsTracked
  <2>4. OriginInv(c)
    BY <2>2, <2>3 DEF OriginInv, InSession
  <2>5. DoneInv(c)
    BY <2>1, <2>2 DEF DoneInv
  <2>6. LiveInv(c)
    BY <2>2, <2>3 DEF LiveInv, SortedInv, InOrder
  <2> QED BY <2>4, <2>5, <2>6
<1> QED BY <1>1, <1>2, <1>3 DEF DecideInv

\* Every step preserves the invariant.
LEMMA DecideStep == IInv /\ OnceInv /\ Disciplined /\ DecideInv /\ [Next]_vars => DecideInv'
<1> SUFFICES ASSUME IInv, OnceInv, Disciplined, DecideInv, [Next]_vars PROVE DecideInv'
  OBVIOUS
<1>1. TypeOK /\ TypeOK'
  BY InvStep DEF IInv
<1>2. CASE UNCHANGED vars
  <2>1. \A d \in Clients : Untouched(d)
    BY <1>2 DEF vars, memVars, saveVars, Untouched
  <2>2. UNCHANGED <<version, rows, snaps, basis, lastEvent, dismissed>>
    BY <1>2 DEF vars, dbVars, historyVars
  <2> QED BY <1>1, <2>1, <2>2, DecideQuiet
<1>3. ASSUME NEW c \in Clients, SaveStep(c) \/ ClientStep(c) PROVE DecideInv'
  <2>1. \A d \in Clients \ {c} : Untouched(d)
    BY <1>1, <1>3, ReadingAlone
  <2>2. ~ResolveVersion(c)
    BY DecideResolve
  <2>3. CASE AppendOp(c)
    BY <1>1, <2>1, <2>3, DecideAppend
  <2>4. CASE Reject(c) \/ DeadlockVictim(c) \/ DbError(c)
    <3>1. Rollback(c)
      BY <2>4 DEF Reject, DeadlockVictim, DbError
    <3>2. Running(c)
      <4>1. DeadlockVictim(c) => HasOp(c)
        BY DEF DeadlockVictim, WaitsFor
      <4> QED BY <2>4, <4>1 DEF Reject, GateOpen, HasOp, DbError
    <3> QED BY <1>1, <2>1, <3>1, <3>2, DecideRollback
  <2>5. CASE Commit(c)
    BY <1>1, <2>1, <2>5, DecideCommit
  <2>6. CASE CommitUnknown(c)
    BY <1>1, <2>1, <2>6, DecideUnknown
  <2>7. ASSUME NEW s \in Streams PROVE ~AppendEvents(c, s) /\ ~AppendUnsafe(c, s)
    BY DEF AppendEvents, AppendUnsafe, Queue, Disciplined
  <2>8. ASSUME NEW s \in Streams, StartStream(c, s) PROVE DecideInv'
    BY <1>1, <2>1, <2>8, DecideStart
  <2>9. ASSUME NEW s \in Streams, LoadSnapshotRow(c, s) PROVE DecideInv'
    BY <1>1, <2>1, <2>9, DecideReading
  <2>10. ASSUME NEW s \in Streams, LoadSnapshotOnly(c, s) PROVE DecideInv'
    BY <1>1, <2>1, <2>10, DecideBare
  <2>11. ASSUME NEW s \in Streams, Raise(c, s) PROVE DecideInv'
    BY <1>1, <2>1, <2>11, DecideRaise
  <2>12. CASE LoadStream(c)
    BY <1>1, <2>1, <2>12, DecideLoad
  <2>13. CASE BeginSave(c)
    BY <1>1, <2>1, <2>13, DecideBegin
  <2>14. CASE NewSession(c)
    BY <1>1, <2>1, <2>14, DecideNewSession
  <2>15. CASE KeepSession(c)
    BY <1>1, <2>1, <2>15, DecideKeepSession
  <2> QED BY <1>3, <2>2, <2>3, <2>4, <2>5, <2>6, <2>7, <2>8, <2>9, <2>10, <2>11, <2>12, <2>13, <2>14, <2>15
          DEF SaveStep, ClientStep
<1>4. ASSUME NEW e \in Events, Dismiss(e) PROVE DecideInv'
  <2>1. \A d \in Clients : Untouched(d)
    BY <1>4 DEF Dismiss, memVars, saveVars, Untouched
  <2>2. UNCHANGED <<version, rows, snaps, basis, lastEvent>> /\ dismissed \subseteq dismissed'
    BY <1>4 DEF Dismiss, historyVars
  <2> QED BY <1>1, <2>1, <2>2, DecideQuiet
<1> QED BY <1>2, <1>3, <1>4 DEF Next

\* Disciplined sessions reach only states of the invariant.
LEMMA DecideHolds == ASSUME Disciplined PROVE Spec => []DecideInv
<1>1. NeverUnsafe
  BY SessionAssumption DEF Disciplined, NeverUnsafe
<1>2. Init => IInv /\ OnceInv /\ DecideInv
  BY InvInit, OnceInit, DecideStarts
<1>3. IInv /\ OnceInv /\ DecideInv /\ [Next]_vars => (IInv /\ OnceInv /\ DecideInv)'
  BY <1>1, InvStep, OnceStep, DecideStep
<1> QED BY <1>2, <1>3, PTL DEF Spec

\* No lost update: among disciplined sessions, every event that is stored was
\* decided on all the events before it, and nothing else.
THEOREM NoLostUpdate == ASSUME Disciplined PROVE Spec => []DecidedOnLatest
<1>1. DecideInv => DecidedOnLatest
  BY DEF DecideInv
<1> QED BY <1>1, DecideHolds, PTL

\* Among disciplined sessions, a snapshot is the fold of its stream.
THEOREM SnapshotsFold == ASSUME Disciplined PROVE Spec => []SnapshotFaithful
<1>1. ASSUME IInv, DecideInv PROVE SnapshotFaithful
  <2>1. ASSUME NEW s \in Streams
        PROVE  LET upTo == EventsIn({r \in RowsOf(s) : r.version <= snaps[s].version})
               IN upTo \ dismissed \subseteq snaps[s].state /\ snaps[s].state \subseteq upTo
    <3>1. snaps[s].state \subseteq Events
      BY <1>1, <2>1 DEF IInv, TypeOK, Snapshots
    <3>2. \A e \in EventsIn({r \in RowsOf(s) : r.version <= snaps[s].version}) : e \in Events
      BY <1>1 DEF IInv, TypeOK, Rows, EventsIn, RowsOf
    <3>3. \A e : e \in EventsIn({r \in RowsOf(s) : r.version <= snaps[s].version}) <=> Past(s, snaps[s].version, e)
      BY DEF Past, EventsIn, RowsOf
    <3>4. Faithful(s, snaps[s])
      BY <1>1, <2>1 DEF DecideInv
    <3> QED BY <3>1, <3>2, <3>3, <3>4 DEF Faithful
  <2> QED BY <2>1 DEF SnapshotFaithful
<1>2. IInv /\ DecideInv => SnapshotFaithful
  BY <1>1
<1>3. Spec => []IInv
  <2>1. Init => IInv
    BY InvInit
  <2>2. IInv /\ [Next]_vars => IInv'
    BY InvStep
  <2> QED BY <2>1, <2>2, PTL DEF Spec
<1> QED BY <1>2, <1>3, DecideHolds, PTL

-----------------------------------------------------------------------------
(* A save that succeeds has stored everything.                             *)

\* Where nothing unsaved goes, what a session has made is still there.
LEMMA HeldKept ==
  ASSUME NEW c \in Clients, HeldInv(c), mine'[c] \subseteq mine[c], mine[c] \subseteq Events,
         "loadSnapshot" \notin Api[c] => \A s \in Streams, e \in Events : Unsaved(c, s, e) => Unsaved(c, s, e)'
  PROVE  HeldInv(c)'
BY DEF HeldInv

\* Every step keeps what a session has made and not saved.
LEMMA HeldStep ==
  ASSUME IInv, OnceInv, Disciplined, DecideInv, \A c \in Clients : HeldInv(c), [Next]_vars
  PROVE  \A c \in Clients : HeldInv(c)'
<1>1. TypeOK /\ TypeOK' /\ \A c \in Clients : mine[c] \subseteq Events
  BY InvStep DEF IInv, TypeOK
<1>2. CASE \A c \in Clients : mine'[c] = mine[c] /\ ops'[c] = ops[c] /\ tracked'[c] = tracked[c]
  BY <1>1, <1>2, HeldKept DEF Unsaved
<1>3. ASSUME NEW c \in Clients, SaveStep(c) \/ ClientStep(c) PROVE \A d \in Clients : HeldInv(d)'
  <2>1. \A d \in Clients \ {c} : mine'[d] = mine[d] /\ ops'[d] = ops[d] /\ tracked'[d] = tracked[d]
    BY <1>1, <1>3, StepAlone DEF OthersAlone
  <2>2. ASSUME NEW d \in Clients \ {c} PROVE HeldInv(d)'
    <3>1. mine'[d] = mine[d] /\ ops'[d] = ops[d] /\ tracked'[d] = tracked[d]
      BY <2>1
    <3>2. \A s \in Streams, e \in Events : Unsaved(d, s, e) => Unsaved(d, s, e)'
      BY <3>1 DEF Unsaved
    <3> QED BY <1>1, <3>1, <3>2, HeldKept
  <2> SUFFICES HeldInv(c)'
    BY <2>2
  <2>3. CASE AppendOp(c)
    <3>1. mine'[c] = mine[c] /\ ops'[c] = ops[c]
      BY <2>3 DEF AppendOp, historyVars
    <3>2. \A s \in Streams : tracked'[c][s].pending = tracked[c][s].pending
      <4>1. tracked' = tracked \/ \E s \in Streams : \E next : tracked' = [tracked EXCEPT ![c][s].version = next]
        BY <1>1, <2>3, OpType DEF AppendOp, Advanced, Operations
      <4>2. ASSUME NEW s \in Streams, NEW next, tracked' = [tracked EXCEPT ![c][s].version = next]
            PROVE  \A x \in Streams : tracked'[c][x].pending = tracked[c][x].pending
        <5>1. tracked'[c] = [tracked[c] EXCEPT ![s] = [tracked[c][s] EXCEPT !.version = next]]
          BY <1>1, <4>2 DEF TypeOK
        <5>2. [tracked[c][s] EXCEPT !.version = next].pending = tracked[c][s].pending
          BY <1>1 DEF TypeOK, Aggregates
        <5> QED BY <1>1, <5>1, <5>2 DEF TypeOK
      <4> QED BY <4>1, <4>2
    <3>3. \A s \in Streams, e \in Events : Unsaved(c, s, e) => Unsaved(c, s, e)'
      BY <3>1, <3>2 DEF Unsaved
    <3> QED BY <1>1, <3>1, <3>3, HeldKept
  <2>4. CASE ResolveVersion(c) \/ Reject(c) \/ DeadlockVictim(c) \/ DbError(c) \/ CommitUnknown(c)
    <3>1. UNCHANGED <<mine, ops, tracked>>
      BY <2>4 DEF ResolveVersion, Reject, DeadlockVictim, DbError, CommitUnknown, Publish, Rollback, memVars, historyVars
    <3> QED BY <3>1 DEF HeldInv, Unsaved
  <2>5. CASE Commit(c) \/ NewSession(c)
    <3>1. mine'[c] = {}
      BY <1>1, <2>5 DEF Commit, NewSession, TypeOK
    <3> QED BY <3>1 DEF HeldInv
  <2>6. ASSUME NEW s \in Streams, StartStream(c, s) PROVE HeldInv(c)'
    <3> PICK x \in Events : x = lastEvent'
      BY <2>6, NewEvent DEF StartStream, Queue
    <3> PICK op : op = [kind |-> "startStream", stream |-> s, expected |-> 0, events |-> <<x>>]
      OBVIOUS
    <3> PICK old \in Seq(Operations) : old = ops[c]
      BY <1>1 DEF TypeOK
    <3>1. mine'[c] = mine[c] \cup {x} /\ tracked'[c] = tracked[c] /\ ops'[c] = Append(old, op)
      BY <1>1, <2>6, NewEvent DEF StartStream, Queue, TypeOK
    <3>2. op \in Operations /\ op.stream = s /\ op.events = <<x>>
      <4>1. <<x>> \in Seq(Events)
        OBVIOUS
      <4> QED BY <4>1 DEF Operations
    <3>3. /\ \A m \in DOMAIN old : Append(old, op)[m] = old[m] /\ m \in DOMAIN Append(old, op)
          /\ Append(old, op)[Len(old) + 1] = op /\ Len(old) + 1 \in DOMAIN Append(old, op)
      BY <3>2, AppendedTo
    <3>4. \A y \in Streams, e \in Events : Unsaved(c, y, e) => Unsaved(c, y, e)'
      BY <3>1, <3>3 DEF Unsaved
    <3>5. Unsaved(c, s, x)'
      <4>1. 1 \in DOMAIN op.events /\ op.events[1] = x
        BY <3>2
      <4>2. \E i \in DOMAIN ops'[c] : ops'[c][i] = op
        BY <3>1, <3>3
      <4> QED BY <3>2, <4>1, <4>2 DEF Unsaved
    <3> QED BY <1>1, <3>1, <3>4, <3>5 DEF HeldInv
  <2>7. ASSUME NEW s \in Streams PROVE ~AppendEvents(c, s) /\ ~AppendUnsafe(c, s)
    BY DEF AppendEvents, AppendUnsafe, Queue, Disciplined
  <2>8. ASSUME NEW s \in Streams, LoadSnapshotRow(c, s) PROVE HeldInv(c)'
    BY <2>8 DEF LoadSnapshotRow, memVars, historyVars, HeldInv, Unsaved
  <2>9. ASSUME NEW s \in Streams, LoadSnapshotOnly(c, s) PROVE HeldInv(c)'
    BY <2>9 DEF LoadSnapshotOnly, HeldInv
  <2>10. CASE LoadStream(c)
    <3>1. PICK load \in reading[c], agg \in Aggregates : load.stream \in Streams /\ Track(c, load.stream, agg)
      BY <1>1, <2>10, LoadTracks
    <3>2. ~IsTracked(c, load.stream)
      BY <3>1 DEF DecideInv, OriginInv
    <3>3. tracked[c][load.stream].pending = <<>>
      BY <3>1, <3>2 DEF DecideInv, OriginInv
    <3>4. \A y \in Streams : y # load.stream => tracked'[c][y] = tracked[c][y]
      BY <1>1, <3>1, TrackedBy
    <3>5. DOMAIN <<>> = {}
      OBVIOUS
    <3>6. mine'[c] = mine[c] /\ ops'[c] = ops[c]
      BY <2>10 DEF LoadStream
    <3>7. \A y \in Streams, e \in Events : Unsaved(c, y, e) => Unsaved(c, y, e)'
      BY <3>3, <3>4, <3>5, <3>6 DEF Unsaved
    <3> QED BY <1>1, <3>6, <3>7, HeldKept
  <2>11. ASSUME NEW s \in Streams, Raise(c, s) PROVE HeldInv(c)'
    <3> PICK x \in Events : x = lastEvent'
      <4>1. Create(c)
        BY <2>11 DEF Raise
      <4> QED BY <4>1, NewEvent
    <3> PICK old \in Seq(Events) : old = tracked[c][s].pending
      <4>1. tracked[c][s] \in Aggregates
        BY <1>1 DEF TypeOK
      <4> QED BY <4>1 DEF Aggregates
    <3>1. mine'[c] = mine[c] \cup {x} /\ ops'[c] = ops[c]
      <4>1. Create(c) /\ ops' = ops
        BY <2>11 DEF Raise
      <4>2. mine'[c] = mine[c] \cup {lastEvent'}
        BY <4>1, NewEvent
      <4> QED BY <4>1, <4>2
    <3>2. \A y \in Streams : tracked'[c][y].pending = IF y = s THEN Append(old, x) ELSE tracked[c][y].pending
      BY <1>1, <2>11, RaisedOn
    <3>3. /\ \A m \in DOMAIN old : Append(old, x)[m] = old[m] /\ m \in DOMAIN Append(old, x)
          /\ Append(old, x)[Len(old) + 1] = x /\ Len(old) + 1 \in DOMAIN Append(old, x)
      BY AppendedTo
    <3>4. ASSUME NEW y \in Streams, NEW e \in Events, Unsaved(c, y, e) PROVE Unsaved(c, y, e)'
      <4>1. CASE y = s
        <5>1. tracked'[c][s].pending = Append(old, x)
          BY <3>2
        <5>2. \A k \in DOMAIN old : old[k] = e => \E m \in DOMAIN tracked'[c][s].pending : tracked'[c][s].pending[m] = e
          BY <3>3, <5>1
        <5> QED BY <3>1, <3>4, <4>1, <5>2 DEF Unsaved
      <4>2. CASE y # s
        BY <3>1, <3>2, <3>4, <4>2 DEF Unsaved
      <4> QED BY <4>1, <4>2
    <3>5. Unsaved(c, s, x)'
      BY <3>2, <3>3 DEF Unsaved
    <3> QED BY <1>1, <3>1, <3>4, <3>5 DEF HeldInv
  <2>12. CASE BeginSave(c)
    <3>1. mine'[c] = mine[c]
      BY <2>12 DEF BeginSave, historyVars
    <3>2. \A s \in Streams, e \in Events : Unsaved(c, s, e)' <=> Unsaved(c, s, e)
      BY <1>1, <2>12, UnsavedPulled
    <3> QED BY <1>1, <3>1, <3>2, HeldKept
  <2>13. CASE KeepSession(c)
    <3>1. InSession(c)
      BY <2>13 DEF KeepSession, DecideInv, OriginInv
    <3>2. mine'[c] = mine[c] /\ tracked'[c] = tracked[c] /\ ops'[c] = ops[c]
      BY <1>1, <2>13, <3>1 DEF KeepSession, Kept, historyVars, TypeOK
    <3> QED BY <3>2 DEF HeldInv, Unsaved
  <2> QED BY <1>3, <2>3, <2>4, <2>5, <2>6, <2>7, <2>8, <2>9, <2>10, <2>11, <2>12, <2>13 DEF SaveStep, ClientStep
<1>4. ASSUME NEW e \in Events, Dismiss(e) PROVE \A c \in Clients : HeldInv(c)'
  BY <1>2, <1>4 DEF Dismiss, memVars, historyVars
<1>5. CASE UNCHANGED vars
  BY <1>2, <1>5 DEF vars, memVars, historyVars
<1> QED BY <1>3, <1>4, <1>5 DEF Next

\* Only a commit ends a save with success.
LEMMA SuccessCommits ==
  ASSUME TypeOK, [Next]_vars, NEW c \in Clients, pc[c] = "saving", pc'[c] = "idle"
  PROVE  Commit(c)
<1>1. pc'[c] # pc[c]
  OBVIOUS
<1>2. ~UNCHANGED vars /\ \A e \in Events : ~Dismiss(e)
  BY <1>1 DEF vars, Dismiss
<1>3. PICK d \in Clients : SaveStep(d) \/ ClientStep(d)
  BY <1>2 DEF Next
<1>4. d = c
  BY <1>1, <1>3, StepAlone DEF OthersAlone
<1>5. ~ResolveVersion(c) /\ ~AppendOp(c)
  BY DEF ResolveVersion, AppendOp, GoTo, TypeOK
<1>6. ~Reject(c) /\ ~DeadlockVictim(c) /\ ~DbError(c)
  BY DEF Reject, DeadlockVictim, DbError, Rollback, GoTo, TypeOK
<1>7. ~CommitUnknown(c)
  BY DEF CommitUnknown, GoTo, TypeOK
<1>8. \A s \in Streams : /\ ~StartStream(c, s) /\ ~AppendEvents(c, s) /\ ~AppendUnsafe(c, s)
                         /\ ~LoadSnapshotRow(c, s) /\ ~LoadSnapshotOnly(c, s) /\ ~Raise(c, s)
  BY DEF StartStream, AppendEvents, AppendUnsafe, Queue, LoadSnapshotRow, LoadSnapshotOnly, Raise
<1>9. ~LoadStream(c) /\ ~BeginSave(c) /\ ~NewSession(c) /\ ~KeepSession(c)
  BY DEF LoadStream, BeginSave, NewSession, KeepSession
<1> QED BY <1>3, <1>4, <1>5, <1>6, <1>7, <1>8, <1>9 DEF SaveStep, ClientStep

\* Among disciplined sessions, a save that succeeds has stored every event that was
\* made in the session, whatever failed before.
THEOREM SavesEverything == ASSUME Disciplined PROVE Spec => NothingDropped
<1> DEFINE Held == \A c \in Clients : HeldInv(c)
<1>1. NeverUnsafe
  BY SessionAssumption DEF Disciplined, NeverUnsafe
<1>2. Init => IInv /\ OnceInv /\ DecideInv /\ Held
  <2>1. Init => Held
    BY DEF Init, HeldInv
  <2> QED BY <2>1, InvInit, OnceInit, DecideStarts
<1>3. IInv /\ OnceInv /\ DecideInv /\ Held /\ [Next]_vars => (IInv /\ OnceInv /\ DecideInv /\ Held)'
  <2>1. IInv /\ OnceInv /\ DecideInv /\ Held /\ [Next]_vars => Held'
    BY HeldStep
  <2> QED BY <1>1, <2>1, InvStep, OnceStep, DecideStep
<1>4. ASSUME IInv, OnceInv, DecideInv, Held, [Next]_vars, NEW c \in Clients,
             pc[c] = "saving", pc'[c] = "idle", "loadSnapshot" \notin Api[c]
      PROVE  mine[c] \subseteq EventsIn(rows')
  <2>1. Commit(c)
    BY <1>4, SuccessCommits DEF IInv
  <2>2. Publish(c) /\ rows' = rows \cup wRows[c]
    BY <2>1 DEF Commit, Publish
  <2>3. ASSUME NEW e \in mine[c] PROVE \E r \in rows' : r.event = e
    <3>1. e \in Events
      BY <1>4 DEF IInv, TypeOK
    <3>2. PICK s \in Streams : Unsaved(c, s, e)
      BY <1>4, <2>3 DEF HeldInv
    <3>3. \E r \in wRows[c] : r.event = e
      BY <1>4, <2>2, <3>1, <3>2, AllDone
    <3> QED BY <2>2, <3>3
  <2> QED BY <2>3 DEF EventsIn
<1>5. IInv /\ OnceInv /\ DecideInv /\ Held /\ [Next]_vars
        => [\A c \in Clients : pc[c] = "saving" /\ pc'[c] = "idle" /\ "loadSnapshot" \notin Api[c]
              => mine[c] \subseteq EventsIn(rows')]_vars
  BY <1>4
<1> QED BY <1>2, <1>3, <1>5, PTL DEF Spec, NothingDropped

-----------------------------------------------------------------------------
(* A rejected save was overtaken.                                          *)

\* A session nobody touches stays up to date with the streams nobody moves.
LEMMA ConflictUntouched ==
  ASSUME TypeOK, TypeOK', NEW d \in Clients, Untouched(d), expect'[d] = expect[d], overtaken[d] \subseteq overtaken'[d],
         \A s \in Streams : version[s] <= version'[s],
         \A s \in Streams \ overtaken'[d] : version'[s] = version[s],
         SaveInv(d), UpToDate(d)
  PROVE  SaveInv(d)' /\ UpToDate(d)'
<1> USE DEF Untouched
<1>1. \A s \in Streams : IsTracked(d, s)' <=> IsTracked(d, s)
  BY DEF IsTracked
<1>2. \A s \in Streams : version[s] \in Nat /\ version'[s] \in Nat /\ (version[s] > 0 => version'[s] > 0)
  BY DEF TypeOK
<1>3. SaveInv(d)'
  <2>1. ASSUME NEW load \in reading[d]
        PROVE  /\ pc'[d] = "loading" /\ load.snap.version <= version'[load.stream]
               /\ InSession(d)' => version'[load.stream] > 0
    <3>1. load.stream \in Streams /\ load.snap.version \in Nat
      BY DEF TypeOK, Snapshots
    <3>2. load.snap.version <= version[load.stream]
      BY DEF SaveInv
    <3>3. load.snap.version <= version'[load.stream]
      BY <1>2, <3>1, <3>2
    <3> QED BY <1>2, <3>1, <3>3 DEF SaveInv, InSession
  <2>2. \A s \in Streams : IsTracked(d, s)' =>
       /\ InSession(d)' => version'[s] > 0
       /\ wVersion'[d][s] > 0 => tracked'[d][s].version = wVersion'[d][s]
    BY <1>1, <1>2 DEF SaveInv, InSession
  <2>3. /\ \A i \in DOMAIN ops'[d] :
             /\ ops'[d][i].kind = "startStream" => ops'[d][i].expected = 0
             /\ i < at'[d] => wVersion'[d][ops'[d][i].stream] > 0
        /\ ~InSession(d)' => \A i \in DOMAIN ops'[d] : ops'[d][i].kind = "append"
        /\ pc'[d] = "gate" => at'[d] \in DOMAIN ops'[d] /\ Op(d)'.expected = Unknown
    BY DEF SaveInv, InSession, Op
  <2> QED BY <2>1, <2>2, <2>3 DEF SaveInv
<1>4. ASSUME NEW s \in Streams \ overtaken'[d]
      PROVE  /\ pc'[d] # "failed" =>
                  /\ \A i \in DOMAIN ops'[d] :
                       /\ ops'[d][i].stream = s /\ ops'[d][i].expected > 0
                       /\ \A j \in DOMAIN ops'[d] : j < i => ops'[d][j].stream # s
                       => ops'[d][i].expected = version'[s]
                  /\ IsTracked(d, s)' /\ (\A i \in DOMAIN ops'[d] : ops'[d][i].stream # s)
                       => tracked'[d][s].version = version'[s]
             /\ pc'[d] = "gate" /\ Op(d)'.stream = s => expect'[d] = Visible(d, s)'
  <2>1. s \in Streams \ overtaken[d] /\ version'[s] = version[s] /\ Op(d)' = Op(d) /\ Visible(d, s)' = Visible(d, s)
    BY DEF Op, Visible
  <2> QED BY <1>1, <2>1 DEF UpToDate
<1> QED BY <1>3, <1>4 DEF UpToDate

\* A step that stores nothing preserves the invariant where it does for its own session.
LEMMA ConflictFrame ==
  ASSUME TypeOK, TypeOK', ConflictInv, NEW c \in Clients, \A d \in Clients \ {c} : Untouched(d),
         \A d \in Clients \ {c} : expect'[d] = expect[d] /\ overtaken'[d] = overtaken[d],
         UNCHANGED <<version, snaps, dismissed>>, SaveInv(c)', UpToDate(c)'
  PROVE  ConflictInv'
<1>1. \A s \in Streams : version[s] <= version'[s]
  BY DEF TypeOK
<1>2. \A d \in Clients \ {c} : SaveInv(d)' /\ UpToDate(d)'
  BY <1>1, ConflictUntouched DEF ConflictInv
<1> QED BY <1>2 DEF ConflictInv

\* A queued operation expects the version there is, or what no stream has.
LEMMA ConflictQueue ==
  ASSUME IInv, ConflictInv, TypeOK', NEW c \in Clients, \A d \in Clients \ {c} : Untouched(d),
         NEW kind, NEW s \in Streams, NEW expected, Queue(c, kind, s, expected),
         kind = "startStream" => expected = 0, expected > 0 => expected = version[s],
         at[c] = 1
  PROVE  ConflictInv'
<1> PICK x : x = lastEvent'
  OBVIOUS
<1> PICK op : op = [kind |-> IF kind = "startStream" THEN kind ELSE "append", stream |-> s,
                    expected |-> expected, events |-> <<x>>]
  OBVIOUS
<1> PICK old \in Seq(Operations) : old = ops[c]
  BY DEF IInv, TypeOK
<1> PICK new : new = Append(old, op)
  OBVIOUS
<1>1. /\ UNCHANGED <<version, snaps, dismissed, expect, overtaken>> /\ InSession(c) /\ pc[c] = "idle"
      /\ order'[c] = order[c] /\ tracked'[c] = tracked[c] /\ via'[c] = via[c] /\ reading'[c] = reading[c]
      /\ pc'[c] = pc[c] /\ at'[c] = at[c] /\ wVersion'[c] = wVersion[c] /\ ops'[c] = new
  BY DEF Queue, dbVars, saveVars, IInv, TypeOK
<1>2. op.stream = s /\ op.expected = expected /\ (op.kind = "startStream" => expected = 0)
  OBVIOUS
<1>3. new \in Seq(Operations \cup {op}) /\ Len(old) \in Nat
  OBVIOUS
<1>4. /\ Len(old) \in Nat /\ DOMAIN old = 1 .. Len(old)
      /\ \A m \in DOMAIN new : m \in DOMAIN old \/ m = Len(old) + 1
      /\ \A m \in DOMAIN old : new[m] = old[m] /\ m \in DOMAIN new /\ m # Len(old) + 1
      /\ new[Len(old) + 1] = op /\ Len(old) + 1 \in DOMAIN new
  <2>1. old \in Seq(Operations \cup {op}) /\ op \in Operations \cup {op}
    OBVIOUS
  <2> QED BY <2>1, AppendedTo
<1>5. SaveInv(c) /\ UpToDate(c)
  BY DEF ConflictInv
<1>6. SaveInv(c)'
  <2>1. ASSUME NEW i \in DOMAIN ops'[c]
        PROVE  /\ ops'[c][i].kind = "startStream" => ops'[c][i].expected = 0
               /\ ~(i < at'[c])
    <3>1. ~(i < at'[c])
      <4>1. DOMAIN ops'[c] \subseteq Nat \ {0}
        <5>1. ops'[c] \in Seq(Operations)
          BY DEF TypeOK
        <5> QED BY <5>1
      <4> QED BY <1>1, <2>1, <4>1
    <3> QED BY <1>1, <1>2, <1>4, <1>5, <2>1, <3>1 DEF SaveInv
  <2>2. reading'[c] = {}
    BY <1>1, <1>5 DEF SaveInv
  <2>3. \A y \in Streams : IsTracked(c, y)' =>
       /\ InSession(c)' => version'[y] > 0
       /\ wVersion'[c][y] > 0 => tracked'[c][y].version = wVersion'[c][y]
    BY <1>1, <1>5 DEF SaveInv, IsTracked, InSession
  <2>4. InSession(c)' /\ pc'[c] # "gate"
    BY <1>1 DEF InSession
  <2> QED BY <2>1, <2>2, <2>3, <2>4 DEF SaveInv
<1>7. ASSUME NEW y \in Streams \ overtaken'[c]
      PROVE  /\ \A i \in DOMAIN ops'[c] :
                  /\ ops'[c][i].stream = y /\ ops'[c][i].expected > 0
                  /\ \A j \in DOMAIN ops'[c] : j < i => ops'[c][j].stream # y
                  => ops'[c][i].expected = version'[y]
             /\ IsTracked(c, y)' /\ (\A i \in DOMAIN ops'[c] : ops'[c][i].stream # y) => tracked'[c][y].version = version'[y]
  <2>1. y \in Streams \ overtaken[c] /\ pc[c] # "failed"
    BY <1>1
  <2>2. ASSUME NEW i \in DOMAIN new, new[i].stream = y, new[i].expected > 0,
               \A j \in DOMAIN new : j < i => new[j].stream # y
        PROVE  new[i].expected = version[y]
    <3>1. CASE i \in DOMAIN old
      <4>1. new[i] = ops[c][i] /\ i \in DOMAIN ops[c] /\ \A j \in DOMAIN ops[c] : j < i => ops[c][j].stream # y
        BY <1>4, <2>2, <3>1
      <4>2. \A k \in DOMAIN ops[c] :
              /\ ops[c][k].stream = y /\ ops[c][k].expected > 0
              /\ \A j \in DOMAIN ops[c] : j < k => ops[c][j].stream # y
              => ops[c][k].expected = version[y]
        BY <1>5, <2>1 DEF UpToDate
      <4>3. ops[c][i].stream = y /\ ops[c][i].expected > 0
        BY <2>2, <4>1
      <4>4. ops[c][i].expected = version[y]
        BY <4>1, <4>2, <4>3
      <4> QED BY <4>1, <4>4
    <3>2. CASE i = Len(old) + 1
      BY <1>2, <1>4, <2>2, <3>2
    <3> QED BY <1>4, <2>2, <3>1, <3>2
  <2>3. (\A i \in DOMAIN new : new[i].stream # y) => \A i \in DOMAIN ops[c] : ops[c][i].stream # y
    BY <1>4
  <2>4. IsTracked(c, y)' <=> IsTracked(c, y)
    BY <1>1 DEF IsTracked
  <2> QED BY <1>1, <1>5, <2>1, <2>2, <2>3, <2>4 DEF UpToDate
<1>8. UpToDate(c)'
  BY <1>1, <1>7 DEF UpToDate
<1>9. TypeOK
  BY DEF IInv
<1> QED BY <1>1, <1>6, <1>8, <1>9, ConflictFrame

\* A load begins at a snapshot that is not past its stream.
LEMMA ConflictReading ==
  ASSUME IInv, ConflictInv, TypeOK', NEW c \in Clients, \A d \in Clients \ {c} : Untouched(d),
         NEW s \in Streams, LoadSnapshotRow(c, s), at[c] = 1
  PROVE  ConflictInv'
<1>1. /\ UNCHANGED <<version, snaps, dismissed, expect, overtaken, order, tracked, ops, via, at, wVersion>>
      /\ pc[c] = "idle" /\ pc'[c] = "loading" /\ reading'[c] = {[stream |-> s, snap |-> snaps[s]]}
  BY DEF LoadSnapshotRow, GoTo, dbVars, memVars, saveVars, historyVars, IInv, TypeOK
<1>2. TypeOK /\ SaveInv(c) /\ UpToDate(c)
  BY DEF ConflictInv, IInv
<1>3. SaveInv(c)'
  <2>1. \A load \in reading'[c] : load.stream = s /\ load.snap = snaps[s]
    BY <1>1
  <2>2. snaps[s].version <= version[s] /\ (InSession(c) => version[s] > 0)
    BY DEF LoadSnapshotRow, Loadable, ConflictInv
  <2>3. \A load \in reading'[c] :
       /\ pc'[c] = "loading" /\ load.snap.version <= version'[load.stream]
       /\ InSession(c)' => version'[load.stream] > 0
    BY <1>1, <2>1, <2>2 DEF InSession
  <2> QED BY <1>1, <1>2, <2>3 DEF SaveInv, IsTracked, InSession
<1>4. UpToDate(c)'
  BY <1>1, <1>2 DEF UpToDate, IsTracked
<1> QED BY <1>1, <1>2, <1>3, <1>4, ConflictFrame

\* What is loaded has the version of its stream.
LEMMA ConflictLoad ==
  ASSUME IInv, ConflictInv, TypeOK', NEW c \in Clients, \A d \in Clients \ {c} : Untouched(d),
         LoadStream(c), at[c] = 1, \A s \in Streams : wVersion[c][s] = 0
  PROVE  ConflictInv'
<1>1. PICK load \in reading[c] :
       LET history == Replayed(load.stream, load.snap)
           versions == {load.snap.version} \cup {r.version : r \in history}
       IN \E last \in versions :
            /\ \A v \in versions : v <= last
            /\ Track(c, load.stream, [version |-> last, pending |-> <<>>,
                                     state |-> load.snap.state \cup EventsIn(history)])
  BY DEF LoadStream
<1>2. PICK s \in Streams, snap \in Snapshots : s = load.stream /\ snap = load.snap
  BY <1>1 DEF IInv, TypeOK
<1>3. PICK history : history = Replayed(s, snap)
  OBVIOUS
<1>4. PICK last \in {snap.version} \cup {r.version : r \in history} :
        /\ \A v \in {snap.version} \cup {r.version : r \in history} : v <= last
        /\ Track(c, s, [version |-> last, pending |-> <<>>, state |-> snap.state \cup EventsIn(history)])
  BY <1>1, <1>2, <1>3
<1>5. /\ UNCHANGED <<version, snaps, dismissed, expect, ops, via, at, wVersion>>
      /\ pc[c] = "loading" /\ pc'[c] = "idle" /\ reading'[c] = {}
  BY DEF LoadStream, GoTo, dbVars, saveVars, IInv, TypeOK
<1>6. TypeOK /\ SaveInv(c) /\ UpToDate(c) /\ dismissed = {}
  BY DEF ConflictInv, IInv
<1>7. last = version[s]
  <2>1. snap.version \in Nat /\ snap.version <= version[s] /\ version[s] \in Nat
    BY <1>2, <1>6 DEF Snapshots, SaveInv, TypeOK
  <2>2. \A r \in history : r.version \in Nat /\ r.version <= version[s]
    BY <1>3, UpToVersion DEF Replayed
  <2>3. last \in Nat /\ last <= version[s] /\ snap.version <= last
    BY <1>4, <2>1, <2>2
  <2>4. CASE version[s] > snap.version
    <3>1. version[s] \in 1 .. version[s]
      BY <2>1, <2>4
    <3>2. PICK r \in RowsOf(s) : r.version = version[s]
      BY <3>1 DEF IInv, StreamsGapless
    <3>3. r \in history
      BY <1>3, <1>6, <2>4, <3>2 DEF Replayed, RowsOf
    <3>4. version[s] \in {snap.version} \cup {q.version : q \in history}
      BY <3>2, <3>3
    <3>5. version[s] <= last
      BY <1>4, <3>4
    <3> QED BY <2>1, <2>3, <3>5
  <2> QED BY <2>1, <2>3, <2>4
<1>8. /\ \A y \in Streams : y # s => tracked'[c][y] = tracked[c][y]
      /\ \A y \in Streams : IsTracked(c, y)' <=> IsTracked(c, y) \/ y = s
      /\ tracked'[c][s].version = version[s]
  <2> PICK agg : agg = [version |-> last, pending |-> <<>>, state |-> snap.state \cup EventsIn(history)]
    OBVIOUS
  <2>1. agg.version = last /\ Track(c, s, agg)
    BY <1>4
  <2> QED BY <1>6, <1>7, <2>1, TrackedBy
<1>9. /\ \A d \in Clients \ {c} : overtaken'[d] = overtaken[d]
      /\ overtaken[c] \subseteq overtaken'[c] \cup {s}
      /\ s \in overtaken[c] /\ (\E i \in DOMAIN ops[c] : ops[c][i].stream = s) => s \in overtaken'[c]
  BY <1>4, <1>6 DEF Track, TypeOK
<1>10. SaveInv(c)'
  <2>1. \A i \in DOMAIN ops'[c] :
          /\ ops'[c][i].kind = "startStream" => ops'[c][i].expected = 0
          /\ i < at'[c] => wVersion'[c][ops'[c][i].stream] > 0
    BY <1>5, <1>6 DEF SaveInv
  <2>2. ~InSession(c)' => \A i \in DOMAIN ops'[c] : ops'[c][i].kind = "append"
    BY <1>5, <1>6 DEF SaveInv, InSession
  <2>3. ASSUME NEW y \in Streams, IsTracked(c, y)'
        PROVE  (InSession(c)' => version'[y] > 0) /\ ~(wVersion'[c][y] > 0)
    <3>1. ~(0 > 0)
      OBVIOUS
    <3>2. InSession(c) => version[s] > 0
      BY <1>2, <1>6 DEF SaveInv
    <3> QED BY <1>5, <1>6, <1>8, <2>3, <3>1, <3>2 DEF SaveInv, InSession
  <2> QED BY <1>5, <2>1, <2>2, <2>3 DEF SaveInv
<1>11. ASSUME NEW y \in Streams \ overtaken'[c]
      PROVE  /\ \A i \in DOMAIN ops'[c] :
                  /\ ops'[c][i].stream = y /\ ops'[c][i].expected > 0
                  /\ \A j \in DOMAIN ops'[c] : j < i => ops'[c][j].stream # y
                  => ops'[c][i].expected = version'[y]
             /\ IsTracked(c, y)' /\ (\A i \in DOMAIN ops'[c] : ops'[c][i].stream # y) => tracked'[c][y].version = version'[y]
  <2>1. CASE y \in overtaken[c]
    <3>1. y = s /\ \A i \in DOMAIN ops[c] : ops[c][i].stream # s
      BY <1>9, <1>11, <2>1
    <3> QED BY <1>5, <1>8, <3>1
  <2>2. CASE y \notin overtaken[c]
    <3>1. y \in Streams \ overtaken[c] /\ pc[c] # "failed"
      BY <1>5, <2>2
    <3>2. \A i \in DOMAIN ops[c] :
                  /\ ops[c][i].stream = y /\ ops[c][i].expected > 0
                  /\ \A j \in DOMAIN ops[c] : j < i => ops[c][j].stream # y
                  => ops[c][i].expected = version[y]
      BY <1>6, <3>1 DEF UpToDate
    <3>3. IsTracked(c, y)' /\ (\A i \in DOMAIN ops[c] : ops[c][i].stream # y) => tracked'[c][y].version = version[y]
      BY <1>6, <1>8, <3>1 DEF UpToDate
    <3> QED BY <1>5, <3>2, <3>3
  <2> QED BY <2>1, <2>2
<1>12. UpToDate(c)'
  BY <1>5, <1>11 DEF UpToDate
<1> QED BY <1>5, <1>6, <1>9, <1>10, <1>12, ConflictFrame

\* Raising an event moves no version.
LEMMA ConflictRaise ==
  ASSUME IInv, ConflictInv, TypeOK', NEW c \in Clients, \A d \in Clients \ {c} : Untouched(d),
         NEW s \in Streams, Raise(c, s)
  PROVE  ConflictInv'
<1>1. UNCHANGED <<version, snaps, dismissed, expect, overtaken, order, ops, pc, via, at, wVersion, reading>>
  BY DEF Raise, dbVars, saveVars
<1>2. TypeOK /\ SaveInv(c) /\ UpToDate(c) /\ pc[c] = "idle"
  BY DEF ConflictInv, IInv, Raise
<1>3. \A y \in Streams : /\ tracked'[c][y].version = tracked[c][y].version
                         /\ IsTracked(c, y)' <=> IsTracked(c, y)
  BY <1>1, <1>2, RaisedOn DEF IsTracked
<1>4. SaveInv(c)'
  BY <1>1, <1>2, <1>3 DEF SaveInv, InSession
<1>5. UpToDate(c)'
  BY <1>1, <1>2, <1>3 DEF UpToDate
<1> QED BY <1>1, <1>2, <1>4, <1>5, ConflictFrame

\* What is pulled expects the version of its aggregate.
LEMMA ConflictBegin ==
  ASSUME IInv, OnceInv, ConflictInv, TypeOK', NEW c \in Clients, \A d \in Clients \ {c} : Untouched(d),
         BeginSave(c), at[c] = 1
  PROVE  ConflictInv'
<1>1. /\ UNCHANGED <<version, snaps, dismissed, expect, overtaken, order, via, at, wVersion, reading>>
      /\ pc[c] = "idle" /\ pc'[c] = "saving"
  BY DEF BeginSave, GoTo, dbVars, saveVars, historyVars, IInv, TypeOK
<1>2. TypeOK /\ SaveInv(c) /\ UpToDate(c)
  BY DEF ConflictInv, IInv
<1>3. \A y \in Streams : /\ tracked'[c][y].version = tracked[c][y].version
                         /\ IsTracked(c, y)' <=> IsTracked(c, y)
  <2>1. \A y \in Streams : [tracked[c][y] EXCEPT !.pending = <<>>].version = tracked[c][y].version
    BY <1>2 DEF TypeOK, Aggregates
  <2>2. tracked'[c] = [y \in Streams |-> [tracked[c][y] EXCEPT !.pending = <<>>]]
    BY <1>2 DEF BeginSave, TypeOK
  <2> QED BY <1>1, <2>1, <2>2 DEF IsTracked
<1>4. PICK n \in Nat, q \in Nat : \E streams \in [1 .. n -> Streams] :
           /\ \A m \in DOMAIN ops'[c] :
                \/ m \in DOMAIN ops[c] /\ ops'[c][m] = ops[c][m]
                \/ m \in Nat /\ m > q /\ m - q \in 1 .. n /\ ops'[c][m] = PulledOp(c, streams[m - q])
           /\ \A m \in DOMAIN ops[c] : m \in DOMAIN ops'[c] /\ ops'[c][m] = ops[c][m] /\ m \in Nat /\ m <= q
           /\ \A i \in 1 .. n : IsTracked(c, streams[i])
  BY BeginPulls
<1>5. PICK streams \in [1 .. n -> Streams] :
           /\ \A m \in DOMAIN ops'[c] :
                \/ m \in DOMAIN ops[c] /\ ops'[c][m] = ops[c][m]
                \/ m \in Nat /\ m > q /\ m - q \in 1 .. n /\ ops'[c][m] = PulledOp(c, streams[m - q])
           /\ \A m \in DOMAIN ops[c] : m \in DOMAIN ops'[c] /\ ops'[c][m] = ops[c][m] /\ m \in Nat /\ m <= q
           /\ \A i \in 1 .. n : IsTracked(c, streams[i])
  BY <1>4
<1>6. ASSUME NEW m \in DOMAIN ops'[c], m \notin DOMAIN ops[c]
      PROVE  /\ m \in Nat /\ m > q /\ ops'[c][m].kind = "append"
             /\ \E s \in Streams : /\ ops'[c][m].stream = s /\ IsTracked(c, s)
                                   /\ ops'[c][m].expected = tracked[c][s].version
  <2>1. m \in Nat /\ m > q /\ m - q \in 1 .. n /\ ops'[c][m] = PulledOp(c, streams[m - q])
    BY <1>5, <1>6
  <2>2. PICK i \in 1 .. n : i = m - q
    BY <2>1
  <2>3. streams[i] \in Streams /\ IsTracked(c, streams[i])
    BY <1>5, <2>2
  <2> QED BY <2>1, <2>2, <2>3 DEF PulledOp
<1>7. SaveInv(c)'
  <2>1. ASSUME NEW i \in DOMAIN ops'[c]
        PROVE  /\ ops'[c][i].kind = "startStream" => ops'[c][i].expected = 0
               /\ ~(i < at'[c])
               /\ ~InSession(c)' => ops'[c][i].kind = "append"
    <3>1. ~(i < at'[c])
      <4>1. DOMAIN ops'[c] \subseteq Nat \ {0}
        <5>1. ops'[c] \in Seq(Operations)
          BY DEF TypeOK
        <5> QED BY <5>1
      <4> QED BY <1>1, <2>1, <4>1
    <3>2. CASE i \in DOMAIN ops[c]
      BY <1>1, <1>2, <1>5, <3>1, <3>2 DEF SaveInv, InSession
    <3>3. CASE i \notin DOMAIN ops[c]
      BY <1>6, <2>1, <3>1, <3>3
    <3> QED BY <3>2, <3>3
  <2>2. reading'[c] = {}
    BY <1>1, <1>2 DEF SaveInv
  <2>3. \A y \in Streams : IsTracked(c, y)' =>
       /\ InSession(c)' => version'[y] > 0
       /\ wVersion'[c][y] > 0 => tracked'[c][y].version = wVersion'[c][y]
    BY <1>1, <1>2, <1>3 DEF SaveInv, InSession
  <2> QED BY <1>1, <2>1, <2>2, <2>3 DEF SaveInv
<1>8. ASSUME NEW y \in Streams \ overtaken'[c]
      PROVE  /\ \A i \in DOMAIN ops'[c] :
                  /\ ops'[c][i].stream = y /\ ops'[c][i].expected > 0
                  /\ \A j \in DOMAIN ops'[c] : j < i => ops'[c][j].stream # y
                  => ops'[c][i].expected = version'[y]
             /\ IsTracked(c, y)' /\ (\A i \in DOMAIN ops'[c] : ops'[c][i].stream # y) => tracked'[c][y].version = version'[y]
  <2>1. y \in Streams \ overtaken[c] /\ pc[c] # "failed"
    BY <1>1
  <2>2. ASSUME NEW i \in DOMAIN ops'[c], ops'[c][i].stream = y, ops'[c][i].expected > 0,
               \A j \in DOMAIN ops'[c] : j < i => ops'[c][j].stream # y
        PROVE  ops'[c][i].expected = version[y]
    <3>1. CASE i \in DOMAIN ops[c]
      <4>1. ops'[c][i] = ops[c][i] /\ \A j \in DOMAIN ops[c] : j < i => ops[c][j].stream # y
        BY <1>5, <2>2, <3>1
      <4> QED BY <1>2, <2>1, <2>2, <3>1, <4>1 DEF UpToDate
    <3>2. CASE i \notin DOMAIN ops[c]
      <4>1. i \in Nat /\ i > q /\ IsTracked(c, y) /\ ops'[c][i].expected = tracked[c][y].version
        BY <1>6, <2>2, <3>2
      <4>2. \A j \in DOMAIN ops[c] : j < i
        BY <1>5, <4>1
      <4>3. \A j \in DOMAIN ops[c] : ops[c][j].stream # y
        BY <1>5, <2>2, <4>2
      <4> QED BY <1>2, <2>1, <4>1, <4>3 DEF UpToDate
    <3> QED BY <3>1, <3>2
  <2>3. (\A i \in DOMAIN ops'[c] : ops'[c][i].stream # y) => \A i \in DOMAIN ops[c] : ops[c][i].stream # y
    BY <1>5
  <2> QED BY <1>1, <1>2, <1>3, <2>1, <2>2, <2>3 DEF UpToDate
<1>9. UpToDate(c)'
  BY <1>1, <1>8 DEF UpToDate
<1> QED BY <1>1, <1>2, <1>7, <1>9, ConflictFrame

\* A step that stores nothing leaves the others as far as they were.
LEMMA ConflictAlone ==
  ASSUME TypeOK, NEW c \in Clients, SaveStep(c) \/ ClientStep(c), ~Publish(c)
  PROVE  \A d \in Clients \ {c} : expect'[d] = expect[d] /\ overtaken'[d] = overtaken[d]
<1>1. CASE SaveStep(c)
  BY <1>1 DEF SaveStep, ResolveVersion, AppendOp, Reject, DeadlockVictim, Rollback, EndTx, Commit, historyVars, TypeOK
<1>2. CASE ClientStep(c)
  <2>1. CASE LoadStream(c)
    <3>1. PICK s \in Streams, agg \in Aggregates : Track(c, s, agg)
      BY <2>1, LoadTracks
    <3> QED BY <2>1, <3>1 DEF LoadStream, Track, saveVars, TypeOK
  <2>2. ASSUME NEW s \in Streams, StartStream(c, s) \/ AppendEvents(c, s) \/ AppendUnsafe(c, s)
        PROVE  expect' = expect /\ overtaken' = overtaken
    BY <2>2 DEF StartStream, AppendEvents, AppendUnsafe, Queue, saveVars
  <2>3. ASSUME NEW s \in Streams, LoadSnapshotRow(c, s) \/ Raise(c, s)
        PROVE  expect' = expect /\ overtaken' = overtaken
    BY <2>3 DEF LoadSnapshotRow, Raise, saveVars, historyVars
  <2>4. ASSUME NEW s \in Streams, LoadSnapshotOnly(c, s)
        PROVE  \A d \in Clients \ {c} : expect'[d] = expect[d] /\ overtaken'[d] = overtaken[d]
    BY <2>4 DEF LoadSnapshotOnly, Track, saveVars, TypeOK
  <2>5. CASE BeginSave(c) \/ NewSession(c) \/ KeepSession(c)
    BY <2>5 DEF BeginSave, NewSession, KeepSession, saveVars, historyVars, TypeOK
  <2>6. CASE DbError(c)
    BY <2>6 DEF DbError, Rollback, EndTx, historyVars, TypeOK
  <2> QED BY <1>2, <2>1, <2>2, <2>3, <2>4, <2>5, <2>6 DEF ClientStep, CommitUnknown
<1> QED BY <1>1, <1>2

\* appendUnsafe goes on with the version it reads.
LEMMA ConflictResolve ==
  ASSUME IInv, ConflictInv, TypeOK', NEW c \in Clients, \A d \in Clients \ {c} : Untouched(d),
         \A d \in Clients \ {c} : expect'[d] = expect[d] /\ overtaken'[d] = overtaken[d],
         ResolveVersion(c)
  PROVE  ConflictInv'
<1>1. /\ UNCHANGED <<version, snaps, dismissed, overtaken, order, tracked, ops, via, at, wVersion, reading>>
      /\ pc[c] = "saving" /\ pc'[c] = "gate" /\ expect'[c] = Visible(c, Op(c).stream)
      /\ Op(c).expected = Unknown /\ at[c] <= Len(ops[c])
  BY DEF ResolveVersion, HasOp, GoTo, dbVars, memVars, historyVars, IInv, TypeOK
<1>2. TypeOK /\ SaveInv(c) /\ UpToDate(c)
  BY DEF ConflictInv, IInv
<1>3. Op(c)' = Op(c) /\ \A s \in Streams : Visible(c, s)' = Visible(c, s) /\ (IsTracked(c, s)' <=> IsTracked(c, s))
  BY <1>1 DEF Op, Visible, IsTracked
<1>4. at[c] \in DOMAIN ops[c]
  BY <1>1, <1>2 DEF TypeOK
<1>5. SaveInv(c)'
  BY <1>1, <1>2, <1>3, <1>4 DEF SaveInv, InSession
<1>6. UpToDate(c)'
  BY <1>1, <1>2, <1>3 DEF UpToDate
<1> QED BY <1>1, <1>2, <1>5, <1>6, ConflictFrame

\* An append moves its aggregate along with the stream.
LEMMA ConflictAppend ==
  ASSUME IInv, OnceInv, ConflictInv, TypeOK', NEW c \in Clients, \A d \in Clients \ {c} : Untouched(d),
         \A d \in Clients \ {c} : expect'[d] = expect[d] /\ overtaken'[d] = overtaken[d],
         AppendOp(c)
  PROVE  ConflictInv'
<1> PICK o \in Operations : o = Op(c)
  BY OpType DEF AppendOp, IInv
<1> PICK base \in Nat : base = Expected(c)
  BY OpType DEF AppendOp, IInv
<1> PICK s \in Streams : s = o.stream
  BY DEF Operations
<1> PICK n \in Nat : n = Len(o.events) /\ DOMAIN o.events = 1 .. n
  BY DEF Operations
<1> PICK m \in Nat : m = at[c]
  BY DEF IInv, TypeOK
<1>1. /\ UNCHANGED <<version, snaps, dismissed, overtaken, order, ops, via, reading>>
      /\ pc[c] \in {"saving", "gate"} /\ pc'[c] = "saving"
      /\ m = at[c] /\ at'[c] = m + 1 /\ m \in DOMAIN ops[c] /\ o = ops[c][m]
      /\ wVersion'[c] = [wVersion[c] EXCEPT ![s] = base + n]
  BY DEF AppendOp, GateOpen, HasOp, Running, GoTo, dbVars, historyVars, IInv, TypeOK, Op
<1>2. TypeOK /\ SaveInv(c) /\ UpToDate(c)
  BY DEF ConflictInv, IInv
<1>3. n > 0 /\ o.events # <<>>
  <2>1. o.events # <<>>
    BY <1>1 DEF OnceInv, OwnInv
  <2> QED BY <2>1
<1>4. /\ wVersion[c] \in [Streams -> Nat] /\ version \in [Streams -> Nat]
      /\ wVersion'[c][s] = base + n /\ wVersion'[c][s] > 0
      /\ \A x \in Streams : x # s => wVersion'[c][x] = wVersion[c][x]
  <2>1. wVersion[c] \in [Streams -> Nat] /\ version \in [Streams -> Nat]
    BY <1>2 DEF TypeOK
  <2>2. base + n > 0
    BY <1>3
  <2>3. wVersion'[c][s] = base + n /\ \A x \in Streams : x # s => wVersion'[c][x] = wVersion[c][x]
    BY <1>1, <2>1
  <2> QED BY <2>1, <2>2, <2>3
<1>5. /\ \A x \in Streams : x # s => tracked'[c][x].version = tracked[c][x].version
      /\ o.kind = "append" /\ IsTracked(c, s) => tracked'[c][s].version = base + n
  <2>1. CASE o.kind = "append" /\ IsTracked(c, s)
    <3>1. tracked' = [tracked EXCEPT ![c][s].version = base + n]
      BY <2>1 DEF AppendOp, Advanced
    <3>2. tracked'[c] = [tracked[c] EXCEPT ![s] = [tracked[c][s] EXCEPT !.version = base + n]]
      BY <1>2, <3>1 DEF TypeOK
    <3>3. [tracked[c][s] EXCEPT !.version = base + n].version = base + n
      BY <1>2 DEF TypeOK, Aggregates
    <3>4. tracked[c] \in [Streams -> Aggregates]
      BY <1>2 DEF TypeOK
    <3>5. tracked'[c][s] = [tracked[c][s] EXCEPT !.version = base + n]
      BY <3>2, <3>4
    <3>6. \A x \in Streams : x # s => tracked'[c][x] = tracked[c][x]
      BY <3>2, <3>4
    <3> QED BY <3>3, <3>5, <3>6
  <2>2. CASE ~(o.kind = "append" /\ IsTracked(c, s))
    BY <2>2 DEF AppendOp, Advanced
  <2> QED BY <2>1, <2>2
<1>6. \A x \in Streams : IsTracked(c, x)' <=> IsTracked(c, x)
  BY <1>1 DEF IsTracked
<1>7. IsTracked(c, s) => o.kind = "append"
  <2> SUFFICES ASSUME IsTracked(c, s), o.kind # "append" PROVE FALSE
    OBVIOUS
  <2>1. o.kind = "startStream" /\ o.expected = 0 /\ InSession(c)
    BY <1>1, <1>2 DEF SaveInv, Operations
  <2>2. pc[c] # "gate"
    BY <1>2, <2>1 DEF SaveInv, Unknown
  <2>3. base = 0
    BY <2>1, <2>2 DEF Expected
  <2>4. Visible(c, s) = 0
    BY <2>3 DEF AppendOp, Passes
  <2>5. version[s] = 0
    BY <1>4, <2>4 DEF Visible
  <2>6. version[s] > 0
    BY <1>2, <2>1 DEF SaveInv
  <2> QED BY <2>5, <2>6
<1>8. SaveInv(c)'
  <2>1. ASSUME NEW i \in DOMAIN ops'[c]
        PROVE  /\ ops'[c][i].kind = "startStream" => ops'[c][i].expected = 0
               /\ i < at'[c] => wVersion'[c][ops'[c][i].stream] > 0
               /\ ~InSession(c)' => ops'[c][i].kind = "append"
    <3>1. i \in Nat /\ ops[c][i].stream \in Streams
      BY <1>1, <1>2, QueuedType
    <3>2. i < at'[c] => i < m \/ i = m
      BY <1>1, <3>1
    <3>3. i < m => wVersion[c][ops[c][i].stream] > 0
      BY <1>1, <1>2 DEF SaveInv
    <3>4. i < at'[c] => wVersion'[c][ops'[c][i].stream] > 0
      BY <1>1, <1>4, <3>1, <3>2, <3>3
    <3> QED BY <1>1, <1>2, <3>4 DEF SaveInv, InSession
  <2>2. reading'[c] = {}
    BY <1>1, <1>2 DEF SaveInv
  <2>3. ASSUME NEW y \in Streams, IsTracked(c, y)'
        PROVE  /\ InSession(c)' => version'[y] > 0
               /\ wVersion'[c][y] > 0 => tracked'[c][y].version = wVersion'[c][y]
    <3>1. CASE y = s
      BY <1>1, <1>2, <1>4, <1>5, <1>6, <1>7, <2>3, <3>1 DEF SaveInv, InSession
    <3>2. CASE y # s
      BY <1>1, <1>2, <1>4, <1>5, <1>6, <2>3, <3>2 DEF SaveInv, InSession
    <3> QED BY <3>1, <3>2
  <2> QED BY <1>1, <2>1, <2>2, <2>3 DEF SaveInv
<1>9. UpToDate(c)'
  <2>1. ASSUME NEW y \in Streams \ overtaken'[c]
        PROVE  /\ \A i \in DOMAIN ops'[c] :
                  /\ ops'[c][i].stream = y /\ ops'[c][i].expected > 0
                  /\ \A j \in DOMAIN ops'[c] : j < i => ops'[c][j].stream # y
                  => ops'[c][i].expected = version'[y]
               /\ IsTracked(c, y)' /\ (\A i \in DOMAIN ops'[c] : ops'[c][i].stream # y)
                    => tracked'[c][y].version = version'[y]
    <3>1. y \in Streams \ overtaken[c] /\ pc[c] # "failed"
      BY <1>1
    <3>2. (\A i \in DOMAIN ops'[c] : ops'[c][i].stream # y) => y # s
      BY <1>1
    <3> QED BY <1>1, <1>2, <1>5, <1>6, <3>1, <3>2 DEF UpToDate
  <2> QED BY <1>1, <2>1 DEF UpToDate
<1> QED BY <1>1, <1>2, <1>8, <1>9, ConflictFrame

\* What failed is given up.
LEMMA ConflictRollback ==
  ASSUME IInv, ConflictInv, TypeOK', NEW c \in Clients, \A d \in Clients \ {c} : Untouched(d),
         \A d \in Clients \ {c} : expect'[d] = expect[d] /\ overtaken'[d] = overtaken[d],
         Rollback(c), Running(c)
  PROVE  ConflictInv'
<1>1. /\ UNCHANGED <<version, snaps, dismissed, overtaken, order, tracked, ops, via, reading>>
      /\ pc[c] \in {"saving", "gate"} /\ pc'[c] = "failed" /\ at'[c] = 1
      /\ \A s \in Streams : wVersion'[c][s] = 0
  BY DEF Rollback, EndTx, Running, GoTo, NoWrite, dbVars, memVars, historyVars, IInv, TypeOK
<1>2. TypeOK /\ SaveInv(c) /\ UpToDate(c)
  BY DEF ConflictInv, IInv
<1>3. SaveInv(c)'
  <2>1. \A i \in DOMAIN ops'[c] : ~(i < at'[c])
    <3>1. \A i \in DOMAIN ops'[c] : i \in Nat /\ i > 0
      <4>1. ops'[c] \in Seq(Operations)
        BY DEF TypeOK
      <4> QED BY <4>1
    <3> QED BY <1>1, <3>1
  <2>2. ~(0 > 0) /\ reading'[c] = {}
    BY <1>1, <1>2 DEF SaveInv
  <2>3. \A y \in Streams : IsTracked(c, y)' =>
          (InSession(c)' => version'[y] > 0) /\ ~(wVersion'[c][y] > 0)
    BY <1>1, <1>2, <2>2 DEF SaveInv, InSession, IsTracked
  <2> QED BY <1>1, <1>2, <2>1, <2>2, <2>3 DEF SaveInv, InSession
<1>4. UpToDate(c)'
  BY <1>1 DEF UpToDate
<1> QED BY <1>1, <1>2, <1>3, <1>4, ConflictFrame

\* A new session begins with nothing.
LEMMA ConflictNew ==
  ASSUME IInv, ConflictInv, TypeOK', NEW c \in Clients, \A d \in Clients \ {c} : Untouched(d),
         \A d \in Clients \ {c} : expect'[d] = expect[d] /\ overtaken'[d] = overtaken[d],
         NewSession(c)
  PROVE  ConflictInv'
<1>1. /\ UNCHANGED <<version, snaps, dismissed, reading>>
      /\ pc[c] \in {"idle", "failed"} /\ pc'[c] = "idle" /\ ops'[c] = <<>> /\ order'[c] = <<>>
  BY DEF NewSession, GoTo, dbVars, IInv, TypeOK
<1>2. DOMAIN <<>> = {}
  OBVIOUS
<1>3. TypeOK /\ SaveInv(c) /\ reading'[c] = {}
  BY <1>1 DEF ConflictInv, IInv, SaveInv
<1>4. \A s \in Streams : ~IsTracked(c, s)'
  BY <1>1, <1>2 DEF IsTracked
<1>5. SaveInv(c)' /\ UpToDate(c)'
  BY <1>1, <1>2, <1>3, <1>4 DEF SaveInv, UpToDate
<1> QED BY <1>1, <1>3, <1>5, ConflictFrame

\* A commit overtakes the sessions that know what it moved.
LEMMA ConflictPublish ==
  ASSUME IInv, ConflictInv, TypeOK', NEW c \in Clients, \A d \in Clients \ {c} : Untouched(d),
         Publish(c), SaveInv(c)', UpToDate(c)'
  PROVE  ConflictInv'
<1>1. TypeOK /\ dismissed' = dismissed
  BY DEF IInv, Publish
<1>2. \A s \in Streams : version[s] <= version'[s] /\ version'[s] = Visible(c, s)
                         /\ version[s] \in Nat /\ version'[s] \in Nat /\ snaps[s].version \in Nat
  BY <1>1, PublishGrows DEF TypeOK, Snapshots
<1>3. ASSUME NEW s \in Streams PROVE snaps'[s].version <= version'[s]
  <2>1. CASE Snapshotted(c, s)
    <3>1. snaps'[s].version = wVersion[c][s] /\ wVersion[c][s] > 0
      BY <2>1 DEF Publish, Snapshotted
    <3> QED BY <1>2, <3>1 DEF Visible
  <2>2. CASE ~Snapshotted(c, s)
    <3>1. snaps'[s] = snaps[s] /\ snaps[s].version <= version[s]
      BY <2>2 DEF Publish, ConflictInv
    <3> QED BY <1>2, <3>1
  <2> QED BY <2>1, <2>2
<1>4. ASSUME NEW d \in Clients, d # c PROVE SaveInv(d)' /\ UpToDate(d)'
  <2>1. /\ expect'[d] = expect[d] /\ overtaken[d] \subseteq overtaken'[d]
        /\ \A s \in Streams : wVersion[c][s] > 0 => s \in overtaken'[d]
    BY <1>1, <1>4 DEF Publish, EndTx, TypeOK
  <2>2. \A s \in Streams \ overtaken'[d] : version'[s] = version[s]
    BY <1>2, <2>1 DEF Visible
  <2> QED BY <1>1, <1>2, <1>4, <2>1, <2>2, ConflictUntouched DEF ConflictInv
<1> QED BY <1>1, <1>3, <1>4 DEF ConflictInv

\* After a commit the aggregates are at the versions it stored.
LEMMA ConflictCommit ==
  ASSUME IInv, ConflictInv, TypeOK', NEW c \in Clients, \A d \in Clients \ {c} : Untouched(d),
         Commit(c)
  PROVE  ConflictInv'
<1>1. TypeOK /\ Publish(c) /\ SaveInv(c) /\ UpToDate(c)
  BY DEF IInv, Commit, ConflictInv
<1>2. /\ UNCHANGED <<order, tracked, via, reading>>
      /\ pc[c] = "saving" /\ pc'[c] = "idle" /\ ops'[c] = <<>> /\ overtaken'[c] = overtaken[c]
      /\ \A s \in Streams : wVersion'[c][s] = 0
  BY <1>1 DEF Commit, Publish, EndTx, GoTo, NoWrite, TypeOK
<1>3. DOMAIN <<>> = {} /\ ~(0 > 0)
  OBVIOUS
<1>4. \A s \in Streams : IsTracked(c, s)' <=> IsTracked(c, s)
  BY <1>2 DEF IsTracked
<1>5. \A s \in Streams : version[s] <= version'[s] /\ version'[s] = Visible(c, s)
                         /\ version[s] \in Nat /\ version'[s] \in Nat /\ wVersion[c][s] \in Nat
  BY <1>1, PublishGrows DEF TypeOK
<1>6. SaveInv(c)'
  <2>1. reading'[c] = {}
    BY <1>1, <1>2 DEF SaveInv
  <2>2. ASSUME NEW s \in Streams, IsTracked(c, s)' PROVE InSession(c)' => version'[s] > 0
    <3>1. InSession(c)' => version[s] > 0
      BY <1>1, <1>2, <1>4, <2>2 DEF SaveInv, InSession
    <3> QED BY <1>5, <3>1
  <2> QED BY <1>2, <1>3, <2>1, <2>2 DEF SaveInv
<1>7. ASSUME NEW s \in Streams \ overtaken'[c], IsTracked(c, s)' PROVE tracked'[c][s].version = version'[s]
  <2>1. CASE wVersion[c][s] > 0
    BY <1>1, <1>2, <1>4, <1>5, <1>7, <2>1 DEF SaveInv, Visible
  <2>2. CASE ~(wVersion[c][s] > 0)
    <3>1. ASSUME NEW i \in DOMAIN ops[c] PROVE ops[c][i].stream # s
      <4>1. i \in Nat /\ i <= Len(ops[c]) /\ Len(ops[c]) \in Nat
        BY <1>1, QueuedType
      <4>2. at[c] \in Nat /\ at[c] > Len(ops[c])
        BY <1>1 DEF Publish, TypeOK
      <4>3. i < at[c]
        BY <4>1, <4>2
      <4> QED BY <1>1, <2>2, <4>3 DEF SaveInv
    <3>2. tracked[c][s].version = version[s]
      BY <1>1, <1>2, <1>4, <1>7, <3>1 DEF UpToDate
    <3> QED BY <1>2, <1>5, <2>2, <3>2 DEF Visible
  <2> QED BY <2>1, <2>2
<1>8. UpToDate(c)'
  BY <1>2, <1>3, <1>7 DEF UpToDate
<1> QED BY <1>1, <1>6, <1>8, ConflictPublish

\* A commit whose answer is lost is not tried again.
LEMMA ConflictUnknown ==
  ASSUME IInv, ConflictInv, TypeOK', NEW c \in Clients, \A d \in Clients \ {c} : Untouched(d),
         CommitUnknown(c)
  PROVE  ConflictInv'
<1>1. TypeOK /\ Publish(c) /\ SaveInv(c)
  BY DEF IInv, CommitUnknown, ConflictInv
<1>2. /\ UNCHANGED <<order, tracked, via, reading, ops>>
      /\ pc[c] = "saving" /\ pc'[c] = "failed" /\ at'[c] = 1
      /\ \A s \in Streams : wVersion'[c][s] = 0
  BY <1>1 DEF CommitUnknown, Publish, EndTx, GoTo, NoWrite, TypeOK
<1>3. SaveInv(c)'
  <2>1. \A i \in DOMAIN ops'[c] : ~(i < at'[c])
    <3>1. \A i \in DOMAIN ops'[c] : i \in Nat /\ i > 0
      <4>1. ops'[c] \in Seq(Operations)
        BY DEF TypeOK
      <4> QED BY <4>1
    <3> QED BY <1>2, <3>1
  <2>2. ~(0 > 0) /\ reading'[c] = {}
    BY <1>1, <1>2 DEF SaveInv
  <2>3. ASSUME NEW y \in Streams, IsTracked(c, y)'
        PROVE  (InSession(c)' => version'[y] > 0) /\ ~(wVersion'[c][y] > 0)
    <3>1. version[y] <= version'[y] /\ version[y] \in Nat /\ version'[y] \in Nat
      BY <1>1, PublishGrows
    <3>2. InSession(c)' => version[y] > 0
      BY <1>1, <1>2, <2>3 DEF SaveInv, InSession, IsTracked
    <3> QED BY <1>2, <2>2, <3>1, <3>2
  <2> QED BY <1>1, <1>2, <2>1, <2>2, <2>3 DEF SaveInv, InSession
<1>4. UpToDate(c)'
  BY <1>2 DEF UpToDate
<1> QED BY <1>1, <1>3, <1>4, ConflictPublish

LEMMA ConflictInit == Init => ConflictInv
<1> SUFFICES ASSUME Init PROVE ConflictInv
  OBVIOUS
<1>1. dismissed = {} /\ \A s \in Streams : snaps[s].version <= version[s]
  BY DEF Init, NoSnapshot, NoWrite
<1>2. ASSUME NEW c \in Clients PROVE SaveInv(c) /\ UpToDate(c)
  <2>1. DOMAIN <<>> = {}
    OBVIOUS
  <2>2. order[c] = <<>> /\ ops[c] = <<>> /\ pc[c] = "idle" /\ reading[c] = {}
    BY DEF Init
  <2>3. \A s \in Streams : ~IsTracked(c, s)
    BY <2>1, <2>2 DEF IsTracked
  <2> QED BY <2>1, <2>2, <2>3 DEF SaveInv, UpToDate
<1> QED BY <1>1, <1>2 DEF ConflictInv

\* Every step preserves the invariant.
LEMMA ConflictStep == IInv /\ OnceInv /\ Plain /\ ConflictInv /\ [Next]_vars => ConflictInv'
<1> SUFFICES ASSUME IInv, OnceInv, Plain, ConflictInv, [Next]_vars PROVE ConflictInv'
  OBVIOUS
<1>1. TypeOK /\ TypeOK'
  BY InvStep DEF IInv
<1>2. CASE UNCHANGED vars
  <2>1. \A d \in Clients : Untouched(d)
    BY <1>2 DEF vars, memVars, saveVars, Untouched
  <2>2. UNCHANGED <<version, snaps, dismissed, expect, overtaken>>
    BY <1>2 DEF vars, dbVars, saveVars, historyVars
  <2>3. \A s \in Streams : version[s] <= version'[s]
    BY <1>1, <2>2 DEF TypeOK
  <2>4. \A d \in Clients : SaveInv(d)' /\ UpToDate(d)'
    BY <1>1, <2>1, <2>2, <2>3, ConflictUntouched DEF ConflictInv
  <2> QED BY <2>2, <2>4 DEF ConflictInv
<1>3. ASSUME NEW c \in Clients, SaveStep(c) \/ ClientStep(c) PROVE ConflictInv'
  <2>1. \A d \in Clients \ {c} : Untouched(d)
    BY <1>1, <1>3, ReadingAlone
  <2>2. ~Publish(c) => \A d \in Clients \ {c} : expect'[d] = expect[d] /\ overtaken'[d] = overtaken[d]
    BY <1>1, <1>3, ConflictAlone
  <2>3. pc[c] \in {"idle", "loading"} => at[c] = 1 /\ \A s \in Streams : wVersion[c][s] = 0
    BY AtRest DEF Running
  <2>4. CASE ResolveVersion(c)
    <3>1. ~Publish(c)
      BY <2>4 DEF ResolveVersion, HasOp, Publish, IInv, TypeOK
    <3> QED BY <1>1, <2>1, <2>2, <2>4, <3>1, ConflictResolve
  <2>5. CASE AppendOp(c)
    <3>1. ~Publish(c)
      BY <2>5 DEF AppendOp, GateOpen, HasOp, Publish, IInv, TypeOK
    <3> QED BY <1>1, <2>1, <2>2, <2>5, <3>1, ConflictAppend
  <2>6. CASE Reject(c) \/ DeadlockVictim(c) \/ DbError(c)
    <3>1. Rollback(c)
      BY <2>6 DEF Reject, DeadlockVictim, DbError
    <3>2. Running(c)
      <4>1. DeadlockVictim(c) => HasOp(c)
        BY DEF DeadlockVictim, WaitsFor
      <4> QED BY <2>6, <4>1 DEF Reject, GateOpen, HasOp, DbError
    <3>3. \A d \in Clients \ {c} : expect'[d] = expect[d] /\ overtaken'[d] = overtaken[d]
      BY <1>1, <3>1 DEF Rollback, EndTx, historyVars, TypeOK
    <3> QED BY <1>1, <2>1, <3>1, <3>2, <3>3, ConflictRollback
  <2>7. CASE Commit(c)
    BY <1>1, <2>1, <2>7, ConflictCommit
  <2>8. CASE CommitUnknown(c)
    BY <1>1, <2>1, <2>8, ConflictUnknown
  <2>9. ASSUME NEW s \in Streams, StartStream(c, s) \/ AppendEvents(c, s) \/ AppendUnsafe(c, s) PROVE ConflictInv'
    <3>1. PICK kind \in {"startStream", "append", "appendUnsafe"}, expected \in Nat \cup {Unknown} :
            /\ Queue(c, kind, s, expected) /\ (kind = "startStream" => expected = 0)
            /\ (expected > 0 => expected = version[s])
      BY <1>1, <2>9 DEF StartStream, AppendEvents, AppendUnsafe, Unknown, TypeOK
    <3>2. at[c] = 1
      BY <2>3, <3>1 DEF Queue
    <3> QED BY <1>1, <2>1, <3>1, <3>2, ConflictQueue
  <2>10. ASSUME NEW s \in Streams, LoadSnapshotRow(c, s) PROVE ConflictInv'
    BY <1>1, <2>1, <2>3, <2>10, ConflictReading DEF LoadSnapshotRow
  <2>11. ASSUME NEW s \in Streams PROVE ~LoadSnapshotOnly(c, s)
    BY DEF LoadSnapshotOnly, Plain
  <2>12. ASSUME NEW s \in Streams, Raise(c, s) PROVE ConflictInv'
    BY <1>1, <2>1, <2>12, ConflictRaise
  <2>13. CASE LoadStream(c)
    BY <1>1, <2>1, <2>3, <2>13, ConflictLoad DEF LoadStream
  <2>14. CASE BeginSave(c)
    BY <1>1, <2>1, <2>3, <2>14, ConflictBegin DEF BeginSave
  <2>15. CASE NewSession(c)
    <3>1. ~Publish(c)
      BY <2>15 DEF NewSession, Publish
    <3> QED BY <1>1, <2>1, <2>2, <2>15, <3>1, ConflictNew
  <2>16. ~KeepSession(c)
    BY DEF KeepSession, Plain
  <2> QED BY <1>3, <2>4, <2>5, <2>6, <2>7, <2>8, <2>9, <2>10, <2>11, <2>12, <2>13, <2>14, <2>15, <2>16
          DEF SaveStep, ClientStep
<1>4. \A e \in Events : ~Dismiss(e)
  BY DEF Dismiss, Plain
<1> QED BY <1>2, <1>3, <1>4 DEF Next

\* Where nothing is tried again in the same session, a save is rejected for a
\* stream that exists only when another session has committed to it, or when an
\* earlier operation of the same save has.
THEOREM ConflictsAreReal == ASSUME Plain PROVE Spec => ConflictIsReal
<1>1. NeverUnsafe
  BY DEF Plain, NeverUnsafe
<1>2. Init => IInv /\ OnceInv /\ ConflictInv
  BY InvInit, OnceInit, ConflictInit
<1>3. IInv /\ OnceInv /\ ConflictInv /\ [Next]_vars => (IInv /\ OnceInv /\ ConflictInv)'
  BY <1>1, InvStep, OnceStep, ConflictStep
<1>4. ASSUME IInv, ConflictInv, NEW c \in Clients, Reject(c), Expected(c) > 0,
             Op(c).stream \notin overtaken[c], ~(wVersion[c][Op(c).stream] > 0)
      PROVE  FALSE
  <2>1. TypeOK /\ SaveInv(c) /\ UpToDate(c)
    BY <1>4 DEF IInv, ConflictInv
  <2>2. PICK s \in Streams : s = Op(c).stream
    BY <1>4, <2>1, OpType DEF Reject
  <2>3. Visible(c, s) = version[s] /\ s \in Streams \ overtaken[c]
    BY <1>4, <2>2 DEF Visible
  <2>4. Visible(c, s) # Expected(c) /\ Running(c) /\ at[c] <= Len(ops[c])
    BY <1>4, <2>2 DEF Reject, Passes, GateOpen, HasOp
  <2>5. CASE pc[c] = "gate"
    BY <2>1, <2>2, <2>3, <2>4, <2>5 DEF UpToDate, Expected
  <2>6. CASE pc[c] = "saving"
    <3>1. at[c] \in DOMAIN ops[c] /\ ops[c][at[c]].stream = s /\ ops[c][at[c]].expected = Expected(c)
      BY <2>1, <2>2, <2>4, <2>6 DEF TypeOK, Op, Expected
    <3>2. \A j \in DOMAIN ops[c] : j < at[c] => ops[c][j].stream # s
      BY <1>4, <2>1, <2>2 DEF SaveInv
    <3>3. ops[c][at[c]].expected = version[s]
      BY <1>4, <2>1, <2>3, <2>6, <3>1, <3>2 DEF UpToDate
    <3> QED BY <2>3, <2>4, <3>1, <3>3
  <2> QED BY <2>4, <2>5, <2>6 DEF Running
<1>5. IInv /\ ConflictInv /\ [Next]_vars
        => [\A c \in Clients : Reject(c) /\ Expected(c) > 0 =>
              \/ Op(c).stream \in overtaken[c]
              \/ wVersion[c][Op(c).stream] > 0]_vars
  BY <1>4
<1> QED BY <1>2, <1>3, <1>5, PTL DEF Spec, ConflictIsReal
=============================================================================
