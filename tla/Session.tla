------------------------------- MODULE Session -------------------------------
(***************************************************************************)
(* The write side: Session (identity map, queued operations,               *)
(* saveChangesAsync), AggregateRoot, PgEventStore.append with its gate on  *)
(* stream_versions, and the snapshots a save takes.                        *)
(*                                                                         *)
(* A client owns one session at a time, or works on one aggregate through  *)
(* a Repository: that is a session for one aggregate, and without a queue, *)
(* since what a save has pulled is a local of its callback.                *)
(* Every awaited statement that shared state can tell apart is a step; the *)
(* row of stream_versions a transaction wrote stays locked until it ends,  *)
(* which serialises the events and the snapshot of that stream with it.    *)
(* The state of an aggregate is the set of the events folded into it.      *)
(***************************************************************************)
EXTENDS Integers, Sequences, FiniteSets

CONSTANTS
  Clients, Streams,
  MaxEvents,                  \* bound: events ever created
  EveryNEvents,               \* the snapshot policy (0: none)
  Api,                        \* the operations each client uses
  Reuse,                      \* the clients that keep what they have after a failed save
  Faults, MaxFaults           \* failures that may happen, and how many

Events == 1 .. MaxEvents
Unknown == -1                 \* expectedVersion of appendUnsafe

ASSUME SessionAssumption ==
  /\ MaxEvents \in Nat /\ EveryNEvents \in Nat /\ MaxFaults \in Nat
  /\ Reuse \subseteq Clients /\ IsFiniteSet(Streams)
  /\ Api \in [Clients -> SUBSET {"startStream", "append", "appendUnsafe", "load", "loadSnapshot",
                               "dismiss", "repository"}]

VARIABLES
  version,    \* stream_versions.current_version (0: no row)
  rows,       \* the events table; stream, version and event identify a row
  dismissed,  \* events with dismissed_at set
  snaps,      \* the snapshots table (version 0: no row)
  via,        \* what each client works through
  order,      \* loadedAggregates: the streams, in insertion order ...
  tracked,    \* ... and their aggregates: version, state, pending events
  ops,        \* pendingOperations
  pc, at,     \* where a session is, and in which operation of a save
  expect,     \* the version appendUnsafe read
  reading,    \* the load in progress, if any: its stream and snapshot
  wVersion, wRows,  \* what the open transaction wrote
  lastEvent,  \* history: events created
  basis,      \* history: the state each event was decided on (NotDecided: none)
  mine,       \* history: events of the session not yet saved
  overtaken,  \* history: streams others committed to since the session read them
  faults      \* failures left

dbVars == <<version, rows, dismissed, snaps>>
memVars == <<via, order, tracked, ops>>
saveVars == <<at, expect, wVersion, wRows>>
historyVars == <<lastEvent, basis, mine, overtaken>>
vars == <<dbVars, memVars, pc, reading, saveVars, historyVars, faults>>

Fresh == [version |-> 0, state |-> {}, pending |-> <<>>]
NotDecided == {0}
NoSnapshot == [version |-> 0, state |-> {}]
NoWrite == [s \in Streams |-> 0]
Rows == [stream : Streams, version : Nat \ {0}, event : Events]
Snapshots == [version : Nat, state : SUBSET Events]
Aggregates == [version : Nat, state : SUBSET Events, pending : Seq(Events)]
Operations == [kind : {"startStream", "append"}, stream : Streams,
               expected : Nat \cup {Unknown}, events : Seq(Events)]

TypeOK ==
  /\ version \in [Streams -> Nat] /\ rows \subseteq Rows
  /\ dismissed \subseteq Events /\ snaps \in [Streams -> Snapshots]
  /\ via \in [Clients -> {"session", "repository"}]
  /\ order \in [Clients -> Seq(Streams)] /\ ops \in [Clients -> Seq(Operations)]
  /\ tracked \in [Clients -> [Streams -> Aggregates]]
  /\ pc \in [Clients -> {"idle", "loading", "saving", "gate", "failed"}]
  /\ at \in [Clients -> Nat \ {0}] /\ expect \in [Clients -> Nat]
  /\ reading \in [Clients -> SUBSET [stream : Streams, snap : Snapshots]]
  /\ wVersion \in [Clients -> [Streams -> Nat]]
  /\ wRows \in [Clients -> SUBSET Rows]
  /\ lastEvent \in 0 .. MaxEvents /\ faults \in Nat
  /\ basis \in [Events -> (SUBSET Events) \cup {NotDecided}]
  /\ mine \in [Clients -> SUBSET Events] /\ overtaken \in [Clients -> SUBSET Streams]

Init ==
  /\ version = NoWrite /\ rows = {} /\ dismissed = {}
  /\ snaps = [s \in Streams |-> NoSnapshot]
  /\ via = [c \in Clients |-> "session"]
  /\ order = [c \in Clients |-> <<>>]
  /\ tracked = [c \in Clients |-> [s \in Streams |-> Fresh]]
  /\ ops = [c \in Clients |-> <<>>]
  /\ pc = [c \in Clients |-> "idle"] /\ at = [c \in Clients |-> 1]
  /\ expect = [c \in Clients |-> 0] /\ reading = [c \in Clients |-> {}]
  /\ wVersion = [c \in Clients |-> NoWrite] /\ wRows = [c \in Clients |-> {}]
  /\ lastEvent = 0 /\ basis = [e \in Events |-> NotDecided]
  /\ mine = [c \in Clients |-> {}] /\ overtaken = [c \in Clients |-> {}]
  /\ faults = MaxFaults

InSession(c) == via[c] = "session"
IsTracked(c, s) == \E i \in DOMAIN order[c] : order[c][i] = s
GoTo(c, label) == pc' = [pc EXCEPT ![c] = label]
EventsIn(rs) == {r.event : r \in rs}

\* The client makes its next event, in memory only.
Create(c) ==
  /\ lastEvent < MaxEvents
  /\ lastEvent' = lastEvent + 1
  /\ mine' = [mine EXCEPT ![c] = @ \cup {lastEvent'}]

-----------------------------------------------------------------------------
(* The API of the session: nothing reaches the database before a save.     *)

Queue(c, kind, s, expected) ==
  /\ pc[c] = "idle" /\ InSession(c) /\ kind \in Api[c]
  /\ Create(c)
  /\ ops' = [ops EXCEPT ![c] = Append(@,
       [kind |-> IF kind = "startStream" THEN kind ELSE "append", stream |-> s,
        expected |-> expected, events |-> <<lastEvent'>>])]
  /\ UNCHANGED <<dbVars, via, order, tracked, pc, reading, saveVars, basis, overtaken, faults>>

StartStream(c, s) == Queue(c, "startStream", s, 0)

\* The caller passes the version it read last, here the current one.
AppendEvents(c, s) == version[s] > 0 /\ Queue(c, "append", s, version[s])

AppendUnsafe(c, s) == Queue(c, "appendUnsafe", s, Unknown)

\* A session has each aggregate once, and throws when there is no stream; a
\* repository makes an aggregate of an empty history, too.
Loadable(c, s) ==
  \/ InSession(c) /\ "load" \in Api[c] /\ ~IsTracked(c, s) /\ version[s] > 0
  \/ ~InSession(c) /\ order[c] = <<>>

\* loadAggregateAsync, and load of a repository: first the snapshot ...
LoadSnapshotRow(c, s) ==
  /\ pc[c] = "idle" /\ Loadable(c, s)
  /\ reading' = [reading EXCEPT ![c] = {[stream |-> s, snap |-> snaps[s]]}]
  /\ GoTo(c, "loading")
  /\ UNCHANGED <<dbVars, memVars, saveVars, historyVars, faults>>

Track(c, s, agg) ==
  /\ tracked' = [tracked EXCEPT ![c][s] = agg]
  /\ order' = [order EXCEPT ![c] = IF IsTracked(c, s) THEN @ ELSE Append(@, s)]
  /\ overtaken' = [overtaken EXCEPT ![c] =
       IF \E i \in DOMAIN ops[c] : ops[c][i].stream = s THEN @ ELSE @ \ {s}]

\* The history loadStream returns: versions past the snapshot, not dismissed.
Replayed(s, snap) ==
  {r \in rows : r.stream = s /\ r.version > snap.version /\ r.event \notin dismissed}

\* ... then the events after it; the version is that of the last one applied.
LoadStream(c) ==
  /\ pc[c] = "loading"
  /\ \E load \in reading[c] :
       LET history == Replayed(load.stream, load.snap)
           versions == {load.snap.version} \cup {r.version : r \in history}
       IN \E last \in versions :
            /\ \A v \in versions : v <= last
            /\ Track(c, load.stream, [version |-> last, pending |-> <<>>,
                                     state |-> load.snap.state \cup EventsIn(history)])
  /\ reading' = [reading EXCEPT ![c] = {}]
  /\ GoTo(c, "idle")
  /\ UNCHANGED <<dbVars, via, ops, saveVars, lastEvent, basis, mine, faults>>

\* loadSnapshotAsync puts a bare snapshot in the map, over what was there.
LoadSnapshotOnly(c, s) ==
  /\ pc[c] = "idle" /\ InSession(c) /\ "loadSnapshot" \in Api[c]
  /\ snaps[s].version > 0
  /\ Track(c, s, [version |-> snaps[s].version, state |-> snaps[s].state, pending |-> <<>>])
  /\ UNCHANGED <<dbVars, via, ops, pc, reading, saveVars, lastEvent, basis, mine, faults>>

\* A domain method raises an event on a loaded aggregate.
Raise(c, s) ==
  /\ pc[c] = "idle" /\ IsTracked(c, s)
  /\ Create(c)
  /\ basis' = [basis EXCEPT ![lastEvent'] = tracked[c][s].state]
  /\ tracked' = [tracked EXCEPT ![c][s].state = @ \cup {lastEvent'},
                                ![c][s].pending = Append(@, lastEvent')]
  /\ UNCHANGED <<dbVars, via, order, ops, pc, reading, saveVars, overtaken, faults>>

-----------------------------------------------------------------------------
(* saveChangesAsync.                                                       *)

\* Mistake: operations left by a failed save are replaced.
WrongSubmitted(c, pulled) == IF pulled = <<>> THEN ops[c] ELSE pulled

Submitted(c, pulled) == ops[c] \o pulled

Dirty(c) == {s \in Streams : IsTracked(c, s) /\ tracked[c][s].pending # <<>>}

InMapOrder(c, streams) ==
  \A i, j \in DOMAIN streams : i < j =>
    \E m, n \in DOMAIN order[c] : m < n /\ order[c][m] = streams[i] /\ order[c][n] = streams[j]

PulledOp(c, s) == [kind |-> "append", stream |-> s, expected |-> tracked[c][s].version,
                   events |-> tracked[c][s].pending]

\* pullPendingEvents of every tracked aggregate becomes an operation; BEGIN.
\* A repository begins first, and commits when there is nothing to append.
BeginSave(c) ==
  /\ pc[c] = "idle"
  /\ \E streams \in [1 .. Cardinality(Dirty(c)) -> Dirty(c)] :
       LET pulled == [i \in DOMAIN streams |-> PulledOp(c, streams[i])]
       IN /\ InMapOrder(c, streams)
          /\ InSession(c) => Submitted(c, pulled) # <<>>
          /\ ops' = [ops EXCEPT ![c] = Submitted(c, pulled)]
  /\ tracked' = [tracked EXCEPT ![c] = [s \in Streams |-> [@[s] EXCEPT !.pending = <<>>]]]
  /\ GoTo(c, "saving")
  /\ UNCHANGED <<dbVars, via, order, reading, saveVars, historyVars, faults>>

Op(c) == ops[c][at[c]]
Running(c) == pc[c] \in {"saving", "gate"}
HasOp(c) == Running(c) /\ at[c] <= Len(ops[c])

\* READ COMMITTED: the transaction's own write, else the committed version.
Visible(c, s) == IF wVersion[c][s] > 0 THEN wVersion[c][s] ELSE version[s]
LockFree(c, s) == \A d \in Clients \ {c} : wVersion[d][s] = 0

\* appendUnsafe: SELECT current_version, without a lock.
ResolveVersion(c) ==
  /\ pc[c] = "saving" /\ HasOp(c) /\ Op(c).expected = Unknown
  /\ expect' = [expect EXCEPT ![c] = Visible(c, Op(c).stream)]
  /\ GoTo(c, "gate")
  /\ UNCHANGED <<dbVars, memVars, reading, at, wVersion, wRows, historyVars, faults>>

\* Mistake: every append takes the version the stream has now.
WrongExpected(c) ==
  IF pc[c] = "gate" THEN expect[c]
  ELSE IF Op(c).expected > 0 THEN Visible(c, Op(c).stream) ELSE Op(c).expected

Expected(c) == IF pc[c] = "gate" THEN expect[c] ELSE Op(c).expected

\* Mistake: nobody waits for the row.
WrongGateOpen(c) == HasOp(c) /\ Expected(c) # Unknown

(* The statement on stream_versions can run: an INSERT waits for another   *)
(* writer of the key, an UPDATE for the writer of a row it can see.        *)
GateOpen(c) ==
  /\ HasOp(c) /\ Expected(c) # Unknown
  /\ \/ LockFree(c, Op(c).stream)
     \/ Expected(c) > 0 /\ Visible(c, Op(c).stream) = 0

\* Mistake: the UPDATE has no "AND current_version = expected".
WrongPasses(c) == IF Expected(c) = 0 THEN Visible(c, Op(c).stream) = 0
                                     ELSE Visible(c, Op(c).stream) > 0

\* One row inserted, or updated WHERE current_version = expected.
Passes(c) == Visible(c, Op(c).stream) = Expected(c)

\* Mistake: the tracked aggregate keeps the version it was loaded at.
WrongAdvanced(c, op, next) == tracked

Advanced(c, op, next) ==
  IF op.kind = "append" /\ IsTracked(c, op.stream)
  THEN [tracked EXCEPT ![c][op.stream].version = next] ELSE tracked

\* PgEventStore.append: bump the version, insert the events behind it.
AppendOp(c) ==
  LET op == Op(c)
      base == Expected(c)
      next == base + Len(op.events)
  IN /\ GateOpen(c) /\ Passes(c)
     /\ wVersion' = [wVersion EXCEPT ![c][op.stream] = next]
     /\ wRows' = [wRows EXCEPT ![c] = @ \cup
          {[stream |-> op.stream, version |-> base + i, event |-> op.events[i]] :
             i \in DOMAIN op.events}]
     /\ tracked' = Advanced(c, op, next)
     /\ at' = [at EXCEPT ![c] = @ + 1]
     /\ GoTo(c, "saving")
     /\ UNCHANGED <<dbVars, via, order, ops, reading, expect, historyVars, faults>>

EndTx(c) ==
  /\ wVersion' = [wVersion EXCEPT ![c] = NoWrite]
  /\ wRows' = [wRows EXCEPT ![c] = {}]
  /\ at' = [at EXCEPT ![c] = 1]
  /\ expect' = [expect EXCEPT ![c] = 0]

\* Mistake: the connection goes back to the pool with its transaction open.
WrongRollback(c) ==
  /\ GoTo(c, "failed")
  /\ UNCHANGED <<dbVars, memVars, reading, saveVars, historyVars>>

Rollback(c) ==
  /\ EndTx(c)
  /\ GoTo(c, "failed")
  /\ UNCHANGED <<dbVars, memVars, reading, historyVars>>

\* ConcurrencyError: the row exists, is gone, or has another version.
Reject(c) ==
  /\ GateOpen(c) /\ ~Passes(c)
  /\ Rollback(c)
  /\ UNCHANGED faults

\* Mistake: the state as loaded, without the events of this save.
WrongSnapshotState(c, s) ==
  (IF IsTracked(c, s) THEN tracked[c][s].state ELSE {})
    \ EventsIn({r \in wRows[c] : r.stream = s})

\* What the session believes the state is at the version it just wrote.
SnapshotState(c, s) ==
  IF IsTracked(c, s) THEN tracked[c][s].state
  ELSE EventsIn({r \in wRows[c] : r.stream = s})

Snapshotted(c, s) ==
  /\ wVersion[c][s] > 0 /\ EveryNEvents > 0
  /\ wVersion[c][s] % EveryNEvents = 0
  /\ snaps[s].version <= wVersion[c][s]

\* The snapshots the policy asks for, then COMMIT.
Publish(c) ==
  /\ pc[c] = "saving" /\ at[c] > Len(ops[c])
  /\ version' = [s \in Streams |-> Visible(c, s)]
  /\ rows' = rows \cup wRows[c]
  /\ snaps' = [s \in Streams |->
       IF Snapshotted(c, s)
       THEN [version |-> wVersion[c][s], state |-> SnapshotState(c, s)] ELSE snaps[s]]
  /\ overtaken' = [d \in Clients |-> IF d = c THEN overtaken[d]
       ELSE overtaken[d] \cup {s \in Streams : wVersion[c][s] > 0}]
  /\ EndTx(c)
  /\ UNCHANGED <<dismissed, via, order, tracked, reading, lastEvent, basis>>

Commit(c) ==
  /\ Publish(c)
  /\ ops' = [ops EXCEPT ![c] = <<>>]
  /\ mine' = [mine EXCEPT ![c] = {}]
  /\ GoTo(c, "idle")
  /\ UNCHANGED faults

-----------------------------------------------------------------------------
(* Failures, and what the client does about them.                          *)

Fault(kind) ==
  /\ kind \in Faults /\ faults > 0
  /\ faults' = faults - 1

\* A statement, an inline projection, a snapshot or the commit fails.
DbError(c) == Running(c) /\ Fault("dbError") /\ Rollback(c)

\* The commit is applied but the client sees an error.
CommitUnknown(c) ==
  /\ Fault("commitUnknown")
  /\ Publish(c)
  /\ GoTo(c, "failed")
  /\ UNCHANGED <<ops, mine>>

WaitsFor(c, d) ==
  /\ c # d /\ HasOp(c) /\ Expected(c) # Unknown
  /\ ~GateOpen(c) /\ wVersion[d][Op(c).stream] > 0

\* 40P01, which is no ConcurrencyError.
DeadlockVictim(c) ==
  /\ \E cycle \in SUBSET Clients :
       /\ c \in cycle
       /\ \A d \in cycle : (\E u \in cycle : WaitsFor(d, u)) /\ (\E u \in cycle : WaitsFor(u, d))
  /\ Rollback(c)
  /\ UNCHANGED faults

\* The documented way on: a new session, or the aggregate is loaded again.
NewSession(c) ==
  /\ pc[c] \in {"idle", "failed"}
  /\ \E w \in {"session"} \cup (Api[c] \cap {"repository"}) : via' = [via EXCEPT ![c] = w]
  /\ order' = [order EXCEPT ![c] = <<>>]
  /\ tracked' = [tracked EXCEPT ![c] = [s \in Streams |-> Fresh]]
  /\ ops' = [ops EXCEPT ![c] = <<>>]
  /\ mine' = [mine EXCEPT ![c] = {}]
  /\ overtaken' = [overtaken EXCEPT ![c] = {}]
  /\ GoTo(c, "idle")
  /\ UNCHANGED <<dbVars, reading, saveVars, lastEvent, basis, faults>>

\* What a failed save leaves queued: a repository loses what it pulled.
Kept(c) == IF InSession(c) THEN ops[c] ELSE <<>>

\* The versions and states in memory stay as they are after a failure.
KeepSession(c) ==
  /\ c \in Reuse /\ pc[c] = "failed"
  /\ ops' = [ops EXCEPT ![c] = Kept(c)]
  /\ GoTo(c, "idle")
  /\ UNCHANGED <<dbVars, via, order, tracked, reading, saveVars, historyVars, faults>>

Dismiss(e) ==
  /\ \E c \in Clients : "dismiss" \in Api[c]
  /\ e \in EventsIn(rows) \ dismissed
  /\ dismissed' = dismissed \cup {e}
  /\ UNCHANGED <<version, rows, snaps, memVars, pc, reading, saveVars, historyVars, faults>>

SaveStep(c) ==
  \/ ResolveVersion(c) \/ AppendOp(c) \/ Reject(c) \/ Commit(c) \/ DeadlockVictim(c)

ClientStep(c) ==
  \/ \E s \in Streams :
       \/ StartStream(c, s) \/ AppendEvents(c, s) \/ AppendUnsafe(c, s)
       \/ LoadSnapshotRow(c, s) \/ LoadSnapshotOnly(c, s) \/ Raise(c, s)
  \/ LoadStream(c) \/ BeginSave(c) \/ NewSession(c) \/ KeepSession(c)
  \/ DbError(c) \/ CommitUnknown(c)

Next ==
  \/ \E c \in Clients : SaveStep(c) \/ ClientStep(c)
  \/ \E e \in Events : Dismiss(e)

Spec == Init /\ [][Next]_vars

\* A save that has begun runs on: the event loop and the database answer.
FairSpec == Spec /\ \A c \in Clients : WF_vars(SaveStep(c))
=============================================================================
