-------------------------- MODULE SessionProperties --------------------------
(* What is claimed of Session.                                             *)
EXTENDS Session

RowsOf(s) == {r \in rows : r.stream = s}

(* The versions of a stream are 1 to current_version, each with one event, *)
(* whichever sessions race for them and however their transactions end.    *)
StreamsGapless ==
  \A s \in Streams :
    /\ {r.version : r \in RowsOf(s)} = 1 .. version[s]
    /\ \A a, b \in RowsOf(s) : a.version = b.version => a = b

(* An event is stored at most once, though a session keeps its operations  *)
(* and submits them again after a save whose commit was ambiguous.         *)
EventOnce == \A a, b \in rows : a.event = b.event => a = b

(* No lost update: an event an aggregate raised was decided on a state     *)
(* with every event before it in the stream (dismissed ones aside) and     *)
(* nothing else.                                                           *)
DecidedOnLatest ==
  \A r \in rows : basis[r.event] # NotDecided =>
    LET before == EventsIn({q \in RowsOf(r.stream) : q.version < r.version})
    IN before \ dismissed \subseteq basis[r.event] /\ basis[r.event] \subseteq before

(* A snapshot is the fold of its stream up to its version: loading through *)
(* it gives the state a full replay gives.                                 *)
SnapshotFaithful ==
  \A s \in Streams :
    LET upTo == EventsIn({r \in RowsOf(s) : r.version <= snaps[s].version})
    IN upTo \ dismissed \subseteq snaps[s].state /\ snaps[s].state \subseteq upTo

(* A save that succeeds has stored every event of its session, unless the  *)
(* client calls loadSnapshotAsync, which replaces aggregates in the map.   *)
NothingDropped ==
  [][\A c \in Clients : pc[c] = "saving" /\ pc'[c] = "idle" /\ "loadSnapshot" \notin Api[c]
       => mine[c] \subseteq EventsIn(rows')]_vars

(* A ConcurrencyError on an existing stream means that another session     *)
(* committed to it since this one read it, or that an earlier operation of *)
(* the same save already moved it.                                         *)
ConflictIsReal ==
  [][\A c \in Clients : Reject(c) /\ Expected(c) > 0 =>
       \/ Op(c).stream \in overtaken[c]
       \/ wVersion[c][Op(c).stream] > 0]_vars

\* No save hangs: lock waits and deadlocks between sessions are resolved.
SaveEnds == \A c \in Clients : Running(c) ~> ~Running(c)

-----------------------------------------------------------------------------
(* The inductive invariant behind the theorem of SessionProofs.            *)

Own(c, s) == {r \in wRows[c] : r.stream = s}

(* A transaction that has bumped a stream holds the row alone, and its     *)
(* events carry on from the committed version without a gap.               *)
TxOk(c, s) ==
  LET from == IF wVersion[c][s] > 0 THEN version[s] ELSE 0
  IN /\ wVersion[c][s] > 0 => version[s] <= wVersion[c][s] /\ LockFree(c, s)
     /\ {r.version : r \in Own(c, s)} = from + 1 .. wVersion[c][s]
     /\ \A a, b \in Own(c, s) : a.version = b.version => a = b
     /\ ~Running(c) => wVersion[c][s] = 0

IInv == TypeOK /\ StreamsGapless /\ (\A c \in Clients, s \in Streams : TxOk(c, s))

-----------------------------------------------------------------------------
(* The inductive invariant behind EventOnce.                               *)

InQueue(c, e) == \E i \in DOMAIN ops[c] : \E k \in DOMAIN ops[c][i].events : ops[c][i].events[k] = e
InPending(c, e) == \E s \in Streams : \E k \in DOMAIN tracked[c][s].pending : tracked[c][s].pending[k] = e
Stored(e) == \E r \in rows : r.event = e

\* What a session has made and not saved is its own, and is there once.
OwnInv(c) ==
  /\ \A e \in Events : InQueue(c, e) \/ InPending(c, e) => e \in mine[c]
  /\ \A e \in Events : ~(InQueue(c, e) /\ InPending(c, e))
  /\ \A i, j \in DOMAIN ops[c] : \A k \in DOMAIN ops[c][i].events, l \in DOMAIN ops[c][j].events :
       ops[c][i].events[k] = ops[c][j].events[l] => i = j /\ k = l
  /\ \A s, t \in Streams : \A k \in DOMAIN tracked[c][s].pending, l \in DOMAIN tracked[c][t].pending :
       tracked[c][s].pending[k] = tracked[c][t].pending[l] => s = t /\ k = l
  /\ \A i \in DOMAIN ops[c] : ops[c][i].events # <<>>
  /\ \A m, n \in DOMAIN order[c] : order[c][m] = order[c][n] => m = n

\* A transaction has written what its operations up to now hold.
WroteInv(c) ==
  /\ \A r \in wRows[c] :
       \E i \in DOMAIN ops[c] : i < at[c] /\ \E k \in DOMAIN ops[c][i].events : r.event = ops[c][i].events[k]
  /\ \A a, b \in wRows[c] : a.event = b.event => a = b
  /\ pc[c] \in {"saving", "gate", "failed"} => \A s \in Streams : tracked[c][s].pending = <<>>
  /\ ~Running(c) => at[c] = 1
  /\ at[c] = 1 => wRows[c] = {} /\ \A s \in Streams : wVersion[c][s] = 0

\* The first operation in the queue can never run again.
Stuck(c) == ops[c] # <<>> /\ at[c] = 1 /\ ops[c][1].expected < version[ops[c][1].stream]

\* What was stored of a queue is submitted again only behind an operation that
\* is stuck.
SpentInv(c) ==
  /\ \A e \in Events : InPending(c, e) => ~Stored(e)
  /\ \A e \in Events : InQueue(c, e) /\ Stored(e) =>
       (c \in Reuse /\ Stuck(c)) \/ (pc[c] = "failed" /\ ~(c \in Reuse /\ InSession(c)))
  /\ c \in Reuse =>
       /\ pc[c] # "gate" /\ \A i \in DOMAIN ops[c] : ops[c][i].expected # Unknown
       /\ at[c] > 1 => ops[c] # <<>> /\ wVersion[c][ops[c][1].stream] > ops[c][1].expected

OnceInv ==
  /\ EventOnce
  /\ \A e \in Events : Stored(e) => e <= lastEvent
  /\ \A c \in Clients : \A e \in mine[c] : e <= lastEvent
  /\ \A c, d \in Clients : c # d => mine[c] \cap mine[d] = {}
  /\ \A c \in Clients : OwnInv(c) /\ WroteInv(c) /\ SpentInv(c)

\* A kept session that expects no version would append its events again.
NeverUnsafe == \A c \in Reuse : "appendUnsafe" \notin Api[c]

-----------------------------------------------------------------------------
(* The inductive invariant behind DecidedOnLatest and SnapshotFaithful.    *)

\* The use of sessions for which they hold: state is loaded before it is decided
\* on, and what a failed save leaves behind is kept by plain sessions only.
Disciplined ==
  /\ \A c \in Clients : Api[c] \cap {"append", "appendUnsafe"} = {}
  /\ \A c \in Reuse : Api[c] \cap {"loadSnapshot", "repository"} = {}

Unsaved(c, s, e) ==
  \/ \E i \in DOMAIN ops[c] : ops[c][i].stream = s /\ \E k \in DOMAIN ops[c][i].events : ops[c][i].events[k] = e
  \/ \E k \in DOMAIN tracked[c][s].pending : tracked[c][s].pending[k] = e

Past(s, v, e) == \E r \in rows : r.stream = s /\ r.version <= v /\ r.event = e

\* A state that folds the stream up to version v, and the unsaved events before x.
Folds(c, s, v, x, state) ==
  /\ \A e \in Events : Past(s, v, e) /\ e \notin dismissed => e \in state
  /\ \A e \in Events : Unsaved(c, s, e) /\ e < x => e \in state
  /\ \A e \in state : Past(s, v, e) \/ (Unsaved(c, s, e) /\ e < x)

\* What will be stored of a stream is stored behind version v.
Expects(c, s, v) ==
  /\ \A i \in DOMAIN ops[c] :
       ops[c][i].stream = s /\ (\A j \in DOMAIN ops[c] : j < i => ops[c][j].stream # s) => ops[c][i].expected = v
  /\ (\A i \in DOMAIN ops[c] : ops[c][i].stream # s) => tracked[c][s].version = v

\* An aggregate was loaded at version v, and its unsaved events were decided in
\* turn on that state.
KnownAt(c, s, v) ==
  /\ v <= version[s] /\ Expects(c, s, v)
  /\ Folds(c, s, v, MaxEvents + 1, tracked[c][s].state)
  /\ \A e \in Events : Unsaved(c, s, e) => Folds(c, s, v, e, basis[e])

\* An operation expects a version that the stream has left behind: no save of
\* this queue can succeed.
Doomed(c) == \E i \in DOMAIN ops[c] : ops[c][i].expected < version[ops[c][i].stream]

\* The session may still store what it holds.
Live(c) == (pc[c] = "failed" => c \in Reuse) /\ ~Doomed(c)

Faithful(s, snap) ==
  /\ snap.version <= version[s]
  /\ \A e \in Events : Past(s, snap.version, e) /\ e \notin dismissed => e \in snap.state
  /\ \A e \in snap.state : Past(s, snap.version, e)

\* Where the operations and the aggregates of a session come from.
OriginInv(c) ==
  /\ \A i \in DOMAIN ops[c] :
       /\ ops[c][i].expected \in Nat
       /\ ops[c][i].kind = "startStream" =>
            /\ ops[c][i].expected = 0 /\ InSession(c)
            /\ \A k \in DOMAIN ops[c][i].events : basis[ops[c][i].events[k]] = NotDecided
       /\ ops[c][i].kind = "append" => IsTracked(c, ops[c][i].stream)
       /\ c \notin Reuse /\ pc[c] \in {"idle", "loading"} => ops[c][i].kind = "startStream"
  /\ \A s \in Streams : InSession(c) /\ IsTracked(c, s) => version[s] > 0
  /\ \A s \in Streams : ~IsTracked(c, s) => tracked[c][s].pending = <<>>
  /\ \A load \in reading[c] :
       /\ pc[c] = "loading" /\ ~IsTracked(c, load.stream) /\ Faithful(load.stream, load.snap)
       /\ InSession(c) => version[load.stream] > 0
  /\ ~InSession(c) => c \notin Reuse
  /\ pc[c] # "gate"

\* The unsaved events of a stream are in the order they were made in.
SortedInv(c) ==
  /\ \A i, j \in DOMAIN ops[c] : \A k \in DOMAIN ops[c][i].events, l \in DOMAIN ops[c][j].events :
       ops[c][i].stream = ops[c][j].stream /\ (i < j \/ (i = j /\ k < l))
         => ops[c][i].events[k] < ops[c][j].events[l]
  /\ \A i \in DOMAIN ops[c] : \A k \in DOMAIN ops[c][i].events, l \in DOMAIN tracked[c][ops[c][i].stream].pending :
       ops[c][i].events[k] < tracked[c][ops[c][i].stream].pending[l]
  /\ \A s \in Streams : \A k, l \in DOMAIN tracked[c][s].pending :
       k < l => tracked[c][s].pending[k] < tracked[c][s].pending[l]

\* What a transaction has done is what its operations up to now say.
DoneInv(c) ==
  /\ \A i \in DOMAIN ops[c] : i < at[c] =>
       /\ version[ops[c][i].stream] <= ops[c][i].expected /\ wVersion[c][ops[c][i].stream] > 0
       /\ \A k \in DOMAIN ops[c][i].events :
            \E r \in wRows[c] : r.stream = ops[c][i].stream /\ r.event = ops[c][i].events[k]
  /\ \A r \in wRows[c] : \E i \in DOMAIN ops[c] :
       i < at[c] /\ r.stream = ops[c][i].stream /\ \E k \in DOMAIN ops[c][i].events : r.event = ops[c][i].events[k]
  /\ \A s \in Streams : wVersion[c][s] > 0 =>
       /\ \E i \in DOMAIN ops[c] : i < at[c] /\ ops[c][i].stream = s
                                  /\ \A j \in DOMAIN ops[c] : j < i => ops[c][j].stream # s
       /\ IsTracked(c, s) => tracked[c][s].version = wVersion[c][s]

\* What a live session stores of a stream, it stores in the order it was made in.
InOrder(c) ==
  \A a, b \in wRows[c] : a.stream = b.stream /\ a.version < b.version => a.event < b.event

LiveInv(c) ==
  Live(c) =>
    /\ SortedInv(c) /\ InOrder(c)
    /\ \A s \in Streams : IsTracked(c, s) => \E v \in 0 .. version[s] : KnownAt(c, s, v)

DecideInv ==
  /\ DecidedOnLatest
  /\ \A s \in Streams : Faithful(s, snaps[s])
  /\ \A e \in Events : lastEvent < e => basis[e] = NotDecided
  /\ \A c \in Clients : OriginInv(c) /\ DoneInv(c) /\ LiveInv(c)

-----------------------------------------------------------------------------
(* The invariant behind NothingDropped.                                    *)

\* What a session has made and not saved is in its queue or in an aggregate.
HeldInv(c) ==
  "loadSnapshot" \notin Api[c] => \A e \in mine[c] : \E s \in Streams : Unsaved(c, s, e)

-----------------------------------------------------------------------------
(* The inductive invariant behind ConflictIsReal.                          *)

\* The use of sessions for which it holds: what failed is not tried again in the
\* same session, and an aggregate is loaded up to the version of its stream.
Plain == Reuse = {} /\ \A c \in Clients : Api[c] \cap {"dismiss", "loadSnapshot"} = {}

\* What a transaction has bumped so far, and what was loaded.
SaveInv(c) ==
  /\ \A i \in DOMAIN ops[c] :
       /\ ops[c][i].kind = "startStream" => ops[c][i].expected = 0
       /\ i < at[c] => wVersion[c][ops[c][i].stream] > 0
  /\ \A s \in Streams : IsTracked(c, s) =>
       /\ InSession(c) => version[s] > 0
       /\ wVersion[c][s] > 0 => tracked[c][s].version = wVersion[c][s]
  /\ ~InSession(c) => \A i \in DOMAIN ops[c] : ops[c][i].kind = "append"
  /\ \A load \in reading[c] :
       /\ pc[c] = "loading" /\ load.snap.version <= version[load.stream]
       /\ InSession(c) => version[load.stream] > 0
  /\ pc[c] = "gate" => at[c] \in DOMAIN ops[c] /\ Op(c).expected = Unknown

\* While nobody overtakes a session, it expects the version a stream has.
UpToDate(c) ==
  \A s \in Streams \ overtaken[c] :
    /\ pc[c] # "failed" =>
         /\ \A i \in DOMAIN ops[c] :
              /\ ops[c][i].stream = s /\ ops[c][i].expected > 0
              /\ \A j \in DOMAIN ops[c] : j < i => ops[c][j].stream # s
              => ops[c][i].expected = version[s]
         /\ IsTracked(c, s) /\ (\A i \in DOMAIN ops[c] : ops[c][i].stream # s) => tracked[c][s].version = version[s]
    /\ pc[c] = "gate" /\ Op(c).stream = s => expect[c] = Visible(c, s)

ConflictInv ==
  /\ dismissed = {} /\ \A s \in Streams : snaps[s].version <= version[s]
  /\ \A c \in Clients : SaveInv(c) /\ UpToDate(c)
=============================================================================
