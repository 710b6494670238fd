------------------------------- MODULE Outbox -------------------------------
(***************************************************************************)
(* The shared tables behind asynchronous projections: the events table,    *)
(* eventfabric.outbox and eventfabric.outbox_dead_letters, the writers     *)
(* that fill them inside their own transaction, and the operators that     *)
(* change them out of band (dismiss, detach a partition, requeue, purge).  *)
(*                                                                         *)
(* A statement is one step and a row of an uncommitted transaction is      *)
(* invisible.  global_position and outbox.id are sequences: their values   *)
(* are handed out when the statement runs, not when it commits, and a      *)
(* rollback does not give them back.                                       *)
(***************************************************************************)
EXTENDS Integers, FiniteSets

CONSTANTS
  Workers, NoWorker,      \* locked_by and its NULL
  Tenants, Topics,
  NoTopic,                \* a NULL outbox.topic
  AnyTopic,               \* a runner configured with claimTopic = null
  MaxPos, MaxId,          \* bounds of the two sequences
  MaxOpenTx,              \* how many writers may be in a transaction at once
  TenantOf, TopicOf,      \* what the event at each position carries
  Disruptions             \* faults and operator calls that may happen

Positions == 1 .. MaxPos
Ids       == 1 .. MaxId

ASSUME BoundsAssumption ==
  MaxPos \in Nat /\ MaxId \in Nat /\ MaxOpenTx \in Nat
ASSUME RowAssumption ==
  /\ NoWorker \notin Workers
  /\ NoTopic \notin Topics /\ AnyTopic \notin Topics
  /\ TenantOf \in [Positions -> Tenants]
  /\ TopicOf \in [Positions -> Topics \cup {NoTopic}]

VARIABLES
  nextPos, nextId,   \* the two sequences
  pending,           \* positions written by a transaction still open
  events,            \* positions committed to the events table
  archived,          \* positions whose partition was detached
  dismissed,         \* positions with dismissed_at set
  rowPos,            \* outbox id -> global_position (0: id not used yet)
  outbox, dlq,       \* ids of the committed rows of the two tables
  purged,            \* history: positions whose DLQ row was purged
  lockedBy,          \* outbox id -> locked_by
  attempts,          \* outbox id -> attempts
  budget             \* disruptions left

eventVars == <<nextPos, pending, events, archived, dismissed>>
rowVars   == <<outbox, dlq, lockedBy, attempts>>
outboxVars == <<eventVars, rowVars, nextId, rowPos, purged, budget>>

OutboxTypeOK ==
  /\ nextPos \in 1 .. MaxPos + 1 /\ nextId \in 1 .. MaxId + 1 /\ budget \in Nat
  /\ pending \subseteq Positions /\ events \subseteq Positions
  /\ archived \subseteq Positions /\ dismissed \subseteq Positions
  /\ purged \subseteq Positions
  /\ rowPos \in [Ids -> Positions \cup {0}]
  /\ outbox \subseteq Ids /\ dlq \subseteq Ids
  /\ lockedBy \in [Ids -> Workers \cup {NoWorker}]
  /\ attempts \in [Ids -> Nat]

OutboxInit ==
  /\ nextId = 1
  /\ pending = {} /\ events = {} /\ archived = {} /\ dismissed = {}
  /\ purged = {} /\ outbox = {} /\ dlq = {}
  /\ rowPos = [id \in Ids |-> 0]
  /\ lockedBy = [id \in Ids |-> NoWorker]
  /\ attempts = [id \in Ids |-> 0]

\* A fault or an operator call of this kind happens now.
Disrupt(kind) ==
  /\ kind \in Disruptions
  /\ budget > 0
  /\ budget' = budget - 1

PositionsOf(ids) == {rowPos[id] : id \in ids}

\* What loadByGlobalPositions can still find.
Loadable == events \ archived

-----------------------------------------------------------------------------
(* Writers: PgEventStore.append with enqueueOutbox.                        *)

AppendEvent ==
  /\ nextPos <= MaxPos
  /\ Cardinality(pending) < MaxOpenTx
  /\ pending' = pending \cup {nextPos}
  /\ nextPos' = nextPos + 1
  /\ UNCHANGED <<events, archived, dismissed, rowVars, nextId, rowPos, purged, budget>>

EnqueueOutbox(gp) ==
  /\ gp \in pending
  /\ gp \notin PositionsOf(Ids)
  /\ nextId <= MaxId
  /\ rowPos' = [rowPos EXCEPT ![nextId] = gp]
  /\ nextId' = nextId + 1
  /\ UNCHANGED <<eventVars, rowVars, purged, budget>>

CommitAppend(gp) ==
  /\ gp \in pending
  /\ \E id \in Ids :
       /\ rowPos[id] = gp
       /\ outbox' = outbox \cup {id}
  /\ pending' = pending \ {gp}
  /\ events' = events \cup {gp}
  /\ UNCHANGED <<nextPos, archived, dismissed, dlq, lockedBy, attempts, nextId, rowPos, purged, budget>>

RollbackAppend(gp) ==
  /\ gp \in pending
  /\ Disrupt("rollback")
  /\ pending' = pending \ {gp}
  /\ UNCHANGED <<nextPos, events, archived, dismissed, rowVars, nextId, rowPos, purged>>

-----------------------------------------------------------------------------
(* Operators.                                                              *)

Dismiss(gp) ==
  /\ gp \in Loadable \ dismissed
  /\ Disrupt("dismiss")
  /\ dismissed' = dismissed \cup {gp}
  /\ UNCHANGED <<nextPos, pending, events, archived, rowVars, nextId, rowPos, purged>>

DetachPartition(gp) ==
  /\ gp \in Loadable
  /\ Disrupt("archive")
  /\ archived' = archived \cup {p \in events : p <= gp}
  /\ UNCHANGED <<nextPos, pending, events, dismissed, rowVars, nextId, rowPos, purged>>

DlqRange(t, from, to) ==
  {id \in dlq : TenantOf[rowPos[id]] = t /\ from <= rowPos[id] /\ rowPos[id] <= to}

\* Mistake: the requeued item is not deleted from the DLQ.
WrongRequeue(t, from, to) ==
  LET items == {id \in DlqRange(t, from, to) : rowPos[id] \notin PositionsOf(outbox)}
  IN /\ items # {} /\ nextId <= MaxId
     /\ Disrupt("requeue")
     /\ \E a \in items : rowPos' = [rowPos EXCEPT ![nextId] = rowPos[a]]
     /\ outbox' = outbox \cup {nextId}
     /\ nextId' = nextId + 1
     /\ UNCHANGED <<eventVars, dlq, lockedBy, attempts, purged>>

(* requeueRange: one transaction, items in global_position order, each     *)
(* inserted as a fresh row unless the outbox already has its position, and *)
(* deleted from the DLQ either way.  requeue(id) is the range of one.      *)
Requeue(t, from, to) ==
  LET items == DlqRange(t, from, to)
      fresh == {id \in items : rowPos[id] \notin PositionsOf(outbox)}
      newIds == nextId .. nextId + Cardinality(fresh) - 1
  IN /\ items # {}
     /\ Disrupt("requeue")
     /\ newIds \subseteq Ids
     /\ \E new \in [fresh -> newIds] :
          /\ \A a, b \in fresh : rowPos[a] < rowPos[b] => new[a] < new[b]
          /\ rowPos' = [id \in Ids |->
               IF \E a \in fresh : new[a] = id
               THEN rowPos[CHOOSE a \in fresh : new[a] = id] ELSE rowPos[id]]
          /\ outbox' = outbox \cup {new[a] : a \in fresh}
     /\ nextId' = nextId + Cardinality(fresh)
     /\ dlq' = dlq \ items
     /\ UNCHANGED <<eventVars, lockedBy, attempts, purged>>

Purge(t) ==
  LET items == DlqRange(t, 1, MaxPos)
  IN /\ items # {}
     /\ Disrupt("purge")
     /\ dlq' = dlq \ items
     /\ purged' = purged \cup PositionsOf(items)
     /\ UNCHANGED <<eventVars, outbox, lockedBy, attempts, nextId, rowPos>>

OutboxNext ==
  \/ AppendEvent
  \/ \E gp \in Positions : EnqueueOutbox(gp)
  \/ \E gp \in Positions : CommitAppend(gp)
  \/ \E gp \in Positions : RollbackAppend(gp)
  \/ \E gp \in Positions : Dismiss(gp)
  \/ \E gp \in Positions : DetachPartition(gp)
  \/ \E t \in Tenants, from, to \in Positions : Requeue(t, from, to)
  \/ \E t \in Tenants : Purge(t)

-----------------------------------------------------------------------------
(* PgOutboxStore, the statements the runner executes in its transactions.  *)

\* Mistake: locked rows are claimed again.
WrongClaimable(topic) == {id \in outbox : topic = AnyTopic \/ TopicOf[rowPos[id]] = topic}

Claimable(topic) ==
  {id \in outbox : /\ lockedBy[id] = NoWorker
                   /\ topic = AnyTopic \/ TopicOf[rowPos[id]] = topic}

\* Mistake: newest rows first.
WrongLowestIds(ids, n) == {id \in ids : Cardinality({j \in ids : j > id}) < n}

LowestIds(ids, n) == {id \in ids : Cardinality({j \in ids : j < id}) < n}

\* Mistake: the claim reads the rows and updates nothing.
WrongLockRows(w, ids) == UNCHANGED rowVars

\* claimBatch: the UPDATE over the locked ids, committed at once.
LockRows(w, ids) ==
  /\ lockedBy' = [id \in Ids |-> IF id \in ids THEN w ELSE lockedBy[id]]
  /\ attempts' = [id \in Ids |-> IF id \in ids THEN attempts[id] + 1 ELSE attempts[id]]
  /\ UNCHANGED <<outbox, dlq>>

\* releaseWithError: by id only, whoever holds the row.
UnlockRows(ids) ==
  /\ lockedBy' = [id \in Ids |-> IF id \in ids THEN NoWorker ELSE lockedBy[id]]
  /\ UNCHANGED <<outbox, dlq, attempts>>

\* Mistake: ack unlocks the row and leaves it in the table.
WrongRemoveRows(acked, dead) ==
  /\ outbox' = outbox \ dead
  /\ dlq' = dlq \cup (dead \cap outbox)
  /\ lockedBy' = [id \in Ids |-> IF id \in acked \cup dead THEN NoWorker ELSE lockedBy[id]]
  /\ UNCHANGED attempts

\* ack and deadLetter: both delete the row, the second after copying it.
RemoveRows(acked, dead) ==
  /\ outbox' = outbox \ (acked \cup dead)
  /\ dlq' = dlq \cup (dead \cap outbox)
  /\ lockedBy' = [id \in Ids |-> IF id \in acked \cup dead THEN NoWorker ELSE lockedBy[id]]
  /\ UNCHANGED attempts
=============================================================================
