----------------------------- MODULE AsyncRunner -----------------------------
(***************************************************************************)
(* AsyncProjectionRunner.start over the tables of module Outbox: workers   *)
(* claim rows, run projections over their events in one transaction per    *)
(* batch or per row, ack, dead-letter, and release after a failure.        *)
(*                                                                         *)
(* Every awaited statement that reads or writes shared state is a step.    *)
(* PostgreSQL is READ COMMITTED: a SELECT sees committed rows and the      *)
(* transaction's own writes; a write to a checkpoint row waits for the     *)
(* transaction that holds the row; a cycle of waits aborts one member.     *)
(***************************************************************************)
EXTENDS Outbox

CONSTANTS
  NumProjections, FilterOf,   \* the runner's projections, in order
  ClaimTopic,                 \* claimTopic of each worker
  Mode,                       \* transactionMode of each worker
  BatchSize, MaxAttempts, IncludeDismissed,
  Poison,                     \* positions whose handler always throws
  Deployments                 \* workers started, disruptions they meet, first position

Projections == 1 .. NumProjections
Pairs == Projections \X Positions      \* a projection and an event
Keys  == Projections \X Tenants        \* the key of projection_checkpoints
NoRow == -1                            \* no such row, or not written
NoWrites == [key \in Keys |-> NoRow]

ASSUME RunnerAssumption ==
  /\ NumProjections \in Nat /\ BatchSize \in Nat /\ MaxAttempts \in Nat
  /\ FilterOf \in [Projections -> [mode : {"all", "include", "exclude"}, topics : SUBSET Topics]]
  /\ ClaimTopic \in [Workers -> Topics \cup {AnyTopic}]
  /\ Mode \in [Workers -> {"batch", "perRow"}] /\ IncludeDismissed \in BOOLEAN
  /\ Poison \subseteq Positions
  /\ Deployments \subseteq [started : SUBSET Workers, disruptions : Nat, first : Positions]

VARIABLES
  ckpt,      \* projection_checkpoints, committed
  pc,        \* where each worker is in start / processBatch / processOne
  claimed,   \* rows of the claimed array not yet dealt with
  unit,      \* rows of the processing transaction (kept for the release)
  todo,      \* rows of it whose events are still to be processed
  step,      \* index of the projection being run for the current row
  acked, dead,   \* rows the transaction deleted
  handled,   \* handler runs of the transaction
  wrote,     \* checkpoint rows the transaction wrote, and so locks
  effects,   \* history: committed handler runs
  calls      \* history: handler invocations per projection and outbox row

txVars == <<unit, todo, step, acked, dead, handled, wrote>>
runnerVars == <<ckpt, pc, claimed, txVars, effects, calls>>
vars == <<outboxVars, runnerVars>>
\* What no step of a worker changes, and with it what only a commit changes.
offRunner == <<eventVars, nextId, rowPos, purged>>
published == <<rowVars, ckpt, effects>>

RunnerTypeOK ==
  /\ ckpt \in [Keys -> Nat \cup {NoRow}]
  /\ pc \in [Workers -> {"poll", "begin", "work", "insert", "handle", "set", "release", "stopped"}]
  /\ claimed \in [Workers -> SUBSET Ids] /\ unit \in [Workers -> SUBSET Ids]
  /\ todo \in [Workers -> SUBSET Ids] /\ acked \in [Workers -> SUBSET Ids]
  /\ dead \in [Workers -> SUBSET Ids]
  /\ step \in [Workers -> 1 .. NumProjections + 1]
  /\ handled \in [Workers -> SUBSET Pairs]
  /\ wrote \in [Workers -> [Keys -> Nat \cup {NoRow}]]
  /\ effects \in [Pairs -> Nat]
  /\ calls \in [Projections \X Ids -> Nat]

TypeOK == OutboxTypeOK /\ RunnerTypeOK

Init ==
  /\ OutboxInit
  /\ ckpt = NoWrites
  /\ \E d \in Deployments :
       /\ pc = [w \in Workers |-> IF w \in d.started THEN "poll" ELSE "stopped"]
       /\ budget = d.disruptions /\ nextPos = d.first
  /\ claimed = [w \in Workers |-> {}]
  /\ unit = [w \in Workers |-> {}] /\ todo = [w \in Workers |-> {}]
  /\ step = [w \in Workers |-> 1]
  /\ acked = [w \in Workers |-> {}] /\ dead = [w \in Workers |-> {}]
  /\ handled = [w \in Workers |-> {}]
  /\ wrote = [w \in Workers |-> NoWrites]
  /\ effects = [pair \in Pairs |-> 0]
  /\ calls = [call \in Projections \X Ids |-> 0]

-----------------------------------------------------------------------------
(* What a worker sees.                                                     *)

Matches(p, gp) ==
  LET f == FilterOf[p]
  IN \/ f.mode = "all"
     \/ f.mode = "include" /\ TopicOf[gp] \in f.topics
     \/ f.mode = "exclude" /\ TopicOf[gp] \notin f.topics

\* loadByGlobalPositions returns the events in global_position order.
IsCurrent(w, row) ==
  row \in todo[w] /\ \A other \in todo[w] : rowPos[row] <= rowPos[other]

KeyOf(w, row) == <<step[w], TenantOf[rowPos[row]]>>

Visible(w, key) == IF wrote[w][key] # NoRow THEN wrote[w][key] ELSE ckpt[key]

\* No other open transaction holds the checkpoint row.
LockFree(w, key) == \A v \in Workers \ {w} : wrote[v][key] = NoRow

GoTo(w, label) == pc' = [pc EXCEPT ![w] = label]

\* Mistake: the connection goes back to the pool with its locks.
WrongEndTx(w, rows) ==
  /\ unit' = [unit EXCEPT ![w] = rows]
  /\ todo' = [todo EXCEPT ![w] = {}]
  /\ step' = [step EXCEPT ![w] = 1]
  /\ acked' = [acked EXCEPT ![w] = {}]
  /\ dead' = [dead EXCEPT ![w] = {}]
  /\ handled' = [handled EXCEPT ![w] = {}]
  /\ UNCHANGED wrote

\* The transaction is over; `unit' becomes rows.
EndTx(w, rows) ==
  /\ unit' = [unit EXCEPT ![w] = rows]
  /\ todo' = [todo EXCEPT ![w] = {}]
  /\ step' = [step EXCEPT ![w] = 1]
  /\ acked' = [acked EXCEPT ![w] = {}]
  /\ dead' = [dead EXCEPT ![w] = {}]
  /\ handled' = [handled EXCEPT ![w] = {}]
  /\ wrote' = [wrote EXCEPT ![w] = NoWrites]

InTx(w) == pc[w] \in {"work", "insert", "handle", "set"}

-----------------------------------------------------------------------------
(* start: the claim, in a transaction of its own.                          *)

ClaimBatch(w) ==
  LET batch == LowestIds(Claimable(ClaimTopic[w]), BatchSize)
  IN /\ pc[w] = "poll"
     /\ batch # {}
     /\ LockRows(w, batch)
     /\ claimed' = [claimed EXCEPT ![w] = batch]
     /\ GoTo(w, "begin")
     /\ UNCHANGED <<offRunner, budget, ckpt, txVars, effects, calls>>

\* The claim commits but its answer is lost: the worker never learns of it.
ClaimUnknown(w) ==
  LET batch == LowestIds(Claimable(ClaimTopic[w]), BatchSize)
  IN /\ pc[w] = "poll"
     /\ batch # {}
     /\ Disrupt("claimUnknown")
     /\ LockRows(w, batch)
     /\ UNCHANGED <<offRunner, runnerVars>>

-----------------------------------------------------------------------------
(* processBatch and processOne.                                            *)

\* The whole batch, or one row of it in an order RETURNING leaves open.
Units(w) ==
  IF Mode[w] = "batch" THEN {claimed[w]} ELSE {{row} : row \in claimed[w]}

\* Mistake: a budget one too large.
WrongBudgetBeginTx(w) ==
  /\ pc[w] = "begin"
  /\ \E rows \in Units(w) :
       LET spent == {id \in rows : attempts[id] > MaxAttempts + 1}
           found == {id \in rows \ spent : rowPos[id] \in Loadable}
       IN /\ unit' = [unit EXCEPT ![w] = rows]
          /\ dead' = [dead EXCEPT ![w] = spent]
          /\ todo' = [todo EXCEPT ![w] = found]
  /\ GoTo(w, "work")
  /\ UNCHANGED <<offRunner, budget, published, claimed, step, acked, handled, wrote, calls>>

\* Dead-letter rows over budget, load the events of the others.
BeginTx(w) ==
  /\ pc[w] = "begin"
  /\ \E rows \in Units(w) :
       LET spent   == {id \in rows : attempts[id] > MaxAttempts}
           found   == {id \in rows \ spent : rowPos[id] \in Loadable}
           missing == rows \ (spent \cup found)
           skipped == {id \in found : rowPos[id] \in dismissed /\ ~IncludeDismissed}
       IN /\ unit' = [unit EXCEPT ![w] = rows]
          /\ dead' = [dead EXCEPT ![w] = spent \cup (IF Mode[w] = "perRow" THEN missing ELSE {})]
          /\ acked' = [acked EXCEPT ![w] = skipped]
          /\ todo' = [todo EXCEPT ![w] = found \ skipped]
  /\ GoTo(w, "work")
  /\ UNCHANGED <<offRunner, budget, published, claimed, step, handled, wrote, calls>>

\* The projection does not want the topic, or its checkpoint is not behind.
SkipProjection(w) ==
  /\ pc[w] = "work" /\ step[w] <= NumProjections
  /\ \E row \in todo[w] :
       /\ IsCurrent(w, row)
       /\ \/ ~Matches(step[w], rowPos[row])
          \/ Visible(w, KeyOf(w, row)) >= rowPos[row]
  /\ step' = [step EXCEPT ![w] = @ + 1]
  /\ UNCHANGED <<offRunner, budget, published, pc, claimed, unit, todo, acked, dead, handled, wrote, calls>>

\* Mistake: the checkpoint is read and not compared.
WrongReadCheckpoint(w) ==
  /\ pc[w] = "work" /\ step[w] <= NumProjections
  /\ \E row \in todo[w] :
       /\ IsCurrent(w, row)
       /\ Matches(step[w], rowPos[row])
       /\ GoTo(w, IF Visible(w, KeyOf(w, row)) = NoRow THEN "insert" ELSE "handle")
  /\ UNCHANGED <<offRunner, budget, published, claimed, txVars, calls>>

ReadCheckpoint(w) ==
  /\ pc[w] = "work" /\ step[w] <= NumProjections
  /\ \E row \in todo[w] :
       /\ IsCurrent(w, row)
       /\ Matches(step[w], rowPos[row])
       /\ Visible(w, KeyOf(w, row)) < rowPos[row]
       /\ GoTo(w, IF Visible(w, KeyOf(w, row)) = NoRow THEN "insert" ELSE "handle")
  /\ UNCHANGED <<offRunner, budget, published, claimed, txVars, calls>>

(* get found no row: INSERT ... ON CONFLICT DO NOTHING waits for whoever is *)
(* inserting it, and the checkpoint counts as 0 whatever is there now.      *)
InsertCheckpoint(w) ==
  /\ pc[w] = "insert"
  /\ \E row \in todo[w] :
       LET key == KeyOf(w, row)
       IN /\ IsCurrent(w, row)
          /\ LockFree(w, key)
          /\ wrote' = [wrote EXCEPT ![w][key] = IF Visible(w, key) = NoRow THEN 0 ELSE @]
  /\ GoTo(w, "handle")
  /\ UNCHANGED <<offRunner, budget, published, claimed, unit, todo, step, acked, dead, handled, calls>>

Called(w, row) == calls' = [calls EXCEPT ![<<step[w], row>>] = @ + 1]

HandleEvent(w) ==
  /\ pc[w] = "handle"
  /\ \E row \in todo[w] :
       /\ IsCurrent(w, row)
       /\ rowPos[row] \notin Poison
       /\ handled' = [handled EXCEPT ![w] = @ \cup {<<step[w], rowPos[row]>>}]
       /\ Called(w, row)
  /\ GoTo(w, "set")
  /\ UNCHANGED <<offRunner, budget, published, claimed, unit, todo, step, acked, dead, wrote>>

HandlerThrows(w) ==
  /\ pc[w] = "handle"
  /\ \E row \in todo[w] :
       /\ IsCurrent(w, row)
       /\ rowPos[row] \in Poison
       /\ Called(w, row)
  /\ EndTx(w, unit[w])
  /\ GoTo(w, "release")
  /\ UNCHANGED <<offRunner, budget, published, claimed>>

\* Mistake: the upsert has no WHERE.
WrongSetCheckpoint(w) ==
  /\ pc[w] = "set"
  /\ \E row \in todo[w] :
       /\ IsCurrent(w, row)
       /\ LockFree(w, KeyOf(w, row))
       /\ wrote' = [wrote EXCEPT ![w][KeyOf(w, row)] = rowPos[row]]
  /\ step' = [step EXCEPT ![w] = @ + 1]
  /\ GoTo(w, "work")
  /\ UNCHANGED <<offRunner, budget, published, claimed, unit, todo, acked, dead, handled, calls>>

\* The upsert keeps the larger position, and holds the row either way.
SetCheckpoint(w) ==
  /\ pc[w] = "set"
  /\ \E row \in todo[w] :
       LET key == KeyOf(w, row)
       IN /\ IsCurrent(w, row)
          /\ LockFree(w, key)
          /\ wrote' = [wrote EXCEPT ![w][key] =
               IF Visible(w, key) <= rowPos[row] THEN rowPos[row] ELSE Visible(w, key)]
  /\ step' = [step EXCEPT ![w] = @ + 1]
  /\ GoTo(w, "work")
  /\ UNCHANGED <<offRunner, budget, published, claimed, unit, todo, acked, dead, handled, calls>>

AckRow(w) ==
  /\ pc[w] = "work" /\ step[w] > NumProjections
  /\ \E row \in todo[w] :
       /\ IsCurrent(w, row)
       /\ acked' = [acked EXCEPT ![w] = @ \cup {row}]
       /\ todo' = [todo EXCEPT ![w] = @ \ {row}]
  /\ step' = [step EXCEPT ![w] = 1]
  /\ UNCHANGED <<offRunner, budget, published, pc, claimed, unit, dead, handled, wrote, calls>>

\* COMMIT makes the deletions, the checkpoints and the handlers' writes visible.
Publish(w) ==
  /\ pc[w] = "work" /\ todo[w] = {}
  /\ RemoveRows(acked[w], dead[w])
  /\ ckpt' = [key \in Keys |-> IF wrote[w][key] # NoRow THEN wrote[w][key] ELSE ckpt[key]]
  /\ effects' = [pair \in Pairs |-> IF pair \in handled[w] THEN effects[pair] + 1 ELSE effects[pair]]

CommitTx(w) ==
  /\ Publish(w)
  /\ claimed' = [claimed EXCEPT ![w] = @ \ unit[w]]
  /\ GoTo(w, IF claimed[w] \subseteq unit[w] THEN "poll" ELSE "begin")
  /\ EndTx(w, {})
  /\ UNCHANGED <<offRunner, budget, calls>>

\* The catch block: a fresh transaction unlocks the rows, then the error is
\* rethrown and the rest of the claimed array is forgotten.
ReleaseRows(w) ==
  /\ pc[w] = "release"
  /\ UnlockRows(unit[w])
  /\ claimed' = [claimed EXCEPT ![w] = {}]
  /\ EndTx(w, {})
  /\ GoTo(w, "poll")
  /\ UNCHANGED <<offRunner, budget, ckpt, effects, calls>>

-----------------------------------------------------------------------------
(* Failures.                                                               *)

\* A statement, a handler or the commit fails: rollback.
DbError(w) ==
  /\ InTx(w)
  /\ Disrupt("dbError")
  /\ EndTx(w, unit[w])
  /\ GoTo(w, "release")
  /\ UNCHANGED <<offRunner, published, claimed, calls>>

\* The commit is applied but the client sees an error.
CommitUnknown(w) ==
  /\ Disrupt("commitUnknown")
  /\ Publish(w)
  /\ EndTx(w, unit[w])
  /\ GoTo(w, "release")
  /\ UNCHANGED <<offRunner, claimed, calls>>

WaitsFor(w, v) ==
  /\ v # w /\ pc[w] \in {"insert", "set"}
  /\ \E row \in todo[w] : IsCurrent(w, row) /\ wrote[v][KeyOf(w, row)] # NoRow

\* PostgreSQL aborts a member of a cycle of waits (40P01).
DeadlockVictim(w) ==
  /\ \E cycle \in SUBSET Workers :
       /\ w \in cycle
       /\ \A v \in cycle : (\E u \in cycle : WaitsFor(v, u)) /\ (\E u \in cycle : WaitsFor(u, v))
  /\ EndTx(w, unit[w])
  /\ GoTo(w, "release")
  /\ UNCHANGED <<offRunner, budget, published, claimed, calls>>

\* The release transaction fails; both modes go back to the claim loop.
ReleaseFails(w) ==
  /\ pc[w] = "release"
  /\ Disrupt("releaseFails")
  /\ claimed' = [claimed EXCEPT ![w] = {}]
  /\ EndTx(w, {})
  /\ GoTo(w, "poll")
  /\ UNCHANGED <<offRunner, published, calls>>

\* The signal is looked at before a claim and, per row, between rows.
Abort(w) ==
  /\ pc[w] = "poll" \/ (pc[w] = "begin" /\ Mode[w] = "perRow")
  /\ Disrupt("abort")
  /\ claimed' = [claimed EXCEPT ![w] = {}]
  /\ GoTo(w, "stopped")
  /\ UNCHANGED <<offRunner, published, txVars, calls>>

\* The process dies and a new one starts; the open transaction rolls back.
Crash(w) ==
  /\ pc[w] \notin {"poll", "stopped"}
  /\ Disrupt("crash")
  /\ claimed' = [claimed EXCEPT ![w] = {}]
  /\ EndTx(w, {})
  /\ GoTo(w, "poll")
  /\ UNCHANGED <<offRunner, published, calls>>

-----------------------------------------------------------------------------
WorkerStep(w) ==
  \/ ClaimBatch(w) \/ BeginTx(w)
  \/ SkipProjection(w) \/ ReadCheckpoint(w) \/ InsertCheckpoint(w)
  \/ HandleEvent(w) \/ HandlerThrows(w) \/ SetCheckpoint(w)
  \/ AckRow(w) \/ CommitTx(w) \/ ReleaseRows(w) \/ DeadlockVictim(w)

WorkerFault(w) ==
  \/ ClaimUnknown(w) \/ DbError(w) \/ CommitUnknown(w)
  \/ ReleaseFails(w) \/ Abort(w) \/ Crash(w)

Next ==
  \/ OutboxNext /\ UNCHANGED runnerVars
  \/ \E w \in Workers : WorkerStep(w) \/ WorkerFault(w)

Spec == Init /\ [][Next]_vars

(* A runner that is not stopped keeps executing its loop and the database  *)
(* keeps answering it; writers, operators and faults owe nothing.          *)
Fairness == \A w \in Workers : WF_vars(WorkerStep(w))
FairSpec == Spec /\ Fairness
=============================================================================
