-------------------------------- MODULE Saga --------------------------------
(***************************************************************************)
(* Saga instances and their timers.  applySagaTransition runs in the       *)
(* transactions of two kinds of processes: the projection runner's         *)
(* workers, which deliver events (sagaAsAsyncProjection), and the timer    *)
(* schedulers, which claim due timers in one transaction and deliver each  *)
(* of them in another.  A saga is any pure reducer: its reaction is        *)
(* chosen freely, and its state is the list of deliveries it reacted to.   *)
(*                                                                         *)
(* Statements are the steps: a row that a transaction has written stays    *)
(* locked, and its new value hidden, until the transaction ends.           *)
(* The commands a reaction enqueues leave with the same commit as the      *)
(* instance row and are not repeated here.                                 *)
(***************************************************************************)
EXTENDS Naturals, FiniteSets, Sequences

CONSTANTS
  Instances,    \* (tenant, saga, instance id)
  Ids,          \* timer ids of an instance
  Workers,      \* transactions in which the runner hands events to the saga
  Schedulers,   \* processes running SagaTimerScheduler
  MaxPos,       \* events are 1 .. MaxPos
  Correlate,    \* saga.correlate: the instance of each event
  Starts,       \* saga.startsNewInstance: the events that may start one
  Reactions,    \* what the reducer may return, next to commands
  BatchSize,
  MaxArms,      \* bound: how often a timer id is scheduled
  Exposed, MaxFaults   \* the kinds of faults considered, and their bound

Events == 1 .. MaxPos
Procs == Workers \cup Schedulers
FaultKinds == {"error", "claimUnknown", "commitUnknown", "replay", "orphan", "retention"}

ASSUME SagaAssumption ==
  /\ MaxPos \in Nat /\ MaxArms \in Nat /\ MaxFaults \in Nat /\ BatchSize \in Nat \ {0}
  /\ Correlate \in [Events -> Instances]
  /\ Starts \subseteq Events
  /\ Reactions \subseteq [cancel : SUBSET Ids, schedule : SUBSET Ids, end : BOOLEAN]
  /\ Workers \cap Schedulers = {}
  /\ Exposed \subseteq FaultKinds

VARIABLES
  instances,   \* saga_instances, committed
  timers,      \* saga_scheduled_messages, committed
  open,        \* events whose outbox rows are not acked
  batch,       \* the claimed items a scheduler has not finished
  tx,          \* the transaction of each process, and where it stands
  outcome,     \* history: what became of each delivery that is over
  faults

vars == <<instances, timers, open, batch, tx, outcome, faults>>

NoRow == [status |-> "none", version |-> 0, lastPos |-> 0, state |-> <<>>]
Fresh == [NoRow EXCEPT !.status = "active"]
NoTimer == [status |-> "none", arm |-> 0]
Unwritten == [status |-> "unwritten", arm |-> 0]
NoDelivery == [kind |-> "none", inst |-> "none", key |-> "none", arm |-> 0]
Idle == [pc |-> "idle", del |-> NoDelivery, seen |-> NoRow, todo |-> {}, end |-> FALSE,
         mine |-> [id \in Ids |-> Unwritten], row |-> NoRow]

\* A delivery: an event, or a timer id with the message of one of its arms.
Event(e) == [kind |-> "event", inst |-> Correlate[e], key |-> e, arm |-> 0]
Timer(i, id, n) == [kind |-> "timer", inst |-> i, key |-> id, arm |-> n]
Deliveries == {Event(e) : e \in Events}
  \cup {Timer(i, id, n) : i \in Instances, id \in Ids, n \in 1 .. MaxArms}

InstanceRows == [status : {"none", "active", "completed"}, version : Nat, lastPos : 0 .. MaxPos,
                 state : Seq(Deliveries)]
TimerStatuses == {"none", "pending", "claimed", "fired", "cancelled", "failed"}
TimerRows == [status : TimerStatuses, arm : 0 .. MaxArms]
Statements == {"cancel", "schedule"} \X Ids

TypeOK ==
  /\ instances \in [Instances -> InstanceRows]
  /\ timers \in [Instances -> [Ids -> TimerRows]]
  /\ open \subseteq Events
  /\ batch \in [Schedulers -> SUBSET (Deliveries \ {Event(e) : e \in Events})]
  /\ tx \in [Procs -> [pc : {"idle", "insert", "react", "write", "fire", "commit", "release", "down"},
                       del : Deliveries \cup {NoDelivery}, seen : InstanceRows,
                       todo : SUBSET Statements, end : BOOLEAN,
                       mine : [Ids -> [status : TimerStatuses \cup {"unwritten"}, arm : 0 .. MaxArms + 1]],
                       row : InstanceRows]]
  /\ outcome \subseteq Deliveries \X {"applied", "skipped"}
  /\ faults \in 0 .. MaxFaults

Init ==
  /\ instances = [i \in Instances |-> NoRow]
  /\ timers = [i \in Instances |-> [id \in Ids |-> NoTimer]]
  /\ open = Events
  /\ batch = [s \in Schedulers |-> {}]
  /\ tx = [p \in Procs |-> Idle]
  /\ outcome = {} /\ faults = 0

-----------------------------------------------------------------------------
Fault(kind) == kind \in Exposed /\ faults < MaxFaults /\ faults' = faults + 1

InTx(p) == tx[p].pc \in {"insert", "react", "write", "fire", "commit"}
On(p, i) == InTx(p) /\ tx[p].del.inst = i

\* Row locks: the uncommitted INSERT of an instance, the UPDATE of one, the
\* write of a timer.
Inserted(p, i) ==
  /\ On(p, i) /\ tx[p].del.kind = "event"
  /\ tx[p].pc # "insert" /\ tx[p].seen.version = 0
LocksInstance(p, i) == On(p, i) /\ tx[p].row # NoRow
LocksTimer(p, i, id) == On(p, i) /\ tx[p].mine[id] # Unwritten
Unlocked(i, id) == \A p \in Procs : ~LocksTimer(p, i, id)

\* A timer's row as the transaction of p sees it.
Visible(p, id) ==
  IF tx[p].mine[id] # Unwritten THEN tx[p].mine[id] ELSE timers[tx[p].del.inst][id]

Goes(p, pc) == tx' = [tx EXCEPT ![p].pc = pc]
Ends(p, pc) == tx' = [tx EXCEPT ![p] = [Idle EXCEPT !.pc = pc]]
SetTimer(i, id, status) == timers' = [timers EXCEPT ![i][id].status = status]

-----------------------------------------------------------------------------
(* Deliveries.  BEGIN and the SELECT of the instance are one step.         *)
Begin(p, d, pc) ==
  tx' = [tx EXCEPT ![p] = [Idle EXCEPT !.pc = pc, !.del = d,
           !.seen = IF pc = "insert" THEN Fresh ELSE instances[d.inst]]]

Offered(w, e) ==
  /\ tx[w].pc = "idle" /\ e \in open
  /\ \A v \in Workers : tx[v].del # Event(e)

\* Mistake: no look at last_event_pos.
WrongDeliverEvent(w) == \E e \in Events :
  LET i == instances[Correlate[e]] IN
  /\ Offered(w, e)
  /\ \/ i.status = "none" /\ e \in Starts /\ Begin(w, Event(e), "insert")
     \/ i.status = "active" /\ Begin(w, Event(e), "react")
  /\ UNCHANGED <<instances, timers, open, batch, outcome, faults>>

DeliverEvent(w) == \E e \in Events :
  LET i == instances[Correlate[e]] IN
  /\ Offered(w, e)
  /\ \/ i.status = "none" /\ e \in Starts /\ Begin(w, Event(e), "insert")
     \/ i.status = "active" /\ i.lastPos < e /\ Begin(w, Event(e), "react")
  /\ UNCHANGED <<instances, timers, open, batch, outcome, faults>>

\* No instance, or a completed one, or a position it has passed: the event is
\* acked without a reaction.
SkipEvent(w) == \E e \in Events :
  LET i == instances[Correlate[e]] IN
  /\ Offered(w, e)
  /\ \/ i.status = "none" /\ e \notin Starts
     \/ i.status = "completed"
     \/ i.status = "active" /\ e <= i.lastPos
  /\ open' = open \ {e}
  /\ outcome' = outcome \cup {<<Event(e), "skipped">>}
  /\ UNCHANGED <<instances, timers, batch, tx, faults>>

\* INSERT waits for another's uncommitted INSERT of the key and then fails.
Insert(w) ==
  LET i == tx[w].del.inst IN
  /\ tx[w].pc = "insert"
  /\ \A v \in Workers : ~Inserted(v, i)
  /\ IF instances[i].status = "none" THEN Goes(w, "react") ELSE Ends(w, "idle")
  /\ UNCHANGED <<instances, timers, open, batch, outcome, faults>>

\* claimDue: any pending rows may be due; those another writes are skipped.
Due(i, id) == timers[i][id].status = "pending" /\ Unlocked(i, id)

Claimed(items) ==
  timers' = [i \in Instances |-> [id \in Ids |->
    IF Timer(i, id, timers[i][id].arm) \in items
    THEN [timers[i][id] EXCEPT !.status = "claimed"] ELSE timers[i][id]]]

DueItems ==
  {Timer(k[1], k[2], timers[k[1]][k[2]].arm) : k \in {k \in Instances \X Ids : Due(k[1], k[2])}}
Batches == {S \in SUBSET DueItems : S # {} /\ Cardinality(S) <= BatchSize}

Claim(s) ==
  /\ tx[s].pc = "idle" /\ batch[s] = {}
  /\ \E items \in Batches :
       /\ Claimed(items)
       /\ batch' = [batch EXCEPT ![s] = items]
  /\ UNCHANGED <<instances, open, tx, outcome, faults>>

\* The claim commits, its answer is lost: runOnce rejects, start returns.
ClaimUnknown(s) ==
  /\ tx[s].pc = "idle" /\ batch[s] = {}
  /\ Fault("claimUnknown")
  /\ \E items \in Batches : Claimed(items)
  /\ Ends(s, "down")
  /\ UNCHANGED <<instances, open, batch, outcome>>

\* The next item of the batch.  Without an active instance there is nothing
\* to react to, and the timer is only marked fired.
DeliverTimer(s) ==
  /\ tx[s].pc = "idle"
  /\ \E d \in batch[s] :
       Begin(s, d, IF instances[d.inst].status = "active" THEN "react" ELSE "fire")
  /\ UNCHANGED <<instances, timers, open, batch, outcome, faults>>

\* The process has no handler for the saga: markFailed, whatever the status.
\* (The option that discards orphans marks them fired instead; it is left out.)
Orphan(s) ==
  /\ tx[s].pc = "idle" /\ Fault("orphan")
  /\ \E d \in batch[s] :
       /\ Unlocked(d.inst, d.key)
       /\ SetTimer(d.inst, d.key, IF timers[d.inst][d.key].status = "none" THEN "none" ELSE "failed")
       /\ batch' = [batch EXCEPT ![s] = @ \ {d}]
  /\ UNCHANGED <<instances, open, tx, outcome>>

-----------------------------------------------------------------------------
(* applySagaTransition from the reaction to the UPDATE of the instance.    *)
Room(i, id) == timers[i][id].arm < MaxArms

React(p) ==
  /\ tx[p].pc = "react"
  /\ \E r \in Reactions :
       /\ \A id \in r.schedule : Room(tx[p].del.inst, id)
       /\ tx' = [tx EXCEPT ![p].pc = "write", ![p].end = r.end,
                  ![p].todo = ({"cancel"} \X r.cancel) \cup ({"schedule"} \X r.schedule)]
  /\ UNCHANGED <<instances, timers, open, batch, outcome, faults>>

Write(p, statement, new) ==
  /\ tx' = [tx EXCEPT ![p].todo = @ \ {statement}, ![p].mine[statement[2]] = new]
  /\ UNCHANGED <<instances, timers, open, batch, outcome, faults>>

Available(p, id) ==
  \A q \in Procs \ {p} : ~LocksTimer(q, tx[p].del.inst, id)

\* Every pending or claimed row is cancelled; the WHERE skips the others.
Cancel(p) == \E id \in Ids :
  LET t == Visible(p, id) IN
  /\ tx[p].pc = "write" /\ <<"cancel", id>> \in tx[p].todo
  /\ IF t.status \in {"pending", "claimed"}
     THEN Available(p, id) /\ Write(p, <<"cancel", id>>, [t EXCEPT !.status = "cancelled"])
     ELSE Write(p, <<"cancel", id>>, tx[p].mine[id])

\* The upsert makes the row pending, whatever it was.
Schedule(p) == \E id \in Ids :
  LET t == Visible(p, id) IN
  /\ tx[p].pc = "write" /\ <<"schedule", id>> \in tx[p].todo
  /\ \A x \in Ids : <<"cancel", x>> \notin tx[p].todo
  /\ Available(p, id)
  /\ Write(p, <<"schedule", id>>, [status |-> "pending", arm |-> t.arm + 1])

Updated(p) ==
  LET d == tx[p].del IN
  [status |-> IF tx[p].end THEN "completed" ELSE tx[p].seen.status,
   version |-> tx[p].seen.version + 1,
   lastPos |-> IF d.kind = "event" THEN d.key ELSE tx[p].seen.lastPos,
   state |-> Append(tx[p].seen.state, d)]

\* Mistake: the WHERE without state_version.
WrongSameVersion(p) ==
  Inserted(p, tx[p].del.inst) \/ instances[tx[p].del.inst].status # "none"

\* UPDATE ... WHERE state_version = the one loaded, or the one inserted here.
SameVersion(p) ==
  LET i == tx[p].del.inst IN
  \/ Inserted(p, i)
  \/ instances[i].status # "none" /\ instances[i].version = tx[p].seen.version

Update(p) ==
  /\ tx[p].pc = "write" /\ tx[p].todo = {}
  /\ \A q \in Procs \ {p} : ~LocksInstance(q, tx[p].del.inst)
  /\ SameVersion(p)
  /\ tx' = [tx EXCEPT ![p].row = Updated(p),
              ![p].pc = IF p \in Schedulers THEN "fire" ELSE "commit"]
  /\ UNCHANGED <<instances, timers, open, batch, outcome, faults>>

\* "concurrent": both callers throw, which rolls the transaction back.  The
\* runner offers the event again, the scheduler releases the timer.
Concurrent(p) ==
  /\ tx[p].pc = "write" /\ tx[p].todo = {}
  /\ \A q \in Procs \ {p} : ~LocksInstance(q, tx[p].del.inst)
  /\ ~SameVersion(p)
  /\ IF p \in Schedulers
     THEN tx' = [tx EXCEPT ![p] = [Idle EXCEPT !.pc = "release", !.del = tx[p].del]]
     ELSE Ends(p, "idle")
  /\ UNCHANGED <<instances, timers, open, batch, outcome, faults>>

\* markFired does not look at the status the row has by now.
MarkFired(s) ==
  LET id == tx[s].del.key
      t == Visible(s, id) IN
  /\ tx[s].pc = "fire"
  /\ Available(s, id)
  /\ tx' = [tx EXCEPT ![s].pc = "commit",
              ![s].mine[id] = IF t.status = "none" THEN @ ELSE [t EXCEPT !.status = "fired"]]
  /\ UNCHANGED <<instances, timers, open, batch, outcome, faults>>

Release(s) ==
  LET d == tx[s].del IN
  /\ tx[s].pc = "release"
  /\ Unlocked(d.inst, d.key)
  /\ IF timers[d.inst][d.key].status = "claimed"
     THEN SetTimer(d.inst, d.key, "pending") ELSE UNCHANGED timers
  /\ batch' = [batch EXCEPT ![s] = @ \ {d}]
  /\ Ends(s, "idle")
  /\ UNCHANGED <<instances, open, outcome, faults>>

-----------------------------------------------------------------------------
(* The ends of a transaction.                                              *)
Publish(p) ==
  LET d == tx[p].del IN
  /\ tx[p].pc = "commit"
  /\ instances' = [instances EXCEPT ![d.inst] = IF tx[p].row # NoRow THEN tx[p].row ELSE @]
  /\ timers' = [timers EXCEPT ![d.inst] =
       [id \in Ids |-> IF tx[p].mine[id] # Unwritten THEN tx[p].mine[id] ELSE @[id]]]
  /\ open' = IF d.kind = "event" THEN open \ {d.key} ELSE open
  /\ outcome' = outcome \cup {<<d, IF tx[p].row # NoRow THEN "applied" ELSE "skipped">>}

Commit(p) ==
  /\ Publish(p)
  /\ batch' = IF p \in Schedulers THEN [batch EXCEPT ![p] = @ \ {tx[p].del}] ELSE batch
  /\ Ends(p, "idle")
  /\ UNCHANGED faults

\* An error leaves runOnce, and start with it; the rest of the batch stays
\* claimed.  A worker's event is offered again.
Stops(p) ==
  /\ batch' = IF p \in Schedulers THEN [batch EXCEPT ![p] = {}] ELSE batch
  /\ Ends(p, IF p \in Schedulers THEN "down" ELSE "idle")

CommitUnknown(p) ==
  /\ Fault("commitUnknown")
  /\ Publish(p)
  /\ Stops(p)

\* A statement, the reducer or COMMIT fails, or the process dies.
Error(p) ==
  /\ \/ tx[p].pc \notin {"idle", "down"}
     \/ p \in Schedulers /\ tx[p].pc = "idle" /\ batch[p] # {}
  /\ Fault("error")
  /\ Stops(p)
  /\ UNCHANGED <<instances, timers, open, outcome>>

\* The processes whose locks keep p from its next statement, if any do.
Turn(p) ==
  LET cancels == {x \in tx[p].todo : x[1] = "cancel"}
  IN IF cancels # {} THEN cancels ELSE tx[p].todo
Touches(p, x) == x[1] = "schedule" \/ Visible(p, x[2]).status \in {"pending", "claimed"}
TimerHolders(p, id) == {q \in Procs \ {p} : LocksTimer(q, tx[p].del.inst, id)}

Holders(p) ==
  LET i == tx[p].del.inst IN
  CASE tx[p].pc = "insert" -> {q \in Workers : Inserted(q, i)}
    [] tx[p].pc = "write" /\ tx[p].todo = {} -> {q \in Procs \ {p} : LocksInstance(q, i)}
    [] tx[p].pc = "write" /\ \A x \in Turn(p) : Touches(p, x) /\ ~Available(p, x[2]) ->
         UNION {TimerHolders(p, x[2]) : x \in Turn(p)}
    [] tx[p].pc = "fire" -> TimerHolders(p, tx[p].del.key)
    [] OTHER -> {}

\* Processes that wait for one another in a circle: one of them is aborted.
Deadlock(p) ==
  /\ \E S \in SUBSET Procs :
       p \in S /\ \A q \in S : Holders(q) # {} /\ Holders(q) \subseteq S
  /\ Stops(p)
  /\ UNCHANGED <<instances, timers, open, outcome, faults>>

-----------------------------------------------------------------------------
(* Around the transactions.                                                *)

\* The process manager starts the process again.
Restart(s) ==
  /\ tx[s].pc = "down"
  /\ Ends(s, "idle")
  /\ UNCHANGED <<instances, timers, open, batch, outcome, faults>>

\* Mistake: the watchdog looks for rows whose claim was undone already.
WrongWatchdog == \E i \in Instances, id \in Ids :
  /\ timers[i][id].status = "pending" /\ Unlocked(i, id)
  /\ \A s \in Schedulers, n \in 1 .. MaxArms : Timer(i, id, n) \notin batch[s]
  /\ SetTimer(i, id, "pending")
  /\ UNCHANGED <<instances, open, batch, tx, outcome, faults>>

\* resetStaleClaimed, with a window no delivery outlasts: the claim it undoes
\* is not in any batch.
Watchdog == \E i \in Instances, id \in Ids :
  /\ timers[i][id].status = "claimed" /\ Unlocked(i, id)
  /\ \A s \in Schedulers, n \in 1 .. MaxArms : Timer(i, id, n) \notin batch[s]
  /\ SetTimer(i, id, "pending")
  /\ UNCHANGED <<instances, open, batch, tx, outcome, faults>>

\* cleanupTerminal, of both tables, long after the last transaction.
CleanInstance == \E i \in Instances :
  /\ instances[i].status = "completed" /\ \A p \in Procs : ~On(p, i)
  /\ Fault("retention")
  /\ instances' = [instances EXCEPT ![i] = NoRow]
  /\ UNCHANGED <<timers, open, batch, tx, outcome>>

CleanTimer == \E i \in Instances, id \in Ids :
  /\ timers[i][id].status \in {"fired", "cancelled"} /\ Unlocked(i, id)
  /\ Fault("retention")
  /\ SetTimer(i, id, "none")
  /\ UNCHANGED <<instances, open, batch, tx, outcome>>

\* An event is handed over again: a requeue, or a second runner of the saga.
Replay == \E e \in Events :
  /\ e \notin open /\ Fault("replay")
  /\ open' = open \cup {e}
  /\ UNCHANGED <<instances, timers, batch, tx, outcome>>

WorkerStep(w) == DeliverEvent(w) \/ SkipEvent(w) \/ Insert(w)
SchedulerStep(s) == Claim(s) \/ DeliverTimer(s) \/ MarkFired(s) \/ Release(s)
TransactionStep(p) == React(p) \/ Cancel(p) \/ Schedule(p) \/ Update(p) \/ Concurrent(p) \/ Commit(p)

Next ==
  \/ \E w \in Workers : WorkerStep(w)
  \/ \E s \in Schedulers : SchedulerStep(s) \/ ClaimUnknown(s) \/ Orphan(s) \/ Restart(s)
  \/ \E p \in Procs : TransactionStep(p) \/ CommitUnknown(p) \/ Error(p) \/ Deadlock(p)
  \/ Watchdog \/ CleanInstance \/ CleanTimer \/ Replay

Spec == Init /\ [][Next]_vars

\* A process with a statement to run runs it; one that waits for a row lock
\* gets it in its turn; the database breaks deadlocks, the process manager
\* restarts schedulers, cron runs the watchdog.  Nothing makes events arrive.
Fairness ==
  /\ \A s \in Schedulers :
       /\ WF_vars(Claim(s) \/ DeliverTimer(s)) /\ WF_vars(Restart(s))
       /\ SF_vars(MarkFired(s)) /\ WF_vars(Release(s))
  /\ \A p \in Procs : SF_vars(TransactionStep(p)) /\ WF_vars(Deadlock(p))
  /\ WF_vars(Watchdog)

FairSpec == Spec /\ Fairness
=============================================================================
