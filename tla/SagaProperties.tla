--------------------------- MODULE SagaProperties ---------------------------
(* What the runner and the scheduler promise the author of a saga.         *)
EXTENDS Saga

(* No transition is lost and none follows the end: each change of an       *)
(* instance appends one delivery to the state that an active row had, one  *)
(* version higher, whoever else loaded that row (saga-runner.ts:260-267).  *)
Extends(old, new) ==
  /\ new.version = old.version + 1
  /\ \E d \in Deliveries : new.state = Append(old.state, d)
  /\ old.status \in {"none", "active"}

TransitionsSerial ==
  [][\A i \in Instances :
       instances'[i] # instances[i] =>
         \/ Extends(instances[i], instances'[i])
         \/ instances[i].status = "completed" /\ instances'[i] = NoRow]_vars

(* An instance reacts at most once to an event and to a scheduled timer,   *)
(* whatever is claimed, delivered or replayed twice.                       *)
ReactsOnce ==
  \A i \in Instances : \A m, n \in DOMAIN instances[i].state :
    instances[i].state[m] = instances[i].state[n] => m = n

(* A timer that is marked fired was handed to its saga: what was scheduled *)
(* last is not thrown away (saga-timer-scheduler.ts:242-249).              *)
FiredWasDelivered ==
  \A i \in Instances, id \in Ids : timers[i][id].status = "fired" =>
    \E result \in {"applied", "skipped"} : <<Timer(i, id, timers[i][id].arm), result>> \in outcome

(* Each delivery is made and counts once: none is reacted to twice, and no *)
(* timer is marked fired without it.                                       *)
DeliversOnce == ReactsOnce /\ FiredWasDelivered

(* A pending timer does not stay so: it is delivered, cancelled or failed, *)
(* through deadlocks, stale versions, dead schedulers and leaked claims.   *)
TimersSettle ==
  \A i \in Instances, id \in Ids :
    timers[i][id].status = "pending" ~> timers[i][id].status \notin {"pending", "claimed"}

-----------------------------------------------------------------------------
(* The inductive invariants behind the theorems of SagaProofs.             *)

\* A row is missing or has a version, and a timer that was scheduled an arm.
StoreInv ==
  /\ \A i \in Instances :
       IF instances[i].status = "none" THEN instances[i] = NoRow ELSE instances[i].version > 0
  /\ \A i \in Instances, id \in Ids : timers[i][id].status # "none" => timers[i][id].arm > 0

\* What a process holds at each place of its transaction.
TxOK(p) ==
  LET t == tx[p] IN
  /\ t.pc \in {"idle", "down"} => t = [Idle EXCEPT !.pc = t.pc]
  /\ InTx(p) => IF p \in Workers THEN t.del.kind = "event" /\ t.seen.lastPos < t.del.key
                                 ELSE t.del \in batch[p]
  /\ p \in Workers => t.pc \notin {"fire", "release", "down"}
  /\ t.pc = "release" => t.del \in batch[p]
  /\ t.pc = "insert" => p \in Workers /\ t.seen = Fresh
  /\ t.pc \in {"insert", "react"} => t.mine = Idle.mine
  /\ t.pc \in {"insert", "react", "write"} => t.row = NoRow /\ t.seen.status = "active"
  /\ t.row # NoRow => t.row = Updated(p) /\ t.seen.status = "active"
  /\ InTx(p) /\ t.row = NoRow /\ t.pc \in {"fire", "commit"} =>
       \A id \in Ids : t.mine[id] # Unwritten => t.mine[id].arm = timers[t.del.inst][id].arm

\* The row a transaction loaded, or inserted, is the one that is there.
Current(p) ==
  LET i == tx[p].del.inst IN Inserted(p, i) \/ tx[p].seen = instances[i]

(* A version that is still there means the row that was loaded; a process  *)
(* that inserted the row, or has updated it, holds the current one.        *)
Loaded(p) ==
  LET i == tx[p].del.inst
      t == tx[p]
  IN InTx(p) /\ t.pc # "insert" =>
       IF Inserted(p, i) THEN instances[i] = NoRow /\ t.seen = Fresh
       ELSE /\ t.seen.version <= instances[i].version
            /\ t.seen.version = instances[i].version => t.seen = instances[i]
Holds(p) == InTx(p) /\ tx[p].row # NoRow => Current(p)

\* What a current transaction has scheduled, or will, there was room for.
Arms(p) == InTx(p) => \A id \in Ids :
  LET t == tx[p] IN
  /\ t.mine[id] # Unwritten =>
       /\ t.mine[id].status \in {"pending", "cancelled", "fired"} /\ t.mine[id].arm > 0
       /\ Current(p) => t.mine[id].arm <= MaxArms
  /\ t.pc = "write" /\ <<"schedule", id>> \in t.todo =>
       /\ t.mine[id].arm <= MaxArms
       /\ Current(p) => Visible(p, id).arm < MaxArms

ProcInv(p) == TxOK(p) /\ Loaded(p) /\ Holds(p) /\ Arms(p)

\* A row, of an instance or of a timer, has one writer at a time.
Apart == \A p, q \in Procs : p # q => \A i \in Instances :
  /\ ~(Inserted(p, i) /\ Inserted(q, i))
  /\ ~(LocksInstance(p, i) /\ LocksInstance(q, i))
  /\ \A id \in Ids : ~(LocksTimer(p, i, id) /\ LocksTimer(q, i, id))

IInv == TypeOK /\ StoreInv /\ (\A p \in Procs : ProcInv(p)) /\ Apart

(* Where every timer id is scheduled once, its arm is in one batch until   *)
(* the delivery is over, and is never pending or claimed again after it.   *)
Applied(d) == <<d, "applied">> \in outcome

\* An instance has passed the events it reacted to, and its timers' ends are known.
StateOnce(i) ==
  /\ \A m, n \in DOMAIN instances[i].state : instances[i].state[m] = instances[i].state[n] => m = n
  /\ \A m \in DOMAIN instances[i].state :
       LET d == instances[i].state[m] IN
       IF d.kind = "event" THEN d.key <= instances[i].lastPos ELSE Applied(d)

TimerOnce(i, id) ==
  LET d == Timer(i, id, 1)
      t == timers[i][id]
  IN /\ t.status = "fired" =>
          \E result \in {"applied", "skipped"} : <<Timer(i, id, t.arm), result>> \in outcome
     /\ Applied(d) => t.arm = 1 /\ t.status \notin {"pending", "claimed"}
     /\ \A s \in Schedulers : d \in batch[s] =>
          /\ t.arm = 1 /\ t.status # "pending" /\ ~Applied(d)
          /\ \A r \in Schedulers : d \in batch[r] => r = s

\* What a transaction has written on a timer continues it; at its commit the
\* timer that is delivered is over.
MineOnce(p) ==
  LET i == tx[p].del.inst
      mine == tx[p].mine
  IN InTx(p) =>
       /\ \A id \in Ids : mine[id] # Unwritten =>
            /\ mine[id].arm >= timers[i][id].arm
            /\ mine[id].status = "pending" => mine[id].arm > timers[i][id].arm
            /\ mine[id].status = "fired" => p \in Schedulers /\ id = tx[p].del.key
       /\ p \in Schedulers /\ tx[p].pc = "commit" =>
            LET id == tx[p].del.key IN
            IF mine[id] # Unwritten THEN mine[id].status = "fired"
            ELSE timers[i][id].status \notin {"pending", "claimed"}

OnceInv ==
  /\ \A i \in Instances : StateOnce(i) /\ \A id \in Ids : TimerOnce(i, id)
  /\ \A p \in Procs : MineOnce(p)

=============================================================================
