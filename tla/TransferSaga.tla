---------------------------- MODULE TransferSaga ----------------------------
(***************************************************************************)
(* The transfer chain of examples/banking-api-saga: the FundsTransfer saga *)
(* behind the outbox runner, the timer scheduler, and the dispatcher that  *)
(* sends its commands to four handlers.  Saga shows that an event is       *)
(* reacted to once, SagaCommands and CommandBus that a command takes       *)
(* effect once; a delivery, a firing and a dispatch are one step here.     *)
(* Replicas of the dispatcher may take pending commands in any order.      *)
(***************************************************************************)
EXTENDS Bank, FiniteSets

CONSTANT MaxDispatches   \* attempts at a command

CommandTypes == {"WithdrawFromAccount", "DepositToAccount", "CompleteTransaction", "FailTransaction"}

VARIABLES
  delivered,   \* log positions whose outbox row the runner has handed over
  sagas,       \* instances of FundsTransfer
  timers,      \* the withdraw-timeout of each
  commands     \* rows of saga_pending_commands

NoInstance == [status |-> "none", step |-> "none", lastPos |-> 0]

SagaInit ==
  /\ delivered = {} /\ commands = {}
  /\ sagas = [t \in Transfers |-> NoInstance]
  /\ timers = [t \in Transfers |-> "none"]

-----------------------------------------------------------------------------
(* The reducer: the next step, the commands, what becomes of the timer,    *)
(* and whether the instance ends.                                          *)
Reaction(step, emits, timer, end) == [step |-> step, emits |-> emits, timer |-> timer, end |-> end]

ReactToEvent(type, step, timer) ==
  CASE type = "TransactionStarted"  -> Reaction(step, {"WithdrawFromAccount"}, "pending", FALSE)
    [] type = "WithdrawalCompleted" -> Reaction("withdrawn", {"DepositToAccount"}, "cancelled", FALSE)
    [] type = "DepositCompleted"    -> Reaction(step, {"CompleteTransaction"}, timer, TRUE)
    [] type = "TransactionFailed"   -> Reaction(step, {}, "cancelled", TRUE)

\* Mistake: the timeout ends the saga, not the transfer.
WrongReactToTimer(step) == Reaction(step, {}, "fired", TRUE)

ReactToTimer(step) == Reaction(step, {"FailTransaction"}, "fired", TRUE)

Applied(t, instance, reaction, pos) ==
  /\ sagas' = [sagas EXCEPT ![t] = [status |-> IF reaction.end THEN "ended" ELSE "active",
                                    step |-> reaction.step, lastPos |-> pos]]
  /\ timers' = [timers EXCEPT ![t] = reaction.timer]
  /\ commands' = commands \cup
       {[type |-> c, transfer |-> t, attempts |-> 0, status |-> "pending"] : c \in reaction.emits}

\* initialState, for the event that starts an instance.
InstanceFor(t, type) ==
  IF sagas[t].status = "none" /\ type = "TransactionStarted"
  THEN [status |-> "active", step |-> "started", lastPos |-> 0] ELSE sagas[t]

Deliver(i) ==
  LET e == bank.log[i]
      t == e.transfer
      instance == InstanceFor(t, e.type) IN
  /\ e.visible /\ e.enqueued /\ i \notin delivered
  /\ delivered' = delivered \cup {i}
  /\ IF instance.status = "active" /\ i > instance.lastPos
     THEN Applied(t, instance, ReactToEvent(e.type, instance.step, timers[t]), i)
     ELSE UNCHANGED <<sagas, timers, commands>>
  /\ UNCHANGED bank

\* Thirty seconds may pass before any other step.
Fire(t) ==
  /\ timers[t] = "pending"
  /\ IF sagas[t].status = "active"
     THEN Applied(t, sagas[t], ReactToTimer(sagas[t].step), sagas[t].lastPos)
     ELSE timers' = [timers EXCEPT ![t] = "fired"] /\ UNCHANGED <<sagas, commands>>
  /\ UNCHANGED <<bank, delivered>>

-----------------------------------------------------------------------------
(* The handlers are ports of the projections.  Withdrawing does not look   *)
(* at the status of the transaction.                                       *)
WithdrawFromAccount(b, t) == Withdraw(b, t)
DepositToAccount(b, t) == Deposit(b, t)
CompleteTransaction(b, t) == Complete(b, t)
FailTransaction(b, t) == Fail(b, t)

HandleCommand(b, c) ==
  CASE c.type = "WithdrawFromAccount" -> WithdrawFromAccount(b, c.transfer)
    [] c.type = "DepositToAccount"    -> DepositToAccount(b, c.transfer)
    [] c.type = "CompleteTransaction" -> CompleteTransaction(b, c.transfer)
    [] c.type = "FailTransaction"     -> FailTransaction(b, c.transfer)

Becomes(c, d) == commands' = (commands \ {c}) \cup {d}

Dispatch(c) ==
  /\ c.status = "pending"
  /\ bank' \in HandleCommand(bank, c)
  /\ Becomes(c, [c EXCEPT !.status = "acked"])
  /\ UNCHANGED <<delivered, sagas, timers>>

\* The handler throws, or its transaction fails.
DispatchFails(c) ==
  /\ c.status = "pending"
  /\ Becomes(c, [c EXCEPT !.attempts = @ + 1,
                          !.status = IF c.attempts + 1 >= MaxDispatches THEN "failed" ELSE "pending"])
  /\ UNCHANGED <<bank, delivered, sagas, timers>>

SagaStep ==
  \/ \E i \in DOMAIN bank.log : Deliver(i)
  \/ \E t \in Transfers : Fire(t)
  \/ \E c \in commands : Dispatch(c) \/ DispatchFails(c)
=============================================================================
