---------------------------- MODULE SagaCommands ----------------------------
(***************************************************************************)
(* The commands sagas emit: rows of saga_pending_commands, and the         *)
(* dispatchers that claim them in batches and send them through the        *)
(* command bus, one after the other.  Claim, send, ack and release are     *)
(* transactions of their own.  Of the bus only its promise is used: it is  *)
(* an instance of ExactlyOnce, which CommandBus implements.                *)
(***************************************************************************)
EXTENDS Naturals, FiniteSets

CONSTANTS
  Rows,          \* ids of saga_pending_commands
  Dispatchers,   \* processes running SagaCommandDispatcher
  Fair,          \* those whose queue has claimStrategy "fair-by-tenant"
  TenantOf,      \* the tenant of a row
  BatchSize, MaxAttempts,
  MaxSends,            \* bound: how often the bus is asked
  Exposed, MaxFaults   \* the kinds of faults considered, and their bound

FaultKinds == {"claimUnknown", "ackFails", "settleFails", "sendUnknown", "crash",
               "requeue", "retention", "forget"}

ASSUME SagaCommandsAssumption ==
  /\ Fair \subseteq Dispatchers
  /\ BatchSize \in Nat \ {0} /\ MaxAttempts \in Nat /\ MaxSends \in Nat /\ MaxFaults \in Nat
  /\ DOMAIN TenantOf = Rows
  /\ Exposed \subseteq FaultKinds

Requests == 1 .. MaxSends
Keys == Rows \X (0 .. MaxSends)
NoKey == <<>>

VARIABLES
  queue,     \* saga_pending_commands
  at,        \* where each dispatcher stands
  asked, applied, verdict, answer,   \* the bus
  history,   \* of each row: how often its handler committed, how often the bus
             \* forgot that, and whether cleanupFailed deleted it
  faults

bus == <<asked, applied, verdict, answer>>
vars == <<queue, at, bus, history, faults>>

Bus == INSTANCE ExactlyOnce

\* What a dispatcher holds of a claimed row: attempts as the claim left it.
Items == [row : Rows, attempts : Nat]
NoItem == [row |-> "none", attempts |-> 0]
Idle == [pc |-> "idle", seen |-> {}, hands |-> {}, item |-> NoItem, req |-> 0]
Statuses == {"pending", "claimed", "failed", "deleted"}

TypeOK ==
  /\ queue \in [Rows -> [status : Statuses, attempts : Nat]]
  /\ at \in [Dispatchers -> [pc : {"idle", "claim", "send", "ack", "settle", "down"}, seen : SUBSET Rows,
                             hands : SUBSET Items, item : Items \cup {NoItem}, req : 0 .. MaxSends]]
  /\ asked \in [Requests -> Keys \cup {NoKey}] /\ applied \in [Keys -> 0 .. MaxSends]
  /\ verdict \in [Requests -> Bus!Verdicts] /\ answer \in [Requests -> 0 .. MaxSends]
  /\ history \in [Rows -> [runs : Nat, forgotten : Nat, purged : BOOLEAN]] /\ faults \in 0 .. MaxFaults

\* The rows that transitions of sagas enqueued.  When they did makes no
\* difference: any pending row may still be held back.
Init ==
  /\ queue = [r \in Rows |-> [status |-> "pending", attempts |-> 0]]
  /\ at = [d \in Dispatchers |-> Idle]
  /\ Bus!Init
  /\ history = [r \in Rows |-> [runs |-> 0, forgotten |-> 0, purged |-> FALSE]]
  /\ faults = 0

-----------------------------------------------------------------------------
Fault(kind) == kind \in Exposed /\ faults < MaxFaults /\ faults' = faults + 1

Held(r) == \E d \in Dispatchers : \E x \in at[d].hands : x.row = r
Exists(r) == queue[r].status # "deleted"
SetStatus(r, status) ==
  queue' = [queue EXCEPT ![r].status = IF Exists(r) THEN status ELSE @]

Goes(d, pc) == at' = [at EXCEPT ![d].pc = pc]
Down(d) == at' = [at EXCEPT ![d] = [Idle EXCEPT !.pc = "down"]]
Drops(d) ==
  at' = [at EXCEPT ![d] = [Idle EXCEPT !.hands = at[d].hands \ {at[d].item}]]

-----------------------------------------------------------------------------
(* claimBatch is one statement, but not one step: it picks rows from its   *)
(* snapshot, and then locks them.  next_attempt_at may hold back any row.  *)
Candidates(d) ==
  {S \in SUBSET {r \in Rows : queue[r].status = "pending"} :
     /\ S # {} /\ Cardinality(S) <= BatchSize
     /\ d \in Fair => \A r, s \in S : TenantOf[r] = TenantOf[s] => r = s}

Look(d) ==
  /\ at[d].pc = "idle" /\ at[d].hands = {}
  /\ \E S \in Candidates(d) : at' = [at EXCEPT ![d].pc = "claim", ![d].seen = S]
  /\ UNCHANGED <<queue, bus, history, faults>>

\* A row that changed since is tested again, for what the locking SELECT says:
\* status = 'pending' with "fifo", but only its id with "fair-by-tenant".
Taken(d) ==
  {r \in at[d].seen : IF d \in Fair THEN Exists(r) ELSE queue[r].status = "pending"}

Claimed(R) ==
  queue' = [r \in Rows |->
    IF r \in R THEN [status |-> "claimed", attempts |-> queue[r].attempts + 1] ELSE queue[r]]

Claim(d) ==
  LET items == {[row |-> r, attempts |-> queue[r].attempts + 1] : r \in Taken(d)} IN
  /\ at[d].pc = "claim"
  /\ Claimed(Taken(d))
  /\ at' = [at EXCEPT ![d] = [Idle EXCEPT !.hands = items]]
  /\ UNCHANGED <<bus, history, faults>>

\* The claim commits, its answer is lost: runOnce rejects, start returns.
ClaimUnknown(d) ==
  /\ at[d].pc = "claim" /\ Fault("claimUnknown")
  /\ Claimed(Taken(d))
  /\ Down(d)
  /\ UNCHANGED <<bus, history>>

-----------------------------------------------------------------------------
(* The send, under a key made of the row's id.                             *)

\* Mistake: a key for every attempt.
WrongDispatchKey(x) == <<x.row, x.attempts>>

DispatchKey(x) == <<x.row, 0>>

Send(d) ==
  /\ at[d].pc = "idle"
  /\ \E x \in at[d].hands, q \in Requests :
       /\ verdict[q] = "unsent" /\ \A p \in Requests : p < q => verdict[p] # "unsent"
       /\ Bus!Ask(q, DispatchKey(x))
       /\ at' = [at EXCEPT ![d].pc = "send", ![d].item = x, ![d].req = q]
  /\ UNCHANGED <<queue, history, faults>>

\* The handler of the row ran if its key was not applied before.
Counts(d) ==
  LET k == asked[at[d].req] IN
  history' = [history EXCEPT ![at[d].item.row].runs =
    IF applied[k] = Bus!None /\ applied'[k] # Bus!None THEN @ + 1 ELSE @]

Runs(d) ==
  /\ at[d].pc = "send"
  /\ Bus!Run(at[d].req) /\ Counts(d)
  /\ UNCHANGED <<queue, at, faults>>

Served(d) ==
  /\ at[d].pc = "send"
  /\ Bus!Serve(at[d].req) /\ Counts(d)
  /\ Goes(d, "ack")
  /\ UNCHANGED <<queue, faults>>

\* Mistake: the ack in a finally block.
WrongRefused(d) ==
  /\ at[d].pc = "send"
  /\ Bus!Refuse(at[d].req)
  /\ Goes(d, "ack")
  /\ UNCHANGED <<queue, history, faults>>

Refused(d) ==
  /\ at[d].pc = "send"
  /\ Bus!Refuse(at[d].req)
  /\ Goes(d, "settle")
  /\ UNCHANGED <<queue, history, faults>>

\* send rejects, but the command may have been applied.
SendUnknown(d) ==
  /\ at[d].pc = "send" /\ Fault("sendUnknown")
  /\ Bus!Lose(at[d].req) /\ Counts(d)
  /\ Goes(d, "settle")
  /\ UNCHANGED queue

-----------------------------------------------------------------------------
Ack(d) ==
  /\ at[d].pc = "ack"
  /\ SetStatus(at[d].item.row, "deleted")
  /\ Drops(d)
  /\ UNCHANGED <<bus, history, faults>>

\* The DELETE fails, or its answer is lost: the same catch as for the send.
AckFails(d) ==
  /\ at[d].pc = "ack" /\ Fault("ackFails")
  /\ \/ UNCHANGED queue
     \/ SetStatus(at[d].item.row, "deleted")
  /\ Goes(d, "settle")
  /\ UNCHANGED <<bus, history>>

\* markFailed and releaseWithError, neither of which looks at the status.
Verdict(x) == IF x.attempts >= MaxAttempts THEN "failed" ELSE "pending"

Settle(d) ==
  /\ at[d].pc = "settle"
  /\ SetStatus(at[d].item.row, Verdict(at[d].item))
  /\ Drops(d)
  /\ UNCHANGED <<bus, history, faults>>

\* An error here leaves runOnce, and start: the rest of the batch stays claimed.
SettleFails(d) ==
  /\ at[d].pc = "settle" /\ Fault("settleFails")
  /\ \/ UNCHANGED queue
     \/ SetStatus(at[d].item.row, Verdict(at[d].item))
  /\ Down(d)
  /\ UNCHANGED <<bus, history>>

Crash(d) ==
  /\ at[d].hands # {}
  /\ Fault("crash")
  /\ IF at[d].pc = "send" THEN Bus!Lose(at[d].req) /\ Counts(d) ELSE UNCHANGED <<bus, history>>
  /\ Down(d)
  /\ UNCHANGED queue

\* The process manager starts the process again.
Restart(d) ==
  /\ at[d].pc = "down"
  /\ Goes(d, "idle")
  /\ UNCHANGED <<queue, bus, history, faults>>

-----------------------------------------------------------------------------
(* Maintenance.                                                            *)

\* Mistake: only rows that have attempts left.
WrongWatchdog == \E r \in Rows :
  /\ queue[r].status = "claimed" /\ ~Held(r) /\ queue[r].attempts < MaxAttempts
  /\ SetStatus(r, "pending")
  /\ UNCHANGED <<at, bus, history, faults>>

\* resetStaleClaimed, with a window no dispatch outlasts.
Watchdog == \E r \in Rows :
  /\ queue[r].status = "claimed" /\ ~Held(r)
  /\ SetStatus(r, "pending")
  /\ UNCHANGED <<at, bus, history, faults>>

Requeue == \E r \in Rows :
  /\ queue[r].status = "failed" /\ Fault("requeue")
  /\ queue' = [queue EXCEPT ![r] = [status |-> "pending", attempts |-> 0]]
  /\ UNCHANGED <<at, bus, history>>

CleanupFailed == \E r \in Rows :
  /\ queue[r].status = "failed" /\ Fault("retention")
  /\ SetStatus(r, "deleted")
  /\ history' = [history EXCEPT ![r].purged = TRUE]
  /\ UNCHANGED <<at, bus>>

\* The bus's own cleanup deletes the slot of a key that was applied long ago.
Forget == \E r \in Rows :
  /\ applied[<<r, 0>>] # Bus!None /\ Fault("forget")
  /\ \A d \in Dispatchers : at[d].pc = "send" => at[d].item.row # r
  /\ Bus!Forget(<<r, 0>>)
  /\ history' = [history EXCEPT ![r].forgotten = @ + 1]
  /\ UNCHANGED <<queue, at>>

Step(d) == Look(d) \/ Claim(d) \/ Send(d) \/ Served(d) \/ Refused(d) \/ Ack(d) \/ Settle(d) \/ Restart(d)

Next ==
  \/ \E d \in Dispatchers :
       Step(d) \/ Runs(d) \/ ClaimUnknown(d) \/ SendUnknown(d) \/ AckFails(d) \/ SettleFails(d) \/ Crash(d)
  \/ Watchdog \/ Requeue \/ CleanupFailed \/ Forget

Spec == Init /\ [][Next]_vars

\* Dispatchers poll, the bus answers (CommandBus: SendEnds), the process
\* manager restarts, cron runs the watchdog.
Fairness ==
  /\ \A d \in Dispatchers : WF_vars(Step(d))
  /\ WF_vars(Watchdog)

FairSpec == Spec /\ Fairness

-----------------------------------------------------------------------------
(* What the queue and its dispatchers promise a saga.                      *)

(* No command is lost: a row that is gone was applied, or was left to the  *)
(* operator as failed until it was purged (saga-command-dispatcher.ts:148).*)
NothingLost ==
  \A r \in Rows : queue[r].status = "deleted" /\ ~history[r].purged => history[r].runs > 0

(* A command is applied once, however often it is claimed and sent, plus   *)
(* once for each time the bus forgot it (saga-command-dispatcher.ts:72-75).*)
AppliedOnce ==
  \A r \in Rows : history[r].runs <= 1 + history[r].forgotten

(* A command that was emitted ends applied and gone, or failed and in view *)
(* of the operator: no error, crash or leaked claim keeps it in between.   *)
CommandsEnd ==
  \A r \in Rows : queue[r].status = "pending" ~> queue[r].status \in {"deleted", "failed"}
=============================================================================
