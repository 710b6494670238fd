----------------------------- MODULE CommandBus -----------------------------
(***************************************************************************)
(* CommandBus.send: the retry loops around one transaction in which the    *)
(* idempotency middleware claims the command's key, the handler runs and   *)
(* the slot is completed.                                                  *)
(*                                                                         *)
(* Store "pg" is PgIdempotencyStore: the slot is a row that the claim      *)
(* locks, so a second claim of the key waits for the first transaction,    *)
(* and what it writes is seen when that commits.  Store "memory" is        *)
(* InMemoryIdempotencyStore in the one process that sends: the slot        *)
(* changes at once, whatever becomes of the transaction.  In both the      *)
(* handler's effects are the transaction's.                                *)
(***************************************************************************)
EXTENDS Naturals, FiniteSets

CONSTANTS
  Senders,       \* calls of send under way
  Keys, NoKey,   \* (tenant, idempotency key)
  KeyOf,         \* the key of each sender's command
  MaxAttempts,   \* retryOptions.maxAttempts
  Stores,        \* stores to consider, of {"pg", "memory"}
  FaultsOf,      \* the faults each store is exposed to
  MaxSends, MaxPolls, MaxFaults   \* bounds

FaultKinds == {"commitFails", "commitUnknown", "crash", "cron"}
Sends == 1 .. MaxSends
None == 0

ASSUME BusAssumption ==
  /\ NoKey \notin Keys
  /\ KeyOf \in [Senders -> Keys]
  /\ MaxAttempts \in Nat \ {0} /\ MaxSends \in Nat /\ MaxPolls \in Nat /\ MaxFaults \in Nat
  /\ Stores \subseteq {"pg", "memory"}
  /\ FaultsOf \in [Stores -> SUBSET FaultKinds]

VARIABLES
  store,      \* the bus's idempotencyStore
  slot,       \* the slots: committed rows, or the Map
  pc,         \* where each sender is in send
  current,    \* number of its current send
  reply,      \* the send whose result it is about to return
  tries,      \* attempts made by withConcurrencyRetry
  polls,      \* waits for an in-flight key
  sends,      \* sends so far
  effects,    \* sends whose handler's effects are committed, per key
  forgotten,  \* history: those of them whose slot was deleted since
  asked, verdict, answer,   \* history: the key and the outcome of each send
  faults      \* faults so far

loopVars == <<pc, current, reply, tries, polls>>
historyVars == <<forgotten, asked, verdict, answer>>
vars == <<store, slot, loopVars, sends, effects, historyVars, faults>>

NoSlot == [status |-> "none", by |-> None]
Slots == [status : {"none", "in_flight", "completed", "failed"}, by : Sends \cup {None}]
Verdicts == {"unsent", "open", "answered", "failed", "unsure"}

TypeOK ==
  /\ store \in Stores
  /\ slot \in [Keys -> Slots]
  /\ pc \in [Senders -> {"idle", "claim", "handle", "commit", "wait"}]
  /\ current \in [Senders -> Sends \cup {None}]
  /\ reply \in [Senders -> Sends \cup {None}]
  /\ tries \in [Senders -> 0 .. MaxAttempts - 1] /\ polls \in [Senders -> 0 .. MaxPolls]
  /\ sends \in 0 .. MaxSends /\ faults \in 0 .. MaxFaults
  /\ effects \in [Keys -> SUBSET Sends] /\ forgotten \in [Keys -> SUBSET Sends]
  /\ asked \in [Sends -> Keys \cup {NoKey}]
  /\ verdict \in [Sends -> Verdicts]
  /\ answer \in [Sends -> Sends \cup {None}]

Init ==
  /\ store \in Stores
  /\ slot = [k \in Keys |-> NoSlot]
  /\ pc = [s \in Senders |-> "idle"]
  /\ current = [s \in Senders |-> None] /\ reply = [s \in Senders |-> None]
  /\ tries = [s \in Senders |-> 0] /\ polls = [s \in Senders |-> 0]
  /\ sends = 0 /\ faults = 0
  /\ effects = [k \in Keys |-> {}] /\ forgotten = [k \in Keys |-> {}]
  /\ asked = [r \in Sends |-> NoKey]
  /\ verdict = [r \in Sends |-> "unsent"]
  /\ answer = [r \in Sends |-> None]

-----------------------------------------------------------------------------
Disrupt(kind) ==
  /\ kind \in FaultsOf[store]
  /\ faults < MaxFaults
  /\ faults' = faults + 1

InTx(s) == pc[s] \in {"handle", "commit"}

\* The row lock that a claim takes, won or lost, and keeps to the end of its
\* transaction: ON CONFLICT DO UPDATE locks the row even if its WHERE fails.
Locked(k) == store = "pg" /\ \E s \in Senders : InTx(s) /\ KeyOf[s] = k

GoTo(s, label) == pc' = [pc EXCEPT ![s] = label]

SetSlot(s, status, by) ==
  slot' = [slot EXCEPT ![KeyOf[s]] = [status |-> status, by |-> by]]

\* The in-memory slot is written at once, a row of the table at the commit.
SetInMemory(s, status, by) ==
  IF store = "memory" THEN SetSlot(s, status, by) ELSE UNCHANGED slot

\* send returns or rejects; its outcome is recorded.
Ends(s, outcome) ==
  /\ GoTo(s, "idle")
  /\ current' = [current EXCEPT ![s] = None]
  /\ reply' = [reply EXCEPT ![s] = None]
  /\ tries' = [tries EXCEPT ![s] = 0] /\ polls' = [polls EXCEPT ![s] = 0]
  /\ verdict' = [verdict EXCEPT ![current[s]] = outcome]
  /\ UNCHANGED <<store, sends, asked>>

\* A client, or whoever delivers the command again, calls send.
Send(s) ==
  /\ pc[s] = "idle" /\ sends < MaxSends
  /\ sends' = sends + 1
  /\ current' = [current EXCEPT ![s] = sends + 1]
  /\ asked' = [asked EXCEPT ![sends + 1] = KeyOf[s]]
  /\ verdict' = [verdict EXCEPT ![sends + 1] = "open"]
  /\ GoTo(s, "claim")
  /\ UNCHANGED <<store, slot, reply, tries, polls, effects, forgotten, answer, faults>>

-----------------------------------------------------------------------------
(* The middleware, inside the transaction.                                 *)

\* Mistake: a slot that is in flight can be claimed.
WrongClaim(s) ==
  /\ pc[s] = "claim" /\ ~Locked(KeyOf[s])
  /\ slot[KeyOf[s]].status \in {"none", "failed", "in_flight"}
  /\ SetInMemory(s, "in_flight", current[s])
  /\ GoTo(s, "handle")
  /\ UNCHANGED <<store, current, reply, tries, polls, sends, effects, historyVars, faults>>

Claim(s) ==
  /\ pc[s] = "claim" /\ ~Locked(KeyOf[s])
  /\ slot[KeyOf[s]].status \in {"none", "failed"}
  /\ SetInMemory(s, "in_flight", current[s])
  /\ GoTo(s, "handle")
  /\ UNCHANGED <<store, current, reply, tries, polls, sends, effects, historyVars, faults>>

\* The slot is completed: its result is returned, the handler does not run.
Replay(s) ==
  /\ pc[s] = "claim" /\ ~Locked(KeyOf[s])
  /\ slot[KeyOf[s]].status = "completed"
  /\ reply' = [reply EXCEPT ![s] = slot[KeyOf[s]].by]
  /\ GoTo(s, "commit")
  /\ UNCHANGED <<store, slot, current, tries, polls, sends, effects, historyVars, faults>>

\* The slot is in flight: the error ends the transaction, and the wait or the
\* rejection takes place outside it.
InFlight(s) ==
  /\ pc[s] = "claim" /\ ~Locked(KeyOf[s])
  /\ slot[KeyOf[s]].status = "in_flight"
  /\ tries' = [tries EXCEPT ![s] = 0]
  /\ GoTo(s, "wait")
  /\ UNCHANGED <<store, slot, current, reply, polls, sends, effects, historyVars, faults>>

\* The handler returns and the slot is completed.
HandlerReturns(s) ==
  /\ pc[s] = "handle"
  /\ reply' = [reply EXCEPT ![s] = current[s]]
  /\ SetInMemory(s, "completed", current[s])
  /\ GoTo(s, "commit")
  /\ UNCHANGED <<store, current, tries, polls, sends, effects, historyVars, faults>>

\* The catch block's release: a no-op in the table, a delete in memory.
Release(s) == SetInMemory(s, "none", None)

\* The handler throws a ConcurrencyError and attempts are left: rollback, and
\* a new transaction claims again.
HandlerConflicts(s) ==
  /\ pc[s] = "handle"
  /\ tries' = [tries EXCEPT ![s] = @ + 1]
  /\ tries[s] + 1 < MaxAttempts
  /\ Release(s)
  /\ GoTo(s, "claim")
  /\ UNCHANGED <<store, current, reply, polls, sends, effects, historyVars, faults>>

\* Any other error, or the last ConcurrencyError: rollback, send rejects.
Throws(s) ==
  /\ pc[s] \in {"claim", "handle"}
  /\ IF pc[s] = "handle" THEN Release(s) ELSE UNCHANGED slot
  /\ Ends(s, "failed")
  /\ UNCHANGED <<effects, forgotten, answer, faults>>

-----------------------------------------------------------------------------
(* The end of the transaction and the loops around it.                     *)

Ran(s) == reply[s] = current[s]

\* Mistake: the slot is completed in a transaction of its own, which is lost.
WrongPublish(s) ==
  /\ effects' = [effects EXCEPT ![KeyOf[s]] = IF Ran(s) THEN @ \cup {current[s]} ELSE @]
  /\ UNCHANGED slot

\* COMMIT: the effects of the handler and, in the table, the completed slot.
Publish(s) ==
  /\ effects' = [effects EXCEPT ![KeyOf[s]] = IF Ran(s) THEN @ \cup {current[s]} ELSE @]
  /\ IF store = "pg" /\ Ran(s) THEN SetSlot(s, "completed", current[s]) ELSE UNCHANGED slot

Commit(s) ==
  /\ pc[s] = "commit"
  /\ Publish(s)
  /\ answer' = [answer EXCEPT ![current[s]] = reply[s]]
  /\ Ends(s, "answered")
  /\ UNCHANGED <<forgotten, faults>>

\* COMMIT fails and the transaction rolls back; the middleware has returned,
\* so nothing releases the slot.
CommitFails(s) ==
  /\ pc[s] = "commit"
  /\ Disrupt("commitFails")
  /\ Ends(s, "failed")
  /\ UNCHANGED <<slot, effects, forgotten, answer>>

\* COMMIT is applied and its answer is lost.
CommitUnknown(s) ==
  /\ pc[s] = "commit"
  /\ Disrupt("commitUnknown")
  /\ Publish(s)
  /\ Ends(s, "unsure")
  /\ UNCHANGED <<forgotten, answer>>

WaitOver(s) ==
  /\ pc[s] = "wait"
  /\ polls[s] < MaxPolls
  /\ polls' = [polls EXCEPT ![s] = @ + 1]
  /\ GoTo(s, "claim")
  /\ UNCHANGED <<store, slot, current, reply, tries, sends, effects, historyVars, faults>>

\* Mistake: the deadline is never reached.
WrongGiveUp(s) ==
  /\ pc[s] = "wait" /\ polls[s] > MaxPolls
  /\ Ends(s, "failed")
  /\ UNCHANGED <<slot, effects, forgotten, answer, faults>>

\* inFlightWaitMs is over, or the strategy is "reject".
GiveUp(s) ==
  /\ pc[s] = "wait"
  /\ Ends(s, "failed")
  /\ UNCHANGED <<slot, effects, forgotten, answer, faults>>

-----------------------------------------------------------------------------
\* One of several processes over the table dies; its transaction rolls back.
Crash(s) ==
  /\ store = "pg" /\ pc[s] # "idle"
  /\ Disrupt("crash")
  /\ Ends(s, "unsure")
  /\ UNCHANGED <<slot, effects, forgotten, answer>>

\* The only process dies, and its Map with it.
Restart ==
  /\ store = "memory"
  /\ Disrupt("crash")
  /\ slot' = [k \in Keys |-> NoSlot]
  /\ pc' = [s \in Senders |-> "idle"]
  /\ current' = [s \in Senders |-> None] /\ reply' = [s \in Senders |-> None]
  /\ tries' = [s \in Senders |-> 0] /\ polls' = [s \in Senders |-> 0]
  /\ forgotten' = effects
  /\ verdict' = [r \in Sends |-> IF verdict[r] = "open" THEN "unsure" ELSE verdict[r]]
  /\ UNCHANGED <<store, sends, effects, asked, answer>>

\* The maintenance job, resetStaleInFlight and cleanup, of a slot old enough.
\* Both wait for the row's lock and see committed rows only.
Cron(k) ==
  /\ store = "pg" /\ slot[k] # NoSlot /\ ~Locked(k)
  /\ Disrupt("cron")
  /\ IF slot[k].status = "in_flight"
     THEN /\ slot' = [slot EXCEPT ![k].status = "failed"]
          /\ UNCHANGED forgotten
     ELSE /\ slot' = [slot EXCEPT ![k] = NoSlot]
          /\ forgotten' = [forgotten EXCEPT ![k] = effects[k]]
  /\ UNCHANGED <<store, loopVars, sends, effects, asked, verdict, answer>>

-----------------------------------------------------------------------------
SenderStep(s) ==
  \/ Claim(s) \/ Replay(s) \/ InFlight(s)
  \/ HandlerReturns(s) \/ HandlerConflicts(s) \/ Throws(s)
  \/ Commit(s) \/ WaitOver(s) \/ GiveUp(s)

SenderFault(s) == CommitFails(s) \/ CommitUnknown(s) \/ Crash(s)

Next ==
  \/ \E s \in Senders : Send(s) \/ SenderStep(s) \/ SenderFault(s)
  \/ \E k \in Keys : Cron(k)
  \/ Restart

Spec == Init /\ [][Next]_vars

(* A call of send keeps running: statements are answered, handlers return  *)
(* or throw, and a wait for an in-flight key is over at the latest after   *)
(* inFlightWaitMs.  Clients and faults owe nothing.                        *)
Fairness == \A s \in Senders : WF_vars(SenderStep(s))
FairSpec == Spec /\ Fairness

-----------------------------------------------------------------------------
(* What the bus promises of a key, its slot and its callers.               *)

(* A slot that is seen in flight belongs to a send whose handler is        *)
(* running: nothing else ends it, and every retry of the key would wait    *)
(* for it and give up.                                                     *)
NoOrphanedSlot ==
  \A k \in Keys : slot[k].status = "in_flight" =>
    \E s \in Senders : pc[s] = "handle" /\ KeyOf[s] = k /\ current[s] = slot[k].by

\* In memory a slot is completed before its transaction commits.
Committing(k, r) ==
  store = "memory" /\ \E s \in Senders : pc[s] = "commit" /\ KeyOf[s] = k /\ current[s] = r

(* The slot of a key and the effects in the database tell the same story,  *)
(* through rollbacks, lost answers, crashes and maintenance: every         *)
(* committed run of the handler that was not deleted by age is the one in  *)
(* the completed slot, and a completed slot's run is committed.            *)
SlotTellsEffects ==
  \A k \in Keys :
    /\ \A r \in effects[k] \ forgotten[k] : slot[k] = [status |-> "completed", by |-> r]
    /\ slot[k].status = "completed" =>
         slot[k].by \in effects[k] \ forgotten[k] \/ Committing(k, slot[k].by)

(* Slots are sound: one in flight has an owner, so that the watchdog finds *)
(* nothing to reset, and a completed one stands for the committed run.     *)
SlotsSound == NoOrphanedSlot /\ SlotTellsEffects

\* The send whose run of the handler a key's slot holds.
Applied == [k \in Keys |-> IF slot[k].status = "completed" THEN slot[k].by ELSE None]

(* Seen from its callers the bus is ExactlyOnce: one send per key is       *)
(* applied, all answers are that one's result, a rejected send left        *)
(* nothing behind, until the slot is forgotten.                            *)
Promise == INSTANCE ExactlyOnce WITH Requests <- Sends, applied <- Applied

BusIsExactlyOnce == Promise!Spec

(* send returns or rejects, also with a key that others hold.              *)
SendEnds == \A s \in Senders : pc[s] # "idle" ~> pc[s] = "idle"
=============================================================================
