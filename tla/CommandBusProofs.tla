-------------------------- MODULE CommandBusProofs --------------------------
(* Proofs about CommandBus, for every value of its constants: any number   *)
(* of senders, keys, sends, attempts and faults.                           *)
EXTENDS CommandBus, TLAPS

(* A commit that fails after the in-memory slot was completed breaks the   *)
(* promise; the in-memory store is meant for transactions that cannot.     *)
MemoryCommits == "memory" \in Stores => "commitFails" \notin FaultsOf["memory"]

-----------------------------------------------------------------------------
(* The inductive invariant.                                                *)

\* Each call of send has a number of its own, open until it ends.
NumberInv ==
  /\ \A s \in Senders : current[s] = None <=> pc[s] = "idle"
  /\ \A s \in Senders : current[s] # None => /\ asked[current[s]] = KeyOf[s]
                                             /\ verdict[current[s]] = "open"
  /\ \A s, t \in Senders : current[s] # None /\ current[s] = current[t] => s = t
  /\ \A r \in Sends : r > sends => verdict[r] = "unsent"

\* An effect belongs to a send that is over.
EffectInv ==
  \A k \in Keys :
    /\ \A r \in effects[k] : verdict[r] \in {"answered", "unsure"}
    /\ forgotten[k] \subseteq effects[k]

\* In memory the slot follows its owner.
MemoryInv ==
  store = "memory" =>
    /\ \A k \in Keys : slot[k].status # "failed"
    /\ \A s \in Senders :
         /\ pc[s] = "handle" => slot[KeyOf[s]] = [status |-> "in_flight", by |-> current[s]]
         /\ pc[s] = "commit" => slot[KeyOf[s]] = [status |-> "completed", by |-> reply[s]]

\* In the table the lock of the row keeps the others out, and nothing but a
\* completed slot is ever committed.
TableInv ==
  store = "pg" =>
    /\ \A k \in Keys : slot[k].status \in {"none", "completed"}
    /\ \A s, t \in Senders : InTx(s) /\ InTx(t) /\ KeyOf[s] = KeyOf[t] => s = t
    /\ \A s \in Senders :
         /\ pc[s] = "handle" => slot[KeyOf[s]].status = "none"
         /\ pc[s] = "commit" => IF Ran(s) THEN slot[KeyOf[s]].status = "none"
                                ELSE slot[KeyOf[s]] = [status |-> "completed", by |-> reply[s]]

SlotInv == MemoryInv /\ TableInv /\ NoOrphanedSlot /\ SlotTellsEffects

IInv == TypeOK /\ NumberInv /\ EffectInv /\ SlotInv

-----------------------------------------------------------------------------
(* Type correctness.                                                       *)

\* A sender that is not idle has a send.
LEMMA HasSend ==
  ASSUME TypeOK, NumberInv, NEW s \in Senders, pc[s] # "idle"
  PROVE  current[s] \in Sends
BY DEF TypeOK, NumberInv

\* What a slot is written with is a slot.
LEMMA SetSlotType ==
  ASSUME TypeOK, NEW s \in Senders, NEW by \in Sends \cup {None},
         NEW status \in {"none", "in_flight", "completed", "failed"},
         SetSlot(s, status, by) \/ UNCHANGED slot
  PROVE  slot' \in [Keys -> Slots]
<1>1. [status |-> status, by |-> by] \in Slots
  BY DEF Slots
<1> QED BY <1>1 DEF TypeOK, SetSlot

\* The end of a send keeps the types.
LEMMA EndsType ==
  ASSUME TypeOK, NumberInv, NEW s \in Senders, pc[s] # "idle",
         NEW outcome \in Verdicts, Ends(s, outcome)
  PROVE  /\ pc' \in [Senders -> {"idle", "claim", "handle", "commit", "wait"}]
         /\ current' \in [Senders -> Sends \cup {None}] /\ reply' \in [Senders -> Sends \cup {None}]
         /\ tries' \in [Senders -> 0 .. MaxAttempts - 1] /\ polls' \in [Senders -> 0 .. MaxPolls]
         /\ verdict' \in [Sends -> Verdicts]
         /\ UNCHANGED <<store, sends, asked>>
BY BusAssumption, HasSend DEF TypeOK, Ends, GoTo

\* A fault keeps the count within its bound.
LEMMA FaultType ==
  ASSUME TypeOK, NEW kind, Disrupt(kind) PROVE faults' \in 0 .. MaxFaults
BY BusAssumption DEF TypeOK, Disrupt

\* A commit keeps the types.
LEMMA PublishType ==
  ASSUME TypeOK, NumberInv, NEW s \in Senders, pc[s] = "commit", Publish(s)
  PROVE  slot' \in [Keys -> Slots] /\ effects' \in [Keys -> SUBSET Sends]
<1>1. current[s] \in Sends /\ KeyOf[s] \in Keys
  BY HasSend, BusAssumption
<1>2. slot' \in [Keys -> Slots]
  BY <1>1, SetSlotType DEF Publish
<1> QED BY <1>1, <1>2 DEF Publish, TypeOK

\* Init is well typed.
LEMMA TypeInit == Init => TypeOK
BY BusAssumption DEF Init, TypeOK, Slots, NoSlot, Verdicts, Sends, None

\* Every step of a sender keeps the types.
LEMMA SenderType ==
  ASSUME TypeOK, NumberInv, NEW s \in Senders, SenderStep(s) \/ SenderFault(s)
  PROVE  TypeOK'
<1> USE DEF historyVars
<1>1. KeyOf[s] \in Keys /\ slot[KeyOf[s]] \in Slots
  BY BusAssumption DEF TypeOK
<1>2. CASE Claim(s)
  <2>1. slot' \in [Keys -> Slots]
    BY <1>2, SetSlotType DEF Claim, SetInMemory, TypeOK
  <2> QED BY <1>2, <2>1 DEF Claim, GoTo, TypeOK
<1>3. CASE Replay(s)
  BY <1>1, <1>3 DEF Replay, GoTo, TypeOK, Slots
<1>4. CASE InFlight(s)
  BY <1>4, BusAssumption DEF InFlight, GoTo, TypeOK
<1>5. CASE HandlerReturns(s)
  <2>1. slot' \in [Keys -> Slots]
    BY <1>5, SetSlotType DEF HandlerReturns, SetInMemory, TypeOK
  <2> QED BY <1>5, <2>1 DEF HandlerReturns, GoTo, TypeOK
<1>6. CASE HandlerConflicts(s)
  <2>1. slot' \in [Keys -> Slots]
    BY <1>6, SetSlotType DEF HandlerConflicts, Release, SetInMemory
  <2>2. tries' \in [Senders -> 0 .. MaxAttempts - 1]
    BY <1>6, BusAssumption DEF HandlerConflicts, TypeOK
  <2> QED BY <1>6, <2>1, <2>2 DEF HandlerConflicts, GoTo, TypeOK
<1>7. CASE Throws(s)
  <2>1. slot' \in [Keys -> Slots]
    BY <1>7, SetSlotType DEF Throws, Release, SetInMemory, TypeOK
  <2>2. pc[s] # "idle" /\ "failed" \in Verdicts /\ Ends(s, "failed")
    BY <1>7 DEF Throws, Verdicts
  <2> QED BY <1>7, <2>1, <2>2, EndsType DEF Throws, TypeOK
<1>8. CASE Commit(s)
  <2>1. pc[s] = "commit" /\ Publish(s) /\ "answered" \in Verdicts /\ Ends(s, "answered")
    BY <1>8 DEF Commit, Verdicts
  <2>2. answer' \in [Sends -> Sends \cup {None}]
    BY <1>8 DEF Commit, TypeOK
  <2> QED BY <1>8, <2>1, <2>2, EndsType, PublishType DEF Commit, TypeOK
<1>9. CASE WaitOver(s)
  <2>1. polls' \in [Senders -> 0 .. MaxPolls]
    BY <1>9, BusAssumption DEF WaitOver, TypeOK
  <2> QED BY <1>9, <2>1 DEF WaitOver, GoTo, TypeOK
<1>10. CASE GiveUp(s)
  <2>1. pc[s] # "idle" /\ "failed" \in Verdicts /\ Ends(s, "failed")
    BY <1>10 DEF GiveUp, Verdicts
  <2> QED BY <1>10, <2>1, EndsType DEF GiveUp, TypeOK
<1>11. CASE CommitFails(s)
  <2>1. pc[s] # "idle" /\ "failed" \in Verdicts /\ Ends(s, "failed") /\ faults' \in 0 .. MaxFaults
    BY <1>11, FaultType DEF CommitFails, Verdicts
  <2> QED BY <1>11, <2>1, EndsType DEF CommitFails, TypeOK
<1>12. CASE CommitUnknown(s)
  <2>1. /\ pc[s] = "commit" /\ Publish(s) /\ "unsure" \in Verdicts /\ Ends(s, "unsure")
        /\ faults' \in 0 .. MaxFaults
    BY <1>12, FaultType DEF CommitUnknown, Verdicts
  <2> QED BY <1>12, <2>1, EndsType, PublishType DEF CommitUnknown, TypeOK
<1>13. CASE Crash(s)
  <2>1. pc[s] # "idle" /\ "unsure" \in Verdicts /\ Ends(s, "unsure") /\ faults' \in 0 .. MaxFaults
    BY <1>13, FaultType DEF Crash, Verdicts
  <2> QED BY <1>13, <2>1, EndsType DEF Crash, TypeOK
<1> QED BY <1>2, <1>3, <1>4, <1>5, <1>6, <1>7, <1>8, <1>9, <1>10, <1>11, <1>12, <1>13
        DEF SenderStep, SenderFault

\* A new send has the next number.
LEMMA SendType == ASSUME TypeOK, NEW s \in Senders, Send(s) PROVE TypeOK'
<1>1. sends + 1 \in Sends /\ sends' \in 0 .. MaxSends /\ KeyOf[s] \in Keys
  <2>1. sends \in 0 .. MaxSends /\ MaxSends \in Nat /\ sends < MaxSends /\ sends' = sends + 1
    BY BusAssumption DEF Send, TypeOK
  <2>2. sends + 1 \in 1 .. MaxSends /\ sends' \in 0 .. MaxSends
    BY <2>1
  <2> QED BY <2>2, BusAssumption DEF Sends
<1>2. /\ pc' \in [Senders -> {"idle", "claim", "handle", "commit", "wait"}]
      /\ current' \in [Senders -> Sends \cup {None}]
  BY <1>1 DEF Send, GoTo, TypeOK
<1>3. asked' \in [Sends -> Keys \cup {NoKey}] /\ verdict' \in [Sends -> Verdicts]
  BY <1>1 DEF Send, TypeOK, Verdicts
<1> QED BY <1>1, <1>2, <1>3 DEF Send, TypeOK

\* The maintenance job and a restart keep the types.
LEMMA CronType == ASSUME TypeOK, NEW k \in Keys, Cron(k) PROVE TypeOK'
<1>1. faults' \in 0 .. MaxFaults
  BY FaultType DEF Cron
<1>2. NoSlot \in Slots /\ [slot[k] EXCEPT !.status = "failed"] \in Slots
  BY DEF Slots, NoSlot, TypeOK
<1> QED BY <1>1, <1>2 DEF Cron, TypeOK, loopVars

LEMMA RestartType == ASSUME TypeOK, Restart PROVE TypeOK'
<1>1. faults' \in 0 .. MaxFaults
  BY FaultType DEF Restart
<1> QED BY <1>1, BusAssumption DEF Restart, TypeOK, Slots, NoSlot, Verdicts

-----------------------------------------------------------------------------
(* Numbers and effects.                                                    *)

\* A send that is not over has no effect yet, and a number below the next.
LEMMA OpenSend ==
  ASSUME TypeOK, NumberInv, EffectInv, NEW s \in Senders, pc[s] # "idle"
  PROVE  /\ current[s] \in Sends /\ current[s] # None
         /\ verdict[current[s]] = "open" /\ asked[current[s]] = KeyOf[s]
         /\ \A k \in Keys : current[s] \notin effects[k]
<1>1. current[s] \in Sends /\ current[s] # None
  BY HasSend, BusAssumption DEF NumberInv, TypeOK
<1>2. verdict[current[s]] = "open" /\ asked[current[s]] = KeyOf[s]
  BY <1>1 DEF NumberInv
<1> QED BY <1>1, <1>2 DEF EffectInv

\* Steps inside a send leave its number alone.
LEMMA QuietNumber ==
  ASSUME TypeOK, NumberInv, EffectInv,
         \A t \in Senders : pc[t] = "idle" <=> pc'[t] = "idle",
         UNCHANGED <<current, sends, asked, verdict, effects, forgotten>>
  PROVE  NumberInv' /\ EffectInv'
BY DEF NumberInv, EffectInv

\* The end of a send closes its number.
LEMMA EndsNumber ==
  ASSUME TypeOK, NumberInv, NEW s \in Senders, pc[s] # "idle", NEW outcome, Ends(s, outcome)
  PROVE  NumberInv'
<1>1. current[s] \in Sends /\ current[s] # None /\ verdict[current[s]] = "open"
  BY HasSend DEF NumberInv
<1>2. ~(current[s] > sends)
  BY <1>1 DEF NumberInv
<1>3. \A t \in Senders : current'[t] = IF t = s THEN None ELSE current[t]
  BY DEF Ends, TypeOK
<1>4. \A t \in Senders : pc'[t] = IF t = s THEN "idle" ELSE pc[t]
  BY DEF Ends, GoTo, TypeOK
<1>5. \A r \in Sends : r # current[s] => verdict'[r] = verdict[r]
  BY DEF Ends, TypeOK
<1>6. \A t \in Senders : t # s /\ current[t] # None =>
        current[t] # current[s] /\ current[t] \in Sends
  BY <1>1 DEF NumberInv, TypeOK
<1>7. sends' = sends /\ asked' = asked
  BY DEF Ends
<1> QED BY <1>1, <1>2, <1>3, <1>4, <1>5, <1>6, <1>7 DEF NumberInv

\* A send that ends without a commit adds no effect.
LEMMA EndsEffect ==
  ASSUME TypeOK, NumberInv, EffectInv, NEW s \in Senders, pc[s] # "idle", NEW outcome,
         Ends(s, outcome), UNCHANGED <<effects, forgotten>>
  PROVE  EffectInv'
<1>1. \A k \in Keys : current[s] \notin effects[k]
  BY OpenSend
<1>2. \A r \in Sends : r # current[s] => verdict'[r] = verdict[r]
  BY DEF Ends, TypeOK
<1>3. \A k \in Keys : effects[k] \subseteq Sends
  BY DEF TypeOK
<1> QED BY <1>1, <1>2, <1>3 DEF EffectInv

\* What a commit adds to the effects.
LEMMA PublishEffect ==
  ASSUME TypeOK, NumberInv, EffectInv, NEW s \in Senders, pc[s] = "commit",
         NEW outcome \in {"answered", "unsure"}, Ends(s, outcome), Publish(s),
         UNCHANGED forgotten
  PROVE  EffectInv'
<1>1. current[s] \in Sends /\ \A k \in Keys : current[s] \notin effects[k]
  BY OpenSend
<1>2. \A r \in Sends : verdict'[r] = IF r = current[s] THEN outcome ELSE verdict[r]
  BY <1>1 DEF Ends, TypeOK
<1>3. \A k \in Keys : effects[k] \subseteq Sends /\ effects[k] \subseteq effects'[k]
                      /\ effects'[k] \subseteq effects[k] \cup {current[s]}
  BY DEF Publish, TypeOK
<1> QED BY <1>1, <1>2, <1>3 DEF EffectInv

LEMMA SendNumber ==
  ASSUME TypeOK, NumberInv, EffectInv, NEW s \in Senders, Send(s) PROVE NumberInv' /\ EffectInv'
<1>1. sends \in 0 .. MaxSends /\ sends + 1 \in Sends /\ sends + 1 # None
  <2>1. sends \in 0 .. MaxSends /\ MaxSends \in Nat /\ sends < MaxSends
    BY BusAssumption DEF Send, TypeOK
  <2> QED BY <2>1 DEF Sends, None
<1>2. verdict[sends + 1] = "unsent" /\ \A k \in Keys : sends + 1 \notin effects[k]
  BY <1>1 DEF NumberInv, EffectInv
<1>3. \A r \in Sends : /\ verdict'[r] = IF r = sends + 1 THEN "open" ELSE verdict[r]
                       /\ asked'[r] = IF r = sends + 1 THEN KeyOf[s] ELSE asked[r]
  BY DEF Send, TypeOK
<1>4. \A t \in Senders : /\ current'[t] = IF t = s THEN sends + 1 ELSE current[t]
                         /\ pc'[t] = IF t = s THEN "claim" ELSE pc[t]
  BY DEF Send, GoTo, TypeOK
<1>5. \A t \in Senders : current[t] # sends + 1
  BY <1>1, <1>2 DEF NumberInv
<1>6. \A t \in Senders : current[t] # None => current[t] \in Sends
  BY DEF TypeOK
<1>7. NumberInv'
  <2>1. sends' = sends + 1
    BY DEF Send
  <2>2. \A t \in Senders : current'[t] # None =>
          asked'[current'[t]] = KeyOf[t] /\ verdict'[current'[t]] = "open"
    BY <1>1, <1>3, <1>4, <1>5, <1>6 DEF NumberInv
  <2>3. \A t, u \in Senders : current'[t] # None /\ current'[t] = current'[u] => t = u
    BY <1>4, <1>5 DEF NumberInv
  <2>4. \A r \in Sends : r > sends' => verdict'[r] = "unsent"
    BY <1>1, <1>3, <2>1 DEF NumberInv, Sends
  <2>5. \A t \in Senders : current'[t] = None <=> pc'[t] = "idle"
    BY <1>1, <1>4 DEF NumberInv
  <2> QED BY <2>2, <2>3, <2>4, <2>5 DEF NumberInv
<1>8. EffectInv'
  <2>1. \A k \in Keys : effects[k] \subseteq Sends
    BY DEF TypeOK
  <2> QED BY <1>2, <1>3, <2>1 DEF Send, EffectInv
<1> QED BY <1>7, <1>8

\* Every step of a sender keeps them.
LEMMA SenderNumber ==
  ASSUME TypeOK, NumberInv, EffectInv, NEW s \in Senders, SenderStep(s) \/ SenderFault(s)
  PROVE  NumberInv' /\ EffectInv'
<1>1. CASE Claim(s) \/ Replay(s) \/ InFlight(s) \/ HandlerReturns(s) \/ HandlerConflicts(s) \/ WaitOver(s)
  <2>1. \A t \in Senders : pc[t] = "idle" <=> pc'[t] = "idle"
    BY <1>1 DEF TypeOK, Claim, Replay, InFlight, HandlerReturns, HandlerConflicts, WaitOver, GoTo
  <2>2. UNCHANGED <<current, sends, asked, verdict, effects, forgotten>>
    BY <1>1 DEF Claim, Replay, InFlight, HandlerReturns, HandlerConflicts, WaitOver, historyVars
  <2> QED BY <2>1, <2>2, QuietNumber
<1>2. CASE Throws(s) \/ GiveUp(s) \/ CommitFails(s) \/ Crash(s)
  <2>1. /\ pc[s] # "idle" /\ UNCHANGED <<effects, forgotten>>
        /\ \E outcome \in Verdicts : Ends(s, outcome)
    BY <1>2 DEF Throws, GiveUp, CommitFails, Crash, Verdicts
  <2> QED BY <2>1, EndsNumber, EndsEffect
<1>3. CASE Commit(s) \/ CommitUnknown(s)
  <2>1. /\ pc[s] = "commit" /\ Publish(s) /\ UNCHANGED forgotten
        /\ \E outcome \in {"answered", "unsure"} : Ends(s, outcome)
    BY <1>3 DEF Commit, CommitUnknown
  <2> QED BY <2>1, EndsNumber, PublishEffect
<1> QED BY <1>1, <1>2, <1>3 DEF SenderStep, SenderFault

LEMMA CronNumber ==
  ASSUME TypeOK, NumberInv, EffectInv, NEW k \in Keys, Cron(k) PROVE NumberInv' /\ EffectInv'
<1>1. NumberInv'
  BY DEF Cron, NumberInv, loopVars
<1>2. \A j \in Keys : forgotten'[j] \subseteq effects[j]
  BY DEF Cron, EffectInv, TypeOK
<1> QED BY <1>1, <1>2 DEF Cron, EffectInv

LEMMA RestartNumber ==
  ASSUME TypeOK, NumberInv, EffectInv, Restart PROVE NumberInv' /\ EffectInv'
<1>1. \A r \in Sends : verdict'[r] = IF verdict[r] = "open" THEN "unsure" ELSE verdict[r]
  BY DEF Restart
<1>2. \A k \in Keys : effects[k] \subseteq Sends
  BY DEF TypeOK
<1>3. NumberInv'
  BY <1>1 DEF Restart, NumberInv
<1> QED BY <1>1, <1>2, <1>3 DEF Restart, EffectInv

-----------------------------------------------------------------------------
(* Slots.                                                                  *)

Same(t) == pc'[t] = pc[t] /\ current'[t] = current[t] /\ reply'[t] = reply[t]

\* The store is one of the two.
LEMMA TwoStores == TypeOK => store \in {"pg", "memory"}
BY BusAssumption DEF TypeOK

\* A completed slot is not that of a send that waits for its turn.
LEMMA NotOwn ==
  ASSUME IInv, NEW s \in Senders, pc[s] = "claim", slot[KeyOf[s]].status = "completed"
  PROVE  slot[KeyOf[s]].by # current[s]
<1>1. KeyOf[s] \in Keys /\ \A k \in Keys : current[s] \notin effects[k]
  BY BusAssumption, OpenSend DEF IInv
<1>2. CASE slot[KeyOf[s]].by \in effects[KeyOf[s]]
  BY <1>1, <1>2
<1>3. CASE Committing(KeyOf[s], slot[KeyOf[s]].by)
  BY <1>3, OpenSend DEF Committing, IInv, NumberInv
<1> QED BY <1>1, <1>2, <1>3 DEF IInv, SlotInv, SlotTellsEffects

\* Before its slot is completed a key has no effect, but for forgotten ones.
LEMMA Unfinished ==
  ASSUME IInv, NEW k \in Keys, slot[k].status # "completed"
  PROVE  effects[k] \ forgotten[k] = {}
<1>1. ASSUME NEW r \in effects[k] \ forgotten[k] PROVE FALSE
  <2>1. slot[k] = [status |-> "completed", by |-> r]
    BY <1>1 DEF IInv, SlotInv, SlotTellsEffects
  <2> QED BY <2>1
<1> QED BY <1>1

\* Steps that leave the slots and the effects alone.
LEMMA QuietSlot ==
  ASSUME IInv, UNCHANGED <<store, slot, effects, forgotten>>,
         \A t \in Senders : \/ Same(t)
                            \/ /\ pc'[t] \notin {"handle", "commit"}
                               /\ store = "memory" => pc[t] \notin {"handle", "commit"}
  PROVE  SlotInv'
<1>1. MemoryInv'
  BY DEF IInv, SlotInv, MemoryInv, Same
<1>2. TableInv'
  <2>1. \A t \in Senders : InTx(t)' => InTx(t) /\ Same(t)
    BY DEF InTx, Same
  <2>2. \A t \in Senders : pc'[t] \in {"handle", "commit"} => Same(t)
    BY DEF Same
  <2> QED BY <2>1, <2>2 DEF IInv, SlotInv, TableInv, Same, Ran
<1>3. NoOrphanedSlot'
  <2>1. CASE store = "pg"
    BY <2>1 DEF IInv, SlotInv, TableInv, NoOrphanedSlot
  <2>2. CASE store = "memory"
    BY <2>2 DEF IInv, SlotInv, NoOrphanedSlot, Same
  <2> QED BY <2>1, <2>2, TwoStores DEF IInv
<1>4. SlotTellsEffects'
  <2>1. \A k \in Keys : slot[k].status = "completed" /\ Committing(k, slot[k].by)
                          => Committing(k, slot[k].by)'
    BY DEF Committing, Same
  <2> QED BY <2>1 DEF IInv, SlotInv, SlotTellsEffects
<1> QED BY <1>1, <1>2, <1>3, <1>4 DEF SlotInv

\* A claim finds no slot, and nobody else in a transaction on the key.
LEMMA ClaimSlot == ASSUME IInv, NEW s \in Senders, Claim(s) PROVE SlotInv'
<1>1. \A t \in Senders : pc'[t] = IF t = s THEN "handle" ELSE pc[t]
  BY DEF Claim, GoTo, IInv, TypeOK
<1>2. pc[s] = "claim" /\ UNCHANGED <<store, current, reply, effects, forgotten>>
  BY DEF Claim, historyVars
<1>3. KeyOf[s] \in Keys
  BY BusAssumption
<1>4. CASE store = "pg"
  <2>1. UNCHANGED slot
    BY <1>4 DEF Claim, SetInMemory
  <2>2. \A t \in Senders : InTx(t) => KeyOf[t] # KeyOf[s]
    BY <1>4 DEF Claim, Locked
  <2>3. \A t \in Senders : InTx(t)' <=> InTx(t) \/ t = s
    BY <1>1, <1>2 DEF InTx
  <2>4. slot[KeyOf[s]].status = "none"
    BY <1>3, <1>4 DEF Claim, IInv, SlotInv, TableInv
  <2>5. TableInv'
    BY <1>1, <1>2, <2>1, <2>2, <2>3, <2>4 DEF IInv, SlotInv, TableInv, Ran
  <2>6. NoOrphanedSlot' /\ MemoryInv'
    BY <1>2, <1>4, <2>1 DEF IInv, SlotInv, TableInv, MemoryInv, NoOrphanedSlot
  <2>7. SlotTellsEffects'
    BY <1>2, <1>4, <2>1 DEF IInv, SlotInv, SlotTellsEffects, Committing
  <2> QED BY <2>5, <2>6, <2>7 DEF SlotInv
<1>5. CASE store = "memory"
  <2>1. \A k \in Keys : slot'[k] = IF k = KeyOf[s] THEN [status |-> "in_flight", by |-> current[s]]
                                   ELSE slot[k]
    BY <1>5 DEF Claim, SetInMemory, SetSlot, IInv, TypeOK
  <2>2. slot[KeyOf[s]].status = "none"
    BY <1>3, <1>5 DEF Claim, IInv, SlotInv, MemoryInv
  <2>3. \A t \in Senders : KeyOf[t] = KeyOf[s] => pc[t] \notin {"handle", "commit"}
    <3> SUFFICES ASSUME NEW t \in Senders, KeyOf[t] = KeyOf[s], pc[t] \in {"handle", "commit"}
                 PROVE  FALSE
      OBVIOUS
    <3>1. slot[KeyOf[t]] \in {[status |-> "in_flight", by |-> current[t]],
                              [status |-> "completed", by |-> reply[t]]}
      BY <1>5 DEF IInv, SlotInv, MemoryInv
    <3> QED BY <2>2, <3>1
  <2>4. \A t \in Senders : KeyOf[t] \in Keys
    BY BusAssumption
  <2>5. MemoryInv'
    BY <1>1, <1>2, <1>5, <2>1, <2>3, <2>4 DEF IInv, SlotInv, MemoryInv
  <2>6. NoOrphanedSlot'
    BY <1>1, <1>2, <2>1 DEF IInv, SlotInv, NoOrphanedSlot
  <2>7. SlotTellsEffects'
    <3>1. ASSUME NEW k \in Keys, k # KeyOf[s], Committing(k, slot[k].by)
          PROVE  Committing(k, slot[k].by)'
      BY <1>1, <1>2, <3>1, <2>1 DEF Committing
    <3>2. effects[KeyOf[s]] \ forgotten[KeyOf[s]] = {}
      BY <1>3, <2>2, Unfinished
    <3> QED BY <1>2, <2>1, <3>1, <3>2 DEF IInv, SlotInv, SlotTellsEffects
  <2> QED BY <1>2, <1>5, <2>5, <2>6, <2>7 DEF SlotInv, TableInv
<1> QED BY <1>4, <1>5, TwoStores DEF IInv

\* A replay finds a completed slot that is not its own.
LEMMA ReplaySlot == ASSUME IInv, NEW s \in Senders, Replay(s) PROVE SlotInv'
<1>1. \A t \in Senders : /\ pc'[t] = IF t = s THEN "commit" ELSE pc[t]
                         /\ reply'[t] = IF t = s THEN slot[KeyOf[s]].by ELSE reply[t]
  BY DEF Replay, GoTo, IInv, TypeOK
<1>2. /\ pc[s] = "claim" /\ slot[KeyOf[s]].status = "completed"
      /\ UNCHANGED <<store, slot, current, effects, forgotten>>
  BY DEF Replay, historyVars
<1>3. slot[KeyOf[s]] = [status |-> "completed", by |-> slot[KeyOf[s]].by]
  BY <1>2, BusAssumption DEF IInv, TypeOK, Slots
<1>4. slot[KeyOf[s]].by # current[s]
  BY <1>2, NotOwn
<1>5. MemoryInv'
  BY <1>1, <1>2, <1>3 DEF IInv, SlotInv, MemoryInv
<1>6. TableInv'
  <2> SUFFICES ASSUME store = "pg" PROVE TableInv'
    BY <1>2 DEF TableInv
  <2>1. \A t \in Senders : InTx(t) => KeyOf[t] # KeyOf[s]
    BY DEF Replay, Locked
  <2>2. \A t \in Senders : InTx(t)' <=> InTx(t) \/ t = s
    BY <1>1, <1>2 DEF InTx
  <2> QED BY <1>1, <1>2, <1>3, <1>4, <2>1, <2>2 DEF IInv, SlotInv, TableInv, Ran
<1>7. NoOrphanedSlot'
  BY <1>1, <1>2 DEF IInv, SlotInv, NoOrphanedSlot
<1>8. SlotTellsEffects'
  BY <1>1, <1>2 DEF IInv, SlotInv, SlotTellsEffects, Committing
<1> QED BY <1>5, <1>6, <1>7, <1>8 DEF SlotInv

\* In memory the sender whose handler runs is alone with its key.
LEMMA MemoryOwner ==
  ASSUME IInv, store = "memory", NEW s \in Senders, pc[s] = "handle",
         NEW t \in Senders, KeyOf[t] = KeyOf[s], pc[t] \in {"handle", "commit"}
  PROVE  t = s
<1>1. slot[KeyOf[s]] = [status |-> "in_flight", by |-> current[s]]
  BY DEF IInv, SlotInv, MemoryInv
<1>2. CASE pc[t] = "commit"
  <2>1. slot[KeyOf[t]] = [status |-> "completed", by |-> reply[t]]
    BY <1>2 DEF IInv, SlotInv, MemoryInv
  <2> QED BY <1>1, <2>1
<1>3. CASE pc[t] = "handle"
  <2>1. slot[KeyOf[t]] = [status |-> "in_flight", by |-> current[t]]
    BY <1>3 DEF IInv, SlotInv, MemoryInv
  <2>2. current[t] = current[s] /\ current[s] # None
    BY <1>1, <2>1, OpenSend DEF IInv
  <2> QED BY <2>2 DEF IInv, NumberInv
<1> QED BY <1>2, <1>3

\* The handler of the slot's owner returns.
LEMMA ReturnSlot == ASSUME IInv, NEW s \in Senders, HandlerReturns(s) PROVE SlotInv'
<1>1. \A t \in Senders : /\ pc'[t] = IF t = s THEN "commit" ELSE pc[t]
                         /\ reply'[t] = IF t = s THEN current[s] ELSE reply[t]
  BY DEF HandlerReturns, GoTo, IInv, TypeOK
<1>2. pc[s] = "handle" /\ UNCHANGED <<store, current, effects, forgotten>>
  BY DEF HandlerReturns, historyVars
<1>3. \A t \in Senders : KeyOf[t] \in Keys
  BY BusAssumption
<1>4. CASE store = "pg"
  <2>1. UNCHANGED slot
    BY <1>4 DEF HandlerReturns, SetInMemory
  <2>2. \A t \in Senders : InTx(t)' <=> InTx(t)
    BY <1>1, <1>2 DEF InTx
  <2>3. TableInv'
    <3>1. \A t, u \in Senders : InTx(t)' /\ InTx(u)' /\ KeyOf[t] = KeyOf[u] => t = u
      BY <1>4, <2>2 DEF IInv, SlotInv, TableInv
    <3>2. \A t \in Senders : t # s => Same(t)
      BY <1>1, <1>2 DEF Same
    <3>3. Ran(s)' /\ slot[KeyOf[s]].status = "none" /\ pc'[s] = "commit"
      BY <1>1, <1>2, <1>4 DEF IInv, SlotInv, TableInv, Ran
    <3> QED BY <1>2, <1>4, <2>1, <3>1, <3>2, <3>3 DEF IInv, SlotInv, TableInv, Same, Ran
  <2>4. NoOrphanedSlot' /\ MemoryInv'
    BY <1>2, <1>4, <2>1 DEF IInv, SlotInv, TableInv, MemoryInv, NoOrphanedSlot
  <2>5. SlotTellsEffects'
    BY <1>2, <1>4, <2>1 DEF IInv, SlotInv, SlotTellsEffects, Committing
  <2> QED BY <2>3, <2>4, <2>5 DEF SlotInv
<1>5. CASE store = "memory"
  <2>1. \A k \in Keys : slot'[k] = IF k = KeyOf[s] THEN [status |-> "completed", by |-> current[s]]
                                   ELSE slot[k]
    BY <1>5 DEF HandlerReturns, SetInMemory, SetSlot, IInv, TypeOK
  <2>2. slot[KeyOf[s]] = [status |-> "in_flight", by |-> current[s]]
    BY <1>2, <1>5 DEF IInv, SlotInv, MemoryInv
  <2>3. \A t \in Senders : KeyOf[t] = KeyOf[s] /\ pc[t] \in {"handle", "commit"} => t = s
    BY <1>2, <1>5, MemoryOwner DEF IInv
  <2>4. MemoryInv'
    BY <1>1, <1>2, <1>3, <1>5, <2>1, <2>3 DEF IInv, SlotInv, MemoryInv
  <2>5. NoOrphanedSlot'
    <3> SUFFICES ASSUME NEW k \in Keys, slot'[k].status = "in_flight"
                 PROVE  \E t \in Senders : pc'[t] = "handle" /\ KeyOf[t] = k /\ current'[t] = slot'[k].by
      BY DEF NoOrphanedSlot
    <3>1. k # KeyOf[s] /\ slot'[k] = slot[k]
      BY <2>1
    <3>2. PICK t \in Senders : pc[t] = "handle" /\ KeyOf[t] = k /\ current[t] = slot[k].by
      BY <3>1 DEF IInv, SlotInv, NoOrphanedSlot
    <3> QED BY <1>1, <1>2, <3>1, <3>2
  <2>6. SlotTellsEffects'
    <3>1. ASSUME NEW k \in Keys, Committing(k, slot[k].by), k # KeyOf[s]
          PROVE  Committing(k, slot[k].by)'
      BY <1>1, <1>2, <3>1, <2>1 DEF Committing
    <3>2. Committing(KeyOf[s], current[s])'
      BY <1>1, <1>2, <1>5 DEF Committing
    <3>3. effects[KeyOf[s]] \ forgotten[KeyOf[s]] = {}
      BY <1>3, <2>2, Unfinished
    <3> QED BY <1>2, <2>1, <3>1, <3>2, <3>3 DEF IInv, SlotInv, SlotTellsEffects
  <2> QED BY <1>2, <1>5, <2>4, <2>5, <2>6 DEF SlotInv, TableInv
<1> QED BY <1>4, <1>5, TwoStores DEF IInv

\* The catch block frees the in-memory slot of its sender.
LEMMA ReleaseSlot ==
  ASSUME IInv, NEW s \in Senders, pc[s] = "handle", store = "memory", Release(s),
         pc'[s] \notin {"handle", "commit"},
         \A t \in Senders \ {s} : Same(t),
         UNCHANGED <<store, effects, forgotten>>
  PROVE  SlotInv'
<1>1. \A k \in Keys : slot'[k] = IF k = KeyOf[s] THEN [status |-> "none", by |-> None] ELSE slot[k]
  BY DEF Release, SetInMemory, SetSlot, IInv, TypeOK
<1>2. slot[KeyOf[s]] = [status |-> "in_flight", by |-> current[s]]
  BY DEF IInv, SlotInv, MemoryInv
<1>3. \A t \in Senders : KeyOf[t] \in Keys
  BY BusAssumption
<1>4. \A t \in Senders : KeyOf[t] = KeyOf[s] /\ pc[t] \in {"handle", "commit"} => t = s
  BY MemoryOwner
<1>5. MemoryInv'
  BY <1>1, <1>3, <1>4 DEF Same, IInv, SlotInv, MemoryInv
<1>6. NoOrphanedSlot'
  <2> SUFFICES ASSUME NEW k \in Keys, slot'[k].status = "in_flight"
               PROVE  \E t \in Senders : pc'[t] = "handle" /\ KeyOf[t] = k /\ current'[t] = slot'[k].by
    BY DEF NoOrphanedSlot
  <2>1. k # KeyOf[s] /\ slot'[k] = slot[k]
    BY <1>1
  <2>2. PICK t \in Senders : pc[t] = "handle" /\ KeyOf[t] = k /\ current[t] = slot[k].by
    BY <2>1 DEF IInv, SlotInv, NoOrphanedSlot
  <2> QED BY <2>1, <2>2 DEF Same
<1>7. SlotTellsEffects'
  <2>1. ASSUME NEW k \in Keys, Committing(k, slot[k].by), k # KeyOf[s]
        PROVE  Committing(k, slot[k].by)'
    BY <1>1, <2>1 DEF Committing, Same
  <2>2. effects[KeyOf[s]] \ forgotten[KeyOf[s]] = {}
    BY <1>2, <1>3, Unfinished
  <2> QED BY <1>1, <2>1, <2>2 DEF IInv, SlotInv, SlotTellsEffects
<1> QED BY <1>5, <1>6, <1>7 DEF SlotInv, TableInv

\* COMMIT, whether or not its answer arrives.
LEMMA CommitSlot ==
  ASSUME IInv, NEW s \in Senders, pc[s] = "commit", NEW outcome, Ends(s, outcome), Publish(s),
         UNCHANGED forgotten
  PROVE  SlotInv'
<1>1. \A t \in Senders : IF t = s THEN pc'[t] = "idle" ELSE Same(t)
  BY DEF Ends, GoTo, Same, IInv, TypeOK
<1>2. UNCHANGED store /\ \A t \in Senders : KeyOf[t] \in Keys
  BY BusAssumption DEF Ends
<1>3. \A k \in Keys : effects'[k] = IF k = KeyOf[s] /\ Ran(s) THEN effects[k] \cup {current[s]}
                                    ELSE effects[k]
  BY DEF Publish, IInv, TypeOK
<1>4. current[s] \in Sends /\ current[s] # None /\ \A k \in Keys : current[s] \notin effects[k]
  BY OpenSend DEF IInv
<1>5. \A k \in Keys : current[s] \notin forgotten[k]
  BY <1>4 DEF IInv, EffectInv
<1>6. CASE store = "pg"
  <2>1. \A k \in Keys : slot'[k] = IF k = KeyOf[s] /\ Ran(s)
                                   THEN [status |-> "completed", by |-> current[s]] ELSE slot[k]
    BY <1>6 DEF Publish, SetSlot, IInv, TypeOK
  <2>2. \A t \in Senders : InTx(t)' <=> InTx(t) /\ t # s
    BY <1>1 DEF InTx, Same
  <2>3. \A t \in Senders : InTx(t) /\ KeyOf[t] = KeyOf[s] => t = s
    BY <1>6 DEF IInv, SlotInv, TableInv, InTx
  <2>4. \A t \in Senders : InTx(t)' => Same(t) /\ slot'[KeyOf[t]] = slot[KeyOf[t]]
    BY <1>1, <1>2, <2>1, <2>2, <2>3
  <2>5. TableInv'
    <3>1. \A k \in Keys : slot'[k].status \in {"none", "completed"}
      BY <1>6, <2>1 DEF IInv, SlotInv, TableInv
    <3>2. \A t, u \in Senders : InTx(t)' /\ InTx(u)' /\ KeyOf[t] = KeyOf[u] => t = u
      BY <1>6, <2>2 DEF IInv, SlotInv, TableInv
    <3>3. ASSUME NEW t \in Senders, pc'[t] \in {"handle", "commit"}
          PROVE  Same(t) /\ slot'[KeyOf[t]] = slot[KeyOf[t]]
      BY <3>3, <2>4 DEF InTx
    <3> QED BY <1>2, <1>6, <3>1, <3>2, <3>3 DEF IInv, SlotInv, TableInv, Same, Ran
  <2>6. NoOrphanedSlot' /\ MemoryInv'
    BY <1>2, <1>6, <2>5 DEF TableInv, NoOrphanedSlot, MemoryInv
  <2>7. SlotTellsEffects'
    <3>1. Ran(s) => slot[KeyOf[s]].status = "none"
      BY <1>6 DEF IInv, SlotInv, TableInv
    <3>2. Ran(s) => effects[KeyOf[s]] \ forgotten[KeyOf[s]] = {}
      BY <1>2, <3>1, Unfinished
    <3>3. \A k \in Keys : slot[k].status = "completed" => slot[k].by \in effects[k] \ forgotten[k]
      BY <1>6 DEF IInv, SlotInv, SlotTellsEffects, Committing
    <3>4. ASSUME NEW k \in Keys, NEW r \in effects'[k] \ forgotten[k]
          PROVE  slot'[k] = [status |-> "completed", by |-> r]
      <4>1. CASE k = KeyOf[s] /\ Ran(s)
        <5>1. effects'[k] = effects[k] \cup {current[s]} /\ effects[k] \ forgotten[k] = {}
          BY <1>3, <3>2, <4>1
        <5>2. slot'[k] = [status |-> "completed", by |-> current[s]]
          BY <2>1, <4>1
        <5> QED BY <3>4, <5>1, <5>2
      <4>2. CASE ~(k = KeyOf[s] /\ Ran(s))
        BY <1>3, <2>1, <3>4, <4>2 DEF IInv, SlotInv, SlotTellsEffects
      <4> QED BY <4>1, <4>2
    <3>5. ASSUME NEW k \in Keys, slot'[k].status = "completed"
          PROVE  slot'[k].by \in effects'[k] \ forgotten[k]
      <4>1. CASE k = KeyOf[s] /\ Ran(s)
        <5>1. effects'[k] = effects[k] \cup {current[s]} /\ current[s] \notin forgotten[k]
          BY <1>3, <1>5, <4>1
        <5>2. slot'[k] = [status |-> "completed", by |-> current[s]]
          BY <2>1, <4>1
        <5> QED BY <5>1, <5>2
      <4>2. CASE ~(k = KeyOf[s] /\ Ran(s))
        BY <1>3, <2>1, <3>3, <3>5, <4>2
      <4> QED BY <4>1, <4>2
    <3> QED BY <3>4, <3>5 DEF SlotTellsEffects
  <2> QED BY <2>5, <2>6, <2>7 DEF SlotInv
<1>7. CASE store = "memory"
  <2>1. UNCHANGED slot
    BY <1>7 DEF Publish
  <2>2. slot[KeyOf[s]] = [status |-> "completed", by |-> reply[s]]
    BY <1>7 DEF IInv, SlotInv, MemoryInv
  <2>3. MemoryInv' /\ TableInv'
    BY <1>1, <1>2, <1>7, <2>1 DEF IInv, SlotInv, MemoryInv, TableInv, Same
  <2>4. NoOrphanedSlot'
    BY <1>1, <2>1 DEF IInv, SlotInv, NoOrphanedSlot, Same
  <2>5. SlotTellsEffects'
    <3>1. ASSUME NEW k \in Keys, slot[k].status = "completed", Committing(k, slot[k].by)
          PROVE  slot[k].by \in effects'[k] \ forgotten[k] \/ Committing(k, slot[k].by)'
      <4>1. PICK t \in Senders : pc[t] = "commit" /\ KeyOf[t] = k /\ current[t] = slot[k].by
        BY <3>1 DEF Committing
      <4>2. CASE t = s
        <5>1. Ran(s)
          BY <2>2, <4>1, <4>2 DEF Ran
        <5> QED BY <1>3, <1>5, <4>1, <4>2, <5>1
      <4>3. CASE t # s
        BY <1>1, <1>2, <1>7, <2>1, <4>1, <4>3 DEF Committing, Same
      <4> QED BY <4>2, <4>3
    <3>2. \A k \in Keys : \A r \in effects'[k] \ forgotten[k] :
            slot[k] = [status |-> "completed", by |-> r]
      <4> SUFFICES ASSUME NEW k \in Keys, NEW r \in effects'[k] \ forgotten[k]
                   PROVE  slot[k] = [status |-> "completed", by |-> r]
        OBVIOUS
      <4>1. CASE r \in effects[k]
        BY <4>1 DEF IInv, SlotInv, SlotTellsEffects
      <4>2. CASE r \notin effects[k]
        BY <1>3, <2>2, <4>2 DEF Ran
      <4> QED BY <4>1, <4>2
    <3>3. \A k \in Keys : effects[k] \subseteq effects'[k]
      BY <1>3
    <3> QED BY <2>1, <3>1, <3>2, <3>3 DEF IInv, SlotInv, SlotTellsEffects
  <2> QED BY <2>3, <2>4, <2>5 DEF SlotInv
<1> QED BY <1>6, <1>7, TwoStores DEF IInv

-----------------------------------------------------------------------------
(* The invariant is inductive.                                             *)

LEMMA InvInit == Init => IInv
<1> SUFFICES ASSUME Init PROVE IInv
  OBVIOUS
<1>1. TypeOK
  BY TypeInit
<1>2. NumberInv /\ EffectInv
  BY DEF Init, NumberInv, EffectInv, None
<1>3. \A k \in Keys : slot[k].status = "none" /\ effects[k] = {}
  BY DEF Init, NoSlot
<1>4. \A s \in Senders : pc[s] = "idle"
  BY DEF Init
<1>5. SlotInv
  BY <1>3, <1>4 DEF SlotInv, MemoryInv, TableInv, NoOrphanedSlot, SlotTellsEffects, InTx
<1> QED BY <1>1, <1>2, <1>5 DEF IInv

LEMMA SenderSlot ==
  ASSUME IInv, MemoryCommits, NEW s \in Senders, SenderStep(s) \/ SenderFault(s)
  PROVE  SlotInv'
<1>1. \A t \in Senders : t # s => pc'[t] = pc[t] /\ current'[t] = current[t] /\ reply'[t] = reply[t]
  BY DEF SenderStep, SenderFault, Claim, Replay, InFlight, HandlerReturns, HandlerConflicts, Throws,
         Commit, WaitOver, GiveUp, CommitFails, CommitUnknown, Crash, Ends, GoTo, IInv, TypeOK
<1>2. \A t \in Senders \ {s} : Same(t)
  BY <1>1 DEF Same
<1>3. CASE Claim(s)
  BY <1>3, ClaimSlot
<1>4. CASE Replay(s)
  BY <1>4, ReplaySlot
<1>5. CASE HandlerReturns(s)
  BY <1>5, ReturnSlot
<1>6. CASE Commit(s) \/ CommitUnknown(s)
  <2>1. /\ pc[s] = "commit" /\ Publish(s) /\ UNCHANGED forgotten
        /\ \E outcome \in Verdicts : Ends(s, outcome)
    BY <1>6 DEF Commit, CommitUnknown, Verdicts
  <2> QED BY <2>1, CommitSlot
<1>7. CASE HandlerConflicts(s) \/ (Throws(s) /\ pc[s] = "handle")
  <2>1. /\ pc[s] = "handle" /\ Release(s) /\ UNCHANGED <<store, effects, forgotten>>
        /\ pc'[s] \notin {"handle", "commit"}
    BY <1>7 DEF HandlerConflicts, Throws, Ends, GoTo, historyVars, IInv, TypeOK
  <2>2. CASE store = "pg"
    <3>1. UNCHANGED slot
      BY <2>1, <2>2 DEF Release, SetInMemory
    <3> QED BY <1>2, <2>1, <2>2, <3>1, QuietSlot
  <2>3. CASE store = "memory"
    BY <1>2, <2>1, <2>3, ReleaseSlot
  <2> QED BY <2>2, <2>3, TwoStores DEF IInv
<1>8. CASE InFlight(s) \/ WaitOver(s) \/ GiveUp(s) \/ (Throws(s) /\ pc[s] # "handle")
  <2>1. /\ UNCHANGED <<store, slot, effects, forgotten>>
        /\ pc[s] \notin {"handle", "commit"} /\ pc'[s] \notin {"handle", "commit"}
    BY <1>8 DEF InFlight, WaitOver, GiveUp, Throws, Ends, GoTo, historyVars, IInv, TypeOK
  <2> QED BY <1>2, <2>1, QuietSlot
<1>9. CASE CommitFails(s) \/ Crash(s)
  <2>1. /\ UNCHANGED <<store, slot, effects, forgotten>>
        /\ pc'[s] \notin {"handle", "commit"}
    BY <1>9 DEF CommitFails, Crash, Ends, GoTo, IInv, TypeOK
  <2>2. store # "memory"
    BY <1>9, BusAssumption DEF CommitFails, Crash, Disrupt, MemoryCommits, IInv, TypeOK
  <2> QED BY <1>2, <2>1, <2>2, QuietSlot
<1> QED BY <1>3, <1>4, <1>5, <1>6, <1>7, <1>8, <1>9 DEF SenderStep, SenderFault

LEMMA SendSlot == ASSUME IInv, NEW s \in Senders, Send(s) PROVE SlotInv'
<1>1. \A t \in Senders : /\ t # s => Same(t)
                         /\ t = s => pc[t] = "idle" /\ pc'[t] = "claim"
  BY DEF Send, GoTo, Same, IInv, TypeOK
<1>2. UNCHANGED <<store, slot, effects, forgotten>>
  BY DEF Send
<1> QED BY <1>1, <1>2, QuietSlot

\* The job finds no committed slot in flight, and waits for open transactions.
LEMMA CronSlot == ASSUME IInv, NEW k \in Keys, Cron(k) PROVE SlotInv'
<1>1. store = "pg" /\ UNCHANGED <<store, loopVars, effects>>
  BY DEF Cron
<1>2. slot[k].status # "in_flight"
  BY <1>1 DEF IInv, SlotInv, TableInv
<1>3. \A j \in Keys : /\ slot'[j] = IF j = k THEN NoSlot ELSE slot[j]
                      /\ forgotten'[j] = IF j = k THEN effects[j] ELSE forgotten[j]
  BY <1>2 DEF Cron, IInv, TypeOK
<1>4. \A t \in Senders : KeyOf[t] \in Keys /\ (KeyOf[t] = k => ~InTx(t))
  BY <1>1, BusAssumption DEF Cron, Locked
<1>5. NoSlot.status = "none"
  BY DEF NoSlot
<1>6. TableInv'
  <2>1. \A t \in Senders : InTx(t)' <=> InTx(t)
    BY <1>1 DEF InTx, loopVars
  <2>2. \A t \in Senders : pc[t] \in {"handle", "commit"} => slot'[KeyOf[t]] = slot[KeyOf[t]]
    BY <1>3, <1>4 DEF InTx
  <2>3. \A j \in Keys : slot'[j].status \in {"none", "completed"}
    BY <1>1, <1>3, <1>5 DEF IInv, SlotInv, TableInv
  <2> QED BY <1>1, <2>1, <2>2, <2>3 DEF IInv, SlotInv, TableInv, loopVars, Ran
<1>7. NoOrphanedSlot' /\ MemoryInv'
  BY <1>1, <1>6 DEF TableInv, NoOrphanedSlot, MemoryInv
<1>8. SlotTellsEffects'
  <2>1. \A j \in Keys : slot[j].status = "completed" => slot[j].by \in effects[j] \ forgotten[j]
    BY <1>1 DEF IInv, SlotInv, SlotTellsEffects, Committing
  <2> QED BY <1>1, <1>3, <1>5, <2>1 DEF IInv, SlotInv, SlotTellsEffects
<1> QED BY <1>6, <1>7, <1>8 DEF SlotInv

LEMMA RestartSlot == ASSUME IInv, Restart PROVE SlotInv'
<1>1. /\ \A k \in Keys : slot'[k].status = "none" /\ forgotten'[k] = effects'[k]
      /\ \A t \in Senders : pc'[t] = "idle"
  BY DEF Restart, NoSlot
<1> QED BY <1>1 DEF SlotInv, MemoryInv, TableInv, NoOrphanedSlot, SlotTellsEffects, InTx

LEMMA InvStep == ASSUME MemoryCommits PROVE IInv /\ [Next]_vars => IInv'
<1> SUFFICES ASSUME IInv, [Next]_vars PROVE IInv'
  OBVIOUS
<1>1. TypeOK /\ NumberInv /\ EffectInv
  BY DEF IInv
<1>2. ASSUME NEW s \in Senders, Send(s) PROVE IInv'
  BY <1>1, <1>2, SendType, SendNumber, SendSlot DEF IInv
<1>3. ASSUME NEW s \in Senders, SenderStep(s) \/ SenderFault(s) PROVE IInv'
  BY <1>1, <1>3, SenderType, SenderNumber, SenderSlot DEF IInv
<1>4. ASSUME NEW k \in Keys, Cron(k) PROVE IInv'
  BY <1>1, <1>4, CronType, CronNumber, CronSlot DEF IInv
<1>5. CASE Restart
  BY <1>1, <1>5, RestartType, RestartNumber, RestartSlot DEF IInv
<1>6. CASE UNCHANGED vars
  <2>1. UNCHANGED <<store, slot, pc, current, reply, tries, polls, sends, effects,
                    forgotten, asked, verdict, answer, faults>>
    BY <1>6 DEF vars, loopVars, historyVars
  <2>2. TypeOK' /\ NumberInv' /\ EffectInv'
    BY <1>1, <2>1 DEF TypeOK, NumberInv, EffectInv
  <2>3. SlotInv'
    BY <2>1, QuietSlot DEF Same
  <2> QED BY <2>2, <2>3 DEF IInv
<1> QED BY <1>2, <1>3, <1>4, <1>5, <1>6 DEF Next

\* No slot is in flight without its owner, and slots and effects agree.
THEOREM Invariance == ASSUME MemoryCommits PROVE Spec => []IInv
<1>1. Init => IInv
  BY InvInit
<1>2. IInv /\ [Next]_vars => IInv'
  BY InvStep
<1> QED BY <1>1, <1>2, PTL DEF Spec

THEOREM TypeCorrect == ASSUME MemoryCommits PROVE Spec => []TypeOK
BY Invariance, PTL DEF IInv

THEOREM SlotsHold == ASSUME MemoryCommits PROVE Spec => []SlotsSound
BY Invariance, PTL DEF IInv, SlotInv, SlotsSound

-----------------------------------------------------------------------------
(* The bus implements ExactlyOnce.                                         *)

AbstractStep == [Promise!Next]_<<asked, Applied, verdict, answer>>

\* No open send is the one applied, unless it is about to commit in memory.
LEMMA NotApplied ==
  ASSUME IInv, NEW s \in Senders, pc[s] # "idle", ~(pc[s] = "commit" /\ store = "memory")
  PROVE  Applied[asked[current[s]]] # current[s]
<1>1. /\ asked[current[s]] = KeyOf[s] /\ KeyOf[s] \in Keys
      /\ current[s] # None /\ \A k \in Keys : current[s] \notin effects[k]
  BY OpenSend, BusAssumption DEF IInv
<1>2. CASE slot[KeyOf[s]].status = "completed"
  <2>1. CASE Committing(KeyOf[s], slot[KeyOf[s]].by)
    <3>1. PICK t \in Senders : pc[t] = "commit" /\ current[t] = slot[KeyOf[s]].by /\ store = "memory"
      BY <2>1 DEF Committing
    <3>2. current[t] # current[s]
      BY <1>1, <3>1 DEF IInv, NumberInv
    <3> QED BY <1>1, <1>2, <3>1, <3>2 DEF Applied
  <2>2. CASE slot[KeyOf[s]].by \in effects[KeyOf[s]]
    BY <1>1, <1>2, <2>2 DEF Applied
  <2> QED BY <1>1, <1>2, <2>1, <2>2 DEF IInv, SlotInv, SlotTellsEffects
<1>3. CASE slot[KeyOf[s]].status # "completed"
  BY <1>1, <1>3 DEF Applied
<1> QED BY <1>2, <1>3

\* The send a commit answers with is the winner of its key.
LEMMA CommitApplies ==
  ASSUME IInv, NEW s \in Senders, pc[s] = "commit", Publish(s)
  PROVE  LET k == asked[current[s]]
             winner == IF Applied[k] = None THEN current[s] ELSE Applied[k]
         IN /\ reply[s] = winner
            /\ Applied' = [Applied EXCEPT ![k] = winner]
<1> DEFINE k == KeyOf[s]
<1>1. /\ asked[current[s]] = k /\ k \in Keys /\ current[s] # None
  BY OpenSend, BusAssumption DEF IInv
<1>2. Applied = [j \in Keys |-> Applied[j]]
  BY DEF Applied
<1>3. CASE store = "pg" /\ Ran(s)
  <2>1. slot[k].status = "none"
    BY <1>3 DEF IInv, SlotInv, TableInv
  <2>2. Applied[k] = None /\ reply[s] = current[s]
    BY <1>1, <1>3, <2>1 DEF Applied, Ran
  <2>3. \A j \in Keys : slot'[j] = IF j = k THEN [status |-> "completed", by |-> current[s]] ELSE slot[j]
    BY <1>3 DEF Publish, SetSlot, IInv, TypeOK
  <2>4. \A j \in Keys : Applied'[j] = IF j = k THEN current[s] ELSE Applied[j]
    BY <2>3 DEF Applied
  <2>5. Applied' = [Applied EXCEPT ![k] = current[s]]
    BY <2>4 DEF Applied
  <2> QED BY <1>1, <2>2, <2>5
<1>4. CASE ~(store = "pg" /\ Ran(s))
  <2>1. slot[k] = [status |-> "completed", by |-> reply[s]]
    BY <1>4, TwoStores DEF IInv, SlotInv, TableInv, MemoryInv
  <2>2. UNCHANGED slot
    BY <1>4 DEF Publish
  <2>3. reply[s] # None
    <3>1. CASE reply[s] = current[s]
      BY <1>1, <3>1
    <3>2. CASE reply[s] \in effects[k]
      BY <1>1, <3>2 DEF IInv, TypeOK, Sends, None
    <3>3. CASE Committing(k, reply[s])
      <4>1. PICK t \in Senders : pc[t] = "commit" /\ current[t] = reply[s]
        BY <3>3 DEF Committing
      <4> QED BY <4>1 DEF IInv, NumberInv
    <3> QED BY <1>1, <2>1, <3>2, <3>3 DEF IInv, SlotInv, SlotTellsEffects
  <2>4. Applied[k] = reply[s]
    BY <1>1, <2>1 DEF Applied
  <2>5. Applied' = Applied
    BY <2>2 DEF Applied
  <2> QED BY <1>1, <1>2, <2>3, <2>4, <2>5
<1> QED BY <1>3, <1>4

\* A sender's step is a move of ExactlyOnce by its send, or none.
LEMMA PromiseSender ==
  ASSUME IInv, MemoryCommits, NEW s \in Senders, SenderStep(s) \/ SenderFault(s)
  PROVE  AbstractStep
<1> DEFINE r == current[s]
<1>1. pc[s] # "idle"
  BY DEF SenderStep, SenderFault, Claim, Replay, InFlight, HandlerReturns, HandlerConflicts, Throws,
         Commit, WaitOver, GiveUp, CommitFails, CommitUnknown, Crash
<1>2. r \in Sends /\ r # None /\ verdict[r] = "open" /\ asked[r] = KeyOf[s] /\ KeyOf[s] \in Keys
  BY <1>1, OpenSend, BusAssumption DEF IInv
<1>3. \A k \in Keys : slot[k] \in Slots
  BY DEF IInv, TypeOK
<1>4. CASE Claim(s) \/ Replay(s) \/ InFlight(s) \/ HandlerConflicts(s) \/ WaitOver(s)
  <2>1. UNCHANGED <<asked, verdict, answer>>
    BY <1>4 DEF Claim, Replay, InFlight, HandlerConflicts, WaitOver, historyVars
  <2>2. CASE UNCHANGED slot
    BY <2>1, <2>2 DEF AbstractStep, Applied
  <2>3. CASE ~UNCHANGED slot
    <3>1. /\ slot[KeyOf[s]].status # "completed"
          /\ \E status \in {"in_flight", "none"}, by \in Sends \cup {None} : SetSlot(s, status, by)
      <4>1. CASE Claim(s)
        BY <1>2, <2>3, <4>1 DEF Claim, SetInMemory
      <4>2. CASE HandlerConflicts(s)
        <5>1. pc[s] = "handle" /\ store = "memory" /\ SetSlot(s, "none", None)
          BY <2>3, <4>2 DEF HandlerConflicts, Release, SetInMemory
        <5>2. slot[KeyOf[s]] = [status |-> "in_flight", by |-> current[s]]
          BY <5>1 DEF IInv, SlotInv, MemoryInv
        <5> QED BY <5>1, <5>2
      <4> QED BY <1>4, <2>3, <4>1, <4>2 DEF Replay, InFlight, WaitOver
    <3>2. Applied' = Applied
      BY <1>2, <3>1 DEF Applied, SetSlot, IInv, TypeOK
    <3> QED BY <2>1, <3>2 DEF AbstractStep
  <2> QED BY <2>2, <2>3
<1>5. CASE HandlerReturns(s)
  <2>1. pc[s] = "handle" /\ UNCHANGED <<asked, verdict, answer>>
    BY <1>5 DEF HandlerReturns, historyVars
  <2>2. CASE store = "pg"
    <3>1. UNCHANGED slot
      BY <1>5, <2>2 DEF HandlerReturns, SetInMemory
    <3> QED BY <2>1, <3>1 DEF AbstractStep, Applied
  <2>3. CASE store = "memory"
    <3>1. slot[KeyOf[s]].status # "completed"
      <4>1. slot[KeyOf[s]] = [status |-> "in_flight", by |-> current[s]]
        BY <2>1, <2>3 DEF IInv, SlotInv, MemoryInv
      <4> QED BY <4>1
    <3>2. Applied[KeyOf[s]] = None
      BY <1>2, <3>1 DEF Applied
    <3>3. \A k \in Keys : slot'[k] = IF k = KeyOf[s] THEN [status |-> "completed", by |-> current[s]]
                                     ELSE slot[k]
      BY <1>5, <2>3 DEF HandlerReturns, SetInMemory, SetSlot, IInv, TypeOK
    <3>4. Applied' = [Applied EXCEPT ![KeyOf[s]] = current[s]]
      <4>1. \A k \in Keys : Applied'[k] = IF k = KeyOf[s] THEN current[s] ELSE Applied[k]
        BY <3>3 DEF Applied
      <4> QED BY <4>1 DEF Applied
    <3>5. Promise!Run(r)
      BY <1>2, <2>1, <3>2, <3>4 DEF Promise!Run, Promise!Winner, Promise!None, None
    <3> QED BY <1>2, <3>5 DEF AbstractStep, Promise!Next
  <2> QED BY <2>2, <2>3, TwoStores DEF IInv
<1>6. CASE Throws(s) \/ GiveUp(s) \/ CommitFails(s)
  <2>1. Ends(s, "failed") /\ UNCHANGED answer /\ ~(pc[s] = "commit" /\ store = "memory")
    BY <1>6, BusAssumption DEF Throws, GiveUp, CommitFails, Disrupt, MemoryCommits, IInv, TypeOK
  <2>2. Applied[asked[r]] # r
    BY <1>1, <2>1, NotApplied
  <2>3. Applied' = Applied
    <3>1. CASE UNCHANGED slot
      BY <3>1 DEF Applied
    <3>2. CASE ~UNCHANGED slot
      <4>1. pc[s] = "handle" /\ store = "memory" /\ SetSlot(s, "none", None)
        BY <1>6, <3>2 DEF Throws, GiveUp, CommitFails, Release, SetInMemory
      <4>2. slot[KeyOf[s]] = [status |-> "in_flight", by |-> current[s]]
        BY <4>1 DEF IInv, SlotInv, MemoryInv
      <4>3. slot[KeyOf[s]].status # "completed"
        BY <4>2
      <4> QED BY <1>2, <4>1, <4>3 DEF Applied, SetSlot, IInv, TypeOK
    <3> QED BY <3>1, <3>2
  <2>4. verdict' = [verdict EXCEPT ![r] = "failed"] /\ UNCHANGED asked
    BY <2>1 DEF Ends
  <2>5. Promise!Refuse(r)
    BY <1>2, <2>1, <2>2, <2>3, <2>4 DEF Promise!Refuse
  <2> QED BY <1>2, <2>5 DEF AbstractStep, Promise!Next
<1>7. CASE Commit(s) \/ CommitUnknown(s)
  <2>1. pc[s] = "commit" /\ Publish(s) /\ UNCHANGED asked
    BY <1>7 DEF Commit, CommitUnknown, Ends
  <2>2. reply[s] = Promise!Winner(r) /\ Applied' = [Applied EXCEPT ![asked[r]] = Promise!Winner(r)]
    BY <2>1, CommitApplies DEF Promise!Winner, Promise!None, None
  <2>3. CASE Commit(s)
    <3>1. Promise!Serve(r)
      BY <1>2, <2>1, <2>2, <2>3 DEF Commit, Ends, Promise!Serve
    <3> QED BY <1>2, <3>1 DEF AbstractStep, Promise!Next
  <2>4. CASE CommitUnknown(s)
    <3>1. Promise!Lose(r)
      BY <1>2, <2>1, <2>2, <2>4 DEF CommitUnknown, Ends, Promise!Lose
    <3> QED BY <1>2, <3>1 DEF AbstractStep, Promise!Next
  <2> QED BY <1>7, <2>3, <2>4
<1>8. CASE Crash(s)
  <2>1. Applied' = Applied
    BY <1>8 DEF Crash, Applied
  <2>2. Promise!Lose(r)
    BY <1>2, <1>8, <2>1 DEF Crash, Ends, Promise!Lose
  <2> QED BY <1>2, <2>2 DEF AbstractStep, Promise!Next
<1> QED BY <1>4, <1>5, <1>6, <1>7, <1>8 DEF SenderStep, SenderFault

LEMMA PromiseSend == ASSUME IInv, NEW s \in Senders, Send(s) PROVE AbstractStep
<1>1. sends + 1 \in Sends /\ verdict[sends + 1] = "unsent" /\ KeyOf[s] \in Keys
  <2>1. sends \in 0 .. MaxSends /\ MaxSends \in Nat /\ sends < MaxSends
    BY BusAssumption DEF Send, IInv, TypeOK
  <2>2. sends + 1 \in Sends /\ sends + 1 > sends
    BY <2>1 DEF Sends
  <2> QED BY <2>2, BusAssumption DEF IInv, NumberInv
<1>2. Applied' = Applied
  BY DEF Send, Applied
<1>3. Promise!Ask(sends + 1, KeyOf[s])
  BY <1>1, <1>2 DEF Send, Promise!Ask
<1> QED BY <1>1, <1>3 DEF AbstractStep, Promise!Next

LEMMA PromiseCron == ASSUME IInv, NEW k \in Keys, Cron(k) PROVE AbstractStep
<1>1. slot[k].status # "in_flight"
  BY DEF Cron, IInv, SlotInv, TableInv
<1>2. \A j \in Keys : slot'[j] = IF j = k THEN NoSlot ELSE slot[j]
  BY <1>1 DEF Cron, IInv, TypeOK
<1>3. NoSlot.status = "none"
  BY DEF NoSlot
<1>4. \A j \in Keys : Applied'[j] = IF j = k THEN None ELSE Applied[j]
  BY <1>2, <1>3 DEF Applied
<1>5. Applied' = [Applied EXCEPT ![k] = None]
  BY <1>4 DEF Applied
<1>6. Promise!Forget(k)
  BY <1>5 DEF Cron, Promise!Forget, Promise!None, None
<1> QED BY <1>6 DEF AbstractStep, Promise!Next

LEMMA PromiseRestart == ASSUME IInv, Restart PROVE AbstractStep
<1>1. Applied' = [k \in Keys |-> None]
  BY DEF Restart, NoSlot, Applied
<1>2. Promise!Restart
  BY <1>1 DEF Restart, Promise!Restart, Promise!None, None
<1> QED BY <1>2 DEF AbstractStep, Promise!Next

(* Over the table, and over the in-memory store if commits cannot fail, the *)
(* bus implements ExactlyOnce.                                              *)
THEOREM Refinement == ASSUME MemoryCommits PROVE Spec => BusIsExactlyOnce
<1>1. Init => Promise!Init
  BY DEF Init, NoSlot, Applied, Promise!Init, Promise!None, None
<1>2. IInv /\ [Next]_vars => [Promise!Next]_<<asked, Applied, verdict, answer>>
  <2> SUFFICES ASSUME IInv, [Next]_vars PROVE AbstractStep
    BY DEF AbstractStep
  <2>1. CASE UNCHANGED vars
    BY <2>1 DEF vars, loopVars, historyVars, Applied, AbstractStep
  <2> QED BY <2>1, PromiseSend, PromiseSender, PromiseCron, PromiseRestart DEF Next
<1>3. Promise!Spec <=> Promise!Init /\ [][Promise!Next]_<<asked, Applied, verdict, answer>>
  BY DEF Promise!Spec
<1> QED BY <1>1, <1>2, <1>3, Invariance, PTL DEF Spec, BusIsExactlyOnce

=============================================================================
