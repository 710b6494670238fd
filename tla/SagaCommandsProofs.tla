------------------------- MODULE SagaCommandsProofs -------------------------
(* Proofs about SagaCommands, for any number of rows, dispatchers, sends   *)
(* and faults, and for either claim strategy.                              *)
EXTENDS SagaCommands, TLAPS

-----------------------------------------------------------------------------
(* The inductive invariant.                                                *)

\* A dispatcher that sends asks, under the key of the row, in a request that
\* is its own.
SendInv ==
  \A d \in Dispatchers : at[d].pc = "send" =>
    /\ at[d].item \in Items /\ at[d].req \in Requests
    /\ asked[at[d].req] = DispatchKey(at[d].item)
    /\ verdict[at[d].req] # "unsent"

\* A row is acknowledged after its handler committed.
AckInv ==
  \A d \in Dispatchers : at[d].pc = "ack" =>
    at[d].item \in Items /\ history[at[d].item.row].runs > 0

\* The bus holds a key as applied from the first run on, until it forgets it.
KeyInv ==
  \A r \in Rows : IF applied[<<r, 0>>] = Bus!None THEN history[r].runs <= history[r].forgotten
                  ELSE history[r].runs > 0

IInv == TypeOK /\ SendInv /\ AckInv /\ KeyInv /\ NothingLost /\ AppliedOnce

-----------------------------------------------------------------------------
(* Type correctness.                                                       *)

\* What a dispatcher stands at, and what its variable holds after each of the
\* ways to change it.
Places == [pc : {"idle", "claim", "send", "ack", "settle", "down"}, seen : SUBSET Rows,
           hands : SUBSET Items, item : Items \cup {NoItem}, req : 0 .. MaxSends]

LEMMA IdleType == Idle \in Places /\ \A H \in SUBSET Items : [Idle EXCEPT !.hands = H] \in Places
BY SagaCommandsAssumption DEF Idle, Places

LEMMA MoveType ==
  ASSUME TypeOK, NEW d \in Dispatchers,
         \/ \E pc \in {"idle", "ack", "settle"} : Goes(d, pc)
         \/ Down(d) \/ Drops(d)
  PROVE  at' \in [Dispatchers -> Places]
<1>1. at \in [Dispatchers -> Places] /\ at[d] \in Places
  BY DEF TypeOK, Places
<1>2. ASSUME NEW pc \in {"idle", "ack", "settle"}, Goes(d, pc) PROVE at' \in [Dispatchers -> Places]
  <2>1. [at[d] EXCEPT !.pc = pc] \in Places
    BY <1>1 DEF Places
  <2> QED BY <1>1, <1>2, <2>1 DEF Goes
<1>3. CASE Down(d)
  <2>1. [Idle EXCEPT !.pc = "down"] \in Places
    BY IdleType DEF Idle, Places
  <2> QED BY <1>1, <1>3, <2>1 DEF Down
<1>4. CASE Drops(d)
  <2>1. at[d].hands \ {at[d].item} \in SUBSET Items
    BY <1>1 DEF Places
  <2>2. [Idle EXCEPT !.hands = at[d].hands \ {at[d].item}] \in Places
    BY <2>1, IdleType
  <2> QED BY <1>1, <1>4, <2>2 DEF Drops
<1> QED BY <1>2, <1>3, <1>4

LEMMA StatusType ==
  ASSUME TypeOK, NEW r, NEW status \in Statuses, SetStatus(r, status)
  PROVE  queue' \in [Rows -> [status : Statuses, attempts : Nat]]
BY DEF TypeOK, SetStatus, Exists

LEMMA ClaimedType ==
  ASSUME TypeOK, NEW R, Claimed(R)
  PROVE  queue' \in [Rows -> [status : Statuses, attempts : Nat]]
BY DEF TypeOK, Claimed, Statuses

LEMMA FaultType ==
  ASSUME TypeOK, NEW kind, Fault(kind) PROVE faults' \in 0 .. MaxFaults
BY SagaCommandsAssumption DEF TypeOK, Fault

LEMMA VerdictType == ASSUME NEW x PROVE Verdict(x) \in Statuses /\ Verdict(x) # "deleted"
BY DEF Verdict, Statuses

-----------------------------------------------------------------------------
(* The bus and the history of a row.                                       *)

\* The key of a row is one of the bus's.
LEMMA KeyType ==
  ASSUME NEW x \in Items PROVE DispatchKey(x) \in Keys /\ x.row \in Rows /\ DispatchKey(x) = <<x.row, 0>>
BY SagaCommandsAssumption DEF DispatchKey, Keys, Items

\* What a request does to the bus while a dispatcher waits for it: its key is
\* applied or is not, and the handler of the row is counted when it is.
BusMoves(d) ==
  /\ applied' \in {applied, [applied EXCEPT ![asked[at[d].req]] = Bus!Winner(at[d].req)]}
  /\ Counts(d)

LEMMA BusMovesKeeps ==
  ASSUME IInv, NEW d \in Dispatchers, at[d].pc = "send", BusMoves(d)
  PROVE  /\ applied' \in [Keys -> 0 .. MaxSends]
         /\ history' \in [Rows -> [runs : Nat, forgotten : Nat, purged : BOOLEAN]]
         /\ \A r \in Rows : /\ history'[r].runs >= history[r].runs
                            /\ history'[r].purged = history[r].purged
         /\ KeyInv' /\ AppliedOnce'
<1> DEFINE q == at[d].req
           row == at[d].item.row
           k == asked[q]
<1>1. q \in Requests /\ row \in Rows /\ k = <<row, 0>> /\ k \in Keys
  BY KeyType DEF IInv, SendInv
<1>2. q # Bus!None /\ Bus!Winner(q) \in 1 .. MaxSends
  BY <1>1, SagaCommandsAssumption DEF IInv, TypeOK, Requests, Bus!None, Bus!Winner
<1>3. applied' \in [Keys -> 0 .. MaxSends]
  <2>1. Bus!Winner(q) \in 0 .. MaxSends
    BY <1>2, SagaCommandsAssumption
  <2>2. applied \in [Keys -> 0 .. MaxSends]
    BY DEF IInv, TypeOK
  <2> QED BY <2>1, <2>2 DEF BusMoves
<1>4. \A r \in Rows : <<r, 0>> \in Keys /\ (<<r, 0>> = k <=> r = row)
  BY <1>1, SagaCommandsAssumption DEF Keys
<1>5. \A r \in Rows : r # row => applied'[<<r, 0>>] = applied[<<r, 0>>]
  BY <1>1, <1>4 DEF BusMoves, IInv, TypeOK
<1>6. applied[k] # Bus!None => applied'[k] = applied[k]
  BY <1>1 DEF BusMoves, IInv, TypeOK, Bus!Winner
<1>7. history \in [Rows -> [runs : Nat, forgotten : Nat, purged : BOOLEAN]]
  BY DEF IInv, TypeOK
<1> DEFINE first == applied[k] = Bus!None /\ applied'[k] # Bus!None
<1>9. history' \in [Rows -> [runs : Nat, forgotten : Nat, purged : BOOLEAN]]
  BY <1>1, <1>7 DEF BusMoves, Counts
<1>10. \A r \in Rows : /\ history'[r].runs = IF r = row /\ first THEN history[r].runs + 1 ELSE history[r].runs
                       /\ history'[r].purged = history[r].purged
                       /\ history'[r].forgotten = history[r].forgotten
  BY <1>1, <1>7 DEF BusMoves, Counts
<1>11. KeyInv'
  <2> SUFFICES ASSUME NEW r \in Rows
      PROVE IF applied'[<<r, 0>>] = Bus!None THEN history'[r].runs <= history'[r].forgotten
            ELSE history'[r].runs > 0
    BY DEF KeyInv, Bus!None
  <2>1. history[r].runs \in Nat
    BY <1>7
  <2>2. CASE r # row
    BY <1>5, <1>10, <2>2 DEF IInv, KeyInv
  <2>3. CASE r = row
    BY <1>1, <1>6, <1>10, <2>1, <2>3 DEF IInv, KeyInv
  <2> QED BY <2>2, <2>3
<1>12. AppliedOnce'
  <2> SUFFICES ASSUME NEW r \in Rows PROVE history'[r].runs <= 1 + history'[r].forgotten
    BY DEF AppliedOnce
  <2>1. history[r].runs \in Nat /\ history[r].forgotten \in Nat
    BY <1>7
  <2>2. CASE r = row /\ first
    BY <1>1, <1>10, <2>1, <2>2 DEF IInv, KeyInv
  <2>3. CASE ~(r = row /\ first)
    BY <1>10, <2>3 DEF IInv, AppliedOnce
  <2> QED BY <2>2, <2>3
<1>13. \A r \in Rows : history'[r].runs >= history[r].runs
  BY <1>7, <1>10
<1> QED BY <1>3, <1>9, <1>10, <1>11, <1>12, <1>13

\* The ways a request is ended are moves of the bus; a refused one applies
\* nothing.
LEMMA EndsAreMoves ==
  ASSUME IInv, NEW d \in Dispatchers, at[d].pc = "send"
  PROVE  /\ Bus!Run(at[d].req) /\ Counts(d) => BusMoves(d)
         /\ Bus!Serve(at[d].req) /\ Counts(d) => BusMoves(d)
         /\ Bus!Lose(at[d].req) /\ Counts(d) => BusMoves(d)
BY DEF BusMoves, Bus!Run, Bus!Serve, Bus!Lose

\* Once a request is served its key is applied.
LEMMA ServedRan ==
  ASSUME IInv, NEW d \in Dispatchers, Served(d)
  PROVE  at[d].item \in Items /\ history'[at[d].item.row].runs > 0
<1> DEFINE q == at[d].req
           row == at[d].item.row
<1>1. /\ q \in Requests /\ row \in Rows /\ at[d].item \in Items
      /\ asked[q] = <<row, 0>> /\ <<row, 0>> \in Keys
  BY KeyType DEF Served, IInv, SendInv
<1>2. KeyInv'
  BY BusMovesKeeps, EndsAreMoves DEF Served
<1>3. applied'[<<row, 0>>] # Bus!None
  BY <1>1 DEF Served, Bus!Serve, Bus!Winner, IInv, TypeOK, Requests, Bus!None
<1>4. history'[row].runs > 0
  BY <1>1, <1>2, <1>3 DEF KeyInv, Bus!None
<1> QED BY <1>1, <1>4

\* The verdict and the answer of a request are well typed after each move.
LEMMA VerdictsType ==
  ASSUME TypeOK, NEW q \in Requests, NEW k \in Keys,
         Bus!Ask(q, k) \/ Bus!Run(q) \/ Bus!Serve(q) \/ Bus!Refuse(q) \/ Bus!Lose(q)
  PROVE  /\ verdict' \in [Requests -> Bus!Verdicts]
         /\ asked' \in [Requests -> Keys \cup {NoKey}]
BY DEF TypeOK, Bus!Ask, Bus!Run, Bus!Serve, Bus!Refuse, Bus!Lose, Bus!Verdicts

-----------------------------------------------------------------------------
(* What a step must respect for each part of the invariant to survive it.  *)

\* What is known of a row's past is never taken back.
Grows ==
  /\ history' \in [Rows -> [runs : Nat, forgotten : Nat, purged : BOOLEAN]]
  /\ \A r \in Rows : /\ history'[r].runs >= history[r].runs
                     /\ history[r].purged => history'[r].purged

\* Only one dispatcher moves.
OnlyMoves(d) == \A e \in Dispatchers : e # d => at'[e] = at[e]

LEMMA SameHistory == ASSUME TypeOK, UNCHANGED history PROVE Grows
BY DEF TypeOK, Grows

LEMMA MoversAlone ==
  ASSUME TypeOK, NEW d \in Dispatchers,
         (\E pc : Goes(d, pc)) \/ Down(d) \/ Drops(d) \/ Send(d) \/ Claim(d) \/ Look(d)
  PROVE  OnlyMoves(d)
BY DEF TypeOK, OnlyMoves, Goes, Down, Drops, Send, Claim, Look

LEMMA LostStep ==
  ASSUME IInv, Grows,
         \A r \in Rows : queue'[r].status = "deleted" =>
           queue[r].status = "deleted" \/ history'[r].runs > 0 \/ history'[r].purged
  PROVE  NothingLost'
<1> SUFFICES ASSUME NEW r \in Rows, queue'[r].status = "deleted", ~history'[r].purged
             PROVE  history'[r].runs > 0
  BY DEF NothingLost
<1>1. history[r].runs \in Nat /\ history'[r].runs \in Nat
  BY DEF IInv, TypeOK, Grows
<1>2. CASE queue[r].status = "deleted"
  BY <1>1, <1>2 DEF IInv, NothingLost, Grows
<1> QED BY <1>2

LEMMA AckStep ==
  ASSUME IInv, Grows, NEW d \in Dispatchers, OnlyMoves(d),
         at'[d].pc = "ack" => at'[d].item \in Items /\ history'[at'[d].item.row].runs > 0
  PROVE  AckInv'
<1> SUFFICES ASSUME NEW e \in Dispatchers, at'[e].pc = "ack"
             PROVE  at'[e].item \in Items /\ history'[at'[e].item.row].runs > 0
  BY DEF AckInv
<1>1. CASE e # d
  <2>1. at'[e] = at[e] /\ at[e].item \in Items /\ history[at[e].item.row].runs > 0
    BY <1>1 DEF OnlyMoves, IInv, AckInv
  <2>2. at[e].item.row \in Rows
    BY <2>1, KeyType
  <2> QED BY <2>1, <2>2 DEF IInv, TypeOK, Grows
<1> QED BY <1>1

\* Requests under way are not asked again.
LEMMA SendStep ==
  ASSUME IInv, NEW d \in Dispatchers, OnlyMoves(d),
         \A q \in Requests : verdict[q] # "unsent" => verdict'[q] # "unsent" /\ asked'[q] = asked[q],
         at'[d].pc = "send" =>
           /\ at'[d].item \in Items /\ at'[d].req \in Requests
           /\ asked'[at'[d].req] = DispatchKey(at'[d].item) /\ verdict'[at'[d].req] # "unsent"
  PROVE  SendInv'
<1> SUFFICES ASSUME NEW e \in Dispatchers, at'[e].pc = "send"
             PROVE  /\ at'[e].item \in Items /\ at'[e].req \in Requests
                    /\ asked'[at'[e].req] = DispatchKey(at'[e].item)
                    /\ verdict'[at'[e].req] # "unsent"
  BY DEF SendInv, DispatchKey
<1>1. CASE e # d
  BY <1>1 DEF OnlyMoves, IInv, SendInv
<1> QED BY <1>1

LEMMA BusIdle ==
  ASSUME UNCHANGED bus
  PROVE  \A q \in Requests : verdict[q] # "unsent" => verdict'[q] # "unsent" /\ asked'[q] = asked[q]
BY DEF bus

LEMMA SameKeys ==
  ASSUME IInv, UNCHANGED <<applied, history>> PROVE KeyInv' /\ AppliedOnce'
BY DEF IInv, KeyInv, AppliedOnce, Bus!None

\* A status that is set is the status asked for, or the row is gone.
LEMMA StatusStep ==
  ASSUME TypeOK, NEW r0, NEW status, SetStatus(r0, status), NEW r \in Rows,
         queue'[r].status = "deleted"
  PROVE  queue[r].status = "deleted" \/ (r = r0 /\ status = "deleted")
BY DEF TypeOK, SetStatus, Exists

-----------------------------------------------------------------------------
(* Every step keeps the invariant.                                         *)

\* A claim: what it sees, and what it takes.
LEMMA ClaimSteps ==
  ASSUME IInv, NEW d \in Dispatchers, Look(d) \/ Claim(d) \/ ClaimUnknown(d)
  PROVE  IInv'
<1>1. Grows /\ OnlyMoves(d) /\ UNCHANGED bus
  BY SameHistory, MoversAlone DEF IInv, Look, Claim, ClaimUnknown
<1>2. at' \in [Dispatchers -> Places] /\ at'[d].pc \notin {"send", "ack"}
  <2>1. at \in [Dispatchers -> Places] /\ at[d] \in Places
    BY DEF IInv, TypeOK, Places
  <2>2. CASE Look(d)
    <3>1. PICK S \in Candidates(d) : at' = [at EXCEPT ![d].pc = "claim", ![d].seen = S]
      BY <2>2 DEF Look
    <3>2. S \in SUBSET Rows
      BY DEF Candidates
    <3>3. [at[d] EXCEPT !.pc = "claim", !.seen = S] \in Places
      BY <2>1, <3>2 DEF Places
    <3> QED BY <2>1, <3>1, <3>3
  <2>3. CASE Claim(d)
    <3> DEFINE items == {[row |-> r, attempts |-> queue[r].attempts + 1] : r \in Taken(d)}
    <3>1. Taken(d) \subseteq Rows
      BY <2>1 DEF Taken, Places
    <3>2. \A r \in Rows : queue[r].attempts \in Nat
      BY DEF IInv, TypeOK
    <3>3. items \in SUBSET Items
      BY <3>1, <3>2 DEF Items
    <3>4. [Idle EXCEPT !.hands = items] \in Places /\ [Idle EXCEPT !.hands = items].pc = "idle"
      BY <3>3, IdleType DEF Idle
    <3> QED BY <2>1, <2>3, <3>4 DEF Claim
  <2>4. CASE ClaimUnknown(d)
    BY <2>1, <2>4, MoveType DEF ClaimUnknown, Down, Idle, IInv
  <2> QED BY <2>2, <2>3, <2>4
<1>3. queue' \in [Rows -> [status : Statuses, attempts : Nat]]
  BY ClaimedType DEF IInv, TypeOK, Look, Claim, ClaimUnknown
<1>4. faults' \in 0 .. MaxFaults
  BY FaultType DEF IInv, TypeOK, Look, Claim, ClaimUnknown
<1>5. TypeOK'
  BY <1>1, <1>2, <1>3, <1>4 DEF TypeOK, IInv, bus, Grows, Places
<1>6. NothingLost'
  <2>1. \A r \in Rows : queue'[r].status = "deleted" => queue[r].status = "deleted"
    BY DEF Look, Claim, ClaimUnknown, Claimed
  <2> QED BY <1>1, <2>1, LostStep
<1>7. AckInv' /\ SendInv'
  BY <1>1, <1>2, AckStep, SendStep, BusIdle
<1>8. KeyInv' /\ AppliedOnce'
  BY <1>1, SameKeys DEF bus, Look, Claim, ClaimUnknown
<1> QED BY <1>5, <1>6, <1>7, <1>8 DEF IInv

\* A send: the request is new, its key that of the row.
LEMMA SendKeeps == ASSUME IInv, NEW d \in Dispatchers, Send(d) PROVE IInv'
<1>1. PICK x \in at[d].hands, q \in Requests :
        /\ verdict[q] = "unsent" /\ Bus!Ask(q, DispatchKey(x))
        /\ at' = [at EXCEPT ![d].pc = "send", ![d].item = x, ![d].req = q]
  BY DEF Send
<1>2. Grows /\ OnlyMoves(d) /\ UNCHANGED <<queue, history, faults, applied, answer>>
  BY <1>1, SameHistory, MoversAlone DEF IInv, Send, Bus!Ask
<1>3. at \in [Dispatchers -> Places] /\ at[d] \in Places /\ x \in Items /\ q \in 0 .. MaxSends
  BY <1>1, SagaCommandsAssumption DEF IInv, TypeOK, Places, Requests
<1>4. DispatchKey(x) \in Keys
  BY <1>3, KeyType
<1>5. [at[d] EXCEPT !.pc = "send", !.item = x, !.req = q] \in Places
  BY <1>3 DEF Places
<1>6. /\ at' \in [Dispatchers -> Places]
      /\ at'[d].pc = "send" /\ at'[d].item = x /\ at'[d].req = q
  BY <1>1, <1>3, <1>5 DEF Places
<1>7. verdict' \in [Requests -> Bus!Verdicts] /\ asked' \in [Requests -> Keys \cup {NoKey}]
  BY <1>1, <1>4, VerdictsType DEF IInv
<1>8. TypeOK'
  BY <1>2, <1>6, <1>7 DEF IInv, TypeOK, Places
<1>9. NothingLost' /\ AckInv'
  BY <1>2, <1>6, LostStep, AckStep
<1>10. SendInv'
  <2>1. asked'[q] = DispatchKey(x) /\ verdict'[q] = "open"
    BY <1>1 DEF Bus!Ask, IInv, TypeOK
  <2>2. \A p \in Requests : verdict[p] # "unsent" => verdict'[p] # "unsent" /\ asked'[p] = asked[p]
    BY <1>1 DEF Bus!Ask, IInv, TypeOK
  <2> QED BY <1>1, <1>2, <1>3, <1>6, <2>1, <2>2, SendStep
<1> QED BY <1>2, <1>8, <1>9, <1>10, SameKeys DEF IInv

\* A request under way: the handler runs, the bus answers, or refuses, or the
\* answer is lost.
LEMMA BusKeeps ==
  ASSUME IInv, NEW d \in Dispatchers,
         Runs(d) \/ Served(d) \/ Refused(d) \/ SendUnknown(d)
  PROVE  IInv'
<1> DEFINE q == at[d].req
<1>1. /\ at[d].pc = "send" /\ q \in Requests /\ at[d].item \in Items
      /\ asked[q] \in Keys /\ UNCHANGED queue
  BY KeyType DEF Runs, Served, Refused, SendUnknown, IInv, SendInv
<1>2. Bus!Run(q) \/ Bus!Serve(q) \/ Bus!Refuse(q) \/ Bus!Lose(q)
  BY DEF Runs, Served, Refused, SendUnknown
<1>3. /\ Grows /\ KeyInv' /\ AppliedOnce' /\ applied' \in [Keys -> 0 .. MaxSends]
  <2>1. CASE Refused(d)
    BY <2>1, SameHistory, SameKeys DEF Refused, Bus!Refuse, IInv, TypeOK
  <2>2. CASE Runs(d) \/ Served(d) \/ SendUnknown(d)
    BY <1>1, <2>2, EndsAreMoves, BusMovesKeeps DEF Runs, Served, SendUnknown, Grows
  <2> QED BY <2>1, <2>2
<1>4. /\ at' \in [Dispatchers -> Places] /\ OnlyMoves(d)
      /\ at'[d].pc \in {"ack", "settle"} \/ (at'[d] = at[d] /\ Runs(d))
      /\ at'[d].item = at[d].item
  BY MoveType, MoversAlone DEF Runs, Served, Refused, SendUnknown, Goes, IInv, TypeOK, Places, OnlyMoves
<1>5. verdict' \in [Requests -> Bus!Verdicts] /\ asked' = asked
  BY <1>1, <1>2, VerdictsType DEF IInv, Bus!Run, Bus!Serve, Bus!Refuse, Bus!Lose
<1>6. answer' \in [Requests -> 0 .. MaxSends]
  <2>1. Bus!Winner(q) \in 0 .. MaxSends
    BY <1>1, SagaCommandsAssumption DEF IInv, TypeOK, Bus!Winner, Requests
  <2> QED BY <1>2, <2>1 DEF IInv, TypeOK, Bus!Run, Bus!Serve, Bus!Refuse, Bus!Lose
<1>7. faults' \in 0 .. MaxFaults
  BY FaultType DEF IInv, TypeOK, Runs, Served, Refused, SendUnknown
<1>8. TypeOK'
  BY <1>1, <1>3, <1>4, <1>5, <1>6, <1>7 DEF IInv, TypeOK, Places, Grows
<1>9. NothingLost'
  BY <1>1, <1>3, LostStep
<1>10. AckInv'
  <2>1. CASE Served(d)
    BY <1>3, <1>4, <2>1, ServedRan, AckStep
  <2>2. CASE Runs(d) \/ Refused(d) \/ SendUnknown(d)
    <3>1. at'[d].pc # "ack"
      BY <1>1, <1>4, <2>2 DEF Runs, Refused, SendUnknown, Goes, IInv, TypeOK
    <3> QED BY <1>3, <1>4, <3>1, AckStep
  <2> QED BY <2>1, <2>2
<1>11. SendInv'
  <2>1. \A p \in Requests : verdict[p] # "unsent" => verdict'[p] # "unsent" /\ asked'[p] = asked[p]
    BY <1>1, <1>2, <1>5 DEF IInv, TypeOK, Bus!Run, Bus!Serve, Bus!Refuse, Bus!Lose
  <2>2. at'[d].pc = "send" => at'[d] = at[d]
    BY <1>4
  <2> QED BY <1>1, <1>4, <2>1, <2>2, SendStep DEF IInv, SendInv
<1> QED BY <1>3, <1>8, <1>9, <1>10, <1>11 DEF IInv

\* The end of a dispatch: the row is deleted once its handler ran, released or
\* failed; the process may stop instead, and start again.
LEMMA EndKeeps ==
  ASSUME IInv, NEW d \in Dispatchers,
         Ack(d) \/ AckFails(d) \/ Settle(d) \/ SettleFails(d) \/ Restart(d)
  PROVE  IInv'
<1>1. Grows /\ OnlyMoves(d) /\ UNCHANGED bus
  BY SameHistory, MoversAlone DEF IInv, Ack, AckFails, Settle, SettleFails, Restart
<1>2. at' \in [Dispatchers -> Places] /\ at'[d].pc \notin {"send", "ack"}
  BY MoveType, ZenonT(60) DEF IInv, TypeOK, Ack, AckFails, Settle, SettleFails, Restart, Goes, Down, Drops, Idle
<1>3. \/ UNCHANGED queue
      \/ at[d].pc = "ack" /\ SetStatus(at[d].item.row, "deleted")
      \/ SetStatus(at[d].item.row, Verdict(at[d].item))
  BY DEF Ack, AckFails, Settle, SettleFails, Restart
<1>4. queue' \in [Rows -> [status : Statuses, attempts : Nat]]
  BY <1>3, StatusType, VerdictType DEF IInv, TypeOK, Statuses
<1>5. faults' \in 0 .. MaxFaults
  BY FaultType DEF IInv, TypeOK, Ack, AckFails, Settle, SettleFails, Restart
<1>6. TypeOK'
  BY <1>1, <1>2, <1>4, <1>5 DEF TypeOK, IInv, bus, Grows, Places
<1>7. NothingLost'
  <2>1. ASSUME NEW r \in Rows, queue'[r].status = "deleted"
        PROVE  queue[r].status = "deleted" \/ history'[r].runs > 0
    <3>1. CASE at[d].pc = "ack" /\ SetStatus(at[d].item.row, "deleted")
      <4>1. history'[at[d].item.row].runs > 0
        BY <3>1 DEF IInv, AckInv, Ack, AckFails, Settle, SettleFails, Restart
      <4> QED BY <2>1, <3>1, <4>1, StatusStep DEF IInv
    <3>2. CASE SetStatus(at[d].item.row, Verdict(at[d].item))
      BY <2>1, <3>2, StatusStep, VerdictType DEF IInv
    <3> QED BY <1>3, <2>1, <3>1, <3>2
  <2> QED BY <1>1, <2>1, LostStep
<1>8. AckInv' /\ SendInv'
  BY <1>1, <1>2, AckStep, SendStep, BusIdle
<1>9. KeyInv' /\ AppliedOnce'
  BY <1>1, SameKeys DEF bus, Ack, AckFails, Settle, SettleFails, Restart
<1> QED BY <1>6, <1>7, <1>8, <1>9 DEF IInv

\* A crash, in the middle of a send too.
LEMMA CrashKeeps == ASSUME IInv, NEW d \in Dispatchers, Crash(d) PROVE IInv'
<1> DEFINE q == at[d].req
<1>1. UNCHANGED queue /\ OnlyMoves(d)
  BY MoversAlone DEF Crash, IInv
<1>2. at' \in [Dispatchers -> Places] /\ at'[d].pc = "down"
  BY MoveType DEF IInv, TypeOK, Crash, Down, Idle
<1>3. faults' \in 0 .. MaxFaults
  BY FaultType DEF Crash, IInv
<1>4. /\ Grows /\ KeyInv' /\ AppliedOnce' /\ applied' \in [Keys -> 0 .. MaxSends]
      /\ verdict' \in [Requests -> Bus!Verdicts] /\ UNCHANGED <<asked, answer>>
      /\ \A p \in Requests : verdict[p] # "unsent" => verdict'[p] # "unsent"
  <2>1. CASE at[d].pc = "send"
    <3>1. q \in Requests /\ asked[q] \in Keys /\ Bus!Lose(q) /\ BusMoves(d)
      BY <2>1, KeyType, EndsAreMoves DEF Crash, IInv, SendInv
    <3>2. verdict' \in [Requests -> Bus!Verdicts]
      BY <3>1, VerdictsType DEF IInv
    <3>3. \A p \in Requests : verdict[p] # "unsent" => verdict'[p] # "unsent"
      BY <3>1 DEF IInv, TypeOK, Bus!Lose
    <3> QED BY <2>1, <3>1, <3>2, <3>3, BusMovesKeeps DEF Bus!Lose, Grows
  <2>2. CASE at[d].pc # "send"
    BY <2>2, SameHistory, SameKeys DEF Crash, IInv, TypeOK, bus
  <2> QED BY <2>1, <2>2
<1>5. TypeOK'
  BY <1>1, <1>2, <1>3, <1>4 DEF IInv, TypeOK, Places, Grows
<1>6. NothingLost' /\ AckInv' /\ SendInv'
  BY <1>1, <1>2, <1>4, LostStep, AckStep, SendStep
<1> QED BY <1>4, <1>5, <1>6 DEF IInv

\* Maintenance.
LEMMA MaintenanceKeeps ==
  ASSUME IInv, Watchdog \/ Requeue \/ CleanupFailed \/ Forget PROVE IInv'
<1>1. UNCHANGED at /\ UNCHANGED <<asked, verdict, answer>>
  BY DEF Watchdog, Requeue, CleanupFailed, Forget, bus, Bus!Forget
<1>2. Grows
  <2>1. CASE Watchdog \/ Requeue
    BY <2>1, SameHistory DEF Watchdog, Requeue, IInv
  <2>2. CASE CleanupFailed
    <3>1. PICK r0 \in Rows : history' = [history EXCEPT ![r0].purged = TRUE]
      BY <2>2 DEF CleanupFailed
    <3>2. history \in [Rows -> [runs : Nat, forgotten : Nat, purged : BOOLEAN]]
      BY DEF IInv, TypeOK
    <3>3. \A r \in Rows : /\ history'[r].runs = history[r].runs
                          /\ history'[r].purged = IF r = r0 THEN TRUE ELSE history[r].purged
      BY <3>1, <3>2
    <3>4. history' \in [Rows -> [runs : Nat, forgotten : Nat, purged : BOOLEAN]]
      BY <3>1, <3>2
    <3>5. \A r \in Rows : history'[r].runs >= history[r].runs
      <4>1. \A r \in Rows : history'[r].runs = history[r].runs /\ history[r].runs \in Nat
        BY <3>2, <3>3
      <4> QED BY <4>1
    <3>6. \A r \in Rows : history[r].purged => history'[r].purged
      BY <3>3
    <3> QED BY <3>4, <3>5, <3>6 DEF Grows
  <2>3. CASE Forget
    BY <2>3 DEF Forget, Grows, IInv, TypeOK
  <2> QED BY <2>1, <2>2, <2>3
<1>3. queue' \in [Rows -> [status : Statuses, attempts : Nat]]
  <2>1. CASE Watchdog \/ CleanupFailed
    BY <2>1, StatusType DEF IInv, Watchdog, CleanupFailed, Statuses
  <2>2. CASE Requeue
    <3>1. [status |-> "pending", attempts |-> 0] \in [status : Statuses, attempts : Nat]
      BY DEF Statuses
    <3> QED BY <2>2, <3>1 DEF IInv, TypeOK, Requeue
  <2>3. CASE Forget
    BY <2>3 DEF IInv, TypeOK, Forget
  <2> QED BY <2>1, <2>2, <2>3
<1>4. faults' \in 0 .. MaxFaults
  BY FaultType DEF IInv, TypeOK, Watchdog, Requeue, CleanupFailed, Forget
<1>5. applied' \in [Keys -> 0 .. MaxSends]
  <2>1. 0 \in 0 .. MaxSends
    BY SagaCommandsAssumption
  <2>2. CASE Forget
    BY <2>1, <2>2 DEF IInv, TypeOK, Forget, Bus!Forget, Bus!None
  <2> QED BY <2>2 DEF IInv, TypeOK, Watchdog, Requeue, CleanupFailed, bus
<1>6. TypeOK'
  BY <1>1, <1>2, <1>3, <1>4, <1>5 DEF IInv, TypeOK, Grows
<1>7. NothingLost'
  <2>1. ASSUME NEW r \in Rows, queue'[r].status = "deleted"
        PROVE  queue[r].status = "deleted" \/ history'[r].purged
    <3>1. CASE Watchdog
      BY <2>1, <3>1, StatusStep DEF IInv, Watchdog
    <3>2. CASE CleanupFailed
      BY <2>1, <3>2, StatusStep DEF IInv, TypeOK, CleanupFailed
    <3>3. CASE Requeue
      <4>1. PICK r0 \in Rows : queue' = [queue EXCEPT ![r0] = [status |-> "pending", attempts |-> 0]]
        BY <3>3 DEF Requeue
      <4>2. queue'[r] = IF r = r0 THEN [status |-> "pending", attempts |-> 0] ELSE queue[r]
        BY <4>1 DEF IInv, TypeOK
      <4> QED BY <2>1, <4>2
    <3>4. CASE Forget
      BY <2>1, <3>4 DEF Forget
    <3> QED BY <3>1, <3>2, <3>3, <3>4
  <2> QED BY <1>2, <2>1, LostStep
<1>8. AckInv' /\ SendInv'
  BY <1>1, <1>2, KeyType DEF IInv, TypeOK, Grows, AckInv, SendInv
<1>9. KeyInv' /\ AppliedOnce'
  <2>1. CASE Watchdog \/ Requeue
    BY <2>1, SameKeys DEF Watchdog, Requeue, bus
  <2>2. CASE CleanupFailed
    BY <2>2 DEF CleanupFailed, bus, IInv, TypeOK, KeyInv, AppliedOnce, Bus!None
  <2>3. CASE Forget
    <3>1. PICK r0 \in Rows : /\ applied[<<r0, 0>>] # Bus!None /\ Bus!Forget(<<r0, 0>>)
                             /\ history' = [history EXCEPT ![r0].forgotten = @ + 1]
      BY <2>3 DEF Forget
    <3>2. ASSUME NEW r \in Rows
          PROVE  /\ applied'[<<r, 0>>] = IF r = r0 THEN Bus!None ELSE applied[<<r, 0>>]
                 /\ history'[r].runs = history[r].runs
                 /\ history'[r].forgotten = IF r = r0 THEN history[r].forgotten + 1 ELSE history[r].forgotten
                 /\ history[r].runs \in Nat /\ history[r].forgotten \in Nat
      <4>1. <<r, 0>> \in Keys /\ <<r0, 0>> \in Keys /\ (<<r, 0>> = <<r0, 0>> <=> r = r0)
        BY SagaCommandsAssumption DEF Keys
      <4> QED BY <3>1, <4>1 DEF Bus!Forget, IInv, TypeOK
    <3> QED BY <3>1, <3>2 DEF IInv, KeyInv, AppliedOnce, Bus!None
  <2> QED BY <2>1, <2>2, <2>3
<1> QED BY <1>6, <1>7, <1>8, <1>9 DEF IInv

-----------------------------------------------------------------------------
(* What is proved of the queue.                                            *)

LEMMA InitInv == Init => IInv
<1> SUFFICES ASSUME Init PROVE IInv
  OBVIOUS
<1>1. TypeOK
  BY IdleType, SagaCommandsAssumption DEF Init, Bus!Init, Bus!None, Bus!Verdicts, TypeOK, Places, Statuses
<1>2. SendInv /\ AckInv
  BY DEF Init, Idle, SendInv, AckInv
<1>3. KeyInv /\ NothingLost /\ AppliedOnce
  BY SagaCommandsAssumption DEF Init, Bus!Init, Bus!None, Keys, KeyInv, NothingLost, AppliedOnce
<1> QED BY <1>1, <1>2, <1>3 DEF IInv

LEMMA StutterKeeps == ASSUME IInv, UNCHANGED vars PROVE IInv'
BY DEF vars, bus, IInv, TypeOK, SendInv, AckInv, KeyInv, NothingLost, AppliedOnce, Bus!None

(* The inductive invariant holds throughout.                               *)
THEOREM Invariance == Spec => []IInv
<1>1. IInv /\ [Next]_vars => IInv'
  BY ClaimSteps, SendKeeps, BusKeeps, EndKeeps, CrashKeeps, MaintenanceKeeps, StutterKeeps DEF Next, Step
<1> QED BY <1>1, InitInv, PTL DEF Spec

(* No command is lost: a row that is gone was applied, or was failed and   *)
(* then purged by the operator (saga-command-dispatcher.ts:148).           *)
THEOREM CommandsKept == Spec => []NothingLost
BY Invariance, PTL DEF IInv

(* A command is applied once, however often it is claimed, sent, requeued  *)
(* or given up, plus once for each time the bus forgot it                  *)
(* (saga-command-dispatcher.ts:72-75).                                     *)
THEOREM CommandsApplyOnce == Spec => []AppliedOnce
BY Invariance, PTL DEF IInv

=============================================================================
