----------------------------- MODULE SagaProofs -----------------------------
(* Proofs about Saga, for every value of its constants.                    *)
EXTENDS SagaProperties, FiniteSetTheorems, SequenceTheorems, TLAPS

-----------------------------------------------------------------------------
(* Type correctness.                                                       *)

Marks == [Ids -> [status : TimerStatuses \cup {"unwritten"}, arm : 0 .. MaxArms + 1]]
Transactions ==
  [pc : {"idle", "insert", "react", "write", "fire", "commit", "release", "down"},
   del : Deliveries \cup {NoDelivery}, seen : InstanceRows,
   todo : SUBSET Statements, end : BOOLEAN, mine : Marks, row : InstanceRows]

LEMMA TxTyped ==
  TypeOK <=> /\ instances \in [Instances -> InstanceRows]
             /\ timers \in [Instances -> [Ids -> TimerRows]]
             /\ open \subseteq Events
             /\ batch \in [Schedulers -> SUBSET (Deliveries \ {Event(e) : e \in Events})]
             /\ tx \in [Procs -> Transactions]
             /\ outcome \subseteq Deliveries \X {"applied", "skipped"}
             /\ faults \in 0 .. MaxFaults
BY DEF TypeOK, Transactions, Marks

\* The two kinds of deliveries.
LEMMA EventDelivery ==
  ASSUME NEW e \in Events
  PROVE  /\ Event(e) \in Deliveries /\ Event(e).kind = "event" /\ Event(e).key = e
         /\ Event(e).inst = Correlate[e] /\ Correlate[e] \in Instances
BY SagaAssumption DEF Event, Deliveries

LEMMA TimerDelivery ==
  ASSUME NEW i \in Instances, NEW id \in Ids, NEW n \in 1 .. MaxArms
  PROVE  /\ Timer(i, id, n) \in Deliveries \ {Event(e) : e \in Events}
         /\ Timer(i, id, n).kind = "timer" /\ Timer(i, id, n).key = id
         /\ Timer(i, id, n).inst = i /\ Timer(i, id, n).arm = n
<1>1. Timer(i, id, n).kind # "event" /\ \A e \in Events : Event(e).kind = "event"
  BY DEF Timer, Event
<1> QED BY <1>1 DEF Timer, Deliveries

LEMMA DeliveryFields ==
  ASSUME NEW d \in Deliveries
  PROVE  /\ d.inst \in Instances /\ d.kind \in {"event", "timer"}
         /\ d.kind = "event" => d.key \in Events /\ d = Event(d.key)
         /\ d.kind = "timer" => d.key \in Ids /\ d.arm \in 1 .. MaxArms /\ d = Timer(d.inst, d.key, d.arm)
<1>1. CASE \E e \in Events : d = Event(e)
  BY <1>1, SagaAssumption DEF Event
<1>2. CASE \E i \in Instances, id \in Ids, n \in 1 .. MaxArms : d = Timer(i, id, n)
  BY <1>2 DEF Timer
<1> QED BY <1>1, <1>2 DEF Deliveries

\* What a process has in its batch are timers.
LEMMA BatchTimer ==
  ASSUME TypeOK, NEW s \in Schedulers, NEW d \in batch[s]
  PROVE  d \in Deliveries /\ d.kind = "timer"
<1>1. d \in Deliveries \ {Event(e) : e \in Events}
  BY DEF TypeOK
<1> QED BY <1>1, DeliveryFields

LEMMA RowTypes ==
  /\ NoRow \in InstanceRows /\ Fresh \in InstanceRows /\ NoTimer \in TimerRows
  /\ Fresh = [status |-> "active", version |-> 0, lastPos |-> 0, state |-> <<>>]
<1>1. 0 \in 0 .. MaxPos /\ 0 \in 0 .. MaxArms
  BY SagaAssumption
<1>2. <<>> \in Seq(Deliveries)
  OBVIOUS
<1>3. NoRow \in InstanceRows
  BY <1>1, <1>2 DEF NoRow, InstanceRows
<1>4. Fresh = [status |-> "active", version |-> 0, lastPos |-> 0, state |-> <<>>]
  BY DEF Fresh, NoRow
<1>5. Fresh \in InstanceRows
  BY <1>1, <1>2, <1>4 DEF InstanceRows
<1>6. NoTimer \in TimerRows
  BY <1>1 DEF NoTimer, TimerRows, TimerStatuses
<1> QED BY <1>3, <1>4, <1>5, <1>6

LEMMA IdleType ==
  /\ Idle \in Transactions
  /\ Idle = [pc |-> "idle", del |-> NoDelivery, seen |-> NoRow, todo |-> {}, end |-> FALSE,
             mine |-> Idle.mine, row |-> NoRow]
  /\ \A id \in Ids : Idle.mine[id] = Unwritten
<1>1. 0 \in 0 .. MaxArms + 1
  BY SagaAssumption
<1>2. Unwritten \in [status : TimerStatuses \cup {"unwritten"}, arm : 0 .. MaxArms + 1]
  BY <1>1 DEF Unwritten
<1>3. [id \in Ids |-> Unwritten] \in Marks
  BY <1>2 DEF Marks
<1> QED BY <1>3, RowTypes DEF Idle, Transactions

\* The initial state is well typed.
LEMMA TypeInit == Init => TypeOK
<1> SUFFICES ASSUME Init PROVE TypeOK
  OBVIOUS
<1>1. instances \in [Instances -> InstanceRows] /\ timers \in [Instances -> [Ids -> TimerRows]]
  BY RowTypes DEF Init
<1>2. tx \in [Procs -> Transactions]
  BY IdleType DEF Init
<1>3. 0 \in 0 .. MaxFaults
  BY SagaAssumption
<1> QED BY <1>1, <1>2, <1>3, TxTyped DEF Init

\* One transaction moves on to another well-typed one.
LEMMA TxMoves ==
  ASSUME TypeOK, NEW p \in Procs, NEW t \in Transactions, tx' = [tx EXCEPT ![p] = t]
  PROVE  /\ tx' \in [Procs -> Transactions] /\ tx'[p] = t
         /\ \A q \in Procs : q # p => tx'[q] = tx[q]
BY TxTyped

LEMMA TxFields ==
  ASSUME TypeOK, NEW p \in Procs
  PROVE  /\ tx[p] \in Transactions /\ tx[p].del \in Deliveries \cup {NoDelivery}
         /\ tx[p].seen \in InstanceRows /\ tx[p].row \in InstanceRows
         /\ tx[p].todo \in SUBSET Statements /\ tx[p].mine \in Marks
BY TxTyped DEF Transactions

\* A process in a transaction has a delivery in hand.
LEMMA InHand ==
  ASSUME TypeOK, NEW p \in Procs, TxOK(p), InTx(p) \/ tx[p].pc = "release"
  PROVE  /\ tx[p].del \in Deliveries /\ tx[p].del.inst \in Instances
         /\ p \in Workers => tx[p].del.kind = "event" /\ tx[p].del.key \in Events
         /\ p \in Schedulers => /\ tx[p].del.kind = "timer" /\ tx[p].del \in batch[p]
                                /\ tx[p].del.key \in Ids /\ tx[p].del.arm \in 1 .. MaxArms
<1>1. tx[p].del \in Deliveries \cup {NoDelivery}
  BY TxFields
<1>2. p \in Workers => tx[p].del.kind = "event"
  BY SagaAssumption DEF TxOK
<1>3. p \in Schedulers => tx[p].del \in batch[p]
  BY SagaAssumption DEF TxOK
<1>4. NoDelivery.kind = "none"
  BY DEF NoDelivery
<1>5. p \in Schedulers => tx[p].del \in Deliveries /\ tx[p].del.kind = "timer"
  BY <1>3, BatchTimer
<1>6. tx[p].del \in Deliveries
  BY <1>1, <1>2, <1>4, <1>5 DEF Procs
<1> QED BY <1>2, <1>3, <1>5, <1>6, DeliveryFields

-----------------------------------------------------------------------------
(* What a step leaves alone.                                               *)

SameArms(i) == \A id \in Ids : timers'[i][id].arm = timers[i][id].arm

LEMMA SameTx ==
  ASSUME NEW p \in Procs, tx'[p] = tx[p]
  PROVE  /\ InTx(p)' <=> InTx(p)
         /\ Updated(p)' = Updated(p)
         /\ \A i \in Instances :
              /\ Inserted(p, i)' <=> Inserted(p, i)
              /\ LocksInstance(p, i)' <=> LocksInstance(p, i)
              /\ \A id \in Ids : LocksTimer(p, i, id)' <=> LocksTimer(p, i, id)
<1>1. InTx(p)' <=> InTx(p)
  BY DEF InTx
<1>2. \A i \in Instances : On(p, i)' <=> On(p, i)
  BY <1>1 DEF On
<1> QED BY <1>1, <1>2 DEF Updated, Inserted, LocksInstance, LocksTimer

\* A process that does not move keeps what it holds, where the instance it is
\* at work on and the arms of its timers stay.
LEMMA Bystander ==
  ASSUME TypeOK, NEW p \in Procs, ProcInv(p), tx'[p] = tx[p],
         p \in Schedulers => batch[p] \subseteq batch'[p],
         InTx(p) => /\ instances'[tx[p].del.inst] = instances[tx[p].del.inst]
                    /\ SameArms(tx[p].del.inst)
  PROVE  ProcInv(p)'
<1> DEFINE i == tx[p].del.inst
<1>1. InTx(p)' <=> InTx(p)
  BY SameTx
<1>2. CASE InTx(p)
  <2>1. TxOK(p) /\ i \in Instances
    BY <1>2, InHand DEF ProcInv
  <2>2. /\ Inserted(p, i)' <=> Inserted(p, i)
        /\ Updated(p)' = Updated(p)
    BY <2>1, SameTx
  <2>3. instances'[i] = instances[i] /\ \A id \in Ids : timers'[i][id].arm = timers[i][id].arm
    BY <1>2 DEF SameArms
  <2>4. Current(p)' <=> Current(p)
    BY <2>2, <2>3 DEF Current
  <2>5. \A id \in Ids : Visible(p, id)'.arm = Visible(p, id).arm
    BY <2>3 DEF Visible
  <2>6. TxOK(p)'
    BY <1>1, <1>2, <2>1, <2>2, <2>3 DEF TxOK, Procs
  <2>7. Loaded(p)'
    BY <1>1, <2>2, <2>3 DEF ProcInv, Loaded
  <2>8. Holds(p)'
    BY <1>1, <2>4 DEF ProcInv, Holds
  <2>9. Arms(p)'
    BY <1>1, <2>4, <2>5 DEF ProcInv, Arms
  <2> QED BY <2>6, <2>7, <2>8, <2>9 DEF ProcInv
<1>3. CASE ~InTx(p)
  <2>1. TxOK(p)'
    <3>1. TxOK(p)
      BY DEF ProcInv
    <3>2. tx[p].row # NoRow => tx[p].row = Updated(p)
      BY <3>1 DEF TxOK
    <3>3. Updated(p)' = Updated(p)
      BY SameTx
    <3>4. tx[p].pc = "release" => tx'[p].del \in batch'[p]
      BY <3>1 DEF TxOK, Procs
    <3> QED BY <1>1, <1>3, <3>1, <3>2, <3>3, <3>4 DEF TxOK
  <2> QED BY <1>1, <1>3, <2>1 DEF ProcInv, Loaded, Holds, Arms
<1> QED BY <1>2, <1>3

\* A process between two transactions holds nothing.
LEMMA Outside ==
  ASSUME NEW p \in Procs, ~InTx(p), TxOK(p)
  PROVE  /\ ProcInv(p)
         /\ \A i \in Instances :
              /\ ~Inserted(p, i) /\ ~LocksInstance(p, i)
              /\ \A id \in Ids : ~LocksTimer(p, i, id)
BY DEF ProcInv, Loaded, Holds, Arms, On, Inserted, LocksInstance, LocksTimer

\* The locks stay apart where one process moves and takes only free ones.
LEMMA StayApart ==
  ASSUME Apart, NEW p \in Procs,
         \A q \in Procs \ {p} : tx'[q] = tx[q],
         \A i \in Instances :
           /\ Inserted(p, i)' => Inserted(p, i) \/ \A q \in Procs \ {p} : ~Inserted(q, i)
           /\ LocksInstance(p, i)' =>
                LocksInstance(p, i) \/ \A q \in Procs \ {p} : ~LocksInstance(q, i)
           /\ \A id \in Ids : LocksTimer(p, i, id)' =>
                LocksTimer(p, i, id) \/ \A q \in Procs \ {p} : ~LocksTimer(q, i, id)
  PROVE  Apart'
<1> SUFFICES ASSUME NEW q \in Procs, NEW r \in Procs, q # r, NEW i \in Instances
             PROVE  /\ ~(Inserted(q, i)' /\ Inserted(r, i)')
                    /\ ~(LocksInstance(q, i)' /\ LocksInstance(r, i)')
                    /\ \A id \in Ids : ~(LocksTimer(q, i, id)' /\ LocksTimer(r, i, id)')
  BY DEF Apart
<1>1. \A o \in Procs \ {p} :
        /\ Inserted(o, i)' <=> Inserted(o, i)
        /\ LocksInstance(o, i)' <=> LocksInstance(o, i)
        /\ \A id \in Ids : LocksTimer(o, i, id)' <=> LocksTimer(o, i, id)
  BY SameTx
<1>2. /\ ~(Inserted(q, i) /\ Inserted(r, i))
      /\ ~(LocksInstance(q, i) /\ LocksInstance(r, i))
      /\ \A id \in Ids : ~(LocksTimer(q, i, id) /\ LocksTimer(r, i, id))
  BY DEF Apart
<1>3. CASE q # p /\ r # p
  BY <1>1, <1>2, <1>3
<1>4. CASE q = p
  BY <1>1, <1>2, <1>4
<1>5. CASE r = p
  BY <1>1, <1>2, <1>5
<1> QED BY <1>3, <1>4, <1>5

\* The same, where the process that moves ends its transaction.
LEMMA LeaveApart ==
  ASSUME Apart, NEW p \in Procs, \A q \in Procs \ {p} : tx'[q] = tx[q], ~InTx(p)'
  PROVE  Apart'
<1>1. \A i \in Instances :
        /\ ~Inserted(p, i)' /\ ~LocksInstance(p, i)'
        /\ \A id \in Ids : ~LocksTimer(p, i, id)'
  BY DEF On, Inserted, LocksInstance, LocksTimer
<1> QED BY <1>1, StayApart

-----------------------------------------------------------------------------
(* The shapes of a step: inside one transaction, at the end of one, and    *)
(* with no transaction at all.                                             *)

StoreTyped ==
  /\ instances \in [Instances -> InstanceRows]
  /\ timers \in [Instances -> [Ids -> TimerRows]]
  /\ open \subseteq Events
  /\ batch \in [Schedulers -> SUBSET (Deliveries \ {Event(e) : e \in Events})]
  /\ outcome \subseteq Deliveries \X {"applied", "skipped"}
  /\ faults \in 0 .. MaxFaults

LEMMA InsideStep ==
  ASSUME IInv, NEW p \in Procs, NEW t \in Transactions, tx' = [tx EXCEPT ![p] = t],
         UNCHANGED <<instances, timers, open, batch, outcome, faults>>,
         ProcInv(p)',
         \A i \in Instances :
           /\ Inserted(p, i)' => Inserted(p, i) \/ \A q \in Procs \ {p} : ~Inserted(q, i)
           /\ LocksInstance(p, i)' =>
                LocksInstance(p, i) \/ \A q \in Procs \ {p} : ~LocksInstance(q, i)
           /\ \A id \in Ids : LocksTimer(p, i, id)' =>
                LocksTimer(p, i, id) \/ \A q \in Procs \ {p} : ~LocksTimer(q, i, id)
  PROVE  IInv'
<1>1. /\ tx' \in [Procs -> Transactions]
      /\ \A q \in Procs \ {p} : tx'[q] = tx[q]
  BY TxMoves DEF IInv
<1>2. TypeOK'
  <2>1. TypeOK /\ UNCHANGED <<instances, timers, open, batch, outcome, faults>>
    BY DEF IInv
  <2> QED BY <1>1, <2>1, TxTyped DEF TypeOK, Transactions, Marks
<1>3. StoreInv'
  BY DEF IInv, StoreInv
<1>4. \A q \in Procs \ {p} : ProcInv(q)'
  BY <1>1, Bystander DEF IInv, SameArms
<1>5. Apart'
  BY <1>1, StayApart DEF IInv
<1> QED BY <1>2, <1>3, <1>4, <1>5 DEF IInv

LEMMA EndingStep ==
  ASSUME IInv, NEW p \in Procs, NEW t \in Transactions, tx' = [tx EXCEPT ![p] = t],
         ~InTx(p)', TxOK(p)', StoreTyped', StoreInv',
         \A s \in Schedulers \ {p} : batch[s] \subseteq batch'[s],
         UNCHANGED instances, \A i \in Instances : SameArms(i)
  PROVE  IInv'
<1>1. /\ tx' \in [Procs -> Transactions]
      /\ \A q \in Procs \ {p} : tx'[q] = tx[q]
  BY TxMoves DEF IInv
<1>2. TypeOK'
  BY <1>1 DEF StoreTyped, TypeOK, Transactions, Marks
<1>3. \A q \in Procs \ {p} : ProcInv(q)'
  <2> SUFFICES ASSUME NEW q \in Procs \ {p} PROVE ProcInv(q)'
    OBVIOUS
  <2>1. TypeOK /\ ProcInv(q) /\ TxOK(q)
    BY DEF IInv, ProcInv
  <2>2. InTx(q) => tx[q].del.inst \in Instances
    BY <2>1, InHand
  <2> QED BY <1>1, <2>1, <2>2, Bystander
<1>4. ProcInv(p)'
  BY DEF ProcInv, Loaded, Holds, Arms
<1>5. Apart'
  BY <1>1, LeaveApart DEF IInv
<1> QED BY <1>2, <1>3, <1>4, <1>5 DEF IInv

LEMMA TableStep ==
  ASSUME IInv, UNCHANGED tx, StoreTyped', StoreInv',
         \A s \in Schedulers : batch[s] \subseteq batch'[s],
         \A p \in Procs : InTx(p) => instances'[tx[p].del.inst] = instances[tx[p].del.inst],
         \A i \in Instances : SameArms(i)
  PROVE  IInv'
<1>1. TypeOK'
  <2>1. TypeOK
    BY DEF IInv
  <2> QED BY <2>1 DEF StoreTyped, TypeOK
<1>2. \A q \in Procs : ProcInv(q)'
  <2> SUFFICES ASSUME NEW q \in Procs PROVE ProcInv(q)'
    OBVIOUS
  <2>1. TypeOK /\ ProcInv(q) /\ TxOK(q)
    BY DEF IInv, ProcInv
  <2>2. InTx(q) => tx[q].del.inst \in Instances
    BY <2>1, InHand
  <2> QED BY <2>1, <2>2, Bystander
<1>3. Apart'
  <2> SUFFICES ASSUME NEW q \in Procs, NEW r \in Procs, q # r, NEW i \in Instances
               PROVE  /\ ~(Inserted(q, i)' /\ Inserted(r, i)')
                      /\ ~(LocksInstance(q, i)' /\ LocksInstance(r, i)')
                      /\ \A id \in Ids : ~(LocksTimer(q, i, id)' /\ LocksTimer(r, i, id)')
    BY DEF Apart
  <2>1. tx'[q] = tx[q] /\ tx'[r] = tx[r] /\ Apart
    BY DEF IInv
  <2> QED BY <2>1, SameTx DEF Apart
<1> QED BY <1>1, <1>2, <1>3 DEF IInv

\* Setting a status keeps arms, types and the meaning of "none".
LEMMA StatusSet ==
  ASSUME TypeOK, StoreInv, NEW i \in Instances, NEW id \in Ids, NEW status \in TimerStatuses,
         SetTimer(i, id, status), status # "none" => timers[i][id].status # "none"
  PROVE  /\ timers' \in [Instances -> [Ids -> TimerRows]]
         /\ \A j \in Instances : SameArms(j)
         /\ \A j \in Instances, x \in Ids : timers'[j][x].status # "none" => timers'[j][x].arm > 0
<1>1. /\ timers \in [Instances -> [Ids -> TimerRows]]
      /\ timers' = [timers EXCEPT ![i] = [timers[i] EXCEPT ![id] = [timers[i][id] EXCEPT !.status = status]]]
  BY DEF TypeOK, SetTimer
<1>2. \A j \in Instances, x \in Ids :
        timers'[j][x] = IF j = i /\ x = id THEN [timers[i][id] EXCEPT !.status = status] ELSE timers[j][x]
  BY <1>1
<1>3. [timers[i][id] EXCEPT !.status = status] \in TimerRows
  BY <1>1 DEF TimerRows
<1>4. timers' \in [Instances -> [Ids -> TimerRows]]
  BY <1>1, <1>3
<1>5. timers[i][id] \in TimerRows
  BY <1>1
<1>6. \A j \in Instances, x \in Ids : timers'[j][x].arm = timers[j][x].arm
  BY <1>2, <1>5 DEF TimerRows
<1>7. \A j \in Instances, x \in Ids : timers'[j][x].status # "none" => timers[j][x].status # "none"
  BY <1>2, <1>5 DEF TimerRows
<1> QED BY <1>4, <1>6, <1>7 DEF SameArms, StoreInv

-----------------------------------------------------------------------------
(* The steps around the transactions.                                      *)

LEMMA Stored == TypeOK => StoreTyped
BY DEF TypeOK, StoreTyped

LEMMA Faults ==
  ASSUME TypeOK, NEW kind, Fault(kind)
  PROVE  faults' \in 0 .. MaxFaults
<1>1. MaxFaults \in Nat /\ faults \in 0 .. MaxFaults
  BY SagaAssumption DEF TypeOK
<1> QED BY <1>1 DEF Fault

LEMMA SkipEventKeeps ==
  ASSUME IInv, NEW w \in Workers, SkipEvent(w)
  PROVE  IInv'
<1>1. PICK e \in Events :
        /\ open' = open \ {e}
        /\ outcome' = outcome \cup {<<Event(e), "skipped">>}
        /\ UNCHANGED <<instances, timers, batch, tx, faults>>
  BY DEF SkipEvent
<1>2. StoreTyped
  BY Stored DEF IInv
<1>3. Event(e) \in Deliveries
  BY EventDelivery
<1>4. StoreTyped'
  BY <1>1, <1>2, <1>3 DEF StoreTyped
<1>5. StoreInv'
  BY <1>1 DEF IInv, StoreInv
<1> QED BY <1>1, <1>4, <1>5, TableStep DEF SameArms

LEMMA ReplayKeeps == IInv /\ Replay => IInv'
<1> SUFFICES ASSUME IInv, Replay PROVE IInv'
  OBVIOUS
<1>1. PICK e \in Events : /\ Fault("replay") /\ open' = open \cup {e}
                          /\ UNCHANGED <<instances, timers, batch, tx, outcome>>
  BY DEF Replay
<1>2. StoreTyped /\ faults' \in 0 .. MaxFaults
  BY <1>1, Stored, Faults DEF IInv
<1>3. StoreTyped'
  BY <1>1, <1>2 DEF StoreTyped
<1>4. StoreInv'
  BY <1>1 DEF IInv, StoreInv
<1> QED BY <1>1, <1>3, <1>4, TableStep DEF SameArms

LEMMA CleanInstanceKeeps == IInv /\ CleanInstance => IInv'
<1> SUFFICES ASSUME IInv, CleanInstance PROVE IInv'
  OBVIOUS
<1>1. PICK i \in Instances : /\ \A p \in Procs : ~On(p, i)
                             /\ Fault("retention")
                             /\ instances' = [instances EXCEPT ![i] = NoRow]
                             /\ UNCHANGED <<timers, open, batch, tx, outcome>>
  BY DEF CleanInstance
<1>2. StoreTyped /\ faults' \in 0 .. MaxFaults
  BY <1>1, Stored, Faults DEF IInv
<1>3. StoreTyped'
  BY <1>1, <1>2, RowTypes DEF StoreTyped
<1>4. StoreInv'
  BY <1>1, <1>2 DEF IInv, StoreInv, StoreTyped, NoRow
<1>5. \A p \in Procs : InTx(p) => instances'[tx[p].del.inst] = instances[tx[p].del.inst]
  BY <1>1, <1>2 DEF On, StoreTyped
<1> QED BY <1>1, <1>3, <1>4, <1>5, TableStep DEF SameArms

LEMMA CleanTimerKeeps == IInv /\ CleanTimer => IInv'
<1> SUFFICES ASSUME IInv, CleanTimer PROVE IInv'
  OBVIOUS
<1>1. PICK i \in Instances, id \in Ids : /\ Fault("retention")
                                         /\ SetTimer(i, id, "none")
                                         /\ UNCHANGED <<instances, open, batch, tx, outcome>>
  BY DEF CleanTimer
<1>2. StoreTyped /\ faults' \in 0 .. MaxFaults /\ TypeOK /\ StoreInv
  BY <1>1, Stored, Faults DEF IInv
<1>3. /\ timers' \in [Instances -> [Ids -> TimerRows]]
      /\ \A j \in Instances : SameArms(j)
      /\ \A j \in Instances, x \in Ids : timers'[j][x].status # "none" => timers'[j][x].arm > 0
  BY <1>1, <1>2, StatusSet DEF TimerStatuses
<1>4. StoreTyped'
  BY <1>1, <1>2, <1>3 DEF StoreTyped
<1>5. StoreInv'
  BY <1>1, <1>2, <1>3 DEF StoreInv
<1> QED BY <1>1, <1>3, <1>4, <1>5, TableStep

LEMMA WatchdogKeeps == IInv /\ Watchdog => IInv'
<1> SUFFICES ASSUME IInv, Watchdog PROVE IInv'
  OBVIOUS
<1>1. PICK i \in Instances, id \in Ids : /\ timers[i][id].status = "claimed"
                                         /\ SetTimer(i, id, "pending")
                                         /\ UNCHANGED <<instances, open, batch, tx, outcome, faults>>
  BY DEF Watchdog
<1>2. StoreTyped /\ TypeOK /\ StoreInv
  BY <1>1, Stored DEF IInv
<1>3. /\ timers' \in [Instances -> [Ids -> TimerRows]]
      /\ \A j \in Instances : SameArms(j)
      /\ \A j \in Instances, x \in Ids : timers'[j][x].status # "none" => timers'[j][x].arm > 0
  BY <1>1, <1>2, StatusSet DEF TimerStatuses
<1>4. StoreTyped'
  BY <1>1, <1>2, <1>3 DEF StoreTyped
<1>5. StoreInv'
  BY <1>1, <1>2, <1>3 DEF StoreInv
<1> QED BY <1>1, <1>3, <1>4, <1>5, TableStep

\* What the claim does to the timers.
LEMMA ClaimedTimers ==
  ASSUME TypeOK, StoreInv, NEW items \in Batches, Claimed(items)
  PROVE  /\ items \subseteq Deliveries \ {Event(e) : e \in Events}
         /\ timers' \in [Instances -> [Ids -> TimerRows]]
         /\ \A j \in Instances : SameArms(j)
         /\ \A j \in Instances, x \in Ids : timers'[j][x].status # "none" => timers'[j][x].arm > 0
<1>1. \A j \in Instances, x \in Ids : timers[j][x] \in TimerRows
  BY DEF TypeOK
<1>2. ASSUME NEW j \in Instances, NEW x \in Ids, Due(j, x)
      PROVE  timers[j][x].arm \in 1 .. MaxArms
  BY <1>1, <1>2, SagaAssumption DEF Due, StoreInv, TimerRows
<1>3. \A d \in items : \E j \in Instances, x \in Ids :
        Due(j, x) /\ d = Timer(j, x, timers[j][x].arm)
  BY DEF Batches, DueItems
<1>4. items \subseteq Deliveries \ {Event(e) : e \in Events}
  BY <1>2, <1>3, TimerDelivery
<1>5. \A j \in Instances, x \in Ids :
        timers'[j][x] = IF Timer(j, x, timers[j][x].arm) \in items
                        THEN [timers[j][x] EXCEPT !.status = "claimed"] ELSE timers[j][x]
  BY DEF Claimed
<1>6. \A j \in Instances, x \in Ids :
        /\ timers'[j][x] \in TimerRows
        /\ timers'[j][x].arm = timers[j][x].arm
        /\ timers'[j][x].status \in {timers[j][x].status, "claimed"}
  <2> TAKE j \in Instances, x \in Ids
  <2>1. timers[j][x] \in [status : TimerStatuses, arm : 0 .. MaxArms]
    BY <1>1 DEF TimerRows
  <2>2. CASE Timer(j, x, timers[j][x].arm) \in items
    <3>1. timers'[j][x] = [timers[j][x] EXCEPT !.status = "claimed"]
      BY <1>5, <2>2
    <3> QED BY <2>1, <3>1 DEF TimerRows, TimerStatuses
  <2>3. CASE Timer(j, x, timers[j][x].arm) \notin items
    <3>1. timers'[j][x] = timers[j][x]
      BY <1>5, <2>3
    <3> QED BY <1>1, <3>1
  <2> QED BY <2>2, <2>3
<1>7. timers' \in [Instances -> [Ids -> TimerRows]]
  BY <1>6 DEF Claimed
<1>8. ASSUME NEW j \in Instances, NEW x \in Ids, Timer(j, x, timers[j][x].arm) \in items
      PROVE  timers[j][x].arm > 0
  <2>1. PICK k \in Instances, y \in Ids :
          Due(k, y) /\ Timer(j, x, timers[j][x].arm) = Timer(k, y, timers[k][y].arm)
    BY <1>3, <1>8
  <2>2. timers[j][x].arm = timers[k][y].arm
    BY <2>1 DEF Timer
  <2> QED BY <1>2, <2>1, <2>2
<1>9. \A j \in Instances, x \in Ids : timers'[j][x].status # "none" => timers'[j][x].arm > 0
  <2> SUFFICES ASSUME NEW j \in Instances, NEW x \in Ids, timers'[j][x].status # "none"
               PROVE  timers[j][x].arm > 0
    BY <1>6
  <2>1. CASE Timer(j, x, timers[j][x].arm) \in items
    BY <1>8, <2>1
  <2>2. CASE Timer(j, x, timers[j][x].arm) \notin items
    BY <1>5, <2>2 DEF StoreInv
  <2> QED BY <2>1, <2>2
<1> QED BY <1>4, <1>6, <1>7, <1>9 DEF SameArms

LEMMA ClaimKeeps ==
  ASSUME IInv, NEW s \in Schedulers, Claim(s)
  PROVE  IInv'
<1>1. PICK items \in Batches : /\ Claimed(items)
                               /\ batch' = [batch EXCEPT ![s] = items]
  BY DEF Claim
<1>2. batch[s] = {} /\ UNCHANGED <<instances, open, tx, outcome, faults>>
  BY DEF Claim
<1>3. StoreTyped /\ TypeOK /\ StoreInv
  BY Stored DEF IInv
<1>4. /\ items \subseteq Deliveries \ {Event(e) : e \in Events}
      /\ timers' \in [Instances -> [Ids -> TimerRows]]
      /\ \A j \in Instances : SameArms(j)
      /\ \A j \in Instances, x \in Ids : timers'[j][x].status # "none" => timers'[j][x].arm > 0
  BY <1>1, <1>3, ClaimedTimers
<1>5. /\ batch' \in [Schedulers -> SUBSET (Deliveries \ {Event(e) : e \in Events})]
      /\ \A r \in Schedulers : batch[r] \subseteq batch'[r]
  BY <1>1, <1>2, <1>3, <1>4 DEF StoreTyped
<1>6. StoreTyped'
  BY <1>2, <1>3, <1>4, <1>5 DEF StoreTyped
<1>7. StoreInv'
  BY <1>2, <1>3, <1>4 DEF StoreInv
<1> QED BY <1>2, <1>4, <1>5, <1>6, <1>7, TableStep

-----------------------------------------------------------------------------
(* The steps after which a process has no transaction.                     *)

\* What Ends leaves.
LEMMA Ended ==
  ASSUME TypeOK, NEW p \in Procs, NEW pc \in {"idle", "down"}, p \in Workers => pc = "idle",
         Ends(p, pc)
  PROVE  /\ [Idle EXCEPT !.pc = pc] \in Transactions
         /\ tx' = [tx EXCEPT ![p] = [Idle EXCEPT !.pc = pc]]
         /\ tx'[p] = [Idle EXCEPT !.pc = pc]
         /\ ~InTx(p)' /\ TxOK(p)'
<1> DEFINE t == [Idle EXCEPT !.pc = pc]
<1>1. t \in Transactions
  BY IdleType DEF Transactions
<1>2. tx' = [tx EXCEPT ![p] = t]
  BY DEF Ends
<1>3. tx'[p] = t
  BY <1>1, <1>2, TxMoves
<1>4. t = [Idle EXCEPT !.pc = t.pc] /\ t.pc = pc /\ t.row = NoRow
  BY IdleType
<1>5. ~InTx(p)'
  BY <1>3, <1>4 DEF InTx
<1>6. TxOK(p)'
  BY <1>3, <1>4, <1>5 DEF TxOK
<1> QED BY <1>1, <1>2, <1>3, <1>5, <1>6

LEMMA StopsKeeps ==
  ASSUME IInv, NEW p \in Procs, Stops(p), UNCHANGED <<instances, timers, open, outcome>>,
         faults' \in 0 .. MaxFaults
  PROVE  IInv'
<1>1. TypeOK /\ StoreTyped /\ (p \in Workers => p \notin Schedulers)
  BY Stored, SagaAssumption DEF IInv
<1>2. PICK pc \in {"idle", "down"} : Ends(p, pc) /\ (p \in Workers => pc = "idle")
  BY <1>1 DEF Stops
<1>3. /\ batch' \in [Schedulers -> SUBSET (Deliveries \ {Event(e) : e \in Events})]
      /\ \A s \in Schedulers \ {p} : batch'[s] = batch[s]
  BY <1>1 DEF Stops, StoreTyped
<1>4. StoreTyped'
  BY <1>1, <1>3 DEF StoreTyped
<1>5. StoreInv'
  BY DEF IInv, StoreInv
<1> QED BY <1>1, <1>2, <1>3, <1>4, <1>5, Ended, EndingStep DEF SameArms

LEMMA ErrorKeeps ==
  ASSUME IInv, NEW p \in Procs, Error(p)
  PROVE  IInv'
<1>1. TypeOK /\ Fault("error") /\ Stops(p) /\ UNCHANGED <<instances, timers, open, outcome>>
  BY DEF Error, IInv
<1>2. faults' \in 0 .. MaxFaults
  BY <1>1, Faults
<1> QED BY <1>1, <1>2, StopsKeeps

LEMMA DeadlockKeeps ==
  ASSUME IInv, NEW p \in Procs, Deadlock(p)
  PROVE  IInv'
<1>1. TypeOK /\ Stops(p) /\ UNCHANGED <<instances, timers, open, outcome, faults>>
  BY DEF Deadlock, IInv
<1>2. faults' \in 0 .. MaxFaults
  BY <1>1 DEF TypeOK
<1> QED BY <1>1, <1>2, StopsKeeps

\* A transaction that only ends: nothing in the tables changes with it.
LEMMA EndsKeeps ==
  ASSUME IInv, NEW p \in Procs, NEW pc \in {"idle", "down"}, p \in Workers => pc = "idle",
         Ends(p, pc), UNCHANGED <<instances, timers, open, batch, outcome, faults>>
  PROVE  IInv'
<1>1. TypeOK /\ StoreTyped /\ StoreInv
  BY Stored DEF IInv
<1>2. StoreTyped' /\ StoreInv'
  BY <1>1 DEF StoreTyped, StoreInv
<1> QED BY <1>1, <1>2, Ended, EndingStep DEF SameArms

LEMMA RestartKeeps ==
  ASSUME IInv, NEW s \in Schedulers, Restart(s)
  PROVE  IInv'
<1>1. Ends(s, "idle") /\ UNCHANGED <<instances, timers, open, batch, outcome, faults>> /\ s \in Procs
  BY DEF Restart, Procs
<1> QED BY <1>1, EndsKeeps

LEMMA ClaimUnknownKeeps ==
  ASSUME IInv, NEW s \in Schedulers, ClaimUnknown(s)
  PROVE  IInv'
<1>1. PICK items \in Batches : Claimed(items)
  BY DEF ClaimUnknown
<1>2. /\ Fault("claimUnknown") /\ Ends(s, "down")
      /\ UNCHANGED <<instances, open, batch, outcome>>
  BY DEF ClaimUnknown
<1>3. StoreTyped /\ TypeOK /\ StoreInv /\ s \in Procs /\ s \notin Workers
  BY Stored, SagaAssumption DEF IInv, Procs
<1>4. /\ timers' \in [Instances -> [Ids -> TimerRows]]
      /\ \A j \in Instances : SameArms(j)
      /\ \A j \in Instances, x \in Ids : timers'[j][x].status # "none" => timers'[j][x].arm > 0
  BY <1>1, <1>3, ClaimedTimers
<1>5. faults' \in 0 .. MaxFaults
  BY <1>2, <1>3, Faults
<1>6. StoreTyped'
  BY <1>2, <1>3, <1>4, <1>5 DEF StoreTyped
<1>7. StoreInv'
  BY <1>2, <1>3, <1>4 DEF StoreInv
<1> QED BY <1>2, <1>3, <1>4, <1>6, <1>7, Ended, EndingStep

LEMMA OrphanKeeps ==
  ASSUME IInv, NEW s \in Schedulers, Orphan(s)
  PROVE  IInv'
<1>1. StoreTyped /\ TypeOK /\ StoreInv /\ s \in Procs /\ TxOK(s)
  BY Stored DEF IInv, Procs, ProcInv
<1>2. PICK d \in batch[s] :
        /\ SetTimer(d.inst, d.key, IF timers[d.inst][d.key].status = "none" THEN "none" ELSE "failed")
        /\ batch' = [batch EXCEPT ![s] = @ \ {d}]
  BY DEF Orphan
<1>3. tx[s].pc = "idle" /\ Fault("orphan") /\ UNCHANGED <<instances, open, tx, outcome>>
  BY DEF Orphan
<1>4. d.inst \in Instances /\ d.key \in Ids
  BY <1>1, BatchTimer, DeliveryFields
<1>5. /\ timers' \in [Instances -> [Ids -> TimerRows]]
      /\ \A j \in Instances : SameArms(j)
      /\ \A j \in Instances, x \in Ids : timers'[j][x].status # "none" => timers'[j][x].arm > 0
  BY <1>1, <1>2, <1>4, StatusSet DEF TimerStatuses
<1>6. faults' \in 0 .. MaxFaults
  BY <1>1, <1>3, Faults
<1>7. /\ batch' \in [Schedulers -> SUBSET (Deliveries \ {Event(e) : e \in Events})]
      /\ \A r \in Schedulers \ {s} : batch'[r] = batch[r]
  BY <1>1, <1>2 DEF StoreTyped
<1>8. StoreTyped'
  BY <1>1, <1>3, <1>5, <1>6, <1>7 DEF StoreTyped
<1>9. StoreInv'
  BY <1>1, <1>3, <1>5 DEF StoreInv
<1>10. tx[s] \in Transactions /\ tx' = [tx EXCEPT ![s] = tx[s]]
  BY <1>1, <1>3, TxTyped
<1>11. ~InTx(s) /\ ~InTx(s)'
  BY <1>3 DEF InTx
<1>12. TxOK(s)'
  <2>1. tx[s].row = NoRow
    BY <1>1, <1>3, IdleType DEF TxOK
  <2> QED BY <1>1, <1>3, <1>11, <2>1 DEF TxOK
<1> QED BY <1>1, <1>3, <1>5, <1>7, <1>8, <1>9, <1>10, <1>11, <1>12, EndingStep

LEMMA ReleaseKeeps ==
  ASSUME IInv, NEW s \in Schedulers, Release(s)
  PROVE  IInv'
<1> DEFINE d == tx[s].del
<1>1. StoreTyped /\ TypeOK /\ StoreInv /\ s \in Procs /\ TxOK(s) /\ s \notin Workers
  BY Stored, SagaAssumption DEF IInv, Procs, ProcInv
<1>2. /\ tx[s].pc = "release"
      /\ IF timers[d.inst][d.key].status = "claimed"
         THEN SetTimer(d.inst, d.key, "pending") ELSE UNCHANGED timers
      /\ batch' = [batch EXCEPT ![s] = @ \ {d}]
      /\ Ends(s, "idle")
      /\ UNCHANGED <<instances, open, outcome, faults>>
  BY DEF Release
<1>3. d.inst \in Instances /\ d.key \in Ids
  BY <1>1, <1>2, InHand
<1>4. /\ timers' \in [Instances -> [Ids -> TimerRows]]
      /\ \A j \in Instances : SameArms(j)
      /\ \A j \in Instances, x \in Ids : timers'[j][x].status # "none" => timers'[j][x].arm > 0
  <2>1. CASE timers[d.inst][d.key].status = "claimed"
    BY <1>1, <1>2, <1>3, <2>1, StatusSet DEF TimerStatuses
  <2>2. CASE timers[d.inst][d.key].status # "claimed"
    BY <1>1, <1>2, <2>2 DEF StoreTyped, StoreInv, SameArms
  <2> QED BY <2>1, <2>2
<1>5. /\ batch' \in [Schedulers -> SUBSET (Deliveries \ {Event(e) : e \in Events})]
      /\ \A r \in Schedulers \ {s} : batch'[r] = batch[r]
  BY <1>1, <1>2 DEF StoreTyped
<1>6. StoreTyped'
  BY <1>1, <1>2, <1>4, <1>5 DEF StoreTyped
<1>7. StoreInv'
  BY <1>1, <1>2, <1>4 DEF StoreInv
<1> QED BY <1>1, <1>2, <1>4, <1>5, <1>6, <1>7, Ended, EndingStep

LEMMA ConcurrentKeeps ==
  ASSUME IInv, NEW p \in Procs, Concurrent(p)
  PROVE  IInv'
<1>1. StoreTyped /\ TypeOK /\ StoreInv /\ TxOK(p)
  BY Stored DEF IInv, ProcInv
<1>2. UNCHANGED <<instances, timers, open, batch, outcome, faults>> /\ InTx(p)
  BY DEF Concurrent, InTx
<1>3. CASE p \in Schedulers
  <2> DEFINE t == [Idle EXCEPT !.pc = "release", !.del = tx[p].del]
  <2>1. tx' = [tx EXCEPT ![p] = t]
    BY <1>3 DEF Concurrent
  <2>2. tx[p].del \in Deliveries /\ tx[p].del \in batch[p]
    BY <1>1, <1>2, <1>3, InHand
  <2>3. t \in Transactions /\ t.pc = "release" /\ t.row = NoRow /\ t.del = tx[p].del
    <3>1. Idle \in Transactions /\ Idle.row = NoRow
      BY IdleType
    <3>2. t \in Transactions
      BY <2>2, <3>1 DEF Transactions
    <3>3. t.pc = "release" /\ t.row = NoRow /\ t.del = tx[p].del
      BY <3>1 DEF Transactions
    <3> QED BY <3>2, <3>3
  <2>4. tx'[p] = t
    BY <1>1, <2>1, <2>3, TxMoves
  <2>5. ~InTx(p)'
    BY <2>3, <2>4 DEF InTx
  <2>6. TxOK(p)'
    BY <1>2, <1>3, <2>2, <2>3, <2>4, <2>5, SagaAssumption DEF TxOK
  <2>7. StoreTyped' /\ StoreInv'
    BY <1>1, <1>2 DEF StoreTyped, StoreInv
  <2> QED BY <1>1, <1>2, <2>1, <2>3, <2>5, <2>6, <2>7, EndingStep DEF SameArms
<1>4. CASE p \notin Schedulers
  BY <1>2, <1>4, EndsKeeps DEF Concurrent
<1> QED BY <1>3, <1>4

-----------------------------------------------------------------------------
(* The steps inside a transaction.                                         *)

\* A delivery begins with the row that is there, or with a fresh one.
LEMMA Begins ==
  ASSUME IInv, NEW p \in Procs, NEW d \in Deliveries, NEW pc \in {"insert", "react", "fire"},
         Begin(p, d, pc), UNCHANGED <<instances, timers, open, batch, outcome, faults>>,
         p \in Workers => /\ d.kind = "event" /\ pc # "fire"
                          /\ pc = "react" => instances[d.inst].lastPos < d.key,
         p \in Schedulers => d.kind = "timer" /\ d \in batch[p] /\ pc # "insert",
         pc = "react" => instances[d.inst].status = "active"
  PROVE  IInv'
<1> DEFINE seen == IF pc = "insert" THEN Fresh ELSE instances[d.inst]
           t == [Idle EXCEPT !.pc = pc, !.del = d, !.seen = seen]
<1>1. TypeOK /\ StoreInv
  BY DEF IInv
<1>2. d.inst \in Instances /\ (d.kind = "event" => d.key \in Events)
  BY DeliveryFields
<1>3. instances[d.inst] \in InstanceRows
  BY <1>1, <1>2 DEF TypeOK
<1>4. seen \in InstanceRows
  BY <1>3, RowTypes
<1>5. t \in Transactions
  BY <1>4, IdleType DEF Transactions
<1>6. t.pc = pc /\ t.del = d /\ t.seen = seen /\ t.todo = {} /\ t.mine = Idle.mine /\ t.row = NoRow
  BY IdleType DEF Transactions
<1>7. tx' = [tx EXCEPT ![p] = t]
  BY DEF Begin
<1>8. tx'[p] = t
  BY <1>1, <1>5, <1>7, TxMoves
<1>9. InTx(p)' /\ \A i \in Instances : On(p, i)' => i = d.inst
  BY <1>6, <1>8 DEF InTx, On
<1>10. \A i \in Instances : ~Inserted(p, i)'
  <2>1. CASE pc = "insert"
    BY <1>6, <1>8, <2>1 DEF Inserted
  <2>2. CASE pc = "react"
    <3>1. seen.version > 0
      BY <1>1, <1>2, <2>2 DEF StoreInv, NoRow
    <3>2. seen.version # 0
      BY <3>1, <1>4 DEF InstanceRows
    <3> QED BY <1>6, <1>8, <3>2 DEF Inserted
  <2>3. CASE pc = "fire"
    <3>1. d.kind = "timer"
      BY <2>3 DEF Procs
    <3> QED BY <1>6, <1>8, <3>1 DEF Inserted
  <2> QED BY <2>1, <2>2, <2>3
<1>11. /\ \A i \in Instances : ~LocksInstance(p, i)'
       /\ \A i \in Instances, id \in Ids : ~LocksTimer(p, i, id)'
  BY <1>6, <1>8, IdleType DEF LocksInstance, LocksTimer
<1>12. TxOK(p)'
  <2>1. p \in Workers => d.kind = "event" /\ seen.lastPos < d.key
    <3>1. CASE pc = "insert"
      BY <1>2, <3>1, RowTypes, SagaAssumption DEF Events
    <3>2. CASE pc = "react"
      BY <3>2
    <3> QED BY <3>1, <3>2
  <2>2. p \in Workers \/ d \in batch[p]
    BY DEF Procs
  <2>3. pc = "insert" => p \in Workers /\ seen = Fresh
    BY DEF Procs
  <2>4. pc \in {"insert", "react"} => seen.status = "active"
    BY RowTypes
  <2> QED BY <1>6, <1>8, <2>1, <2>2, <2>3, <2>4, IdleType DEF TxOK
<1>13. Loaded(p)'
  <2>1. pc # "insert" => seen = instances[d.inst]
    OBVIOUS
  <2>2. seen.version <= seen.version
    BY <1>4 DEF InstanceRows
  <2> QED BY <1>2, <1>6, <1>8, <1>10, <2>1, <2>2 DEF Loaded
<1>14. Holds(p)'
  BY <1>6, <1>8 DEF Holds
<1>15. Arms(p)'
  BY <1>6, <1>8, IdleType DEF Arms
<1>16. ProcInv(p)'
  BY <1>12, <1>13, <1>14, <1>15 DEF ProcInv
<1> QED BY <1>5, <1>7, <1>10, <1>11, <1>16, InsideStep

LEMMA DeliverEventKeeps ==
  ASSUME IInv, NEW w \in Workers, DeliverEvent(w)
  PROVE  IInv'
<1>1. PICK e \in Events :
        \/ instances[Correlate[e]].status = "none" /\ Begin(w, Event(e), "insert")
        \/ /\ instances[Correlate[e]].status = "active" /\ instances[Correlate[e]].lastPos < e
           /\ Begin(w, Event(e), "react")
  BY DEF DeliverEvent
<1>2. UNCHANGED <<instances, timers, open, batch, outcome, faults>>
  BY DEF DeliverEvent
<1>3. w \in Procs /\ w \notin Schedulers
  BY SagaAssumption DEF Procs
<1>4. /\ Event(e) \in Deliveries /\ Event(e).kind = "event"
      /\ Event(e).key = e /\ Event(e).inst = Correlate[e]
  BY EventDelivery
<1> DEFINE d == Event(e)
<1>5. CASE Begin(w, d, "insert")
  BY <1>2, <1>3, <1>4, <1>5, Begins
<1>6. CASE /\ instances[d.inst].status = "active" /\ instances[d.inst].lastPos < d.key
           /\ Begin(w, d, "react")
  <2> HIDE DEF d
  <2> QED BY <1>2, <1>3, <1>4, <1>6, Begins DEF d
<1> QED BY <1>1, <1>4, <1>5, <1>6

LEMMA DeliverTimerKeeps ==
  ASSUME IInv, NEW s \in Schedulers, DeliverTimer(s)
  PROVE  IInv'
<1>1. PICK d \in batch[s] :
        Begin(s, d, IF instances[d.inst].status = "active" THEN "react" ELSE "fire")
  BY DEF DeliverTimer
<1>2. UNCHANGED <<instances, timers, open, batch, outcome, faults>>
  BY DEF DeliverTimer
<1>3. s \in Procs /\ s \notin Workers
  BY SagaAssumption DEF Procs
<1>4. d \in Deliveries /\ d.kind = "timer"
  BY BatchTimer DEF IInv
<1>5. CASE instances[d.inst].status = "active"
  BY <1>1, <1>2, <1>3, <1>4, <1>5, Begins
<1>6. CASE instances[d.inst].status # "active"
  BY <1>1, <1>2, <1>3, <1>4, <1>6, Begins
<1> QED BY <1>5, <1>6

LEMMA InsertKeeps ==
  ASSUME IInv, NEW w \in Workers, Insert(w)
  PROVE  IInv'
<1> DEFINE i == tx[w].del.inst
           t == [tx[w] EXCEPT !.pc = "react"]
<1>1. UNCHANGED <<instances, timers, open, batch, outcome, faults>> /\ w \in Procs
  BY DEF Insert, Procs
<1>2. tx[w].pc = "insert" /\ \A v \in Workers : ~Inserted(v, i)
  BY DEF Insert
<1>3. TypeOK /\ StoreInv /\ TxOK(w) /\ InTx(w) /\ w \notin Schedulers
  BY <1>1, <1>2, SagaAssumption DEF IInv, ProcInv, InTx
<1>4. CASE instances[i].status # "none"
  <2>1. Ends(w, "idle")
    BY <1>4 DEF Insert
  <2> QED BY <1>1, <2>1, EndsKeeps
<1>5. CASE instances[i].status = "none"
  <2>1. tx[w] \in Transactions /\ i \in Instances /\ tx[w].del.kind = "event"
    BY <1>1, <1>3, TxFields, InHand
  <2>2. t \in Transactions
    BY <2>1 DEF Transactions
  <2>3. /\ t.pc = "react" /\ t.del = tx[w].del /\ t.seen = tx[w].seen
        /\ t.todo = tx[w].todo /\ t.mine = tx[w].mine /\ t.row = tx[w].row
    BY <2>1 DEF Transactions
  <2>4. tx' = [tx EXCEPT ![w] = t]
    BY <1>5 DEF Insert, Goes
  <2>5. tx'[w] = t
    BY <1>1, <1>3, <2>2, <2>4, TxMoves
  <2>6. tx[w].seen = Fresh /\ tx[w].mine = Idle.mine /\ tx[w].row = NoRow
    BY <1>2, <1>3 DEF TxOK
  <2>7. instances[i] = NoRow
    BY <1>3, <1>5, <2>1 DEF StoreInv
  <2>8. \A j \in Instances : On(w, j)' => j = i
    BY <2>3, <2>5 DEF On
  <2>9. Inserted(w, i)'
    BY <2>1, <2>3, <2>5, <2>6, RowTypes DEF Inserted, On, InTx
  <2>10. \A q \in Procs : ~Inserted(q, i)
    <3> SUFFICES ASSUME NEW q \in Procs, Inserted(q, i) PROVE FALSE
      OBVIOUS
    <3>1. TxOK(q) /\ InTx(q) /\ tx[q].del.kind = "event"
      BY DEF IInv, ProcInv, Inserted, On
    <3>2. q \in Workers
      BY <1>3, <3>1, InHand DEF Procs
    <3> QED BY <1>2, <3>2
  <2>11. TxOK(w)'
    BY <1>1, <1>2, <1>3, <2>3, <2>5, <2>6, RowTypes DEF TxOK, InTx
  <2>12. Loaded(w)'
    BY <1>1, <2>3, <2>5, <2>6, <2>7, <2>9 DEF Loaded
  <2>13. Holds(w)'
    BY <2>3, <2>5, <2>6 DEF Holds
  <2>14. Arms(w)'
    BY <2>3, <2>5, <2>6, IdleType DEF Arms
  <2>15. ProcInv(w)'
    BY <2>11, <2>12, <2>13, <2>14 DEF ProcInv
  <2>16. \A j \in Instances :
           /\ Inserted(w, j)' => \A q \in Procs : ~Inserted(q, j)
           /\ ~LocksInstance(w, j)' /\ \A id \in Ids : ~LocksTimer(w, j, id)'
    BY <2>3, <2>5, <2>6, <2>8, <2>10, IdleType DEF Inserted, LocksInstance, LocksTimer
  <2> QED BY <1>1, <2>2, <2>4, <2>15, <2>16, InsideStep
<1> QED BY <1>4, <1>5

\* A transaction that goes on keeps its delivery, and the row it loaded.
LEMMA Continues ==
  ASSUME IInv, NEW p \in Procs, InTx(p), tx[p].pc # "insert",
         NEW t \in Transactions, tx' = [tx EXCEPT ![p] = t],
         t.del = tx[p].del, t.seen = tx[p].seen, t.pc \in {"react", "write", "fire", "commit"},
         UNCHANGED instances
  PROVE  /\ tx'[p] = t /\ InTx(p)'
         /\ Current(p)' <=> Current(p)
         /\ Loaded(p)'
         /\ \A i \in Instances :
              /\ On(p, i)' <=> On(p, i)
              /\ Inserted(p, i)' <=> Inserted(p, i)
              /\ LocksInstance(p, i)' <=> On(p, i) /\ t.row # NoRow
              /\ \A id \in Ids : LocksTimer(p, i, id)' <=> On(p, i) /\ t.mine[id] # Unwritten
<1>1. TypeOK /\ TxOK(p) /\ Loaded(p)
  BY DEF IInv, ProcInv
<1>2. tx[p].del.inst \in Instances
  BY <1>1, InHand
<1>3. tx'[p] = t
  BY <1>1, TxMoves
<1>4. InTx(p)'
  BY <1>3 DEF InTx
<1>5. \A i \in Instances :
        /\ On(p, i)' <=> On(p, i)
        /\ Inserted(p, i)' <=> Inserted(p, i)
        /\ LocksInstance(p, i)' <=> On(p, i) /\ t.row # NoRow
        /\ \A id \in Ids : LocksTimer(p, i, id)' <=> On(p, i) /\ t.mine[id] # Unwritten
  BY <1>3, <1>4 DEF On, Inserted, LocksInstance, LocksTimer
<1>6. Current(p)' <=> Current(p)
  BY <1>2, <1>3, <1>5 DEF Current
<1>7. Loaded(p)'
  BY <1>1, <1>2, <1>3, <1>5 DEF Loaded
<1> QED BY <1>3, <1>4, <1>5, <1>6, <1>7

LEMMA ReactKeeps ==
  ASSUME IInv, NEW p \in Procs, React(p)
  PROVE  IInv'
<1> DEFINE i == tx[p].del.inst
<1>1. PICK r \in Reactions :
        /\ \A id \in r.schedule : Room(i, id)
        /\ tx' = [tx EXCEPT ![p].pc = "write", ![p].end = r.end,
                    ![p].todo = ({"cancel"} \X r.cancel) \cup ({"schedule"} \X r.schedule)]
  BY DEF React
<1> DEFINE todo == ({"cancel"} \X r.cancel) \cup ({"schedule"} \X r.schedule)
           t == [tx[p] EXCEPT !.pc = "write", !.end = r.end, !.todo = todo]
<1>2. tx[p].pc = "react" /\ UNCHANGED <<instances, timers, open, batch, outcome, faults>>
  BY DEF React
<1>3. TypeOK /\ TxOK(p) /\ InTx(p) /\ i \in Instances
  BY <1>2, InHand DEF IInv, ProcInv, InTx
<1>4. r.cancel \subseteq Ids /\ r.schedule \subseteq Ids /\ r.end \in BOOLEAN
  BY SagaAssumption
<1>5. todo \in SUBSET Statements
  BY <1>4 DEF Statements
<1>6. tx[p] \in Transactions
  BY <1>3, TxFields
<1>7. t \in Transactions
  BY <1>4, <1>5, <1>6 DEF Transactions
<1>8. /\ t.pc = "write" /\ t.del = tx[p].del /\ t.seen = tx[p].seen
      /\ t.todo = todo /\ t.mine = tx[p].mine /\ t.row = tx[p].row
  BY <1>6 DEF Transactions
<1>9. tx' = [tx EXCEPT ![p] = t]
  BY <1>1, <1>3, TxTyped
<1>10. /\ tx[p].mine = Idle.mine /\ tx[p].row = NoRow /\ tx[p].seen.status = "active"
  BY <1>2, <1>3 DEF TxOK
<1>11. /\ tx'[p] = t /\ InTx(p)' /\ (Current(p)' <=> Current(p)) /\ Loaded(p)'
       /\ \A j \in Instances :
            /\ Inserted(p, j)' <=> Inserted(p, j)
            /\ LocksInstance(p, j)' <=> On(p, j) /\ t.row # NoRow
            /\ \A id \in Ids : LocksTimer(p, j, id)' <=> On(p, j) /\ t.mine[id] # Unwritten
  BY <1>2, <1>3, <1>7, <1>8, <1>9, Continues, ZenonT(60)
<1>12. TxOK(p)'
  BY <1>2, <1>3, <1>8, <1>10, <1>11 DEF TxOK
<1>13. Holds(p)'
  BY <1>8, <1>10, <1>11 DEF Holds
<1>14. Arms(p)'
  <2> SUFFICES ASSUME NEW id \in Ids
               PROVE  /\ t.mine[id] = Unwritten /\ t.mine[id].arm <= MaxArms
                      /\ <<"schedule", id>> \in t.todo => Visible(p, id)'.arm < MaxArms
    BY <1>8, <1>11 DEF Arms
  <2>1. t.mine[id] = Unwritten /\ Unwritten.arm <= MaxArms
    BY <1>8, <1>10, IdleType, SagaAssumption DEF Unwritten
  <2>2. Visible(p, id)' = timers[i][id]
    BY <1>2, <1>8, <1>11, <2>1 DEF Visible
  <2>3. ASSUME <<"schedule", id>> \in t.todo PROVE timers[i][id].arm < MaxArms
    <3>1. id \in r.schedule
      BY <1>8, <2>3
    <3> QED BY <1>1, <3>1 DEF Room
  <2> QED BY <2>1, <2>2, <2>3
<1>15. ProcInv(p)'
  BY <1>11, <1>12, <1>13, <1>14 DEF ProcInv
<1>16. \A j \in Instances : ~LocksInstance(p, j)' /\ \A id \in Ids : ~LocksTimer(p, j, id)'
  BY <1>8, <1>10, <1>11, IdleType
<1> QED BY <1>2, <1>7, <1>9, <1>11, <1>15, <1>16, InsideStep

\* One statement on a timer: what it may write for the invariant to stay.
LEMMA WriteKeeps ==
  ASSUME IInv, NEW p \in Procs, tx[p].pc = "write", NEW kind \in {"cancel", "schedule"}, NEW id \in Ids,
         NEW new \in [status : TimerStatuses \cup {"unwritten"}, arm : 0 .. MaxArms + 1],
         Write(p, <<kind, id>>, new),
         new # Unwritten => tx[p].mine[id] # Unwritten \/ Available(p, id),
         new # Unwritten => /\ new.status \in {"pending", "cancelled", "fired"} /\ new.arm > 0
                            /\ Current(p) => new.arm <= MaxArms,
         <<"schedule", id>> \in tx[p].todo \ {<<kind, id>>} =>
           /\ new.arm <= MaxArms
           /\ Current(p) => IF new # Unwritten THEN new.arm < MaxArms
                            ELSE timers[tx[p].del.inst][id].arm < MaxArms
  PROVE  IInv'
<1> DEFINE i == tx[p].del.inst
           t == [tx[p] EXCEPT !.todo = @ \ {<<kind, id>>}, !.mine = [@ EXCEPT ![id] = new]]
<1>1. UNCHANGED <<instances, timers, open, batch, outcome, faults>>
  BY DEF Write
<1>2. TypeOK /\ TxOK(p) /\ Arms(p) /\ InTx(p) /\ i \in Instances
  BY InHand DEF IInv, ProcInv, InTx
<1>3. tx[p] \in Transactions /\ tx[p].mine \in Marks /\ tx[p].todo \in SUBSET Statements
  BY <1>2, TxFields
<1>4. [tx[p].mine EXCEPT ![id] = new] \in Marks
  BY <1>3 DEF Marks
<1>5. t \in Transactions
  BY <1>3, <1>4 DEF Transactions
<1>6. /\ t.pc = "write" /\ t.del = tx[p].del /\ t.seen = tx[p].seen /\ t.row = tx[p].row
      /\ t.todo = tx[p].todo \ {<<kind, id>>}
      /\ \A x \in Ids : t.mine[x] = IF x = id THEN new ELSE tx[p].mine[x]
  BY <1>3 DEF Transactions, Marks
<1>7. tx' = [tx EXCEPT ![p] = t]
  <2>1. tx \in [Procs -> Transactions]
    BY <1>2, TxTyped
  <2> QED BY <2>1, <1>3 DEF Write
<1>8. tx[p].row = NoRow /\ tx[p].seen.status = "active"
  BY <1>2 DEF TxOK
<1>9. /\ tx'[p] = t /\ InTx(p)' /\ (Current(p)' <=> Current(p)) /\ Loaded(p)'
      /\ \A j \in Instances :
           /\ On(p, j)' <=> On(p, j)
           /\ Inserted(p, j)' <=> Inserted(p, j)
           /\ LocksInstance(p, j)' <=> On(p, j) /\ t.row # NoRow
           /\ \A x \in Ids : LocksTimer(p, j, x)' <=> On(p, j) /\ t.mine[x] # Unwritten
  BY <1>1, <1>2, <1>5, <1>6, <1>7, Continues
<1>10. TxOK(p)'
  BY <1>1, <1>2, <1>6, <1>8, <1>9 DEF TxOK, InTx
<1>11. Holds(p)'
  BY <1>6, <1>8, <1>9 DEF Holds
<1>12. Arms(p)'
  <2> SUFFICES ASSUME NEW x \in Ids
               PROVE  /\ t.mine[x] # Unwritten =>
                           /\ t.mine[x].status \in {"pending", "cancelled", "fired"}
                           /\ t.mine[x].arm > 0
                           /\ Current(p) => t.mine[x].arm <= MaxArms
                      /\ <<"schedule", x>> \in t.todo =>
                           /\ t.mine[x].arm <= MaxArms
                           /\ Current(p) => Visible(p, x)'.arm < MaxArms
    BY <1>6, <1>9 DEF Arms
  <2>1. CASE x = id
    <3>1. t.mine[x] = new
      BY <1>6, <2>1
    <3>2. Visible(p, x)' = IF new # Unwritten THEN new ELSE timers[i][id]
      BY <1>1, <1>6, <1>9, <2>1, <3>1 DEF Visible
    <3> QED BY <1>6, <2>1, <3>1, <3>2
  <2>2. CASE x # id
    <3>1. t.mine[x] = tx[p].mine[x]
      BY <1>6, <2>2
    <3>2. Visible(p, x)' = Visible(p, x)
      BY <1>1, <1>6, <1>9, <3>1 DEF Visible
    <3>3. <<"schedule", x>> \in t.todo => <<"schedule", x>> \in tx[p].todo
      BY <1>6
    <3> QED BY <1>2, <3>1, <3>2, <3>3 DEF Arms
  <2> QED BY <2>1, <2>2
<1>13. ProcInv(p)'
  BY <1>9, <1>10, <1>11, <1>12 DEF ProcInv
<1>14. \A j \in Instances, x \in Ids : LocksTimer(p, j, x)' =>
         LocksTimer(p, j, x) \/ \A q \in Procs \ {p} : ~LocksTimer(q, j, x)
  <2> SUFFICES ASSUME NEW j \in Instances, NEW x \in Ids, On(p, j), t.mine[x] # Unwritten,
                      tx[p].mine[x] = Unwritten
               PROVE  \A q \in Procs \ {p} : ~LocksTimer(q, j, x)
    BY <1>9 DEF LocksTimer
  <2>1. x = id /\ new # Unwritten /\ j = i
    BY <1>6 DEF On
  <2> QED BY <2>1 DEF Available
<1>15. \A j \in Instances : ~LocksInstance(p, j)'
  BY <1>6, <1>8, <1>9
<1> QED BY <1>1, <1>5, <1>7, <1>9, <1>13, <1>14, <1>15, InsideStep

\* A timer's row, written or not, is a row with an arm in range.
LEMMA VisibleRow ==
  ASSUME IInv, NEW p \in Procs, InTx(p), NEW id \in Ids
  PROVE  /\ Visible(p, id) \in [status : TimerStatuses, arm : 0 .. MaxArms + 1]
         /\ tx[p].mine[id] = Unwritten => Visible(p, id) = timers[tx[p].del.inst][id]
         /\ tx[p].mine[id] = Unwritten => Visible(p, id) \in TimerRows
         /\ tx[p].mine[id] # Unwritten => Visible(p, id) = tx[p].mine[id]
         /\ Visible(p, id).status # "none" => Visible(p, id).arm > 0
         /\ Current(p) => Visible(p, id).arm <= MaxArms
<1>1. TypeOK /\ StoreInv /\ Arms(p) /\ TxOK(p) /\ tx[p].del.inst \in Instances /\ tx[p].mine \in Marks
  BY InHand, TxFields DEF IInv, ProcInv
<1>2. CASE tx[p].mine[id] = Unwritten
  <2>1. Visible(p, id) = timers[tx[p].del.inst][id]
    BY <1>2 DEF Visible
  <2>2. Visible(p, id) \in TimerRows
    BY <1>1, <2>1 DEF TypeOK
  <2>3. Visible(p, id).status # "none" => Visible(p, id).arm > 0
    BY <1>1, <2>1 DEF StoreInv
  <2>4. /\ Visible(p, id) \in [status : TimerStatuses, arm : 0 .. MaxArms + 1]
        /\ Visible(p, id).arm <= MaxArms
    BY <2>2, SagaAssumption DEF TimerRows
  <2> QED BY <1>2, <2>1, <2>2, <2>3, <2>4
<1>3. CASE tx[p].mine[id] # Unwritten
  <2>1. Visible(p, id) = tx[p].mine[id]
    BY <1>3 DEF Visible
  <2>2. /\ tx[p].mine[id].status \in {"pending", "cancelled", "fired"} /\ tx[p].mine[id].arm > 0
        /\ Current(p) => tx[p].mine[id].arm <= MaxArms
    BY <1>1, <1>3 DEF Arms
  <2>3. tx[p].mine[id] \in [status : TimerStatuses \cup {"unwritten"}, arm : 0 .. MaxArms + 1]
    BY <1>1 DEF Marks
  <2>4. tx[p].mine[id] \in [status : TimerStatuses, arm : 0 .. MaxArms + 1]
    BY <2>2, <2>3 DEF TimerStatuses
  <2> QED BY <1>3, <2>1, <2>2, <2>4
<1> QED BY <1>2, <1>3

LEMMA CancelKeeps ==
  ASSUME IInv, NEW p \in Procs, Cancel(p)
  PROVE  IInv'
<1>1. PICK id \in Ids :
        /\ tx[p].pc = "write" /\ <<"cancel", id>> \in tx[p].todo
        /\ IF Visible(p, id).status \in {"pending", "claimed"}
           THEN /\ Available(p, id)
                /\ Write(p, <<"cancel", id>>, [Visible(p, id) EXCEPT !.status = "cancelled"])
           ELSE Write(p, <<"cancel", id>>, tx[p].mine[id])
  BY DEF Cancel
<1> DEFINE t == Visible(p, id)
<1>2. TypeOK /\ Arms(p) /\ InTx(p) /\ tx[p].mine \in Marks
  BY <1>1, TxFields DEF IInv, ProcInv, InTx
<1>3. /\ t \in [status : TimerStatuses, arm : 0 .. MaxArms + 1]
      /\ tx[p].mine[id] = Unwritten => t = timers[tx[p].del.inst][id] /\ t \in TimerRows
      /\ tx[p].mine[id] # Unwritten => t = tx[p].mine[id]
      /\ t.status # "none" => t.arm > 0
      /\ Current(p) => t.arm <= MaxArms
  BY <1>2, VisibleRow
<1>4. <<"schedule", id>> \in tx[p].todo =>
        /\ tx[p].mine[id].arm <= MaxArms /\ t.arm <= MaxArms
        /\ Current(p) => t.arm < MaxArms
  <2> SUFFICES ASSUME <<"schedule", id>> \in tx[p].todo
               PROVE  /\ tx[p].mine[id].arm <= MaxArms /\ t.arm <= MaxArms
                      /\ Current(p) => t.arm < MaxArms
    OBVIOUS
  <2>1. tx[p].mine[id].arm <= MaxArms /\ (Current(p) => t.arm < MaxArms)
    BY <1>1, <1>2 DEF Arms
  <2>2. t \in TimerRows => t.arm <= MaxArms
    BY SagaAssumption DEF TimerRows
  <2> QED BY <1>3, <2>1, <2>2
<1>5. CASE t.status \in {"pending", "claimed"}
  <2> DEFINE new == [t EXCEPT !.status = "cancelled"]
  <2>1. new \in [status : TimerStatuses \cup {"unwritten"}, arm : 0 .. MaxArms + 1]
    BY <1>3 DEF TimerStatuses
  <2>2. new.status = "cancelled" /\ new.arm = t.arm /\ new # Unwritten
    BY <1>3 DEF Unwritten
  <2>3. Write(p, <<"cancel", id>>, new) /\ Available(p, id)
    BY <1>1, <1>5
  <2>4. t.arm > 0
    BY <1>3, <1>5
  <2> HIDE DEF new, t
  <2> QED BY <1>1, <1>3, <1>4, <2>1, <2>2, <2>3, <2>4, WriteKeeps
<1>6. CASE t.status \notin {"pending", "claimed"}
  <2> DEFINE new == tx[p].mine[id]
  <2>1. new \in [status : TimerStatuses \cup {"unwritten"}, arm : 0 .. MaxArms + 1]
    BY <1>2 DEF Marks
  <2>2. Write(p, <<"cancel", id>>, new)
    BY <1>1, <1>6
  <2>3. new # Unwritten => /\ new.status \in {"pending", "cancelled", "fired"} /\ new.arm > 0
                           /\ Current(p) => new.arm <= MaxArms
    BY <1>2 DEF Arms
  <2>4. <<"schedule", id>> \in tx[p].todo \ {<<"cancel", id>>} =>
          /\ new.arm <= MaxArms
          /\ Current(p) => IF new # Unwritten THEN new.arm < MaxArms
                           ELSE timers[tx[p].del.inst][id].arm < MaxArms
    BY <1>3, <1>4
  <2> HIDE DEF new, t
  <2> QED BY <1>1, <2>1, <2>2, <2>3, <2>4, WriteKeeps DEF new
<1> QED BY <1>5, <1>6

LEMMA ScheduleKeeps ==
  ASSUME IInv, NEW p \in Procs, Schedule(p)
  PROVE  IInv'
<1>1. PICK id \in Ids :
        /\ tx[p].pc = "write" /\ <<"schedule", id>> \in tx[p].todo /\ Available(p, id)
        /\ Write(p, <<"schedule", id>>, [status |-> "pending", arm |-> Visible(p, id).arm + 1])
  BY DEF Schedule
<1> DEFINE t == Visible(p, id)
           new == [status |-> "pending", arm |-> t.arm + 1]
<1>2. Arms(p) /\ InTx(p)
  BY <1>1 DEF IInv, ProcInv, InTx
<1>3. /\ t \in [status : TimerStatuses, arm : 0 .. MaxArms + 1]
      /\ tx[p].mine[id] = Unwritten => t \in TimerRows
      /\ tx[p].mine[id] # Unwritten => t = tx[p].mine[id]
  BY <1>2, VisibleRow
<1>4. tx[p].mine[id].arm <= MaxArms /\ (Current(p) => t.arm < MaxArms)
  BY <1>1, <1>2 DEF Arms
<1>5. t \in TimerRows => t.arm <= MaxArms
  BY SagaAssumption DEF TimerRows
<1>6. t.arm \in Nat /\ t.arm <= MaxArms /\ MaxArms \in Nat
  BY <1>3, <1>4, <1>5, SagaAssumption
<1>7. new.arm \in 0 .. MaxArms + 1 /\ new.arm > 0 /\ (Current(p) => new.arm <= MaxArms)
  BY <1>4, <1>6
<1>8. /\ new \in [status : TimerStatuses \cup {"unwritten"}, arm : 0 .. MaxArms + 1]
      /\ new.status = "pending"
  BY <1>7 DEF TimerStatuses
<1>9. Write(p, <<"schedule", id>>, new)
  BY <1>1
<1> HIDE DEF new
<1> QED BY <1>1, <1>7, <1>8, <1>9, WriteKeeps

\* The row an UPDATE writes.
LEMMA UpdatedRow ==
  ASSUME IInv, NEW p \in Procs, InTx(p), tx[p].seen.status = "active"
  PROVE  /\ Updated(p) \in InstanceRows
         /\ Updated(p).version = tx[p].seen.version + 1
         /\ Updated(p).version > 0 /\ Updated(p) # NoRow
         /\ Updated(p).status \in {"active", "completed"}
         /\ Updated(p).state = Append(tx[p].seen.state, tx[p].del)
<1> DEFINE d == tx[p].del
<1>1. TypeOK /\ TxOK(p) /\ d \in Deliveries /\ tx[p].seen \in InstanceRows
  BY InHand, TxFields DEF IInv, ProcInv
<1>2. d.kind = "event" => d.key \in 0 .. MaxPos
  BY <1>1, DeliveryFields, SagaAssumption DEF Events
<1>3. /\ tx[p].seen.version \in Nat /\ tx[p].seen.lastPos \in 0 .. MaxPos
      /\ tx[p].seen.state \in Seq(Deliveries)
  BY <1>1 DEF InstanceRows
<1>4. Append(tx[p].seen.state, d) \in Seq(Deliveries)
  BY <1>1, <1>3
<1>5. (IF d.kind = "event" THEN d.key ELSE tx[p].seen.lastPos) \in 0 .. MaxPos
  BY <1>2, <1>3
<1>6. (IF tx[p].end THEN "completed" ELSE tx[p].seen.status) \in {"active", "completed"}
  OBVIOUS
<1>7. tx[p].seen.version + 1 \in Nat /\ tx[p].seen.version + 1 > 0
  BY <1>3
<1>8. Updated(p) \in InstanceRows
  BY <1>4, <1>5, <1>6, <1>7 DEF Updated, InstanceRows
<1>9. Updated(p) # NoRow
  BY <1>7 DEF Updated, NoRow
<1> QED BY <1>6, <1>7, <1>8, <1>9 DEF Updated

LEMMA UpdateKeeps ==
  ASSUME IInv, NEW p \in Procs, Update(p)
  PROVE  IInv'
<1> DEFINE i == tx[p].del.inst
           pc == IF p \in Schedulers THEN "fire" ELSE "commit"
           t == [tx[p] EXCEPT !.row = Updated(p), !.pc = pc]
<1>1. /\ tx[p].pc = "write" /\ SameVersion(p)
      /\ \A q \in Procs \ {p} : ~LocksInstance(q, i)
      /\ UNCHANGED <<instances, timers, open, batch, outcome, faults>>
  BY DEF Update
<1>2. TypeOK /\ TxOK(p) /\ Loaded(p) /\ Arms(p) /\ InTx(p) /\ i \in Instances
  BY <1>1, InHand DEF IInv, ProcInv, InTx
<1>3. tx[p].seen.status = "active"
  BY <1>1, <1>2 DEF TxOK
<1>4. Updated(p) \in InstanceRows /\ Updated(p) # NoRow
  BY <1>2, <1>3, UpdatedRow
<1>5. tx[p] \in Transactions
  BY <1>2, TxFields
<1>6. t \in Transactions
  BY <1>4, <1>5 DEF Transactions
<1>7. /\ t.pc = pc /\ t.del = tx[p].del /\ t.seen = tx[p].seen /\ t.end = tx[p].end
      /\ t.todo = tx[p].todo /\ t.mine = tx[p].mine /\ t.row = Updated(p)
  BY <1>5 DEF Transactions
<1>8. tx' = [tx EXCEPT ![p] = t]
  BY <1>2, TxTyped DEF Update
<1>9. /\ tx'[p] = t /\ InTx(p)' /\ (Current(p)' <=> Current(p)) /\ Loaded(p)'
      /\ \A j \in Instances :
           /\ Inserted(p, j)' <=> Inserted(p, j)
           /\ LocksInstance(p, j)' <=> On(p, j) /\ t.row # NoRow
           /\ \A id \in Ids : LocksTimer(p, j, id)' <=> On(p, j) /\ t.mine[id] # Unwritten
  <2>1. t.pc \in {"react", "write", "fire", "commit"}
    BY <1>7
  <2> HIDE DEF t
  <2> QED BY <1>1, <1>2, <1>6, <1>7, <1>8, <2>1, Continues
<1>10. Updated(p)' = Updated(p)
  BY <1>7, <1>9 DEF Updated
<1>11. TxOK(p)'
  <2>1. p \in Workers => pc = "commit"
    BY SagaAssumption
  <2> QED BY <1>1, <1>2, <1>3, <1>4, <1>7, <1>9, <1>10, <2>1 DEF TxOK, InTx
<1>12. Current(p)
  <2>1. CASE Inserted(p, i)
    BY <2>1 DEF Current
  <2>2. CASE ~Inserted(p, i)
    <3>1. instances[i].version = tx[p].seen.version
      BY <1>1, <2>2 DEF SameVersion
    <3>2. tx[p].seen = instances[i]
      BY <1>1, <1>2, <2>2, <3>1 DEF Loaded
    <3> QED BY <3>2 DEF Current
  <2> QED BY <2>1, <2>2
<1>13. Holds(p)'
  BY <1>9, <1>12 DEF Holds
<1>14. Arms(p)'
  <2>1. \A id \in Ids : Visible(p, id)' = Visible(p, id)
    BY <1>1, <1>7, <1>9 DEF Visible
  <2> QED BY <1>1, <1>2, <1>7, <1>9, <2>1 DEF Arms
<1>15. ProcInv(p)'
  BY <1>9, <1>11, <1>13, <1>14 DEF ProcInv
<1>16. \A j \in Instances :
         /\ LocksInstance(p, j)' => \A q \in Procs \ {p} : ~LocksInstance(q, j)
         /\ \A id \in Ids : LocksTimer(p, j, id)' => LocksTimer(p, j, id)
  BY <1>1, <1>7, <1>9 DEF On, LocksTimer
<1> QED BY <1>1, <1>6, <1>8, <1>9, <1>15, <1>16, InsideStep

LEMMA MarkFiredKeeps ==
  ASSUME IInv, NEW s \in Schedulers, MarkFired(s)
  PROVE  IInv'
<1> DEFINE id == tx[s].del.key
           i == tx[s].del.inst
           v == Visible(s, id)
           new == IF v.status = "none" THEN tx[s].mine[id] ELSE [v EXCEPT !.status = "fired"]
           t == [tx[s] EXCEPT !.pc = "commit", !.mine = [@ EXCEPT ![id] = new]]
<1>1. /\ tx[s].pc = "fire" /\ Available(s, id)
      /\ UNCHANGED <<instances, timers, open, batch, outcome, faults>>
  BY DEF MarkFired
<1>2. /\ TypeOK /\ TxOK(s) /\ Holds(s) /\ Arms(s) /\ InTx(s)
      /\ s \in Procs /\ s \notin Workers
  BY <1>1, SagaAssumption DEF IInv, ProcInv, InTx, Procs
<1>3. i \in Instances /\ id \in Ids
  BY <1>2, InHand
<1>4. tx[s] \in Transactions /\ tx[s].mine \in Marks
  BY <1>2, TxFields
<1>5. /\ v \in [status : TimerStatuses, arm : 0 .. MaxArms + 1]
      /\ tx[s].mine[id] = Unwritten => v = timers[i][id]
      /\ tx[s].mine[id] # Unwritten => v = tx[s].mine[id]
      /\ v.status # "none" => v.arm > 0
      /\ Current(s) => v.arm <= MaxArms
  BY <1>2, <1>3, VisibleRow
<1>6. new \in [status : TimerStatuses \cup {"unwritten"}, arm : 0 .. MaxArms + 1]
  BY <1>3, <1>4, <1>5 DEF Marks, TimerStatuses
<1>7. new # Unwritten => /\ new.status \in {"pending", "cancelled", "fired"} /\ new.arm > 0
                         /\ Current(s) => new.arm <= MaxArms
  <2>1. CASE v.status = "none"
    BY <1>2, <1>3, <2>1 DEF Arms
  <2>2. CASE v.status # "none"
    BY <1>5, <2>2
  <2> QED BY <2>1, <2>2
<1>8. [tx[s].mine EXCEPT ![id] = new] \in Marks
  BY <1>4, <1>6 DEF Marks
<1>9. t \in Transactions
  BY <1>4, <1>8 DEF Transactions
<1>10. /\ t.pc = "commit" /\ t.del = tx[s].del /\ t.seen = tx[s].seen /\ t.end = tx[s].end
       /\ t.todo = tx[s].todo /\ t.row = tx[s].row
       /\ \A x \in Ids : t.mine[x] = IF x = id THEN new ELSE tx[s].mine[x]
  BY <1>3, <1>4 DEF Transactions, Marks
<1>11. tx' = [tx EXCEPT ![s] = t]
  <2>1. tx \in [Procs -> Transactions]
    BY <1>2, TxTyped
  <2> QED BY <2>1, <1>2, <1>4 DEF MarkFired
<1> HIDE DEF t, new
<1>12. /\ tx'[s] = t /\ InTx(s)' /\ (Current(s)' <=> Current(s)) /\ Loaded(s)'
       /\ \A j \in Instances :
            /\ On(s, j)' <=> On(s, j)
            /\ Inserted(s, j)' <=> Inserted(s, j)
            /\ LocksInstance(s, j)' <=> On(s, j) /\ t.row # NoRow
            /\ \A x \in Ids : LocksTimer(s, j, x)' <=> On(s, j) /\ t.mine[x] # Unwritten
  BY <1>1, <1>2, <1>9, <1>10, <1>11, Continues
<1>13. Updated(s)' = Updated(s)
  BY <1>10, <1>12 DEF Updated
<1>14. TxOK(s)'
  <2>1. t.row = NoRow => \A x \in Ids : t.mine[x] # Unwritten => t.mine[x].arm = timers[i][x].arm
    <3> SUFFICES ASSUME t.row = NoRow, NEW x \in Ids, t.mine[x] # Unwritten
                 PROVE  t.mine[x].arm = timers[i][x].arm
      OBVIOUS
    <3>1. \A y \in Ids : tx[s].mine[y] # Unwritten => tx[s].mine[y].arm = timers[i][y].arm
      BY <1>1, <1>2, <1>10 DEF TxOK
    <3>2. CASE x # id
      BY <1>10, <3>1, <3>2
    <3>3. CASE x = id /\ v.status = "none"
      BY <1>10, <3>1, <3>3 DEF new
    <3>4. CASE x = id /\ v.status # "none"
      <4>1. t.mine[x].arm = v.arm
        BY <1>5, <1>10, <3>4 DEF new
      <4> QED BY <1>5, <3>1, <3>4, <4>1
    <3> QED BY <3>2, <3>3, <3>4
  <2>2. tx[s].row # NoRow => tx[s].row = Updated(s) /\ tx[s].seen.status = "active"
    BY <1>2 DEF TxOK
  <2>3. tx[s].del \in batch[s]
    BY <1>2 DEF TxOK
  <2> QED BY <1>1, <1>2, <1>10, <1>12, <1>13, <2>1, <2>2, <2>3 DEF TxOK
<1>15. Holds(s)'
  BY <1>2, <1>10, <1>12 DEF Holds
<1>16. Arms(s)'
  <2> SUFFICES ASSUME NEW x \in Ids, t.mine[x] # Unwritten
               PROVE  /\ t.mine[x].status \in {"pending", "cancelled", "fired"} /\ t.mine[x].arm > 0
                      /\ Current(s) => t.mine[x].arm <= MaxArms
    BY <1>10, <1>12 DEF Arms
  <2> QED BY <1>2, <1>7, <1>10 DEF Arms
<1>17. ProcInv(s)'
  BY <1>12, <1>14, <1>15, <1>16 DEF ProcInv
<1>18. \A j \in Instances :
         /\ LocksInstance(s, j)' => LocksInstance(s, j)
         /\ \A x \in Ids : LocksTimer(s, j, x)' =>
              LocksTimer(s, j, x) \/ \A q \in Procs \ {s} : ~LocksTimer(q, j, x)
  <2>1. \A j \in Instances : LocksInstance(s, j)' => LocksInstance(s, j)
    BY <1>10, <1>12 DEF LocksInstance
  <2>2. ASSUME NEW j \in Instances, NEW x \in Ids, On(s, j), t.mine[x] # Unwritten,
               tx[s].mine[x] = Unwritten
        PROVE  \A q \in Procs \ {s} : ~LocksTimer(q, j, x)
    <3>1. x = id /\ j = i
      BY <1>10, <2>2 DEF On
    <3> QED BY <1>1, <3>1 DEF Available
  <2> QED BY <1>12, <2>1, <2>2 DEF LocksTimer
<1> QED BY <1>1, <1>2, <1>9, <1>11, <1>12, <1>17, <1>18, InsideStep

-----------------------------------------------------------------------------
(* Commit.                                                                 *)

\* The row a transaction commits continues the one that is there.
LEMMA RowExtends ==
  ASSUME IInv, NEW p \in Procs, InTx(p), tx[p].row # NoRow
  PROVE  /\ tx[p].row \in InstanceRows
         /\ tx[p].row.version > 0 /\ tx[p].row.status \in {"active", "completed"}
         /\ tx[p].row.state = Append(instances[tx[p].del.inst].state, tx[p].del)
         /\ tx[p].row.version = instances[tx[p].del.inst].version + 1
         /\ instances[tx[p].del.inst].status \in {"none", "active"}
<1> DEFINE i == tx[p].del.inst
<1>1. TxOK(p) /\ Loaded(p) /\ Current(p)
  BY DEF IInv, ProcInv, Holds
<1>2. tx[p].row = Updated(p) /\ tx[p].seen.status = "active" /\ tx[p].pc # "insert"
  BY <1>1 DEF TxOK
<1>3. CASE Inserted(p, i)
  <2>1. instances[i] = NoRow /\ tx[p].seen = Fresh
    BY <1>1, <1>2, <1>3 DEF Loaded
  <2>2. /\ instances[i].version = tx[p].seen.version /\ instances[i].state = tx[p].seen.state
        /\ instances[i].status = "none"
    BY <2>1, RowTypes DEF NoRow
  <2> QED BY <1>2, <2>2, UpdatedRow
<1>4. CASE tx[p].seen = instances[i]
  BY <1>2, <1>4, UpdatedRow
<1> QED BY <1>1, <1>3, <1>4 DEF Current

\* What a commit leaves in the tables.
LEMMA PublishedTables ==
  ASSUME IInv, NEW p \in Procs, Publish(p)
  PROVE  /\ instances' \in [Instances -> InstanceRows]
         /\ timers' \in [Instances -> [Ids -> TimerRows]]
         /\ open' \subseteq Events /\ outcome' \subseteq Deliveries \X {"applied", "skipped"}
         /\ StoreInv'
         /\ \A j \in Instances : j # tx[p].del.inst =>
              instances'[j] = instances[j] /\ timers'[j] = timers[j]
         /\ instances'[tx[p].del.inst] =
              IF tx[p].row # NoRow THEN tx[p].row ELSE instances[tx[p].del.inst]
         /\ \A id \in Ids : timers'[tx[p].del.inst][id] =
              IF tx[p].mine[id] # Unwritten THEN tx[p].mine[id] ELSE timers[tx[p].del.inst][id]
         /\ tx[p].row = NoRow => SameArms(tx[p].del.inst)
<1> DEFINE d == tx[p].del
           i == d.inst
<1>1. tx[p].pc = "commit" /\ InTx(p)
  BY DEF Publish, InTx
<1>2. TypeOK /\ StoreInv /\ TxOK(p) /\ Arms(p) /\ Holds(p)
  BY DEF IInv, ProcInv
<1>3. d \in Deliveries /\ i \in Instances /\ tx[p].mine \in Marks
  BY <1>1, <1>2, InHand, TxFields
<1>4. instances' = [instances EXCEPT ![i] = IF tx[p].row # NoRow THEN tx[p].row ELSE instances[i]]
  BY DEF Publish
<1>5. instances \in [Instances -> InstanceRows] /\ timers \in [Instances -> [Ids -> TimerRows]]
  BY <1>2 DEF TypeOK
<1>6. tx[p].row # NoRow => /\ tx[p].row \in InstanceRows /\ tx[p].row.version > 0
                           /\ tx[p].row.status \in {"active", "completed"}
  BY <1>1, RowExtends
<1>7. instances' \in [Instances -> InstanceRows]
  BY <1>4, <1>5, <1>6
<1>8. /\ \A j \in Instances : j # i => instances'[j] = instances[j]
      /\ instances'[i] = IF tx[p].row # NoRow THEN tx[p].row ELSE instances[i]
  BY <1>3, <1>4, <1>5
<1> DEFINE row == [id \in Ids |-> IF tx[p].mine[id] # Unwritten THEN tx[p].mine[id] ELSE timers[i][id]]
<1>9. timers' = [timers EXCEPT ![i] = row]
  BY DEF Publish
<1>10. ASSUME NEW id \in Ids, tx[p].mine[id] # Unwritten
       PROVE  /\ tx[p].mine[id] \in TimerRows /\ tx[p].mine[id].arm > 0
              /\ tx[p].row = NoRow => tx[p].mine[id].arm = timers[i][id].arm
  <2>1. /\ tx[p].mine[id].status \in {"pending", "cancelled", "fired"} /\ tx[p].mine[id].arm > 0
        /\ Current(p) => tx[p].mine[id].arm <= MaxArms
    BY <1>1, <1>2, <1>10 DEF Arms
  <2>2. tx[p].row = NoRow => tx[p].mine[id].arm = timers[i][id].arm
    BY <1>1, <1>2, <1>10 DEF TxOK
  <2>3. tx[p].row # NoRow => Current(p)
    BY <1>1, <1>2 DEF Holds
  <2>4. timers[i][id].arm <= MaxArms
    BY <1>3, <1>5, SagaAssumption DEF TimerRows
  <2>5. tx[p].mine[id].arm <= MaxArms
    BY <2>1, <2>2, <2>3, <2>4
  <2>6. tx[p].mine[id] \in [status : TimerStatuses \cup {"unwritten"}, arm : 0 .. MaxArms + 1]
    BY <1>3 DEF Marks
  <2>7. tx[p].mine[id].arm \in 0 .. MaxArms
    BY <2>5, <2>6, SagaAssumption
  <2>8. tx[p].mine[id] \in TimerRows
    BY <2>1, <2>6, <2>7 DEF TimerRows, TimerStatuses
  <2> QED BY <2>1, <2>2, <2>8
<1>11. row \in [Ids -> TimerRows]
  BY <1>3, <1>5, <1>10
<1>12. timers' \in [Instances -> [Ids -> TimerRows]]
  BY <1>5, <1>9, <1>11
<1>13. /\ \A j \in Instances : j # i => timers'[j] = timers[j]
       /\ \A id \in Ids : timers'[i][id] =
            IF tx[p].mine[id] # Unwritten THEN tx[p].mine[id] ELSE timers[i][id]
  BY <1>3, <1>5, <1>9
<1>14. tx[p].row = NoRow => SameArms(i)
  BY <1>10, <1>13 DEF SameArms
<1>15. StoreInv'
  <2>1. \A j \in Instances :
          IF instances'[j].status = "none" THEN instances'[j] = NoRow ELSE instances'[j].version > 0
    BY <1>2, <1>6, <1>8 DEF StoreInv
  <2>2. \A j \in Instances, id \in Ids : timers'[j][id].status # "none" => timers'[j][id].arm > 0
    <3> TAKE j \in Instances, id \in Ids
    <3>1. CASE j # i
      BY <1>2, <1>13, <3>1 DEF StoreInv
    <3>2. CASE j = i
      BY <1>2, <1>10, <1>13, <3>2 DEF StoreInv
    <3> QED BY <3>1, <3>2
  <2> QED BY <2>1, <2>2 DEF StoreInv
<1>16. open' \subseteq Events
  BY <1>2 DEF TypeOK, Publish
<1>17. outcome' \subseteq Deliveries \X {"applied", "skipped"}
  BY <1>2, <1>3 DEF TypeOK, Publish
<1> QED BY <1>7, <1>8, <1>12, <1>13, <1>14, <1>15, <1>16, <1>17

\* A process that has the same instance in hand when another commits its row
\* is left with an old version.
LEMMA LeftBehind ==
  ASSUME IInv, NEW p \in Procs, Publish(p), tx[p].row # NoRow,
         NEW q \in Procs \ {p}, tx'[q] = tx[q], q \in Schedulers => batch'[q] = batch[q],
         InTx(q), tx[q].del.inst = tx[p].del.inst
  PROVE  ProcInv(q)'
<1> PICK i \in Instances : i = tx[p].del.inst
  BY InHand DEF IInv, ProcInv, Publish, InTx
<1>1. InTx(p) /\ TypeOK /\ Apart
  BY DEF IInv, Publish, InTx
<1>2. TxOK(q) /\ Loaded(q) /\ Holds(q) /\ Arms(q)
  BY DEF IInv, ProcInv
<1>3. instances'[i] = tx[p].row /\ tx[p].row.version = instances[i].version + 1
  BY <1>1, PublishedTables, RowExtends
<1>4. instances[i].version \in Nat /\ tx[q].seen.version \in Nat
  BY <1>1, TxFields DEF TypeOK, InstanceRows
<1>5. InTx(q)' /\ (Inserted(q, i)' <=> Inserted(q, i)) /\ Updated(q)' = Updated(q)
  BY <1>1, SameTx
<1>6. LocksInstance(p, i) /\ On(p, i) /\ On(q, i)
  BY <1>1 DEF LocksInstance, On
<1>7. tx[q].row = NoRow
  <2>1. ~LocksInstance(q, i)
    BY <1>1, <1>6 DEF Apart
  <2> QED BY <1>6, <2>1 DEF LocksInstance
<1>8. ~Inserted(q, i)
  <2>1. CASE Inserted(p, i)
    BY <1>1, <2>1 DEF Apart
  <2>2. CASE ~Inserted(p, i)
    <3>1. tx[p].seen = instances[i] /\ tx[p].seen.status = "active"
      BY <1>1, <2>2 DEF IInv, ProcInv, Holds, Current, TxOK
    <3>2. Inserted(q, i) => instances[i] = NoRow
      BY <1>2, <1>6 DEF Loaded, Inserted, On
    <3> QED BY <3>1, <3>2 DEF NoRow
  <2> QED BY <2>1, <2>2
<1>9. tx[q].seen.version <= instances[i].version
  <2>1. CASE tx[q].pc = "insert"
    BY <1>2, <1>4, <2>1, RowTypes DEF TxOK
  <2>2. CASE tx[q].pc # "insert"
    BY <1>2, <1>8, <2>2 DEF Loaded
  <2> QED BY <2>1, <2>2
<1>10. tx[q].seen.version < instances'[i].version
  BY <1>3, <1>4, <1>9
<1>11. ~Current(q)'
  <2>1. tx[q].seen # instances'[i] /\ ~Inserted(q, i)'
    BY <1>4, <1>5, <1>8, <1>10
  <2>2. tx'[q].del.inst = i /\ tx'[q].seen = tx[q].seen
    OBVIOUS
  <2> QED BY <2>1, <2>2 DEF Current
<1>12. TxOK(q)'
  <2>1. ASSUME tx[q].pc \in {"fire", "commit"}, NEW id \in Ids, tx[q].mine[id] # Unwritten
        PROVE  tx[q].mine[id].arm = timers'[i][id].arm
    <3>1. tx[q].mine[id].arm = timers[i][id].arm
      BY <1>2, <1>7, <2>1 DEF TxOK
    <3>2. LocksTimer(q, i, id)
      BY <1>6, <2>1 DEF LocksTimer
    <3>3. ~LocksTimer(p, i, id)
      BY <1>1, <3>2 DEF Apart
    <3>4. tx[p].mine[id] = Unwritten
      BY <1>6, <3>3 DEF LocksTimer
    <3> QED BY <1>1, <3>1, <3>4, PublishedTables
  <2> QED BY <1>2, <1>5, <1>7, <2>1 DEF TxOK, InTx, Procs
<1>13. Loaded(q)'
  <2>1. tx[q].seen.version <= instances'[i].version /\ tx[q].seen.version # instances'[i].version
    BY <1>3, <1>4, <1>10
  <2> QED BY <1>5, <1>8, <2>1 DEF Loaded
<1>14. Holds(q)'
  BY <1>7 DEF Holds
<1>15. Arms(q)'
  BY <1>2, <1>11 DEF Arms
<1> QED BY <1>12, <1>13, <1>14, <1>15 DEF ProcInv

LEMMA PublishKeeps ==
  ASSUME IInv, NEW p \in Procs, Publish(p),
         NEW pc \in {"idle", "down"}, p \in Workers => pc = "idle", Ends(p, pc),
         batch' \in [Schedulers -> SUBSET (Deliveries \ {Event(e) : e \in Events})],
         \A s \in Schedulers \ {p} : batch'[s] = batch[s],
         faults' \in 0 .. MaxFaults
  PROVE  IInv'
<1> DEFINE i == tx[p].del.inst
<1>1. TypeOK /\ InTx(p) /\ i \in Instances /\ Apart
  BY InHand DEF IInv, ProcInv, Publish, InTx
<1>2. /\ tx' \in [Procs -> Transactions]
      /\ \A q \in Procs \ {p} : tx'[q] = tx[q]
      /\ ~InTx(p)' /\ TxOK(p)'
  BY <1>1, Ended, TxMoves
<1>3. StoreTyped' /\ StoreInv'
  BY PublishedTables DEF StoreTyped
<1>4. TypeOK'
  BY <1>2, <1>3 DEF StoreTyped, TypeOK, Transactions, Marks
<1>5. ProcInv(p)'
  BY <1>2 DEF ProcInv, Loaded, Holds, Arms
<1>6. Apart'
  BY <1>1, <1>2, LeaveApart
<1>7. ASSUME NEW q \in Procs \ {p} PROVE ProcInv(q)'
  <2>1. ProcInv(q) /\ TxOK(q) /\ tx'[q] = tx[q] /\ (q \in Schedulers => batch'[q] = batch[q])
    BY <1>2 DEF IInv, ProcInv
  <2>2. CASE InTx(q) /\ tx[q].del.inst = i /\ tx[p].row # NoRow
    BY <2>1, <2>2, LeftBehind
  <2>3. CASE InTx(q) /\ tx[q].del.inst = i /\ tx[p].row = NoRow
    <3>1. instances'[i] = instances[i] /\ SameArms(i)
      BY <2>3, PublishedTables
    <3> QED BY <1>1, <2>1, <2>3, <3>1, Bystander
  <2>4. CASE ~InTx(q) \/ tx[q].del.inst # i
    <3>1. InTx(q) => /\ instances'[tx[q].del.inst] = instances[tx[q].del.inst]
                     /\ SameArms(tx[q].del.inst)
      BY <1>1, <2>1, <2>4, InHand, PublishedTables DEF SameArms
    <3> QED BY <1>1, <2>1, <3>1, Bystander
  <2> QED BY <2>2, <2>3, <2>4
<1> QED BY <1>3, <1>4, <1>5, <1>6, <1>7 DEF IInv

LEMMA CommitKeeps ==
  ASSUME IInv, NEW p \in Procs, Commit(p)
  PROVE  IInv'
<1>1. Publish(p) /\ Ends(p, "idle") /\ UNCHANGED faults /\ TypeOK
  BY DEF Commit, IInv
<1>2. batch' = IF p \in Schedulers THEN [batch EXCEPT ![p] = @ \ {tx[p].del}] ELSE batch
  BY DEF Commit
<1>3. /\ batch' \in [Schedulers -> SUBSET (Deliveries \ {Event(e) : e \in Events})]
      /\ \A s \in Schedulers \ {p} : batch'[s] = batch[s]
  BY <1>1, <1>2 DEF TypeOK
<1>4. faults' \in 0 .. MaxFaults
  BY <1>1 DEF TypeOK
<1> QED BY <1>1, <1>3, <1>4, PublishKeeps

LEMMA CommitUnknownKeeps ==
  ASSUME IInv, NEW p \in Procs, CommitUnknown(p)
  PROVE  IInv'
<1>1. Publish(p) /\ Fault("commitUnknown") /\ Stops(p) /\ TypeOK
  BY DEF CommitUnknown, IInv
<1>2. PICK pc \in {"idle", "down"} : Ends(p, pc) /\ (p \in Workers => pc = "idle")
  BY <1>1, SagaAssumption DEF Stops
<1>3. /\ batch' \in [Schedulers -> SUBSET (Deliveries \ {Event(e) : e \in Events})]
      /\ \A s \in Schedulers \ {p} : batch'[s] = batch[s]
  BY <1>1 DEF TypeOK, Stops
<1>4. faults' \in 0 .. MaxFaults
  BY <1>1, Faults
<1> QED BY <1>1, <1>2, <1>3, <1>4, PublishKeeps

-----------------------------------------------------------------------------
(* The theorems.                                                           *)

LEMMA InitHolds == Init => IInv
<1> SUFFICES ASSUME Init PROVE IInv
  OBVIOUS
<1>1. TypeOK
  BY TypeInit
<1>2. StoreInv
  BY DEF Init, StoreInv, NoRow, NoTimer
<1>3. ASSUME NEW p \in Procs PROVE ~InTx(p) /\ TxOK(p)
  <2>1. tx[p] = Idle
    BY DEF Init
  <2>2. Idle = [Idle EXCEPT !.pc = "idle"] /\ Idle.pc = "idle" /\ Idle.row = NoRow
    BY IdleType
  <2>3. ~InTx(p)
    BY <2>1, <2>2 DEF InTx
  <2> QED BY <2>1, <2>2, <2>3 DEF TxOK
<1>4. \A p \in Procs : ProcInv(p)
  BY <1>3, Outside
<1>5. Apart
  BY <1>3, Outside DEF Apart
<1> QED BY <1>1, <1>2, <1>4, <1>5 DEF IInv

LEMMA NextKeeps == IInv /\ [Next]_vars => IInv'
<1> SUFFICES ASSUME IInv, [Next]_vars PROVE IInv'
  OBVIOUS
<1>1. CASE UNCHANGED vars
  <2>1. StoreTyped' /\ StoreInv' /\ UNCHANGED <<tx, instances, timers, batch>>
    BY <1>1, Stored DEF IInv, StoreInv, StoreTyped, vars
  <2> QED BY <2>1, TableStep DEF SameArms
<1>2. ASSUME NEW w \in Workers, WorkerStep(w) PROVE IInv'
  BY <1>2, DeliverEventKeeps, SkipEventKeeps, InsertKeeps DEF WorkerStep
<1>3. ASSUME NEW s \in Schedulers, SchedulerStep(s) PROVE IInv'
  BY <1>3, ClaimKeeps, DeliverTimerKeeps, MarkFiredKeeps, ReleaseKeeps DEF SchedulerStep
<1>4. ASSUME NEW s \in Schedulers, ClaimUnknown(s) \/ Orphan(s) \/ Restart(s) PROVE IInv'
  BY <1>4, ClaimUnknownKeeps, OrphanKeeps, RestartKeeps
<1>5. ASSUME NEW p \in Procs, TransactionStep(p) PROVE IInv'
  BY <1>5, ReactKeeps, CancelKeeps, ScheduleKeeps, UpdateKeeps, ConcurrentKeeps, CommitKeeps
     DEF TransactionStep
<1>6. ASSUME NEW p \in Procs, CommitUnknown(p) \/ Error(p) \/ Deadlock(p) PROVE IInv'
  BY <1>6, CommitUnknownKeeps, ErrorKeeps, DeadlockKeeps
<1>7. CASE Watchdog \/ CleanInstance \/ CleanTimer \/ Replay
  BY <1>7, WatchdogKeeps, CleanInstanceKeeps, CleanTimerKeeps, ReplayKeeps
<1> QED BY <1>1, <1>2, <1>3, <1>4, <1>5, <1>6, <1>7 DEF Next

(* In every reachable state a row has one writer at a time, and one that   *)
(* has updated an instance's row does so from the committed version.       *)
THEOREM Invariance == Spec => []IInv
BY InitHolds, NextKeeps, PTL DEF Spec

\* Every variable keeps its type, the arms of the timers their bound.
THEOREM TypeCorrect == Spec => []TypeOK
BY Invariance, PTL DEF IInv

Serially(i) ==
  \/ Extends(instances[i], instances'[i])
  \/ instances[i].status = "completed" /\ instances'[i] = NoRow

LEMMA PublishSerial ==
  ASSUME IInv, NEW p \in Procs, Publish(p), NEW j \in Instances, instances'[j] # instances[j]
  PROVE  Serially(j)
<1> DEFINE d == tx[p].del
<1>1. InTx(p) /\ d \in Deliveries
  BY InHand DEF IInv, ProcInv, Publish, InTx
<1>2. j = d.inst /\ tx[p].row # NoRow /\ instances'[j] = tx[p].row
  BY PublishedTables
<1>3. /\ tx[p].row.state = Append(instances[j].state, d)
      /\ tx[p].row.version = instances[j].version + 1
      /\ instances[j].status \in {"none", "active"}
  BY <1>1, <1>2, RowExtends
<1>4. Extends(instances[j], instances'[j])
  BY <1>1, <1>2, <1>3 DEF Extends
<1> QED BY <1>4 DEF Serially

\* What changes an instance's row: a commit, or its removal.
LEMMA NextChanges ==
  ASSUME IInv, [Next]_vars, NEW j \in Instances, instances'[j] # instances[j]
  PROVE  \/ \E p \in Procs : Publish(p)
         \/ instances[j].status = "completed" /\ instances'[j] = NoRow
<1>1. CASE UNCHANGED vars
  BY <1>1 DEF vars
<1>2. ASSUME NEW w \in Workers, WorkerStep(w) PROVE UNCHANGED instances
  BY <1>2 DEF WorkerStep, DeliverEvent, SkipEvent, Insert
<1>3. ASSUME NEW s \in Schedulers, SchedulerStep(s) \/ ClaimUnknown(s) \/ Orphan(s) \/ Restart(s)
      PROVE  UNCHANGED instances
  BY <1>3 DEF SchedulerStep, Claim, DeliverTimer, MarkFired, Release, ClaimUnknown, Orphan, Restart
<1>4. ASSUME NEW p \in Procs, TransactionStep(p) PROVE Publish(p)
  <2>1. CASE Commit(p)
    BY <2>1 DEF Commit
  <2>2. CASE React(p) \/ Cancel(p) \/ Schedule(p) \/ Update(p) \/ Concurrent(p)
    BY <2>2 DEF React, Cancel, Schedule, Write, Update, Concurrent
  <2> QED BY <1>4, <2>1, <2>2 DEF TransactionStep
<1>5. ASSUME NEW p \in Procs, CommitUnknown(p) \/ Error(p) \/ Deadlock(p) PROVE Publish(p)
  <2>1. CASE CommitUnknown(p)
    BY <2>1 DEF CommitUnknown
  <2> QED BY <1>5, <2>1 DEF Error, Deadlock
<1>6. CASE Watchdog \/ CleanTimer \/ Replay
  BY <1>6 DEF Watchdog, CleanTimer, Replay
<1>7. CASE CleanInstance
  <2>1. PICK i \in Instances : /\ instances[i].status = "completed"
                               /\ instances' = [instances EXCEPT ![i] = NoRow]
    BY <1>7 DEF CleanInstance
  <2>2. instances \in [Instances -> InstanceRows]
    BY DEF IInv, TypeOK
  <2>3. j = i /\ instances'[j] = NoRow
    BY <2>1, <2>2
  <2> QED BY <2>1, <2>3
<1> QED BY <1>1, <1>2, <1>3, <1>4, <1>5, <1>6, <1>7 DEF Next

LEMMA NextSerial ==
  ASSUME IInv, [Next]_vars, NEW j \in Instances, instances'[j] # instances[j]
  PROVE  Serially(j)
<1>1. CASE \E p \in Procs : Publish(p)
  BY <1>1, PublishSerial
<1>2. CASE instances[j].status = "completed" /\ instances'[j] = NoRow
  BY <1>2 DEF Serially
<1> QED BY <1>1, <1>2, NextChanges

(* No transition is lost and none follows the end: each change of an       *)
(* instance appends one delivery to the state of an active row, one        *)
(* version higher, or removes a completed row (saga-runner.ts:260-267).    *)
THEOREM Serial == Spec => TransitionsSerial
<1>1. IInv /\ [Next]_vars =>
        [\A i \in Instances : instances'[i] # instances[i] =>
           \/ Extends(instances[i], instances'[i])
           \/ instances[i].status = "completed" /\ instances'[i] = NoRow]_vars
  BY NextSerial DEF Serially
<1> QED BY <1>1, Invariance, PTL DEF Spec, TransitionsSerial

-----------------------------------------------------------------------------
(* Events, whatever the timers do.                                         *)

LEMMA RowPasses ==
  ASSUME IInv, NEW p \in Procs, InTx(p), tx[p].row # NoRow
  PROVE  /\ tx[p].row.lastPos = IF tx[p].del.kind = "event" THEN tx[p].del.key
                                ELSE instances[tx[p].del.inst].lastPos
         /\ tx[p].del.kind = "event" => instances[tx[p].del.inst].lastPos < tx[p].del.key
<1> DEFINE i == tx[p].del.inst
<1>1. TypeOK /\ TxOK(p) /\ Loaded(p) /\ Current(p)
  BY DEF IInv, ProcInv, Holds
<1>2. tx[p].row = Updated(p) /\ tx[p].pc # "insert"
  BY <1>1 DEF TxOK
<1>3. tx[p].seen.lastPos = instances[i].lastPos
  <2>1. CASE Inserted(p, i)
    BY <1>1, <1>2, <2>1, RowTypes DEF Loaded, NoRow
  <2>2. CASE tx[p].seen = instances[i]
    BY <2>2
  <2> QED BY <1>1, <2>1, <2>2 DEF Current
<1>4. tx[p].del.kind = "event" => p \in Workers
  BY <1>1, InHand DEF Procs
<1>5. tx[p].del.kind = "event" => tx[p].seen.lastPos < tx[p].del.key
  BY <1>1, <1>4 DEF TxOK
<1> QED BY <1>2, <1>3, <1>5 DEF Updated

(***************************************************************************)
(* The indices up to the next one are that one and the indices so far.     *)
(***************************************************************************)
LEMMA UpToNext ==
  ASSUME NEW n \in Nat
  PROVE  \A m \in 1 .. n + 1 : m = n + 1 \/ m \in 1 .. n
OBVIOUS

\* What a sequence of deliveries holds.
LEMMA Entry ==
  ASSUME NEW s \in Seq(Deliveries), NEW m \in 1 .. Len(s)
  PROVE  s[m] \in Deliveries
BY ElementOfSeq

\* What Append returns.
LEMMA Appended ==
  ASSUME NEW s \in Seq(Deliveries), NEW e \in Deliveries
  PROVE  /\ Len(s) \in Nat /\ DOMAIN s = 1 .. Len(s) /\ DOMAIN Append(s, e) = 1 .. Len(s) + 1
         /\ \A m \in 1 .. Len(s) : Append(s, e)[m] = s[m]
         /\ Append(s, e)[Len(s) + 1] = e
<1>1. Append(s, e) \in Seq(Deliveries) /\ Len(Append(s, e)) = Len(s) + 1
  BY AppendProperties
<1>2. DOMAIN Append(s, e) = 1 .. Len(Append(s, e))
  BY <1>1
<1> QED BY <1>1, <1>2, AppendProperties

EventsOnce(i) == \A m, n \in DOMAIN instances[i].state :
  instances[i].state[m].kind = "event" /\ instances[i].state[m] = instances[i].state[n] => m = n
EventsPassed(i) == \A m \in DOMAIN instances[i].state :
  instances[i].state[m].kind = "event" => instances[i].state[m].key <= instances[i].lastPos

LEMMA EventsKept ==
  ASSUME IInv, [Next]_vars, NEW j \in Instances, EventsOnce(j), EventsPassed(j)
  PROVE  EventsOnce(j)' /\ EventsPassed(j)'
<1>1. CASE instances'[j] = instances[j]
  BY <1>1 DEF EventsOnce, EventsPassed
<1>2. CASE instances'[j] = NoRow
  <2>1. DOMAIN instances'[j].state = {}
    BY <1>2 DEF NoRow
  <2> QED BY <2>1 DEF EventsOnce, EventsPassed
<1>3. CASE instances'[j] # instances[j] /\ instances'[j] # NoRow
  <2> PICK p \in Procs : Publish(p)
    BY <1>3, NextChanges
  <2>1. InTx(p) /\ tx[p].del \in Deliveries
    BY InHand DEF IInv, ProcInv, Publish, InTx
  <2>2. j = tx[p].del.inst /\ tx[p].row # NoRow /\ instances'[j] = tx[p].row
    BY <1>3, PublishedTables
  <2>3. instances \in [Instances -> InstanceRows] /\ instances' \in [Instances -> InstanceRows]
    BY PublishedTables DEF IInv, TypeOK
  <2> PICK e \in Deliveries : e = tx[p].del
    BY <2>1
  <2> PICK old \in Seq(Deliveries) : old = instances[j].state
    BY <2>3 DEF InstanceRows
  <2> PICK new \in Seq(Deliveries) : new = instances'[j].state
    BY <2>3 DEF InstanceRows
  <2>4. new = Append(old, e)
    BY <2>1, <2>2, RowExtends
  <2>5. /\ DOMAIN new = 1 .. Len(old) + 1 /\ DOMAIN old = 1 .. Len(old) /\ Len(old) \in Nat
        /\ \A m \in 1 .. Len(old) : new[m] = old[m]
        /\ new[Len(old) + 1] = e
    <3>1. /\ Len(old) \in Nat /\ DOMAIN old = 1 .. Len(old) /\ DOMAIN Append(old, e) = 1 .. Len(old) + 1
          /\ \A m \in 1 .. Len(old) : Append(old, e)[m] = old[m]
          /\ Append(old, e)[Len(old) + 1] = e
      BY Appended
    <3> QED BY <2>4, <3>1
  <2>6. \A m \in DOMAIN new : m \in 1 .. Len(old) \/ m = Len(old) + 1
    <3>1. Len(old) \in Nat
      BY <2>5
    <3> QED BY <2>5, <3>1, UpToNext
  <2>7. /\ instances'[j].lastPos = IF e.kind = "event" THEN e.key ELSE instances[j].lastPos
        /\ e.kind = "event" => instances[j].lastPos < e.key
    BY <2>1, <2>2, RowPasses
  <2>8. instances[j].lastPos \in Nat /\ \A d \in Deliveries : d.kind = "event" => d.key \in Nat
    BY <2>3, DeliveryFields, SagaAssumption DEF InstanceRows, Events
  <2>9. \A m \in 1 .. Len(old) : old[m] \in Deliveries
    BY Entry
  <2>10. \A m \in 1 .. Len(old) : old[m].kind = "event" => old[m].key <= instances[j].lastPos
    BY <2>5 DEF EventsPassed
  <2>11. \A m \in 1 .. Len(old) : old[m].kind = "event" => old[m] # e
    <3> SUFFICES ASSUME NEW m \in 1 .. Len(old), old[m].kind = "event", old[m] = e PROVE FALSE
      OBVIOUS
    <3>1. e.key <= instances[j].lastPos /\ instances[j].lastPos < e.key /\ e.key \in Nat
      BY <2>7, <2>8, <2>10
    <3> QED BY <2>8, <3>1
  <2>12. EventsPassed(j)'
    <3> SUFFICES ASSUME NEW m \in DOMAIN new, new[m].kind = "event"
                 PROVE  new[m].key <= instances'[j].lastPos
      BY DEF EventsPassed
    <3>1. CASE m = Len(old) + 1
      <4>1. new[m] = e
        BY <2>5, <3>1
      <4>2. e.kind = "event" /\ e.key \in Nat
        BY <2>8, <4>1
      <4>3. instances'[j].lastPos = e.key
        BY <2>7, <4>2
      <4>4. e.key <= e.key
        BY <4>2
      <4> QED BY <4>1, <4>3, <4>4
    <3>2. CASE m \in 1 .. Len(old)
      <4>1. old[m].kind = "event" /\ old[m].key \in Nat /\ old[m].key <= instances[j].lastPos
        BY <2>5, <2>8, <2>9, <2>10, <3>2
      <4>2. old[m].key <= instances'[j].lastPos
        BY <2>7, <2>8, <4>1
      <4> QED BY <2>5, <3>2, <4>2
    <3> QED BY <2>6, <3>1, <3>2
  <2>13. EventsOnce(j)'
    <3> SUFFICES ASSUME NEW m \in DOMAIN new, NEW n \in DOMAIN new,
                        new[m].kind = "event", new[m] = new[n]
                 PROVE  m = n
      BY DEF EventsOnce
    <3>1. CASE m \in 1 .. Len(old) /\ n \in 1 .. Len(old)
      <4>1. old[m].kind = "event" /\ old[m] = old[n]
        BY <2>5, <3>1
      <4> QED BY <2>5, <3>1, <4>1 DEF EventsOnce
    <3>2. CASE m = Len(old) + 1 /\ n \in 1 .. Len(old)
      BY <2>5, <2>11, <3>2
    <3>3. CASE m \in 1 .. Len(old) /\ n = Len(old) + 1
      BY <2>5, <2>11, <3>3
    <3> QED BY <2>6, <3>1, <3>2, <3>3
  <2> QED BY <2>12, <2>13
<1> QED BY <1>1, <1>2, <1>3

(* As long as its row is kept, an instance reacts at most once to an       *)
(* event, however often it is handed over and its timer ids are reused:    *)
(* last_event_pos, under the version check, forgets none                   *)
(* (saga-runner.ts:115).                                                   *)
THEOREM EventReactsOnce == Spec => [](\A i \in Instances : EventsOnce(i))
<1> DEFINE Inv == IInv /\ \A i \in Instances : EventsOnce(i) /\ EventsPassed(i)
<1>1. Init => Inv
  <2> SUFFICES ASSUME Init, NEW i \in Instances PROVE EventsOnce(i) /\ EventsPassed(i)
    BY InitHolds
  <2>1. DOMAIN instances[i].state = {}
    BY DEF Init, NoRow
  <2> QED BY <2>1 DEF EventsOnce, EventsPassed
<1>2. Inv /\ [Next]_vars => Inv'
  BY NextKeeps, EventsKept
<1>3. Inv => \A i \in Instances : EventsOnce(i)
  OBVIOUS
<1> QED BY <1>1, <1>2, <1>3, PTL DEF Spec

-----------------------------------------------------------------------------
(* Deliveries, where every timer id is scheduled once.                     *)

TimersScheduledOnce == MaxArms <= 1

LEMMA FirstArm ==
  ASSUME TimersScheduledOnce, TypeOK
  PROVE  /\ \A i \in Instances, id \in Ids :
              timers[i][id] \in TimerRows /\ timers[i][id].arm \in {0, 1}
         /\ \A s \in Schedulers : \A d \in batch[s] :
              /\ d \in Deliveries /\ d.kind = "timer" /\ d.inst \in Instances /\ d.key \in Ids
              /\ d = Timer(d.inst, d.key, 1)
<1>1. \A n \in 0 .. MaxArms : n \in {0, 1}
  BY SagaAssumption DEF TimersScheduledOnce
<1>2. \A i \in Instances, id \in Ids : timers[i][id] \in TimerRows
  BY DEF TypeOK
<1>3. \A i \in Instances, id \in Ids : timers[i][id].arm \in {0, 1}
  BY <1>1, <1>2 DEF TimerRows
<1>4. ASSUME NEW s \in Schedulers, NEW d \in batch[s]
      PROVE  /\ d \in Deliveries /\ d.kind = "timer" /\ d.inst \in Instances /\ d.key \in Ids
             /\ d = Timer(d.inst, d.key, 1)
  <2>1. d \in Deliveries /\ d.kind = "timer"
    BY BatchTimer
  <2>2. d.inst \in Instances /\ d.key \in Ids /\ d.arm \in 1 .. MaxArms /\ d = Timer(d.inst, d.key, d.arm)
    BY <2>1, DeliveryFields
  <2>3. d.arm = 1
    BY <2>2, SagaAssumption DEF TimersScheduledOnce
  <2> QED BY <2>1, <2>2, <2>3
<1> QED BY <1>2, <1>3, <1>4

\* What each part needs to stay.
LEMMA StateQuiet ==
  ASSUME NEW i \in Instances, StateOnce(i),
         instances'[i] = instances[i] \/ instances'[i] = NoRow, outcome \subseteq outcome'
  PROVE  StateOnce(i)'
<1>1. CASE instances'[i] = instances[i]
  BY <1>1 DEF StateOnce, Applied
<1>2. CASE instances'[i] = NoRow
  <2>1. instances'[i].state = <<>>
    BY <1>2 DEF NoRow
  <2>2. DOMAIN instances'[i].state = {}
    BY <2>1
  <2> QED BY <2>2 DEF StateOnce
<1> QED BY <1>1, <1>2

LEMMA TimerQuiet ==
  ASSUME NEW i \in Instances, NEW id \in Ids, TimerOnce(i, id), timers'[i][id] = timers[i][id],
         outcome \subseteq outcome', Applied(Timer(i, id, 1))' => Applied(Timer(i, id, 1)),
         \A s \in Schedulers : Timer(i, id, 1) \in batch'[s] => Timer(i, id, 1) \in batch[s]
  PROVE  TimerOnce(i, id)'
<1>1. timers'[i][id].status = "fired" =>
        \E result \in {"applied", "skipped"} : <<Timer(i, id, timers'[i][id].arm), result>> \in outcome'
  BY DEF TimerOnce
<1> QED BY <1>1 DEF TimerOnce

LEMMA TimerSet ==
  ASSUME NEW i \in Instances, NEW id \in Ids, TimerOnce(i, id),
         timers'[i][id].arm = timers[i][id].arm, timers'[i][id].status # "fired",
         UNCHANGED outcome,
         \A s \in Schedulers : Timer(i, id, 1) \in batch'[s] => Timer(i, id, 1) \in batch[s],
         timers'[i][id].status \in {"pending", "claimed"} => ~Applied(Timer(i, id, 1)),
         timers'[i][id].status = "pending" =>
           \A s \in Schedulers : Timer(i, id, 1) \notin batch'[s]
  PROVE  TimerOnce(i, id)'
<1>1. Applied(Timer(i, id, 1))' <=> Applied(Timer(i, id, 1))
  BY DEF Applied
<1> QED BY <1>1 DEF TimerOnce

LEMMA MineQuiet ==
  ASSUME NEW p \in Procs, MineOnce(p), tx'[p] = tx[p],
         InTx(p) =>
           /\ \A id \in Ids : tx[p].mine[id] # Unwritten =>
                timers'[tx[p].del.inst][id].arm = timers[tx[p].del.inst][id].arm
           /\ p \in Schedulers /\ tx[p].pc = "commit" /\ tx[p].mine[tx[p].del.key] = Unwritten
                /\ timers[tx[p].del.inst][tx[p].del.key].status \notin {"pending", "claimed"} =>
                timers'[tx[p].del.inst][tx[p].del.key].status \notin {"pending", "claimed"}
  PROVE  MineOnce(p)'
<1>1. InTx(p)' <=> InTx(p)
  BY SameTx
<1> QED BY <1>1 DEF MineOnce

\* Most steps change no row and make no delivery.
LEMMA QuietStep ==
  ASSUME OnceInv, UNCHANGED <<instances, timers>>, outcome \subseteq outcome',
         \A i \in Instances, id \in Ids : Applied(Timer(i, id, 1))' => Applied(Timer(i, id, 1)),
         \A s \in Schedulers : batch'[s] \subseteq batch[s],
         \A p \in Procs : tx'[p] = tx[p] \/ MineOnce(p)'
  PROVE  OnceInv'
<1>1. \A i \in Instances : StateOnce(i)'
  BY StateQuiet DEF OnceInv
<1>2. \A i \in Instances, id \in Ids : TimerOnce(i, id)'
  BY TimerQuiet DEF OnceInv
<1>3. \A p \in Procs : MineOnce(p)'
  BY MineQuiet DEF OnceInv
<1> QED BY <1>1, <1>2, <1>3 DEF OnceInv

LEMMA EndedOnce ==
  ASSUME NEW p \in Procs, ~InTx(p)'
  PROVE  MineOnce(p)'
BY DEF MineOnce

\* A transaction that moves on inside: what it writes is what counts.
LEMMA InsideOnce ==
  ASSUME OnceInv, NEW p \in Procs, NEW t, tx' = [tx EXCEPT ![p] = t], tx'[p] = t,
         UNCHANGED <<instances, timers, batch, outcome>>, MineOnce(p)'
  PROVE  OnceInv'
<1>1. \A q \in Procs : tx'[q] = tx[q] \/ MineOnce(q)'
  <2> TAKE q \in Procs
  <2>1. CASE q = p
    BY <2>1
  <2>2. CASE q # p
    BY <2>2
  <2> QED BY <2>1, <2>2
<1>2. \A d : Applied(d)' <=> Applied(d)
  BY DEF Applied
<1> QED BY <1>1, <1>2, QuietStep

-----------------------------------------------------------------------------
(* The steps that make no delivery and change no row.                      *)

LEMMA UnwrittenOnce ==
  ASSUME NEW p \in Procs, tx'[p].mine = Idle.mine, tx'[p].pc # "commit"
  PROVE  MineOnce(p)'
BY IdleType DEF MineOnce

LEMMA BeginOnce ==
  ASSUME TypeOK, OnceInv, NEW p \in Procs, NEW d, NEW pc \in {"insert", "react", "fire"}, Begin(p, d, pc),
         UNCHANGED <<instances, timers, batch, outcome>>
  PROVE  OnceInv'
<1> DEFINE seen == IF pc = "insert" THEN Fresh ELSE instances[d.inst]
           t == [Idle EXCEPT !.pc = pc, !.del = d, !.seen = seen]
<1>1. tx' = [tx EXCEPT ![p] = t]
  BY DEF Begin
<1>2. tx'[p] = t
  BY <1>1 DEF TypeOK
<1>3. t.mine = Idle.mine /\ t.pc = pc
  BY IdleType DEF Transactions
<1> HIDE DEF t
<1>4. MineOnce(p)'
  BY <1>2, <1>3, UnwrittenOnce
<1> QED BY <1>1, <1>2, <1>4, InsideOnce

LEMMA EndsOnce ==
  ASSUME TypeOK, OnceInv, NEW p \in Procs, NEW pc \in {"idle", "down"}, p \in Workers => pc = "idle",
         Ends(p, pc), UNCHANGED <<instances, timers, outcome>>,
         \A s \in Schedulers : batch'[s] \subseteq batch[s]
  PROVE  OnceInv'
<1>1. \A q \in Procs : tx'[q] = tx[q] \/ MineOnce(q)'
  <2> TAKE q \in Procs
  <2>1. CASE q = p
    BY <2>1, Ended, EndedOnce
  <2>2. CASE q # p
    BY <2>2 DEF Ends
  <2> QED BY <2>1, <2>2
<1>2. \A d : Applied(d)' <=> Applied(d)
  BY DEF Applied
<1> QED BY <1>1, <1>2, QuietStep

LEMMA StopsOnce ==
  ASSUME TypeOK, OnceInv, NEW p \in Procs, Stops(p), UNCHANGED <<instances, timers, outcome>>
  PROVE  OnceInv'
<1>1. PICK pc \in {"idle", "down"} : Ends(p, pc) /\ (p \in Workers => pc = "idle")
  BY SagaAssumption DEF Stops
<1>2. \A s \in Schedulers : batch'[s] \subseteq batch[s]
  BY DEF Stops, TypeOK
<1> QED BY <1>1, <1>2, EndsOnce

LEMMA WorkerOnce ==
  ASSUME IInv, OnceInv, NEW w \in Workers, WorkerStep(w)
  PROVE  OnceInv'
<1>1. TypeOK /\ w \in Procs /\ w \notin Schedulers
  BY SagaAssumption DEF IInv, Procs
<1>2. CASE DeliverEvent(w)
  <2>1. PICK e \in Events : Begin(w, Event(e), "insert") \/ Begin(w, Event(e), "react")
    BY <1>2 DEF DeliverEvent
  <2>2. UNCHANGED <<instances, timers, batch, outcome>>
    BY <1>2 DEF DeliverEvent
  <2>3. CASE Begin(w, Event(e), "insert")
    BY <1>1, <2>2, <2>3, BeginOnce
  <2>4. CASE Begin(w, Event(e), "react")
    BY <1>1, <2>2, <2>4, BeginOnce
  <2> QED BY <2>1, <2>3, <2>4
<1>3. CASE SkipEvent(w)
  <2>1. PICK e \in Events : /\ outcome' = outcome \cup {<<Event(e), "skipped">>}
                            /\ UNCHANGED <<instances, timers, batch, tx, faults>>
    BY <1>3 DEF SkipEvent
  <2>2. \A d : Applied(d)' => Applied(d)
    BY <2>1 DEF Applied
  <2> QED BY <2>1, <2>2, QuietStep
<1>4. CASE Insert(w)
  <2>1. UNCHANGED <<instances, timers, batch, outcome>>
    BY <1>4 DEF Insert
  <2>2. CASE Ends(w, "idle")
    BY <1>1, <2>1, <2>2, EndsOnce
  <2>3. CASE Goes(w, "react")
    <3> DEFINE t == [tx[w] EXCEPT !.pc = "react"]
    <3>1. tx' = [tx EXCEPT ![w] = t] /\ tx'[w] = t
      BY <1>1, <2>3 DEF Goes, TypeOK
    <3>2. tx[w] \in Transactions /\ tx[w].mine = Idle.mine
      BY <1>1, <1>4, TxFields DEF IInv, ProcInv, TxOK, Insert
    <3>3. t.mine = Idle.mine /\ t.pc = "react"
      BY <3>2 DEF Transactions
    <3> HIDE DEF t
    <3>4. MineOnce(w)'
      BY <1>1, <3>1, <3>3, UnwrittenOnce
    <3> QED BY <1>1, <2>1, <3>1, <3>4, InsideOnce
  <2> QED BY <1>4, <2>2, <2>3 DEF Insert
<1> QED BY <1>2, <1>3, <1>4 DEF WorkerStep

\* React, the statements on timers, the UPDATE and its failure.
LEMMA ReactOnce ==
  ASSUME IInv, OnceInv, NEW p \in Procs, React(p)
  PROVE  OnceInv'
<1>1. TypeOK /\ tx[p] \in Transactions /\ tx[p].mine = Idle.mine
  BY TxFields DEF IInv, ProcInv, TxOK, React
<1>2. PICK r \in Reactions :
        tx' = [tx EXCEPT ![p].pc = "write", ![p].end = r.end,
                 ![p].todo = ({"cancel"} \X r.cancel) \cup ({"schedule"} \X r.schedule)]
  BY DEF React
<1> DEFINE t == [tx[p] EXCEPT !.pc = "write", !.end = r.end,
                   !.todo = ({"cancel"} \X r.cancel) \cup ({"schedule"} \X r.schedule)]
<1>3. tx' = [tx EXCEPT ![p] = t] /\ tx'[p] = t
  BY <1>1, <1>2, TxTyped
<1>4. t.mine = Idle.mine /\ t.pc = "write"
  BY <1>1 DEF Transactions
<1> HIDE DEF t
<1>5. UNCHANGED <<instances, timers, batch, outcome>> /\ MineOnce(p)'
  BY <1>3, <1>4, UnwrittenOnce DEF React
<1> QED BY <1>3, <1>5, InsideOnce

\* A statement may leave the timer, or write a later state of it.
LEMMA WriteOnce ==
  ASSUME IInv, OnceInv, NEW p \in Procs, tx[p].pc = "write", NEW kind, NEW id \in Ids, NEW new,
         Write(p, <<kind, id>>, new),
         new # Unwritten =>
           /\ new.arm >= timers[tx[p].del.inst][id].arm
           /\ new.status = "pending" => new.arm > timers[tx[p].del.inst][id].arm
           /\ new.status = "fired" => p \in Schedulers /\ id = tx[p].del.key
  PROVE  OnceInv'
<1> PICK i \in Instances : i = tx[p].del.inst
  BY InHand DEF IInv, ProcInv, InTx
<1> DEFINE t == [tx[p] EXCEPT !.todo = @ \ {<<kind, id>>}, !.mine = [@ EXCEPT ![id] = new]]
<1>1. tx[p] \in Transactions /\ tx[p].mine \in Marks /\ TypeOK /\ InTx(p) /\ MineOnce(p)
  BY TxFields DEF IInv, InTx, OnceInv
<1>2. tx' = [tx EXCEPT ![p] = t] /\ tx'[p] = t
  <2>1. tx \in [Procs -> Transactions]
    BY <1>1, TxTyped
  <2> QED BY <2>1, <1>1 DEF Write
<1>3. /\ t.pc = "write" /\ t.del = tx[p].del
      /\ \A x \in Ids : t.mine[x] = IF x = id THEN new ELSE tx[p].mine[x]
  BY <1>1 DEF Transactions, Marks
<1> HIDE DEF t
<1>4. UNCHANGED <<instances, timers, batch, outcome>>
  BY DEF Write
<1>5. MineOnce(p)'
  <2> SUFFICES ASSUME NEW x \in Ids, t.mine[x] # Unwritten
               PROVE  /\ t.mine[x].arm >= timers[i][x].arm
                      /\ t.mine[x].status = "pending" => t.mine[x].arm > timers[i][x].arm
                      /\ t.mine[x].status = "fired" => p \in Schedulers /\ x = tx[p].del.key
    BY <1>2, <1>3, <1>4 DEF MineOnce
  <2>1. CASE x = id
    BY <1>3, <2>1
  <2>2. CASE x # id
    BY <1>1, <1>3, <2>2 DEF MineOnce
  <2> QED BY <2>1, <2>2
<1> QED BY <1>2, <1>4, <1>5, InsideOnce

LEMMA VisibleOnce ==
  ASSUME IInv, OnceInv, NEW p \in Procs, InTx(p), NEW id \in Ids
  PROVE  /\ Visible(p, id).arm \in Nat /\ timers[tx[p].del.inst][id].arm \in Nat
         /\ Visible(p, id).arm >= timers[tx[p].del.inst][id].arm
<1> PICK i \in Instances : i = tx[p].del.inst
  BY InHand DEF IInv, ProcInv
<1>1. Visible(p, id) \in [status : TimerStatuses, arm : 0 .. MaxArms + 1]
  BY VisibleRow
<1>2. timers[i][id] \in TimerRows
  BY DEF IInv, TypeOK
<1>3. Visible(p, id).arm \in Nat /\ timers[i][id].arm \in Nat
  BY <1>1, <1>2, SagaAssumption DEF TimerRows
<1>4. CASE tx[p].mine[id] = Unwritten
  BY <1>3, <1>4 DEF Visible
<1>5. CASE tx[p].mine[id] # Unwritten
  <2>1. tx[p].mine[id].arm >= timers[i][id].arm
    <3>1. MineOnce(p)
      BY DEF OnceInv
    <3> QED BY <1>5, <3>1 DEF MineOnce
  <2> QED BY <1>3, <1>5, <2>1 DEF Visible
<1> QED BY <1>3, <1>4, <1>5

LEMMA CancelOnce ==
  ASSUME IInv, OnceInv, NEW p \in Procs, Cancel(p)
  PROVE  OnceInv'
<1>1. PICK id \in Ids :
        /\ tx[p].pc = "write"
        /\ \/ Write(p, <<"cancel", id>>, [Visible(p, id) EXCEPT !.status = "cancelled"])
           \/ Write(p, <<"cancel", id>>, tx[p].mine[id])
  BY DEF Cancel
<1>2. InTx(p) /\ MineOnce(p)
  BY <1>1 DEF InTx, OnceInv
<1>3. CASE Write(p, <<"cancel", id>>, tx[p].mine[id])
  <2> DEFINE new == tx[p].mine[id]
  <2>1. new # Unwritten =>
           /\ new.arm >= timers[tx[p].del.inst][id].arm
           /\ new.status = "pending" => new.arm > timers[tx[p].del.inst][id].arm
           /\ new.status = "fired" => p \in Schedulers /\ id = tx[p].del.key
    BY <1>2 DEF MineOnce
  <2> HIDE DEF new
  <2> QED BY <1>1, <1>3, <2>1, WriteOnce DEF new
<1>4. CASE Write(p, <<"cancel", id>>, [Visible(p, id) EXCEPT !.status = "cancelled"])
  <2> DEFINE new == [Visible(p, id) EXCEPT !.status = "cancelled"]
  <2>1. Visible(p, id) \in [status : TimerStatuses, arm : 0 .. MaxArms + 1]
    BY <1>2, VisibleRow
  <2>2. new.status = "cancelled" /\ new.arm = Visible(p, id).arm
    BY <2>1
  <2>3. new.arm >= timers[tx[p].del.inst][id].arm
    BY <1>2, <2>2, VisibleOnce
  <2> HIDE DEF new
  <2> QED BY <1>1, <1>4, <2>2, <2>3, WriteOnce DEF new
<1> QED BY <1>1, <1>3, <1>4

LEMMA ScheduleOnce ==
  ASSUME IInv, OnceInv, NEW p \in Procs, Schedule(p)
  PROVE  OnceInv'
<1>1. PICK id \in Ids :
        /\ tx[p].pc = "write"
        /\ Write(p, <<"schedule", id>>, [status |-> "pending", arm |-> Visible(p, id).arm + 1])
  BY DEF Schedule
<1> DEFINE new == [status |-> "pending", arm |-> Visible(p, id).arm + 1]
<1>2. InTx(p)
  BY <1>1 DEF InTx
<1>3. new.status = "pending" /\ new.arm = Visible(p, id).arm + 1
  OBVIOUS
<1>4. new.arm > timers[tx[p].del.inst][id].arm /\ new.arm >= timers[tx[p].del.inst][id].arm
  BY <1>2, <1>3, VisibleOnce
<1> HIDE DEF new
<1> QED BY <1>1, <1>3, <1>4, WriteOnce DEF new

LEMMA UpdateOnce ==
  ASSUME IInv, OnceInv, NEW p \in Procs, Update(p)
  PROVE  OnceInv'
<1> DEFINE pc == IF p \in Schedulers THEN "fire" ELSE "commit"
           t == [tx[p] EXCEPT !.row = Updated(p), !.pc = pc]
<1>1. tx[p] \in Transactions /\ TypeOK /\ InTx(p) /\ MineOnce(p)
  BY TxFields DEF IInv, Update, InTx, OnceInv
<1>2. tx' = [tx EXCEPT ![p] = t] /\ tx'[p] = t
  BY <1>1, TxTyped DEF Update
<1>3. t.pc = pc /\ t.del = tx[p].del /\ t.mine = tx[p].mine
  BY <1>1 DEF Transactions
<1>4. p \in Schedulers => t.pc # "commit"
  BY <1>3
<1> HIDE DEF t
<1>5. UNCHANGED <<instances, timers, batch, outcome>>
  BY DEF Update
<1>6. MineOnce(p)'
  BY <1>1, <1>2, <1>3, <1>4, <1>5 DEF MineOnce
<1> QED BY <1>2, <1>5, <1>6, InsideOnce

LEMMA ConcurrentOnce ==
  ASSUME IInv, OnceInv, NEW p \in Procs, Concurrent(p)
  PROVE  OnceInv'
<1>1. TypeOK /\ UNCHANGED <<instances, timers, batch, outcome>>
  BY DEF Concurrent, IInv
<1>2. CASE p \in Schedulers
  <2> DEFINE t == [Idle EXCEPT !.pc = "release", !.del = tx[p].del]
  <2>1. tx' = [tx EXCEPT ![p] = t] /\ tx'[p] = t
    BY <1>1, <1>2 DEF Concurrent, TypeOK
  <2>2. t.mine = Idle.mine /\ t.pc = "release"
    BY IdleType DEF Transactions
  <2> HIDE DEF t
  <2>3. MineOnce(p)'
    BY <2>1, <2>2, UnwrittenOnce
  <2> QED BY <1>1, <2>1, <2>3, InsideOnce
<1>3. CASE p \notin Schedulers
  <2>1. Ends(p, "idle")
    BY <1>3 DEF Concurrent
  <2> QED BY <1>1, <2>1, EndsOnce
<1> QED BY <1>2, <1>3

-----------------------------------------------------------------------------
(* The steps that change the status of a timer, and the claim.             *)

\* A timer whose status is set, by who does not mark it fired.
LEMMA SetOnce ==
  ASSUME TimersScheduledOnce, IInv, OnceInv, NEW i \in Instances, NEW id \in Ids,
         NEW status \in {"none", "pending", "failed"}, SetTimer(i, id, status),
         UNCHANGED <<instances, outcome>>,
         \A s \in Schedulers : batch'[s] \subseteq batch[s],
         status = "pending" => ~Applied(Timer(i, id, 1)),
         status = "pending" => \A s \in Schedulers : Timer(i, id, 1) \notin batch'[s],
         \A p \in Procs : tx'[p] = tx[p] \/ ~InTx(p)',
         status = "pending" => \A p \in Schedulers : ~(tx[p].del = Timer(i, id, 1) /\ InTx(p))
  PROVE  OnceInv'
<1>1. TypeOK
  BY DEF IInv
<1>2. \A j \in Instances, x \in Ids : timers[j][x] \in TimerRows
  BY <1>1, FirstArm
<1>3. \A j \in Instances, x \in Ids :
        timers'[j][x] = IF j = i /\ x = id THEN [timers[i][id] EXCEPT !.status = status] ELSE timers[j][x]
  BY <1>1 DEF TypeOK, SetTimer
<1>4. timers'[i][id].arm = timers[i][id].arm /\ timers'[i][id].status = status
  BY <1>2, <1>3 DEF TimerRows
<1>5. \A j \in Instances, x \in Ids : (j # i \/ x # id) => timers'[j][x] = timers[j][x]
  BY <1>3
<1>6. \A j \in Instances : StateOnce(j)'
  BY StateQuiet DEF OnceInv
<1>7. ASSUME NEW j \in Instances, NEW x \in Ids PROVE TimerOnce(j, x)'
  <2>1. TimerOnce(j, x)
    BY DEF OnceInv
  <2>2. CASE j = i /\ x = id
    BY <1>4, <2>1, <2>2, TimerSet
  <2>3. CASE j # i \/ x # id
    <3>1. Applied(Timer(j, x, 1))' => Applied(Timer(j, x, 1))
      BY DEF Applied
    <3> QED BY <1>5, <2>1, <2>3, <3>1, TimerQuiet
  <2> QED BY <2>2, <2>3
<1>8. ASSUME NEW p \in Procs PROVE MineOnce(p)'
  <2>1. CASE ~InTx(p)'
    BY <2>1, EndedOnce
  <2>2. CASE tx'[p] = tx[p] /\ ~InTx(p)
    BY <2>2, MineQuiet DEF OnceInv
  <2>3. CASE tx'[p] = tx[p] /\ InTx(p)
    <3>1. TxOK(p) /\ tx[p].del \in Deliveries /\ tx[p].del.inst \in Instances
      BY <1>1, <2>3, InHand DEF IInv, ProcInv
    <3>2. \A x \in Ids : timers'[tx[p].del.inst][x].arm = timers[tx[p].del.inst][x].arm
      BY <1>4, <1>5, <3>1
    <3>3. ASSUME p \in Schedulers,
                 timers[tx[p].del.inst][tx[p].del.key].status \notin {"pending", "claimed"}
          PROVE  timers'[tx[p].del.inst][tx[p].del.key].status \notin {"pending", "claimed"}
      <4>1. tx[p].del \in batch[p] /\ tx[p].del.key \in Ids
        BY <1>1, <2>3, <3>1, <3>3, InHand
      <4>2. tx[p].del = Timer(tx[p].del.inst, tx[p].del.key, 1)
        BY <1>1, <3>3, <4>1, FirstArm
      <4>3. CASE tx[p].del.inst = i /\ tx[p].del.key = id
        <5>1. status # "pending"
          BY <2>3, <3>3, <4>2, <4>3
        <5> QED BY <1>4, <4>3, <5>1
      <4>4. CASE ~(tx[p].del.inst = i /\ tx[p].del.key = id)
        BY <1>5, <3>1, <3>3, <4>1, <4>4
      <4> QED BY <4>3, <4>4
    <3>4. MineOnce(p)
      BY DEF OnceInv
    <3> QED BY <2>3, <3>2, <3>3, <3>4, MineQuiet
  <2> QED BY <2>1, <2>2, <2>3
<1> QED BY <1>6, <1>7, <1>8 DEF OnceInv

LEMMA OrphanOnce ==
  ASSUME TimersScheduledOnce, IInv, OnceInv, NEW s \in Schedulers, Orphan(s)
  PROVE  OnceInv'
<1>1. PICK d \in batch[s] :
        /\ SetTimer(d.inst, d.key, IF timers[d.inst][d.key].status = "none" THEN "none" ELSE "failed")
        /\ batch' = [batch EXCEPT ![s] = @ \ {d}]
  BY DEF Orphan
<1>2. UNCHANGED <<instances, tx, outcome>> /\ TypeOK
  BY DEF Orphan, IInv
<1>3. d.inst \in Instances /\ d.key \in Ids
  BY <1>2, FirstArm
<1>4. \A r \in Schedulers : batch'[r] \subseteq batch[r]
  BY <1>1, <1>2 DEF TypeOK
<1>5. CASE timers[d.inst][d.key].status = "none"
  BY <1>1, <1>2, <1>3, <1>4, <1>5, SetOnce
<1>6. CASE timers[d.inst][d.key].status # "none"
  BY <1>1, <1>2, <1>3, <1>4, <1>6, SetOnce
<1> QED BY <1>5, <1>6

LEMMA CleanTimerOnce ==
  ASSUME TimersScheduledOnce, IInv, OnceInv, CleanTimer
  PROVE  OnceInv'
<1>1. PICK i \in Instances, id \in Ids :
        SetTimer(i, id, "none") /\ UNCHANGED <<instances, open, batch, tx, outcome>>
  BY DEF CleanTimer
<1> QED BY <1>1, SetOnce

LEMMA WatchdogOnce ==
  ASSUME TimersScheduledOnce, IInv, OnceInv, Watchdog
  PROVE  OnceInv'
<1>1. PICK i \in Instances, id \in Ids :
        /\ timers[i][id].status = "claimed" /\ SetTimer(i, id, "pending")
        /\ \A s \in Schedulers, n \in 1 .. MaxArms : Timer(i, id, n) \notin batch[s]
        /\ UNCHANGED <<instances, open, batch, tx, outcome, faults>>
  BY DEF Watchdog
<1>2. TypeOK /\ StoreInv /\ TimerOnce(i, id)
  BY DEF IInv, OnceInv
<1>3. timers[i][id] \in TimerRows /\ timers[i][id].arm > 0
  BY <1>1, <1>2 DEF StoreInv, TypeOK
<1>4. 1 \in 1 .. MaxArms
  BY <1>3, SagaAssumption DEF TimerRows
<1>5. \A s \in Schedulers : Timer(i, id, 1) \notin batch[s]
  BY <1>1, <1>4
<1>6. ~Applied(Timer(i, id, 1))
  BY <1>1, <1>2 DEF TimerOnce
<1>7. \A p \in Schedulers : ~(tx[p].del = Timer(i, id, 1) /\ InTx(p))
  <2> SUFFICES ASSUME NEW p \in Schedulers, InTx(p) PROVE tx[p].del \in batch[p]
    BY <1>5
  <2>1. p \in Procs /\ TxOK(p)
    BY DEF IInv, ProcInv, Procs
  <2> QED BY <1>2, <2>1, InHand
<1> QED BY <1>1, <1>5, <1>6, <1>7, SetOnce

LEMMA ReleaseOnce ==
  ASSUME TimersScheduledOnce, IInv, OnceInv, NEW s \in Schedulers, Release(s)
  PROVE  OnceInv'
<1> DEFINE d == tx[s].del
<1>1. /\ tx[s].pc = "release" /\ Ends(s, "idle") /\ UNCHANGED <<instances, open, outcome, faults>>
      /\ batch' = [batch EXCEPT ![s] = @ \ {d}]
  BY DEF Release
<1>2. TypeOK /\ s \in Procs /\ TxOK(s) /\ s \notin Workers
  BY SagaAssumption DEF IInv, ProcInv, Procs
<1>3. d \in batch[s] /\ d.inst \in Instances /\ d.key \in Ids
  BY <1>1, <1>2, InHand
<1>4. d = Timer(d.inst, d.key, 1)
  BY <1>2, <1>3, FirstArm
<1>5. \A r \in Schedulers : batch'[r] \subseteq batch[r]
  BY <1>1, <1>2 DEF TypeOK
<1>6. ~Applied(d) /\ \A r \in Schedulers : d \in batch[r] => r = s
  <2>1. TimerOnce(d.inst, d.key)
    BY <1>3 DEF OnceInv
  <2> QED BY <1>3, <1>4, <2>1 DEF TimerOnce
<1>7. \A r \in Schedulers : d \notin batch'[r]
  BY <1>1, <1>2, <1>5, <1>6 DEF TypeOK
<1>8. ~InTx(s)' /\ \A p \in Procs : tx'[p] = tx[p] \/ ~InTx(p)'
  <2>1. ~InTx(s)'
    BY <1>1, <1>2, Ended
  <2>2. \A p \in Procs : p # s => tx'[p] = tx[p]
    BY <1>1 DEF Ends
  <2> QED BY <2>1, <2>2
<1>9. \A p \in Schedulers : ~(tx[p].del = d /\ InTx(p))
  <2> SUFFICES ASSUME NEW p \in Schedulers, tx[p].del = d, InTx(p) PROVE FALSE
    OBVIOUS
  <2>1. p \in Procs /\ TxOK(p)
    BY DEF IInv, ProcInv, Procs
  <2>2. d \in batch[p]
    BY <1>2, <2>1, InHand
  <2>3. p = s
    BY <1>6, <2>2
  <2> QED BY <1>1, <2>3 DEF InTx
<1>10. CASE timers[d.inst][d.key].status = "claimed"
  <2>1. SetTimer(d.inst, d.key, "pending")
    BY <1>10 DEF Release
  <2> QED BY <1>1, <1>3, <1>4, <1>5, <1>6, <1>7, <1>8, <1>9, <2>1, SetOnce
<1>11. CASE timers[d.inst][d.key].status # "claimed"
  <2>1. UNCHANGED timers
    BY <1>11 DEF Release
  <2> QED BY <1>1, <1>2, <1>5, <2>1, EndsOnce
<1> QED BY <1>10, <1>11

\* A claim takes pending timers, which are in no batch and not over.
LEMMA ClaimedOnce ==
  ASSUME TimersScheduledOnce, IInv, OnceInv, NEW s \in Schedulers, NEW items \in Batches, Claimed(items),
         UNCHANGED <<instances, outcome>>,
         batch' = batch \/ (batch[s] = {} /\ batch' = [batch EXCEPT ![s] = items]),
         \A p \in Procs : tx'[p] = tx[p] \/ ~InTx(p)'
  PROVE  OnceInv'
<1>1. TypeOK /\ StoreInv
  BY DEF IInv
<1>2. \A j \in Instances, x \in Ids : timers[j][x] \in TimerRows /\ timers[j][x].arm \in {0, 1}
  BY <1>1, FirstArm
<1>3. \A j \in Instances, x \in Ids :
        timers'[j][x] = IF Timer(j, x, timers[j][x].arm) \in items
                        THEN [timers[j][x] EXCEPT !.status = "claimed"] ELSE timers[j][x]
  BY DEF Claimed
<1>4. \A d \in items : \E j \in Instances, x \in Ids :
        Due(j, x) /\ d = Timer(j, x, timers[j][x].arm)
  BY DEF Batches, DueItems
<1>5. ASSUME NEW j \in Instances, NEW x \in Ids, NEW n, Timer(j, x, n) \in items
      PROVE  timers[j][x].status = "pending" /\ timers[j][x].arm = 1 /\ n = 1
  <2>1. PICK k \in Instances, y \in Ids : Due(k, y) /\ Timer(j, x, n) = Timer(k, y, timers[k][y].arm)
    BY <1>4, <1>5
  <2>2. j = k /\ x = y /\ n = timers[k][y].arm
    BY <2>1 DEF Timer
  <2>3. timers[k][y].status = "pending"
    BY <2>1 DEF Due
  <2>4. timers[k][y].arm > 0
    BY <1>1, <2>3 DEF StoreInv
  <2>5. timers[k][y].arm = 1
    BY <1>2, <2>4
  <2> QED BY <2>2, <2>3, <2>5
<1>6. \A j \in Instances, x \in Ids : timers'[j][x].arm = timers[j][x].arm
  BY <1>1, ClaimedTimers DEF SameArms
<1>7. ASSUME NEW j \in Instances, NEW x \in Ids PROVE TimerOnce(j, x)'
  <2> DEFINE d == Timer(j, x, 1)
  <2>1. TimerOnce(j, x)
    BY DEF OnceInv
  <2>2. Applied(d)' <=> Applied(d)
    BY DEF Applied
  <2>3. \A r \in Schedulers : d \in batch'[r] => d \in batch[r] \/ (r = s /\ d \in items)
    BY <1>1 DEF TypeOK
  <2>4. CASE d \in items
    <3>1. timers[j][x].status = "pending" /\ timers[j][x].arm = 1
      BY <1>5, <2>4
    <3>2. timers'[j][x].arm = 1 /\ timers'[j][x].status = "claimed"
      <4>1. timers'[j][x] = [timers[j][x] EXCEPT !.status = "claimed"]
        BY <1>3, <2>4, <3>1
      <4>2. timers[j][x] \in TimerRows
        BY <1>2
      <4> QED BY <3>1, <4>1, <4>2 DEF TimerRows
    <3>3. ~Applied(d) /\ \A r \in Schedulers : d \notin batch[r]
      BY <2>1, <3>1 DEF TimerOnce
    <3>4. \A r \in Schedulers : d \in batch'[r] => r = s
      BY <2>3, <3>3
    <3> QED BY <2>2, <3>2, <3>3, <3>4 DEF TimerOnce
  <2>5. CASE d \notin items
    <3>1. timers'[j][x] = timers[j][x]
      <4>1. Timer(j, x, timers[j][x].arm) \notin items
        BY <1>5, <2>5
      <4> QED BY <1>3, <4>1
    <3>2. \A r \in Schedulers : d \in batch'[r] => d \in batch[r]
      BY <2>3, <2>5
    <3> QED BY <2>1, <2>2, <3>1, <3>2, TimerQuiet
  <2> QED BY <2>4, <2>5
<1>8. ASSUME NEW p \in Procs PROVE MineOnce(p)'
  <2>1. CASE ~InTx(p)'
    BY <2>1, EndedOnce
  <2>2. CASE tx'[p] = tx[p] /\ ~InTx(p)
    BY <2>2, MineQuiet DEF OnceInv
  <2>3. CASE tx'[p] = tx[p] /\ InTx(p)
    <3>1. tx[p].del.inst \in Instances /\ (p \in Schedulers => tx[p].del.key \in Ids)
      BY <1>1, <2>3, InHand DEF IInv, ProcInv
    <3>2. ASSUME p \in Schedulers,
                 timers[tx[p].del.inst][tx[p].del.key].status \notin {"pending", "claimed"}
          PROVE  timers'[tx[p].del.inst][tx[p].del.key].status \notin {"pending", "claimed"}
      BY <1>3, <1>5, <3>1, <3>2
    <3>3. MineOnce(p)
      BY DEF OnceInv
    <3> QED BY <1>6, <2>3, <3>1, <3>2, <3>3, MineQuiet
  <2> QED BY <2>1, <2>2, <2>3
<1>9. \A j \in Instances : StateOnce(j)'
  BY StateQuiet DEF OnceInv
<1> QED BY <1>7, <1>8, <1>9 DEF OnceInv

\* The timer a scheduler delivers is over with its commit.
LEMMA MarkFiredOnce ==
  ASSUME IInv, OnceInv, NEW s \in Schedulers, MarkFired(s)
  PROVE  OnceInv'
<1> DEFINE id == tx[s].del.key
           v == Visible(s, id)
           new == IF v.status = "none" THEN tx[s].mine[id] ELSE [v EXCEPT !.status = "fired"]
           t == [tx[s] EXCEPT !.pc = "commit", !.mine = [@ EXCEPT ![id] = new]]
<1>1. /\ TypeOK /\ TxOK(s) /\ InTx(s) /\ MineOnce(s) /\ Arms(s) /\ s \in Procs
      /\ tx[s].pc = "fire" /\ UNCHANGED <<instances, timers, batch, outcome>>
  BY DEF IInv, ProcInv, OnceInv, Procs, MarkFired, InTx
<1> PICK i \in Instances : i = tx[s].del.inst
  BY <1>1, InHand
<1>2. id \in Ids /\ tx[s] \in Transactions /\ tx[s].mine \in Marks
  BY <1>1, InHand, TxFields
<1>3. tx' = [tx EXCEPT ![s] = t] /\ tx'[s] = t
  <2>1. tx \in [Procs -> Transactions]
    BY <1>1, TxTyped
  <2> QED BY <2>1, <1>1, <1>2 DEF MarkFired
<1>4. /\ t.pc = "commit" /\ t.del = tx[s].del
      /\ \A x \in Ids : t.mine[x] = IF x = id THEN new ELSE tx[s].mine[x]
  BY <1>2 DEF Transactions, Marks
<1>5. /\ v \in [status : TimerStatuses, arm : 0 .. MaxArms + 1]
      /\ tx[s].mine[id] = Unwritten => v = timers[i][id]
      /\ tx[s].mine[id] # Unwritten => v = tx[s].mine[id]
  BY <1>1, <1>2, VisibleRow
<1>6. v.arm >= timers[i][id].arm
  BY <1>1, <1>2, VisibleOnce
<1> HIDE DEF t
<1>7. v.status # "none" => new.status = "fired" /\ new.arm = v.arm
  BY <1>5
<1>8. v.status = "none" => new = Unwritten /\ timers[i][id].status = "none"
  <2>1. tx[s].mine[id] # Unwritten => tx[s].mine[id].status # "none"
    BY <1>1, <1>2 DEF Arms
  <2> QED BY <1>5, <2>1
<1>9. ASSUME NEW x \in Ids, t.mine[x] # Unwritten
      PROVE  /\ t.mine[x].arm >= timers[i][x].arm
             /\ t.mine[x].status = "pending" => t.mine[x].arm > timers[i][x].arm
             /\ t.mine[x].status = "fired" => s \in Schedulers /\ x = id
  <2>1. CASE x = id
    BY <1>4, <1>6, <1>7, <1>8, <1>9, <2>1
  <2>2. CASE x # id
    BY <1>1, <1>4, <1>9, <2>2 DEF MineOnce
  <2> QED BY <2>1, <2>2
<1>10. IF t.mine[id] # Unwritten THEN t.mine[id].status = "fired"
       ELSE timers[i][id].status \notin {"pending", "claimed"}
  <2>1. t.mine[id] = new
    BY <1>2, <1>4
  <2>2. CASE v.status = "none"
    BY <1>8, <2>1, <2>2
  <2>3. CASE v.status # "none"
    BY <1>7, <2>1, <2>3 DEF Unwritten
  <2> QED BY <2>2, <2>3
<1>11. MineOnce(s)'
  BY <1>1, <1>3, <1>4, <1>9, <1>10 DEF MineOnce
<1> QED BY <1>1, <1>3, <1>11, InsideOnce

-----------------------------------------------------------------------------
(* Commit, where every timer id is scheduled once.                         *)

\* The delivery in hand has not been reacted to.
LEMMA NotYet ==
  ASSUME TimersScheduledOnce, IInv, OnceInv, NEW p \in Procs, InTx(p), tx[p].row # NoRow,
         NEW m \in DOMAIN instances[tx[p].del.inst].state
  PROVE  instances[tx[p].del.inst].state[m] # tx[p].del
<1> DEFINE d == tx[p].del
<1> PICK i \in Instances : i = d.inst
  BY InHand DEF IInv, ProcInv
<1>1. TypeOK /\ TxOK(p) /\ StateOnce(i) /\ d \in Deliveries
  BY InHand DEF IInv, ProcInv, OnceInv
<1> SUFFICES ASSUME instances[i].state[m] = d PROVE FALSE
  OBVIOUS
<1>2. IF d.kind = "event" THEN d.key <= instances[i].lastPos ELSE Applied(d)
  BY <1>1 DEF StateOnce
<1>3. CASE d.kind = "event"
  <2>1. instances[i].lastPos < d.key /\ d.key <= instances[i].lastPos
    BY <1>2, <1>3, RowPasses
  <2>2. d.key \in Nat
    BY <1>1, <1>3, DeliveryFields, SagaAssumption DEF Events
  <2>3. instances[i].lastPos \in Nat
    BY <1>1, SagaAssumption DEF TypeOK, InstanceRows
  <2> QED BY <2>1, <2>2, <2>3
<1>4. CASE d.kind # "event"
  <2>1. p \in Schedulers
    BY <1>1, <1>4, InHand DEF Procs
  <2>2. d \in batch[p] /\ d = Timer(d.inst, d.key, 1) /\ d.key \in Ids
    BY <1>1, <2>1, InHand, FirstArm
  <2>3. TimerOnce(i, d.key)
    BY <2>2 DEF OnceInv
  <2>4. ~Applied(d)
    BY <2>1, <2>2, <2>3 DEF TimerOnce
  <2> QED BY <1>2, <1>4, <2>4
<1> QED BY <1>3, <1>4

\* Append keeps elements apart.
NoRepeats(s) == \A m, n \in DOMAIN s : s[m] = s[n] => m = n
Lacks(s, e) == \A m \in DOMAIN s : s[m] # e

LEMMA AppendedOnce ==
  ASSUME NEW s \in Seq(Deliveries), NEW e \in Deliveries, Lacks(s, e), NoRepeats(s)
  PROVE  NoRepeats(Append(s, e))
<1> SUFFICES ASSUME NEW m \in 1 .. Len(s) + 1, NEW n \in 1 .. Len(s) + 1,
                    Append(s, e)[m] = Append(s, e)[n]
             PROVE  m = n
  BY Appended DEF NoRepeats
<1>0. /\ \A k \in 1 .. Len(s) : s[k] # e
      /\ \A k, l \in 1 .. Len(s) : s[k] = s[l] => k = l
  BY Appended DEF Lacks, NoRepeats
<1>1. Len(s) \in Nat /\ Append(s, e)[Len(s) + 1] = e /\ \A k \in 1 .. Len(s) : Append(s, e)[k] = s[k]
  BY Appended
<1>2. \A k \in 1 .. Len(s) + 1 : k = Len(s) + 1 \/ k \in 1 .. Len(s)
  BY <1>1
<1>3. CASE m \in 1 .. Len(s) /\ n \in 1 .. Len(s)
  BY <1>0, <1>1, <1>3
<1>4. CASE m = Len(s) + 1 /\ n \in 1 .. Len(s)
  BY <1>0, <1>1, <1>4
<1>5. CASE m \in 1 .. Len(s) /\ n = Len(s) + 1
  BY <1>0, <1>1, <1>5
<1> QED BY <1>2, <1>3, <1>4, <1>5

LEMMA PublishOnce ==
  ASSUME TimersScheduledOnce, IInv, OnceInv, NEW p \in Procs, Publish(p), ~InTx(p)',
         \A q \in Procs \ {p} : tx'[q] = tx[q],
         \A s \in Schedulers : batch'[s] \subseteq batch[s],
         p \in Schedulers => tx[p].del \notin batch'[p]
  PROVE  OnceInv'
<1> DEFINE d == tx[p].del
           result == IF tx[p].row # NoRow THEN "applied" ELSE "skipped"
<1> PICK i \in Instances : i = d.inst
  BY InHand DEF IInv, ProcInv, Publish, InTx
<1>1. /\ TypeOK /\ Apart /\ InTx(p) /\ tx[p].pc = "commit" /\ d \in Deliveries
      /\ TxOK(p) /\ Arms(p) /\ MineOnce(p)
  BY InHand DEF IInv, ProcInv, OnceInv, Publish, InTx
<1>2. outcome' = outcome \cup {<<d, result>>}
  BY DEF Publish
<1>3. \A x : Applied(x)' <=> Applied(x) \/ (x = d /\ tx[p].row # NoRow)
  BY <1>2 DEF Applied
<1>4. /\ instances \in [Instances -> InstanceRows] /\ instances' \in [Instances -> InstanceRows]
      /\ timers' \in [Instances -> [Ids -> TimerRows]]
      /\ \A j \in Instances : j # i => instances'[j] = instances[j] /\ timers'[j] = timers[j]
      /\ instances'[i] = IF tx[p].row # NoRow THEN tx[p].row ELSE instances[i]
      /\ \A id \in Ids : timers'[i][id] =
           IF tx[p].mine[id] # Unwritten THEN tx[p].mine[id] ELSE timers[i][id]
  BY <1>1, PublishedTables DEF TypeOK
<1>5. \A j \in Instances, id \in Ids : timers[j][id].arm \in {0, 1} /\ timers'[j][id].arm \in {0, 1}
  <2>1. \A n \in 0 .. MaxArms : n \in {0, 1}
    BY SagaAssumption DEF TimersScheduledOnce
  <2>2. \A j \in Instances, id \in Ids : timers'[j][id] \in TimerRows
    BY <1>4
  <2> QED BY <1>1, <2>1, <2>2, FirstArm DEF TimerRows
<1>6. p \in Schedulers => d.key \in Ids /\ d = Timer(i, d.key, 1) /\ d \in batch[p]
  BY <1>1, InHand, FirstArm
<1>7. p \notin Schedulers => d.kind = "event"
  BY <1>1, InHand DEF Procs
<1>8. ASSUME NEW j \in Instances PROVE StateOnce(j)'
  <2>1. StateOnce(j) /\ outcome \subseteq outcome'
    BY <1>2 DEF OnceInv
  <2>2. CASE j # i \/ tx[p].row = NoRow
    BY <1>4, <2>1, <2>2, StateQuiet
  <2>3. CASE j = i /\ tx[p].row # NoRow
    <3> PICK old \in Seq(Deliveries) : old = instances[i].state
      BY <1>4 DEF InstanceRows
    <3> PICK new \in Seq(Deliveries) : new = instances'[i].state
      BY <1>4 DEF InstanceRows
    <3> PICK e \in Deliveries : e = d
      BY <1>1
    <3>1. new = Append(old, e)
      BY <1>1, <1>4, <2>3, RowExtends
    <3>2. /\ DOMAIN new = 1 .. Len(old) + 1 /\ DOMAIN old = 1 .. Len(old) /\ Len(old) \in Nat
          /\ \A m \in 1 .. Len(old) : new[m] = old[m]
          /\ new[Len(old) + 1] = e
      <4>1. /\ Len(old) \in Nat /\ DOMAIN old = 1 .. Len(old) /\ DOMAIN Append(old, e) = 1 .. Len(old) + 1
            /\ \A m \in 1 .. Len(old) : Append(old, e)[m] = old[m]
            /\ Append(old, e)[Len(old) + 1] = e
        BY Appended, ZenonT(30)
      <4> QED BY <3>1, <4>1
    <3>3. \A m \in 1 .. Len(old) : old[m] # e
      <4> SUFFICES ASSUME NEW m \in 1 .. Len(old) PROVE old[m] # e
        OBVIOUS
      <4>1. m \in DOMAIN instances[tx[p].del.inst].state
        BY <2>3, <3>2
      <4>2. instances[tx[p].del.inst].state[m] # tx[p].del
        BY <1>1, <2>3, <4>1, NotYet
      <4> QED BY <4>2
    <3>4. Lacks(old, e) /\ NoRepeats(old)
      BY <2>1, <2>3, <3>2, <3>3 DEF StateOnce, Lacks, NoRepeats
    <3>5. \A m \in 1 .. Len(old) + 1 : m = Len(old) + 1 \/ m \in 1 .. Len(old)
      <4>1. Len(old) \in Nat
        BY <3>2
      <4> QED BY <4>1, UpToNext
    <3>6. \A m, n \in DOMAIN new : new[m] = new[n] => m = n
      <4>1. NoRepeats(Append(old, e))
        BY <3>4, AppendedOnce
      <4> QED BY <3>1, <4>1 DEF NoRepeats
    <3>7. /\ instances'[i].lastPos = IF e.kind = "event" THEN e.key ELSE instances[i].lastPos
          /\ e.kind = "event" => instances[i].lastPos < e.key
      BY <1>1, <1>4, <2>3, RowPasses
    <3>8. instances[i].lastPos \in Nat /\ (e.kind = "event" => e.key \in Nat)
      BY <1>4, DeliveryFields, SagaAssumption, SMTT(30) DEF InstanceRows, Events
    <3>9. ASSUME NEW m \in DOMAIN new
          PROVE  IF new[m].kind = "event" THEN new[m].key <= instances'[i].lastPos ELSE Applied(new[m])'
      <4>1. CASE m = Len(old) + 1
        <5>1. Applied(e)'
          BY <1>3, <2>3
        <5>2. e.kind = "event" => e.key <= instances'[i].lastPos
          BY <3>7, <3>8
        <5>3. new[m] = e
          BY <3>2, <4>1
        <5> QED BY <5>1, <5>2, <5>3
      <4>2. CASE m \in 1 .. Len(old)
        <5>1. IF old[m].kind = "event" THEN old[m].key <= instances[i].lastPos ELSE Applied(old[m])
          BY <2>1, <2>3, <3>2, <4>2 DEF StateOnce
        <5>2. old[m] \in Deliveries
          BY <4>2, Entry
        <5>3. old[m].kind = "event" => old[m].key \in Nat
          BY <5>2, DeliveryFields, SagaAssumption DEF Events
        <5>4. CASE old[m].kind = "event"
          <6>1. old[m].key <= instances'[i].lastPos
            BY <3>7, <3>8, <5>1, <5>3, <5>4
          <6> QED BY <3>2, <4>2, <5>4, <6>1
        <5>5. CASE old[m].kind # "event"
          <6>1. Applied(old[m])'
            BY <1>3, <5>1, <5>5
          <6> QED BY <3>2, <4>2, <5>5, <6>1
        <5> QED BY <5>4, <5>5
      <4> QED BY <3>2, <3>5, <4>1, <4>2
    <3> QED BY <2>3, <3>6, <3>9 DEF StateOnce
  <2> QED BY <2>2, <2>3
<1>9. ASSUME NEW j \in Instances, NEW x \in Ids PROVE TimerOnce(j, x)'
  <2> DEFINE T == Timer(j, x, 1)
  <2>1. TimerOnce(j, x) /\ outcome \subseteq outcome'
    BY <1>2 DEF OnceInv
  <2>2. T.kind = "timer" /\ T.inst = j /\ T.key = x
    BY DEF Timer
  <2>3. CASE T = d
    <3>1. p \in Schedulers /\ j = i /\ x = d.key
      BY <1>7, <2>2, <2>3
    <3>2. timers[i][x].arm = 1 /\ \A s \in Schedulers : T \in batch[s] => s = p
      BY <1>6, <2>1, <2>3, <3>1 DEF TimerOnce
    <3>3. timers'[i][x].arm = 1 /\ timers'[i][x].status \notin {"pending", "claimed"}
      <4>1. CASE tx[p].mine[x] # Unwritten
        <5>1. tx[p].mine[x].status = "fired" /\ tx[p].mine[x].arm >= timers[i][x].arm
          BY <1>1, <3>1, <4>1 DEF MineOnce
        <5>2. timers'[i][x].status = "fired" /\ timers'[i][x].arm >= 1
          BY <1>4, <3>2, <4>1, <5>1
        <5>3. timers'[i][x].arm = 1
          BY <1>5, <5>2
        <5> QED BY <5>2, <5>3
      <4>2. CASE tx[p].mine[x] = Unwritten
        <5>1. timers[i][x].status \notin {"pending", "claimed"}
          BY <1>1, <3>1, <4>2 DEF MineOnce
        <5> QED BY <1>4, <3>2, <4>2, <5>1
      <4> QED BY <4>1, <4>2
    <3>4. \A s \in Schedulers : T \notin batch'[s]
      BY <2>3, <3>2
    <3>5. <<Timer(j, x, timers'[j][x].arm), result>> \in outcome' /\ result \in {"applied", "skipped"}
      BY <1>2, <2>3, <3>1, <3>3
    <3> HIDE DEF result
    <3> QED BY <3>1, <3>3, <3>4, <3>5 DEF TimerOnce
  <2>4. CASE T # d /\ (j # i \/ tx[p].mine[x] = Unwritten)
    <3>1. timers'[j][x] = timers[j][x]
      BY <1>4, <2>4
    <3> QED BY <1>3, <2>1, <2>4, <3>1, TimerQuiet
  <2>5. CASE T # d /\ j = i /\ tx[p].mine[x] # Unwritten
    <3>1. timers'[j][x] = tx[p].mine[x]
      BY <1>4, <2>5
    <3>2. tx[p].mine[x].status # "fired"
      BY <1>1, <1>6, <2>5 DEF MineOnce
    <3>3. tx[p].mine[x].status \in {"pending", "cancelled"}
      BY <1>1, <2>5, <3>2 DEF Arms
    <3>4. /\ timers'[j][x].arm >= timers[j][x].arm
          /\ timers'[j][x].status = "pending" => timers'[j][x].arm > timers[j][x].arm
      BY <1>1, <2>5, <3>1 DEF MineOnce
    <3>5. timers[j][x].arm = 1 => timers'[j][x].arm = 1 /\ timers'[j][x].status # "pending"
      BY <1>5, <3>4
    <3>6. timers'[j][x].status \notin {"fired", "claimed"}
      BY <3>1, <3>3
    <3>7. Applied(T)' <=> Applied(T)
      BY <1>3, <2>5
    <3> QED BY <2>1, <3>5, <3>6, <3>7 DEF TimerOnce
  <2> QED BY <2>3, <2>4, <2>5
<1>10. ASSUME NEW q \in Procs PROVE MineOnce(q)'
  <2>1. CASE q = p
    BY <2>1, EndedOnce
  <2>2. CASE q # p /\ ~InTx(q)
    BY <2>2, MineQuiet DEF OnceInv
  <2>3. CASE q # p /\ InTx(q)
    <3>1. TxOK(q) /\ tx[q].del.inst \in Instances /\ tx'[q] = tx[q] /\ MineOnce(q)
      BY <1>1, <2>3, InHand DEF IInv, ProcInv, OnceInv
    <3>2. CASE tx[q].del.inst # i
      BY <1>4, <3>1, <3>2, MineQuiet
    <3>3. CASE tx[q].del.inst = i
      <4>1. On(p, i) /\ On(q, i)
        BY <1>1, <2>3, <3>3 DEF On
      <4>2. ASSUME NEW x \in Ids, tx[q].mine[x] # Unwritten
            PROVE  timers'[i][x].arm = timers[i][x].arm
        <5>1. ~LocksTimer(p, i, x)
          BY <1>1, <2>3, <4>1, <4>2 DEF Apart, LocksTimer
        <5>2. tx[p].mine[x] = Unwritten
          BY <4>1, <5>1 DEF LocksTimer
        <5> QED BY <1>4, <5>2
      <4>3. ASSUME q \in Schedulers, timers[i][tx[q].del.key].status \notin {"pending", "claimed"}
            PROVE  timers'[i][tx[q].del.key].status \notin {"pending", "claimed"}
        <5> DEFINE x == tx[q].del.key
        <5>1. x \in Ids /\ tx[q].del \in batch[q]
          BY <1>1, <2>3, <3>1, <4>3, InHand
        <5>2. tx[q].del = Timer(i, x, 1)
          BY <1>1, <3>3, <4>3, <5>1, FirstArm
        <5>3. TimerOnce(i, x)
          BY <5>1 DEF OnceInv
        <5>4. timers[i][x].arm = 1
          BY <4>3, <5>1, <5>2, <5>3 DEF TimerOnce
        <5>5. CASE tx[p].mine[x] = Unwritten
          BY <1>4, <4>3, <5>1, <5>5
        <5>6. CASE tx[p].mine[x] # Unwritten
          <6>1. timers'[i][x] = tx[p].mine[x]
            BY <1>4, <5>1, <5>6
          <6>2. tx[p].mine[x].status = "pending" => timers'[i][x].arm > 1
            BY <1>1, <5>1, <5>4, <5>6, <6>1 DEF MineOnce
          <6>3. tx[p].mine[x].status # "pending"
            BY <1>5, <5>1, <6>2
          <6>4. tx[p].mine[x].status \in {"pending", "cancelled", "fired"}
            BY <1>1, <5>1, <5>6 DEF Arms
          <6> QED BY <6>1, <6>3, <6>4
        <5> QED BY <5>5, <5>6
      <4> QED BY <3>1, <3>3, <4>2, <4>3, MineQuiet
    <3> QED BY <3>2, <3>3
  <2> QED BY <2>1, <2>2, <2>3
<1> QED BY <1>8, <1>9, <1>10 DEF OnceInv

LEMMA CommitOnce ==
  ASSUME TimersScheduledOnce, IInv, OnceInv, NEW p \in Procs, Commit(p) \/ CommitUnknown(p)
  PROVE  OnceInv'
<1>1. TypeOK /\ Publish(p)
  BY DEF IInv, Commit, CommitUnknown
<1>2. PICK pc \in {"idle", "down"} : Ends(p, pc) /\ (p \in Workers => pc = "idle")
  BY SagaAssumption DEF Commit, CommitUnknown, Stops
<1>3. ~InTx(p)' /\ \A q \in Procs \ {p} : tx'[q] = tx[q]
  <2>1. ~InTx(p)'
    BY <1>1, <1>2, Ended
  <2>2. \A q \in Procs \ {p} : tx'[q] = tx[q]
    BY <1>2 DEF Ends
  <2> QED BY <2>1, <2>2
<1>4. /\ \A s \in Schedulers : batch'[s] \subseteq batch[s]
      /\ p \in Schedulers => tx[p].del \notin batch'[p]
  <2>1. CASE Commit(p)
    BY <1>1, <2>1 DEF Commit, TypeOK
  <2>2. CASE CommitUnknown(p)
    BY <1>1, <2>2 DEF CommitUnknown, Stops, TypeOK
  <2> QED BY <2>1, <2>2
<1> QED BY <1>1, <1>3, <1>4, PublishOnce

LEMMA CleanInstanceOnce ==
  ASSUME IInv, OnceInv, CleanInstance
  PROVE  OnceInv'
<1>1. PICK i \in Instances : /\ instances' = [instances EXCEPT ![i] = NoRow]
                             /\ UNCHANGED <<timers, open, batch, tx, outcome>>
  BY DEF CleanInstance
<1>2. \A j \in Instances : instances'[j] = instances[j] \/ instances'[j] = NoRow
  BY <1>1 DEF IInv, TypeOK
<1>3. \A j \in Instances : StateOnce(j)'
  BY <1>1, <1>2, StateQuiet DEF OnceInv
<1>4. \A j \in Instances, x \in Ids : TimerOnce(j, x)'
  <2>1. \A d : Applied(d)' <=> Applied(d)
    BY <1>1 DEF Applied
  <2> QED BY <1>1, <2>1, TimerQuiet DEF OnceInv
<1>5. \A p \in Procs : MineOnce(p)'
  BY <1>1, MineQuiet DEF OnceInv
<1> QED BY <1>3, <1>4, <1>5 DEF OnceInv

LEMMA SchedulerOnce ==
  ASSUME TimersScheduledOnce, IInv, OnceInv, NEW s \in Schedulers,
         SchedulerStep(s) \/ ClaimUnknown(s) \/ Orphan(s) \/ Restart(s)
  PROVE  OnceInv'
<1>1. TypeOK /\ s \in Procs /\ s \notin Workers
  BY SagaAssumption DEF IInv, Procs
<1>2. CASE Claim(s)
  <2>1. PICK items \in Batches : Claimed(items) /\ batch' = [batch EXCEPT ![s] = items]
    BY <1>2 DEF Claim
  <2>2. batch[s] = {} /\ UNCHANGED <<instances, tx, outcome>>
    BY <1>2 DEF Claim
  <2> QED BY <2>1, <2>2, ClaimedOnce
<1>3. CASE ClaimUnknown(s)
  <2>1. PICK items \in Batches : Claimed(items)
    BY <1>3 DEF ClaimUnknown
  <2>2. Ends(s, "down") /\ UNCHANGED <<instances, batch, outcome>>
    BY <1>3 DEF ClaimUnknown
  <2>3. ~InTx(s)' /\ \A p \in Procs : p # s => tx'[p] = tx[p]
    <3>1. ~InTx(s)'
      BY <1>1, <2>2, Ended
    <3>2. \A p \in Procs : p # s => tx'[p] = tx[p]
      BY <2>2 DEF Ends
    <3> QED BY <3>1, <3>2
  <2>4. \A p \in Procs : tx'[p] = tx[p] \/ ~InTx(p)'
    BY <2>3
  <2>5. UNCHANGED <<instances, outcome>>
    BY <2>2
  <2>6. batch' = batch \/ (batch[s] = {} /\ batch' = [batch EXCEPT ![s] = items])
    BY <2>2
  <2> QED BY <2>1, <2>4, <2>5, <2>6, ClaimedOnce
<1>4. CASE DeliverTimer(s)
  <2>1. PICK d \in batch[s] : Begin(s, d, IF instances[d.inst].status = "active" THEN "react" ELSE "fire")
    BY <1>4 DEF DeliverTimer
  <2>2. UNCHANGED <<instances, timers, batch, outcome>>
    BY <1>4 DEF DeliverTimer
  <2> DEFINE pc == IF instances[d.inst].status = "active" THEN "react" ELSE "fire"
  <2>3. pc \in {"insert", "react", "fire"} /\ Begin(s, d, pc)
    BY <2>1
  <2> HIDE DEF pc
  <2> QED BY <1>1, <2>2, <2>3, BeginOnce
<1>5. CASE MarkFired(s) \/ Release(s) \/ Orphan(s)
  BY <1>5, MarkFiredOnce, ReleaseOnce, OrphanOnce
<1>6. CASE Restart(s)
  <2>1. Ends(s, "idle") /\ UNCHANGED <<instances, timers, batch, outcome>>
    BY <1>6 DEF Restart
  <2> QED BY <1>1, <2>1, EndsOnce
<1> QED BY <1>2, <1>3, <1>4, <1>5, <1>6 DEF SchedulerStep

LEMMA InitOnce == Init => OnceInv
<1> SUFFICES ASSUME Init PROVE OnceInv
  OBVIOUS
<1>1. \A d : ~Applied(d)
  BY DEF Init, Applied
<1>2. ASSUME NEW i \in Instances PROVE StateOnce(i)
  <2>1. instances[i].state = <<>>
    BY DEF Init, NoRow
  <2>2. DOMAIN instances[i].state = {}
    BY <2>1
  <2> QED BY <2>2 DEF StateOnce
<1>3. ASSUME NEW i \in Instances, NEW id \in Ids PROVE TimerOnce(i, id)
  BY <1>1 DEF Init, TimerOnce, NoTimer
<1>4. ASSUME NEW p \in Procs PROVE MineOnce(p)
  <2>1. tx[p] = Idle /\ Idle.pc = "idle"
    BY IdleType DEF Init
  <2> QED BY <2>1 DEF MineOnce, InTx
<1> QED BY <1>2, <1>3, <1>4 DEF OnceInv

LEMMA NextOnce ==
  ASSUME TimersScheduledOnce, IInv, OnceInv, [Next]_vars
  PROVE  OnceInv'
<1>1. TypeOK
  BY DEF IInv
<1>2. CASE UNCHANGED vars
  <2>1. \A d : Applied(d)' <=> Applied(d)
    BY <1>2 DEF vars, Applied
  <2> QED BY <1>2, <2>1, QuietStep DEF vars
<1>3. ASSUME NEW w \in Workers, WorkerStep(w) PROVE OnceInv'
  BY <1>3, WorkerOnce
<1>4. ASSUME NEW s \in Schedulers, SchedulerStep(s) \/ ClaimUnknown(s) \/ Orphan(s) \/ Restart(s)
      PROVE  OnceInv'
  BY <1>4, SchedulerOnce
<1>5. ASSUME NEW p \in Procs, TransactionStep(p) \/ CommitUnknown(p) \/ Error(p) \/ Deadlock(p)
      PROVE  OnceInv'
  <2>1. CASE Error(p) \/ Deadlock(p)
    <3>1. Stops(p) /\ UNCHANGED <<instances, timers, outcome>>
      BY <2>1 DEF Error, Deadlock
    <3> QED BY <1>1, <3>1, StopsOnce
  <2>2. CASE Commit(p) \/ CommitUnknown(p)
    BY <2>2, CommitOnce
  <2>3. CASE React(p) \/ Cancel(p) \/ Schedule(p) \/ Update(p) \/ Concurrent(p)
    BY <2>3, ReactOnce, CancelOnce, ScheduleOnce, UpdateOnce, ConcurrentOnce
  <2> QED BY <1>5, <2>1, <2>2, <2>3 DEF TransactionStep
<1>6. CASE Watchdog \/ CleanTimer \/ CleanInstance
  BY <1>6, WatchdogOnce, CleanTimerOnce, CleanInstanceOnce
<1>7. CASE Replay
  <2>1. UNCHANGED <<instances, timers, batch, tx, outcome>>
    BY <1>7 DEF Replay
  <2>2. \A d : Applied(d)' <=> Applied(d)
    BY <2>1 DEF Applied
  <2> QED BY <2>1, <2>2, QuietStep
<1> QED BY <1>2, <1>3, <1>4, <1>5, <1>6, <1>7 DEF Next

(* Each delivery is made and counts once, whatever is claimed, delivered   *)
(* or replayed twice: no event and no timer is reacted to twice, and no    *)
(* timer is marked fired that was not handed to its saga, as long as no    *)
(* saga schedules a timer id again (saga-timer-scheduler.ts:242-249).      *)
THEOREM Once ==
  ASSUME TimersScheduledOnce
  PROVE  Spec => []DeliversOnce
<1>1. Init => IInv /\ OnceInv
  BY InitHolds, InitOnce
<1>2. IInv /\ OnceInv /\ [Next]_vars => IInv' /\ OnceInv'
  BY NextKeeps, NextOnce
<1>3. OnceInv => DeliversOnce
  BY DEF OnceInv, DeliversOnce, ReactsOnce, FiredWasDelivered, StateOnce, TimerOnce
<1> QED BY <1>1, <1>2, <1>3, PTL DEF Spec

=============================================================================
