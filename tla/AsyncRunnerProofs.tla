-------------------------- MODULE AsyncRunnerProofs --------------------------
(* Proofs about AsyncRunner, for every value of its constants.             *)
EXTENDS AsyncRunnerProperties, FiniteSetTheorems, TLAPS

-----------------------------------------------------------------------------
(* Type correctness.                                                       *)

\* The initial state is well typed.
LEMMA TypeInit == Init => TypeOK
<1> SUFFICES ASSUME Init PROVE TypeOK
  OBVIOUS
<1>0. nextPos \in 1 .. MaxPos + 1 /\ budget \in Nat
  <2>1. PICK d \in Deployments : budget = d.disruptions /\ nextPos = d.first
    BY DEF Init
  <2>2. d.disruptions \in Nat /\ d.first \in Positions
    BY RunnerAssumption
  <2> QED BY <2>1, <2>2, BoundsAssumption DEF Positions
<1>1. OutboxTypeOK
  BY <1>0, BoundsAssumption, RowAssumption DEF Init, OutboxInit, OutboxTypeOK, Ids
<1>2. RunnerTypeOK
  BY RunnerAssumption DEF Init, RunnerTypeOK, NoWrites, NoRow
<1> QED BY <1>1, <1>2 DEF TypeOK

\* Writers and operators keep the tables well typed.
LEMMA TypeOutboxStep ==
  ASSUME OutboxTypeOK, OutboxNext PROVE OutboxTypeOK'
<1> USE DEF OutboxTypeOK, rowVars, eventVars
<1>1. CASE AppendEvent
  BY <1>1, BoundsAssumption DEF AppendEvent, Positions
<1>2. CASE \E gp \in Positions : EnqueueOutbox(gp)
  BY <1>2, BoundsAssumption DEF EnqueueOutbox, Ids
<1>3. CASE \E gp \in Positions : CommitAppend(gp)
  BY <1>3 DEF CommitAppend
<1>4. CASE \E gp \in Positions : RollbackAppend(gp)
  BY <1>4 DEF RollbackAppend, Disrupt
<1>5. CASE \E gp \in Positions : Dismiss(gp)
  BY <1>5 DEF Dismiss, Disrupt, Loadable
<1>6. CASE \E gp \in Positions : DetachPartition(gp)
  BY <1>6 DEF DetachPartition, Disrupt
<1>7. CASE \E t \in Tenants, from, to \in Positions : Requeue(t, from, to)
  <2>1. PICK t \in Tenants, from, to \in Positions : Requeue(t, from, to)
    BY <1>7
  <2> DEFINE items == DlqRange(t, from, to)
             fresh == {id \in items : rowPos[id] \notin PositionsOf(outbox)}
  <2>2. fresh \subseteq Ids
    BY DEF DlqRange
  <2>3. Cardinality(fresh) \in Nat
    <3>1. IsFiniteSet(Ids)
      BY FS_Interval, BoundsAssumption DEF Ids
    <3>2. IsFiniteSet(fresh)
      BY <2>2, <3>1, FS_Subset
    <3> QED BY <3>2, FS_CardinalityType
  <2>4. PICK new \in [fresh -> nextId .. nextId + Cardinality(fresh) - 1] :
          /\ rowPos' = [id \in Ids |->
               IF \E a \in fresh : new[a] = id
               THEN rowPos[CHOOSE a \in fresh : new[a] = id] ELSE rowPos[id]]
          /\ outbox' = outbox \cup {new[a] : a \in fresh}
    BY <2>1 DEF Requeue
  <2>5. outbox' \subseteq Ids
    BY <2>1, <2>4 DEF Requeue
  <2>6. rowPos' \in [Ids -> Positions \cup {0}]
    BY <2>2, <2>4
  <2>7. nextId' \in 1 .. MaxId + 1
    <3>1. /\ nextId' = nextId + Cardinality(fresh)
          /\ nextId .. nextId + Cardinality(fresh) - 1 \subseteq 1 .. MaxId
      BY <2>1 DEF Requeue, Ids
    <3>2. CASE Cardinality(fresh) = 0
      BY <3>1, <3>2
    <3>3. CASE Cardinality(fresh) # 0
      <4>1. nextId + Cardinality(fresh) - 1 \in nextId .. nextId + Cardinality(fresh) - 1
        BY <2>3, <3>3
      <4> QED BY <2>3, <3>1, <4>1, BoundsAssumption
    <3> QED BY <3>2, <3>3
  <2>8. budget' \in Nat /\ dlq' \subseteq Ids
    BY <2>1 DEF Requeue, Disrupt
  <2> QED BY <2>1, <2>5, <2>6, <2>7, <2>8 DEF Requeue
<1>8. CASE \E t \in Tenants : Purge(t)
  <2>1. PICK t \in Tenants : Purge(t)
    BY <1>8
  <2>2. PositionsOf(DlqRange(t, 1, MaxPos)) \subseteq Positions
    BY BoundsAssumption DEF PositionsOf, DlqRange, Positions
  <2> QED BY <2>1, <2>2 DEF Purge, Disrupt
<1> QED BY <1>1, <1>2, <1>3, <1>4, <1>5, <1>6, <1>7, <1>8 DEF OutboxNext

\* Ending a transaction keeps the runner's variables well typed.
LEMMA EndTxType ==
  ASSUME RunnerTypeOK, NEW w \in Workers, NEW rows \in SUBSET Ids, EndTx(w, rows)
  PROVE  /\ unit' \in [Workers -> SUBSET Ids] /\ todo' \in [Workers -> SUBSET Ids]
         /\ acked' \in [Workers -> SUBSET Ids] /\ dead' \in [Workers -> SUBSET Ids]
         /\ step' \in [Workers -> 1 .. NumProjections + 1]
         /\ handled' \in [Workers -> SUBSET Pairs]
         /\ wrote' \in [Workers -> [Keys -> Nat \cup {NoRow}]]
BY RunnerAssumption DEF EndTx, RunnerTypeOK, NoWrites

\* The row being processed is one whose event was loaded.
LEMMA TodoRow ==
  ASSUME IInv, NEW w \in Workers, NEW row \in todo[w]
  PROVE  /\ row \in Ids /\ row \in unit[w] /\ row \in claimed[w]
         /\ rowPos[row] \in events /\ rowPos[row] \in Positions
         /\ InTx(w) /\ row \in outbox
BY DEF IInv, TypeOK, OutboxTypeOK, RunnerTypeOK, ClaimInv, TxInv, TxOK, InTx

\* The checkpoint a worker is at is a checkpoint, and its run a pair.
LEMMA KeyType ==
  ASSUME IInv, NEW w \in Workers, NEW row \in todo[w],
         pc[w] \in {"insert", "handle", "set"}
  PROVE  /\ step[w] \in Projections /\ KeyOf(w, row) \in Keys
         /\ <<step[w], rowPos[row]>> \in Pairs
<1>1. step[w] \in Projections
  <2>1. step[w] \in 1 .. NumProjections + 1
    BY DEF IInv, TypeOK, RunnerTypeOK
  <2>2. step[w] <= NumProjections
    BY DEF IInv, TxInv, TxOK, InTx
  <2> QED BY <2>1, <2>2, RunnerAssumption DEF Projections
<1>2. rowPos[row] \in Positions /\ TenantOf[rowPos[row]] \in Tenants
  BY TodoRow, RowAssumption
<1> QED BY <1>1, <1>2 DEF KeyOf, Keys, Pairs

\* Counting a handler invocation keeps calls well typed.
LEMMA CalledType ==
  ASSUME IInv, NEW w \in Workers, NEW row \in todo[w], Called(w, row),
         pc[w] \in {"insert", "handle", "set"}
  PROVE  calls' \in [Projections \X Ids -> Nat]
<1>1. <<step[w], row>> \in Projections \X Ids
  BY KeyType, TodoRow
<1>2. calls \in [Projections \X Ids -> Nat]
  BY DEF IInv, TypeOK, RunnerTypeOK
<1>3. calls[<<step[w], row>>] + 1 \in Nat
  BY <1>1, <1>2
<1> QED BY <1>2, <1>3 DEF Called

\* A step that leaves the tables alone keeps them well typed.
LEMMA TypeOffRunner ==
  ASSUME OutboxTypeOK, UNCHANGED offRunner, UNCHANGED rowVars, budget' \in Nat
  PROVE  OutboxTypeOK'
BY DEF OutboxTypeOK, offRunner, eventVars, rowVars

\* BeginTx deals its rows out: dead, acked unprocessed, to do.
DealOut(w, rows, d, k, t) ==
  /\ unit' = [unit EXCEPT ![w] = rows] /\ dead' = [dead EXCEPT ![w] = d]
  /\ acked' = [acked EXCEPT ![w] = k] /\ todo' = [todo EXCEPT ![w] = t]
  /\ d \subseteq rows /\ k \subseteq rows /\ t \subseteq rows
  /\ d \cap (k \cup t) = {}
  /\ \A id \in d : rowPos[id] \in Loadable => attempts[id] > MaxAttempts
  /\ \A id \in t : ~(attempts[id] > MaxAttempts)

\* BeginTx deals the rows of one unit out as DealOut says.
LEMMA BeginTxRows ==
  ASSUME NEW w \in Workers, BeginTx(w)
  PROVE  \E rows \in Units(w) : \E d, k, t : DealOut(w, rows, d, k, t)
<1>1. PICK rows \in Units(w) :
        LET spent   == {id \in rows : attempts[id] > MaxAttempts}
            found   == {id \in rows \ spent : rowPos[id] \in Loadable}
            missing == rows \ (spent \cup found)
            skipped == {id \in found : rowPos[id] \in dismissed /\ ~IncludeDismissed}
        IN /\ unit' = [unit EXCEPT ![w] = rows]
           /\ dead' = [dead EXCEPT ![w] = spent \cup (IF Mode[w] = "perRow" THEN missing ELSE {})]
           /\ acked' = [acked EXCEPT ![w] = skipped]
           /\ todo' = [todo EXCEPT ![w] = found \ skipped]
  BY DEF BeginTx
<1> DEFINE spent   == {id \in rows : attempts[id] > MaxAttempts}
           found   == {id \in rows \ spent : rowPos[id] \in Loadable}
           missing == rows \ (spent \cup found)
           d == spent \cup (IF Mode[w] = "perRow" THEN missing ELSE {})
           k == {id \in found : rowPos[id] \in dismissed /\ ~IncludeDismissed}
           t == found \ k
<1>2. d \subseteq rows /\ k \subseteq rows /\ t \subseteq rows
  OBVIOUS
<1>3. /\ unit' = [unit EXCEPT ![w] = rows] /\ dead' = [dead EXCEPT ![w] = d]
      /\ acked' = [acked EXCEPT ![w] = k] /\ todo' = [todo EXCEPT ![w] = t]
  BY <1>1
<1>4. d \cap (k \cup t) = {}
  OBVIOUS
<1>5. /\ \A id \in d : rowPos[id] \in Loadable => attempts[id] > MaxAttempts
      /\ \A id \in t : ~(attempts[id] > MaxAttempts)
  OBVIOUS
<1>6. DealOut(w, rows, d, k, t)
  BY <1>2, <1>3, <1>4, <1>5 DEF DealOut
<1> HIDE DEF d, k, t
<1> QED BY <1>6

\* Both checkpoint statements write one key, with a number or not at all.
LEMMA WroteNat ==
  ASSUME IInv, NEW w \in Workers, InsertCheckpoint(w) \/ SetCheckpoint(w)
  PROVE  \E row \in todo[w], n \in Nat \cup {NoRow} :
           wrote' = [wrote EXCEPT ![w][KeyOf(w, row)] = n]
<1>1. CASE InsertCheckpoint(w)
  <2>1. PICK row \in todo[w] :
          wrote' = [wrote EXCEPT ![w][KeyOf(w, row)] = IF Visible(w, KeyOf(w, row)) = NoRow THEN 0 ELSE @]
    BY <1>1 DEF InsertCheckpoint
  <2>2. KeyOf(w, row) \in Keys
    BY <1>1, <2>1, KeyType DEF InsertCheckpoint
  <2>3. wrote[w][KeyOf(w, row)] \in Nat \cup {NoRow}
    BY <2>2 DEF IInv, TypeOK, RunnerTypeOK
  <2> QED BY <2>1, <2>3
<1>2. CASE SetCheckpoint(w)
  <2>1. PICK row \in todo[w] :
          wrote' = [wrote EXCEPT ![w][KeyOf(w, row)] =
                      IF Visible(w, KeyOf(w, row)) <= rowPos[row]
                      THEN rowPos[row] ELSE Visible(w, KeyOf(w, row))]
    BY <1>2 DEF SetCheckpoint
  <2>2. KeyOf(w, row) \in Keys
    BY <1>2, <2>1, KeyType DEF SetCheckpoint
  <2>3. Visible(w, KeyOf(w, row)) \in Nat \cup {NoRow} /\ rowPos[row] \in Nat
    BY <2>1, <2>2, TodoRow DEF Visible, IInv, TypeOK, RunnerTypeOK, Positions
  <2> QED BY <2>1, <2>3
<1> QED BY <1>1, <1>2

\* Workers and their failures keep the state well typed.
LEMMA TypeWorkerStep ==
  ASSUME IInv, NEW w \in Workers, WorkerStep(w) \/ WorkerFault(w)
  PROVE  TypeOK'
<1> USE DEF IInv, TypeOK
<1>1. CASE ClaimBatch(w) \/ ClaimUnknown(w)
  <2> DEFINE batch == LowestIds(Claimable(ClaimTopic[w]), BatchSize)
  <2>1. batch \subseteq Ids
    BY DEF LowestIds, Claimable, OutboxTypeOK
  <2>2. LockRows(w, batch) /\ UNCHANGED offRunner /\ budget' \in Nat
    BY <1>1 DEF ClaimBatch, ClaimUnknown, Disrupt, OutboxTypeOK
  <2>3. OutboxTypeOK'
    BY <2>2 DEF LockRows, offRunner, eventVars, OutboxTypeOK
  <2>4. RunnerTypeOK'
    BY <1>1, <2>1, ZenonT(60) DEF ClaimBatch, ClaimUnknown, GoTo, RunnerTypeOK, txVars, runnerVars
  <2> QED BY <2>3, <2>4
<1>2. CASE BeginTx(w)
  <2>1. OutboxTypeOK'
    BY <1>2, TypeOffRunner DEF BeginTx, published, OutboxTypeOK
  <2>2. PICK rows, d, k, t : rows \in Units(w) /\ DealOut(w, rows, d, k, t)
    BY <1>2, BeginTxRows
  <2>3. rows \subseteq Ids
    BY <2>2 DEF Units, RunnerTypeOK
  <2>4. /\ unit' \in [Workers -> SUBSET Ids] /\ todo' \in [Workers -> SUBSET Ids]
        /\ acked' \in [Workers -> SUBSET Ids] /\ dead' \in [Workers -> SUBSET Ids]
    BY <2>2, <2>3 DEF DealOut, RunnerTypeOK
  <2>5. RunnerTypeOK'
    BY <1>2, <2>4 DEF BeginTx, GoTo, published, RunnerTypeOK
  <2> QED BY <2>1, <2>5
<1>3. CASE SkipProjection(w) \/ ReadCheckpoint(w)
  <2>1. OutboxTypeOK'
    BY <1>3, TypeOffRunner DEF SkipProjection, ReadCheckpoint, published, OutboxTypeOK
  <2>2. step' \in [Workers -> 1 .. NumProjections + 1]
    <3>1. CASE SkipProjection(w)
      <4>1. step[w] \in 1 .. NumProjections + 1 /\ step[w] <= NumProjections
        BY <3>1 DEF SkipProjection, RunnerTypeOK
      <4>2. step[w] + 1 \in 1 .. NumProjections + 1
        BY <4>1, RunnerAssumption
      <4> QED BY <3>1, <4>2 DEF SkipProjection, RunnerTypeOK
    <3>2. CASE ReadCheckpoint(w)
      BY <3>2 DEF ReadCheckpoint, txVars, RunnerTypeOK
    <3> QED BY <1>3, <3>1, <3>2
  <2>3. RunnerTypeOK'
    BY <1>3, <2>2 DEF SkipProjection, ReadCheckpoint, GoTo, published, txVars, RunnerTypeOK
  <2> QED BY <2>1, <2>3
<1>4. CASE InsertCheckpoint(w) \/ SetCheckpoint(w)
  <2>1. OutboxTypeOK'
    BY <1>4, TypeOffRunner DEF InsertCheckpoint, SetCheckpoint, published, OutboxTypeOK
  <2>2. PICK row \in todo[w], n \in Nat \cup {NoRow} :
          wrote' = [wrote EXCEPT ![w][KeyOf(w, row)] = n]
    BY <1>4, WroteNat
  <2>3. wrote' \in [Workers -> [Keys -> Nat \cup {NoRow}]]
    BY <2>2 DEF RunnerTypeOK
  <2>4. step' \in [Workers -> 1 .. NumProjections + 1]
    <3>1. CASE InsertCheckpoint(w)
      BY <3>1 DEF InsertCheckpoint, RunnerTypeOK
    <3>2. CASE SetCheckpoint(w)
      <4>1. step[w] \in Projections
        BY <3>2, KeyType DEF SetCheckpoint
      <4>2. step[w] + 1 \in 1 .. NumProjections + 1
        BY <4>1, RunnerAssumption DEF Projections
      <4> QED BY <3>2, <4>2 DEF SetCheckpoint, RunnerTypeOK
    <3> QED BY <1>4, <3>1, <3>2
  <2>5. RunnerTypeOK'
    BY <1>4, <2>3, <2>4 DEF InsertCheckpoint, SetCheckpoint, GoTo, published, RunnerTypeOK
  <2> QED BY <2>1, <2>5
<1>5. CASE HandleEvent(w)
  <2>1. OutboxTypeOK'
    BY <1>5, TypeOffRunner DEF HandleEvent, published, OutboxTypeOK
  <2>2. PICK row \in todo[w] :
          /\ handled' = [handled EXCEPT ![w] = @ \cup {<<step[w], rowPos[row]>>}]
          /\ calls' = [calls EXCEPT ![<<step[w], row>>] = @ + 1]
    BY <1>5 DEF HandleEvent, Called
  <2>3. <<step[w], rowPos[row]>> \in Pairs
    BY <1>5, <2>2, KeyType DEF HandleEvent
  <2>4. handled' \in [Workers -> SUBSET Pairs]
    BY <2>2, <2>3 DEF RunnerTypeOK
  <2>5. calls' \in [Projections \X Ids -> Nat]
    BY <1>5, <2>2, CalledType DEF HandleEvent, Called
  <2>6. RunnerTypeOK'
    BY <1>5, <2>4, <2>5 DEF HandleEvent, GoTo, published, RunnerTypeOK
  <2> QED BY <2>1, <2>6
<1>6. CASE HandlerThrows(w)
  <2>1. OutboxTypeOK'
    BY <1>6, TypeOffRunner DEF HandlerThrows, published, OutboxTypeOK
  <2>2. calls' \in [Projections \X Ids -> Nat]
    BY <1>6, CalledType DEF HandlerThrows
  <2>3. RunnerTypeOK'
    BY <1>6, <2>2, EndTxType DEF HandlerThrows, GoTo, published, RunnerTypeOK
  <2> QED BY <2>1, <2>3
<1>7. CASE AckRow(w)
  <2>1. OutboxTypeOK'
    BY <1>7, TypeOffRunner DEF AckRow, published, OutboxTypeOK
  <2>2. RunnerTypeOK'
    BY <1>7, RunnerAssumption DEF AckRow, published, RunnerTypeOK
  <2> QED BY <2>1, <2>2
<1>8. CASE CommitTx(w) \/ CommitUnknown(w)
  <2>1. Publish(w) /\ UNCHANGED offRunner /\ budget' \in Nat
    BY <1>8 DEF CommitTx, CommitUnknown, Disrupt, OutboxTypeOK
  <2>2. OutboxTypeOK'
    BY <2>1 DEF Publish, RemoveRows, offRunner, eventVars, OutboxTypeOK, RunnerTypeOK
  <2>3. ckpt' \in [Keys -> Nat \cup {NoRow}] /\ effects' \in [Pairs -> Nat]
    BY <2>1 DEF Publish, RunnerTypeOK
  <2>4. PICK rows \in SUBSET Ids : EndTx(w, rows)
    BY <1>8 DEF CommitTx, CommitUnknown, RunnerTypeOK
  <2>5. /\ unit' \in [Workers -> SUBSET Ids] /\ todo' \in [Workers -> SUBSET Ids]
        /\ acked' \in [Workers -> SUBSET Ids] /\ dead' \in [Workers -> SUBSET Ids]
        /\ step' \in [Workers -> 1 .. NumProjections + 1]
        /\ handled' \in [Workers -> SUBSET Pairs]
        /\ wrote' \in [Workers -> [Keys -> Nat \cup {NoRow}]]
    BY <2>4, EndTxType
  <2>6. claimed' \in [Workers -> SUBSET Ids] /\ UNCHANGED calls
    BY <1>8 DEF CommitTx, CommitUnknown, RunnerTypeOK
  <2>7. PICK label \in {"poll", "begin", "release"} : GoTo(w, label)
    BY <1>8 DEF CommitTx, CommitUnknown
  <2>8. RunnerTypeOK'
    BY <2>3, <2>5, <2>6, <2>7 DEF GoTo, RunnerTypeOK
  <2> QED BY <2>2, <2>8
<1>9. CASE ReleaseRows(w)
  <2>1. OutboxTypeOK'
    BY <1>9 DEF ReleaseRows, UnlockRows, offRunner, eventVars, OutboxTypeOK
  <2>2. RunnerTypeOK'
    BY <1>9, EndTxType DEF ReleaseRows, GoTo, RunnerTypeOK
  <2> QED BY <2>1, <2>2
<1>10. CASE DbError(w) \/ DeadlockVictim(w)
  <2>1. OutboxTypeOK'
    BY <1>10, TypeOffRunner DEF DbError, DeadlockVictim, Disrupt, published, OutboxTypeOK
  <2>2. RunnerTypeOK'
    BY <1>10, EndTxType DEF DbError, DeadlockVictim, GoTo, published, RunnerTypeOK
  <2> QED BY <2>1, <2>2
<1>11. CASE ReleaseFails(w) \/ Crash(w) \/ Abort(w)
  <2>1. OutboxTypeOK'
    BY <1>11, TypeOffRunner DEF ReleaseFails, Crash, Abort, Disrupt, published, OutboxTypeOK
  <2>2. RunnerTypeOK'
    BY <1>11, EndTxType DEF ReleaseFails, Crash, Abort, GoTo, published, txVars, RunnerTypeOK
  <2> QED BY <2>1, <2>2
<1> QED BY <1>1, <1>2, <1>3, <1>4, <1>5, <1>6, <1>7, <1>8, <1>9, <1>10, <1>11
        DEF WorkerStep, WorkerFault

-----------------------------------------------------------------------------
(* The rows.                                                               *)

\* What a requeue does to the tables: the items move, position by position,
\* to ids never used before.
Requeued(items, new) ==
  /\ items \subseteq dlq /\ items # {}
  /\ new \subseteq Ids /\ \A n \in new : nextId <= n /\ n < nextId'
  /\ nextId <= nextId'
  /\ outbox' = outbox \cup new
  /\ dlq' = dlq \ items
  /\ \A id \in Ids \ new : rowPos'[id] = rowPos[id]
  /\ \A n \in new : \E a \in items : rowPos'[n] = rowPos[a]
  /\ \A a \in items : \E n \in new : rowPos'[n] = rowPos[a]
  /\ \A m, n \in new : rowPos'[m] = rowPos'[n] => m = n

\* A requeue changes the tables as Requeued says.
LEMMA RequeueRows ==
  ASSUME IInv, NEW t \in Tenants, NEW from \in Positions, NEW to \in Positions,
         Requeue(t, from, to)
  PROVE  \E items, new : Requeued(items, new)
<1> USE DEF IInv, TypeOK, OutboxTypeOK
<1> DEFINE items == DlqRange(t, from, to)
           fresh == {id \in items : rowPos[id] \notin PositionsOf(outbox)}
<1>1. items \subseteq dlq /\ items \subseteq Ids
  BY DEF DlqRange
<1>2. fresh = items
  BY <1>1 DEF PositionsOf, RowInv
<1>3. Cardinality(fresh) \in Nat
  <2>1. IsFiniteSet(Ids)
    BY FS_Interval, BoundsAssumption DEF Ids
  <2> QED BY <1>1, <2>1, FS_Subset, FS_CardinalityType
<1>4. PICK new \in [fresh -> nextId .. nextId + Cardinality(fresh) - 1] :
        /\ \A a, b \in fresh : rowPos[a] < rowPos[b] => new[a] < new[b]
        /\ rowPos' = [id \in Ids |->
             IF \E a \in fresh : new[a] = id
             THEN rowPos[CHOOSE a \in fresh : new[a] = id] ELSE rowPos[id]]
        /\ outbox' = outbox \cup {new[a] : a \in fresh}
  BY DEF Requeue
<1>5. /\ items # {} /\ nextId' = nextId + Cardinality(fresh) /\ dlq' = dlq \ items
      /\ nextId .. nextId + Cardinality(fresh) - 1 \subseteq Ids
  BY DEF Requeue
<1> DEFINE ids == {new[a] : a \in fresh}
           last == nextId + Cardinality(fresh) - 1
<1>a. nextId \in Int /\ last \in Int /\ nextId' = last + 1 /\ nextId <= last + 1
  BY <1>3, <1>5
<1>b. \A a \in fresh : new[a] \in Int /\ nextId <= new[a] /\ new[a] <= last /\ new[a] \in Ids
  <2> HIDE DEF last
  <2> SUFFICES ASSUME NEW a \in fresh
               PROVE  new[a] \in Int /\ nextId <= new[a] /\ new[a] <= last /\ new[a] \in Ids
    OBVIOUS
  <2>1. new[a] \in nextId .. last
    BY <1>4 DEF last
  <2>2. nextId .. last \subseteq Ids
    BY <1>5 DEF last
  <2> QED BY <1>a, <2>1, <2>2
<1> HIDE DEF fresh, items, last
<1>6. \A a, b \in fresh : new[a] = new[b] => a = b
  <2> SUFFICES ASSUME NEW a \in fresh, NEW b \in fresh, a # b PROVE new[a] # new[b]
    OBVIOUS
  <2>1. rowPos[a] # rowPos[b] /\ rowPos[a] \in Int /\ rowPos[b] \in Int
    BY <1>1, <1>2 DEF RowInv, Positions
  <2>2. new[a] \in Int /\ new[b] \in Int
    BY <1>b
  <2>3. CASE rowPos[a] < rowPos[b]
    BY <1>4, <2>2, <2>3
  <2>4. CASE rowPos[b] < rowPos[a]
    BY <1>4, <2>2, <2>4
  <2> QED BY <2>1, <2>3, <2>4
<1>7. \A a \in fresh : new[a] \in Ids /\ rowPos'[new[a]] = rowPos[a]
  <2> SUFFICES ASSUME NEW a \in fresh PROVE new[a] \in Ids /\ rowPos'[new[a]] = rowPos[a]
    OBVIOUS
  <2>1. new[a] \in Ids
    BY <1>b
  <2>2. (CHOOSE b \in fresh : new[b] = new[a]) = a
    BY <1>6
  <2> QED BY <1>4, <2>1, <2>2
<1>8. ids \subseteq Ids /\ \A n \in ids : nextId <= n /\ n < nextId'
  BY <1>a, <1>b
<1>9. \A id \in Ids \ ids : rowPos'[id] = rowPos[id]
  BY <1>4
<1>10. /\ \A n \in ids : \E a \in items : rowPos'[n] = rowPos[a]
       /\ \A a \in items : \E n \in ids : rowPos'[n] = rowPos[a]
  BY <1>2, <1>7
<1>11. \A m, n \in ids : rowPos'[m] = rowPos'[n] => m = n
  BY <1>1, <1>2, <1>7 DEF RowInv
<1>12. nextId <= nextId'
  BY <1>a
<1>13. Requeued(items, ids)
  <2> HIDE DEF ids
  <2>1. outbox' = outbox \cup ids
    BY <1>4 DEF ids
  <2> QED BY <2>1, <1>1, <1>4, <1>5, <1>8, <1>9, <1>10, <1>11, <1>12 DEF Requeued
<1> QED BY <1>13

\* Writers and operators keep one row per position, in one table.
LEMMA RowOutboxStep ==
  ASSUME IInv, OutboxNext PROVE RowInv'
<1> USE DEF IInv, TypeOK, OutboxTypeOK, rowVars, eventVars
<1>0. /\ \A id \in outbox \cup dlq : id \in Ids /\ id < nextId
      /\ \A gp \in pending \cup events : gp \in Positions /\ gp < nextPos
  BY DEF RowInv, Positions
<1>1. CASE AppendEvent
  <2>1. nextPos \notin events /\ nextPos \in Int
    BY <1>0, BoundsAssumption
  <2>2. \A gp \in pending' \cup events' : gp < nextPos'
    BY <1>0, <1>1, <2>1, BoundsAssumption DEF AppendEvent, Positions
  <2> QED BY <1>1, <2>1, <2>2 DEF AppendEvent, RowInv
<1>2. CASE \E gp \in Positions : EnqueueOutbox(gp)
  <2>1. PICK gp \in Positions : EnqueueOutbox(gp)
    BY <1>2
  <2>2. /\ \A id \in outbox \cup dlq : rowPos'[id] = rowPos[id]
        /\ UNCHANGED <<outbox, dlq, events, pending, purged, nextPos>>
    BY <1>0, <2>1, BoundsAssumption DEF EnqueueOutbox
  <2>3. \A id \in Ids : rowPos'[id] # 0 => id < nextId'
    BY <2>1, BoundsAssumption DEF EnqueueOutbox, RowInv, Ids
  <2> QED BY <2>2, <2>3 DEF RowInv
<1>3. CASE \E gp \in Positions : CommitAppend(gp)
  <2>1. PICK gp \in Positions : CommitAppend(gp)
    BY <1>3
  <2>2. PICK id \in Ids : rowPos[id] = gp /\ outbox' = outbox \cup {id}
    BY <2>1 DEF CommitAppend
  <2>3. gp \in pending /\ gp \notin events /\ gp \notin purged
    BY <2>1 DEF CommitAppend, RowInv
  <2>4. \A a \in outbox \cup dlq : rowPos[a] # gp /\ a # id
    BY <2>2, <2>3 DEF RowInv
  <2>5. /\ events' = events \cup {gp} /\ pending' = pending \ {gp}
        /\ UNCHANGED <<dlq, rowPos, nextId, nextPos, purged>>
    BY <2>1 DEF CommitAppend
  <2>6. \A a, b \in (outbox \cup dlq)' : rowPos'[a] = rowPos'[b] => a = b
    BY <2>2, <2>4, <2>5 DEF RowInv
  <2>7. (outbox \cap dlq = {})'
    BY <2>2, <2>4, <2>5 DEF RowInv
  <2>8. \A a \in (outbox \cup dlq)' : rowPos'[a] \in events' \ purged'
    BY <2>2, <2>3, <2>5 DEF RowInv
  <2>9. (/\ pending \cap events = {} /\ purged \subseteq events
         /\ \A g \in pending \cup events : g < nextPos)'
    BY <2>3, <2>5 DEF RowInv
  <2> QED BY <2>5, <2>6, <2>7, <2>8, <2>9 DEF RowInv
<1>4. CASE \E gp \in Positions : RollbackAppend(gp)
  BY <1>4 DEF RollbackAppend, RowInv
<1>5. CASE \E gp \in Positions : Dismiss(gp) \/ DetachPartition(gp)
  BY <1>5 DEF Dismiss, DetachPartition, RowInv
<1>6. CASE \E t \in Tenants, from, to \in Positions : Requeue(t, from, to)
  <2>1. PICK t \in Tenants, from, to \in Positions : Requeue(t, from, to)
    BY <1>6
  <2>2. PICK items, new : Requeued(items, new)
    BY <2>1, RequeueRows
  <2>3. UNCHANGED <<events, pending, nextPos, purged>>
    BY <2>1 DEF Requeue
  <2>4. \A id \in outbox \cup dlq : id \notin new /\ rowPos'[id] = rowPos[id]
    BY <1>0, <2>2 DEF Requeued, Ids
  <2>5. \A id \in Ids : rowPos'[id] # 0 => id < nextId'
    <3> SUFFICES ASSUME NEW id \in Ids, rowPos'[id] # 0 PROVE id < nextId'
      OBVIOUS
    <3>1. CASE id \in new
      BY <2>2, <3>1 DEF Requeued
    <3>2. CASE id \notin new
      <4>1. id < nextId /\ nextId <= nextId' /\ nextId' \in Int
        BY <2>1, <2>2, <3>2, TypeOutboxStep DEF Requeued, RowInv
      <4> QED BY <4>1 DEF Ids
    <3> QED BY <3>1, <3>2
  <2>6. \A n \in new : \E a \in items : rowPos'[n] = rowPos[a] /\ a \in dlq
    BY <2>2 DEF Requeued
  <2>7. \A a, b \in (outbox \cup dlq)' : rowPos'[a] = rowPos'[b] => a = b
    <3> SUFFICES ASSUME NEW a \in (outbox \cup dlq)', NEW b \in (outbox \cup dlq)',
                        rowPos'[a] = rowPos'[b]
                 PROVE  a = b
      OBVIOUS
    <3>1. CASE a \in new /\ b \in new
      BY <2>2, <3>1 DEF Requeued
    <3>2. CASE a \notin new /\ b \notin new
      BY <2>2, <2>4, <3>2 DEF Requeued, RowInv
    <3>3. \A m \in new, o \in (outbox \cup dlq)' \ new : rowPos'[m] # rowPos'[o]
      <4> SUFFICES ASSUME NEW m \in new, NEW o \in (outbox \cup dlq)' \ new PROVE rowPos'[m] # rowPos'[o]
        OBVIOUS
      <4>1. PICK c \in items : rowPos'[m] = rowPos[c]
        BY <2>6
      <4>2. c \in dlq /\ o \in outbox \cup dlq /\ o # c
        BY <2>2, <4>1 DEF Requeued, RowInv
      <4> QED BY <2>4, <4>1, <4>2 DEF RowInv
    <3> QED BY <3>1, <3>2, <3>3
  <2>8. \A a \in (outbox \cup dlq)' : rowPos'[a] \in events' \ purged'
    BY <2>2, <2>3, <2>4, <2>6 DEF Requeued, RowInv
  <2>9. (outbox \cap dlq = {})'
    BY <2>2, <2>4 DEF Requeued, RowInv
  <2> QED BY <2>3, <2>5, <2>7, <2>8, <2>9 DEF RowInv
<1>7. CASE \E t \in Tenants : Purge(t)
  <2>1. PICK t \in Tenants : Purge(t)
    BY <1>7
  <2> DEFINE items == DlqRange(t, 1, MaxPos)
  <2>2. items \subseteq dlq
    BY DEF DlqRange
  <2>3. dlq' = dlq \ items /\ purged' = purged \cup PositionsOf(items)
    BY <2>1 DEF Purge
  <2>4. UNCHANGED <<events, pending, nextPos, outbox, rowPos, nextId>>
    BY <2>1 DEF Purge
  <2> HIDE DEF items
  <2>5. \A a \in outbox' \cup dlq' : rowPos[a] \notin PositionsOf(items)
    BY <2>2, <2>3, <2>4 DEF PositionsOf, RowInv
  <2>6. purged' \subseteq events
    BY <2>2, <2>3 DEF PositionsOf, RowInv
  <2> QED BY <2>2, <2>3, <2>4, <2>5, <2>6 DEF RowInv
<1> QED BY <1>1, <1>2, <1>3, <1>4, <1>5, <1>6, <1>7 DEF OutboxNext

\* What a step of worker w leaves alone: the writers' and operators' state,
\* and everything that belongs to the other workers.
Others(w) ==
  \A v \in Workers \ {w} :
    /\ pc'[v] = pc[v] /\ claimed'[v] = claimed[v] /\ unit'[v] = unit[v]
    /\ todo'[v] = todo[v] /\ step'[v] = step[v] /\ acked'[v] = acked[v]
    /\ dead'[v] = dead[v] /\ handled'[v] = handled[v] /\ wrote'[v] = wrote[v]

\* A worker changes no event, no row's position and nothing of the others.
LEMMA WorkerFrame ==
  ASSUME IInv, NEW w \in Workers, WorkerStep(w) \/ WorkerFault(w)
  PROVE  UNCHANGED offRunner /\ Others(w)
<1> USE DEF IInv, TypeOK, RunnerTypeOK, Others, GoTo, EndTx, txVars
<1>1. CASE ClaimBatch(w) \/ ClaimUnknown(w)
  BY <1>1 DEF ClaimBatch, ClaimUnknown, runnerVars
<1>2. CASE BeginTx(w)
  BY <1>2 DEF BeginTx
<1>3. CASE SkipProjection(w) \/ ReadCheckpoint(w)
  BY <1>3 DEF SkipProjection, ReadCheckpoint
<1>4. CASE InsertCheckpoint(w) \/ SetCheckpoint(w)
  <2>1. PICK key, n : wrote' = [wrote EXCEPT ![w][key] = n]
    BY <1>4, WroteNat
  <2> QED BY <1>4, <2>1 DEF InsertCheckpoint, SetCheckpoint
<1>5. CASE HandleEvent(w) \/ HandlerThrows(w)
  BY <1>5 DEF HandleEvent, HandlerThrows
<1>6. CASE AckRow(w)
  BY <1>6 DEF AckRow
<1>7. CASE CommitTx(w) \/ CommitUnknown(w)
  BY <1>7 DEF CommitTx, CommitUnknown
<1>8. CASE ReleaseRows(w) \/ DbError(w) \/ DeadlockVictim(w)
  BY <1>8 DEF ReleaseRows, DbError, DeadlockVictim
<1>9. CASE ReleaseFails(w) \/ Crash(w) \/ Abort(w)
  BY <1>9 DEF ReleaseFails, Crash, Abort
<1> QED BY <1>1, <1>2, <1>3, <1>4, <1>5, <1>6, <1>7, <1>8, <1>9 DEF WorkerStep, WorkerFault

\* The four things a step of a worker may do to the rows.
LEMMA WorkerRows ==
  ASSUME NEW w \in Workers, WorkerStep(w) \/ WorkerFault(w)
  PROVE  \/ UNCHANGED rowVars /\ UNCHANGED <<ckpt, effects>>
         \/ /\ ClaimBatch(w) \/ ClaimUnknown(w)
            /\ LockRows(w, LowestIds(Claimable(ClaimTopic[w]), BatchSize))
            /\ UNCHANGED <<ckpt, effects>>
         \/ ReleaseRows(w) /\ UnlockRows(unit[w]) /\ UNCHANGED <<ckpt, effects>>
         \/ (CommitTx(w) \/ CommitUnknown(w)) /\ Publish(w)
<1> USE DEF published
<1>1. CASE ClaimBatch(w) \/ ClaimUnknown(w)
  BY <1>1 DEF ClaimBatch, ClaimUnknown, runnerVars
<1>2. CASE ReleaseRows(w)
  BY <1>2 DEF ReleaseRows
<1>3. CASE CommitTx(w) \/ CommitUnknown(w)
  BY <1>3 DEF CommitTx, CommitUnknown
<1>4. CASE BeginTx(w) \/ SkipProjection(w) \/ ReadCheckpoint(w) \/ InsertCheckpoint(w)
  BY <1>4 DEF BeginTx, SkipProjection, ReadCheckpoint, InsertCheckpoint
<1>5. CASE HandleEvent(w) \/ HandlerThrows(w) \/ SetCheckpoint(w) \/ AckRow(w)
  BY <1>5 DEF HandleEvent, HandlerThrows, SetCheckpoint, AckRow
<1>6. CASE DeadlockVictim(w) \/ DbError(w) \/ ReleaseFails(w) \/ Abort(w) \/ Crash(w)
  BY <1>6 DEF DeadlockVictim, DbError, ReleaseFails, Abort, Crash
<1> QED BY <1>1, <1>2, <1>3, <1>4, <1>5, <1>6 DEF WorkerStep, WorkerFault

\* Workers keep one row per position, in one table.
LEMMA RowWorkerStep ==
  ASSUME IInv, NEW w \in Workers, WorkerStep(w) \/ WorkerFault(w)
  PROVE  RowInv'
<1>1. UNCHANGED <<pending, events, nextPos, nextId, rowPos, purged>>
  BY WorkerFrame DEF offRunner, eventVars
<1>2. /\ outbox' \cup dlq' \subseteq outbox \cup dlq
      /\ outbox' \cap dlq' = {}
  <2>1. CASE UNCHANGED <<outbox, dlq>>
    BY <2>1 DEF IInv, RowInv
  <2>2. CASE RemoveRows(acked[w], dead[w])
    BY <2>2 DEF RemoveRows, IInv, RowInv
  <2> QED BY <2>1, <2>2, WorkerRows DEF LockRows, UnlockRows, rowVars, Publish
<1> QED BY <1>1, <1>2 DEF IInv, RowInv

-----------------------------------------------------------------------------
(* The rows in a worker's hands.                                           *)

\* Writers and operators do not touch a row a worker holds.
LEMMA HeldRows ==
  ASSUME IInv, OutboxNext, NEW w \in Workers, NEW id \in claimed[w]
  PROVE  rowPos'[id] = rowPos[id] /\ (id \in outbox' <=> id \in outbox)
<1> USE DEF IInv, TypeOK, OutboxTypeOK, RunnerTypeOK
<1>1. id \in Ids /\ rowPos[id] \in events /\ id < nextId
  BY DEF ClaimInv, RowInv, Positions
<1>2. CASE AppendEvent \/ \E gp \in Positions : RollbackAppend(gp) \/ Dismiss(gp) \/ DetachPartition(gp)
  BY <1>2 DEF AppendEvent, RollbackAppend, Dismiss, DetachPartition, rowVars
<1>3. CASE \E gp \in Positions : EnqueueOutbox(gp)
  BY <1>1, <1>3, BoundsAssumption DEF EnqueueOutbox, rowVars
<1>4. CASE \E gp \in Positions : CommitAppend(gp)
  <2>1. PICK gp \in Positions : CommitAppend(gp)
    BY <1>4
  <2>2. PICK new \in Ids : rowPos[new] = gp /\ outbox' = outbox \cup {new}
    BY <2>1 DEF CommitAppend
  <2>3. new # id
    BY <1>1, <2>1, <2>2 DEF CommitAppend, RowInv
  <2> QED BY <2>1, <2>2, <2>3 DEF CommitAppend
<1>5. CASE \E t \in Tenants, from, to \in Positions : Requeue(t, from, to)
  <2>1. PICK items, new : Requeued(items, new)
    BY <1>5, RequeueRows
  <2>2. id \notin new
    BY <1>1, <2>1 DEF Requeued, Ids
  <2> QED BY <1>1, <2>1, <2>2 DEF Requeued
<1>6. CASE \E t \in Tenants : Purge(t)
  BY <1>6 DEF Purge
<1> QED BY <1>2, <1>3, <1>4, <1>5, <1>6 DEF OutboxNext

\* Writers and operators leave the claimed rows as they are.
LEMMA ClaimOutboxStep ==
  ASSUME IInv, OutboxNext, UNCHANGED runnerVars PROVE ClaimInv'
<1> USE DEF IInv, TypeOK, OutboxTypeOK, RunnerTypeOK
<1> SUFFICES ASSUME NEW w \in Workers
             PROVE  /\ unit[w] \subseteq claimed[w]
                    /\ \A id \in claimed[w] : rowPos'[id] \in events'
                    /\ \A id \in claimed[w] \cap outbox' : lockedBy'[id] = w
  BY DEF ClaimInv, runnerVars, txVars
<1>1. \A id \in claimed[w] : rowPos[id] \in events
  BY DEF ClaimInv
<1>2. \A id \in claimed[w] : rowPos'[id] = rowPos[id] /\ (id \in outbox' => id \in outbox)
  BY HeldRows
<1>3. events \subseteq events' /\ UNCHANGED lockedBy
  BY DEF OutboxNext, AppendEvent, EnqueueOutbox, CommitAppend, RollbackAppend, Dismiss,
         DetachPartition, Requeue, Purge, eventVars, rowVars
<1> QED BY <1>1, <1>2, <1>3 DEF ClaimInv

\* A claim takes unlocked rows only, a release unlocks only the worker's own.
LEMMA ClaimWorkerStep ==
  ASSUME IInv, NEW w \in Workers, WorkerStep(w) \/ WorkerFault(w)
  PROVE  ClaimInv'
<1> USE DEF IInv, TypeOK, OutboxTypeOK, RunnerTypeOK
<1>0. UNCHANGED <<rowPos, events>> /\ Others(w)
  BY WorkerFrame DEF offRunner, eventVars
<1>1. \A v \in Workers \ {w} : \A id \in claimed[v] \cap outbox' : lockedBy'[id] = v
  <2> SUFFICES ASSUME NEW v \in Workers \ {w}, NEW id \in claimed[v], id \in outbox'
               PROVE  lockedBy'[id] = v
    OBVIOUS
  <2>1. id \in Ids /\ (id \in outbox => lockedBy[id] = v) /\ v # NoWorker
    BY RowAssumption DEF ClaimInv
  <2>2. CASE UNCHANGED rowVars
    BY <2>1, <2>2 DEF rowVars
  <2>3. CASE LockRows(w, LowestIds(Claimable(ClaimTopic[w]), BatchSize))
    BY <2>1, <2>3 DEF LockRows, LowestIds, Claimable
  <2>4. CASE UnlockRows(unit[w])
    BY <2>1, <2>4 DEF UnlockRows, ClaimInv
  <2>5. CASE Publish(w)
    BY <2>1, <2>5 DEF Publish, RemoveRows
  <2> QED BY <2>2, <2>3, <2>4, <2>5, WorkerRows
<1>2. /\ unit'[w] \subseteq claimed'[w]
      /\ \A id \in claimed'[w] : rowPos[id] \in events
      /\ \A id \in claimed'[w] \cap outbox' : lockedBy'[id] = w
  <2>1. CASE ClaimBatch(w)
    <3>1. claimed'[w] = LowestIds(Claimable(ClaimTopic[w]), BatchSize) /\ unit'[w] = unit[w]
      BY <2>1 DEF ClaimBatch, txVars
    <3>2. claimed'[w] \subseteq outbox
      BY <3>1 DEF LowestIds, Claimable
    <3>3. unit[w] = {}
      BY <2>1 DEF ClaimBatch, TxInv, TxOK, InTx
    <3> QED BY <2>1, <3>1, <3>2, <3>3 DEF ClaimBatch, LockRows, RowInv
  <2>2. CASE ClaimUnknown(w)
    <3>1. claimed'[w] = claimed[w] /\ unit'[w] = unit[w]
      BY <2>2 DEF ClaimUnknown, runnerVars, txVars
    <3> QED BY <2>2, <3>1 DEF ClaimUnknown, LockRows, ClaimInv
  <2>3. CASE CommitTx(w) \/ CommitUnknown(w)
    <3>1. claimed'[w] \subseteq claimed[w] /\ unit'[w] \subseteq claimed'[w]
      BY <2>3 DEF CommitTx, CommitUnknown, EndTx, ClaimInv
    <3> QED BY <2>3, <3>1 DEF CommitTx, CommitUnknown, Publish, RemoveRows, ClaimInv
  <2>4. CASE claimed'[w] = {} /\ unit'[w] = {}
    BY <2>4
  <2>5. CASE BeginTx(w)
    <3>1. PICK rows, d, k, t : rows \in Units(w) /\ DealOut(w, rows, d, k, t)
      BY <2>5, BeginTxRows
    <3>2. unit'[w] \subseteq claimed[w]
      BY <3>1 DEF DealOut, Units
    <3> QED BY <2>5, <3>2 DEF BeginTx, published, rowVars, ClaimInv
  <2>6. CASE UNCHANGED <<claimed, rowVars>> /\ unit'[w] = unit[w]
    BY <2>6 DEF rowVars, ClaimInv
  <2>7. CASE ReleaseRows(w) \/ ReleaseFails(w) \/ Crash(w)
    BY <2>4, <2>7 DEF ReleaseRows, ReleaseFails, Crash, EndTx
  <2>8. CASE Abort(w)
    <3>1. unit[w] = {} /\ unit' = unit /\ claimed' = [claimed EXCEPT ![w] = {}]
      BY <2>8 DEF Abort, TxInv, TxOK, InTx, txVars
    <3> QED BY <2>4, <3>1
  <2>9. CASE DbError(w) \/ DeadlockVictim(w) \/ HandlerThrows(w)
    <3>1. unit' = [unit EXCEPT ![w] = unit[w]] /\ UNCHANGED <<claimed, rowVars>>
      BY <2>9 DEF DbError, DeadlockVictim, HandlerThrows, EndTx, published
    <3> QED BY <2>6, <3>1
  <2>10. CASE SkipProjection(w) \/ ReadCheckpoint(w) \/ InsertCheckpoint(w)
    BY <2>6, <2>10 DEF SkipProjection, ReadCheckpoint, InsertCheckpoint, published, txVars
  <2>11. CASE HandleEvent(w) \/ SetCheckpoint(w) \/ AckRow(w)
    BY <2>6, <2>11 DEF HandleEvent, SetCheckpoint, AckRow, published
  <2> QED BY <2>1, <2>2, <2>3, <2>5, <2>7, <2>8, <2>9, <2>10, <2>11 DEF WorkerStep, WorkerFault
<1> QED BY <1>0, <1>1, <1>2 DEF ClaimInv, Others

-----------------------------------------------------------------------------
(* The processing transactions.                                            *)

\* Writers and operators leave the open transactions as they are.
LEMMA TxOutboxStep ==
  ASSUME IInv, OutboxNext, UNCHANGED runnerVars PROVE TxInv'
<1> USE DEF IInv
<1>1. UNCHANGED <<pc, claimed, unit, todo, step, acked, dead, handled, wrote>>
  BY DEF runnerVars, txVars
<1>2. \A w \in Workers : \A id \in claimed[w] : rowPos'[id] = rowPos[id] /\ (id \in outbox => id \in outbox')
  BY HeldRows
<1>3. \A w \in Workers : todo[w] \cup acked[w] \subseteq claimed[w]
  BY DEF TxInv, TxOK, ClaimInv
<1>4. \A w \in Workers : PositionsOf(acked[w] \cup todo[w])' = PositionsOf(acked[w] \cup todo[w])
  BY <1>1, <1>2, <1>3 DEF PositionsOf
<1> QED BY <1>1, <1>2, <1>4 DEF TxInv, TxOK, InTx

\* Another worker's commit does not take a row out of one's hands.
LEMMA OtherTx ==
  ASSUME IInv, NEW w \in Workers, WorkerStep(w) \/ WorkerFault(w),
         NEW v \in Workers \ {w}, NEW id \in claimed[v], id \in outbox
  PROVE  id \in outbox'
<1>1. CASE UNCHANGED outbox
  BY <1>1
<1>2. CASE Publish(w)
  <2>1. lockedBy[id] = v
    BY DEF IInv, ClaimInv
  <2>2. \A a \in acked[w] \cup dead[w] : a \in outbox => lockedBy[a] = w
    BY DEF IInv, ClaimInv, TxInv, TxOK
  <2> QED BY <1>2, <2>1, <2>2 DEF Publish, RemoveRows
<1> QED BY <1>1, <1>2, WorkerRows DEF LockRows, UnlockRows, rowVars

\* After EndTx a worker out of its transaction has an empty one.
LEMMA TxEnded ==
  ASSUME IInv, NEW w \in Workers, NEW rows, EndTx(w, rows),
         pc'[w] \in {"poll", "begin", "release"},
         pc'[w] # "release" => rows = {},
         pc'[w] = "begin" => claimed'[w] \subseteq outbox'
  PROVE  TxOK(w)'
BY DEF EndTx, TxOK, InTx, IInv, TypeOK, RunnerTypeOK

\* A worker's transaction deals with its unit, and leaves nothing when it ends.
LEMMA TxWorkerStep ==
  ASSUME IInv, NEW w \in Workers, WorkerStep(w) \/ WorkerFault(w)
  PROVE  TxInv'
<1> USE DEF IInv, TypeOK, RunnerTypeOK
<1>0. UNCHANGED rowPos /\ Others(w)
  BY WorkerFrame DEF offRunner
<1>1. ASSUME NEW v \in Workers \ {w} PROVE TxOK(v)'
  <2>1. InTx(v) \/ pc[v] = "begin" => claimed[v] \subseteq outbox'
    BY OtherTx DEF TxInv, TxOK
  <2>2. PositionsOf(acked[v] \cup todo[v])' = PositionsOf(acked[v] \cup todo[v])
    BY <1>0, <1>1 DEF PositionsOf, Others
  <2> QED BY <1>0, <1>1, <2>1, <2>2 DEF TxInv, TxOK, InTx, Others
<1>2. TxOK(w)'
  <2>0. TxOK(w)
    BY DEF TxInv
  <2>1. CASE ClaimBatch(w)
    <3>1. /\ claimed'[w] \subseteq outbox' /\ pc'[w] = "begin" /\ UNCHANGED txVars
      BY <2>1 DEF ClaimBatch, GoTo, LockRows, LowestIds, Claimable
    <3> QED BY <2>0, <2>1, <3>1 DEF ClaimBatch, txVars, TxOK, InTx
  <2>2. CASE ClaimUnknown(w)
    BY <1>0, <2>0, <2>2 DEF ClaimUnknown, LockRows, runnerVars, txVars, TxOK, InTx, PositionsOf
  <2>3. CASE BeginTx(w)
    <3>1. PICK rows, d, k, t : rows \in Units(w) /\ DealOut(w, rows, d, k, t)
      BY <2>3, BeginTxRows
    <3>2. /\ unit'[w] = rows /\ todo'[w] = t /\ acked'[w] = k /\ dead'[w] = d
          /\ pc'[w] = "work" /\ UNCHANGED <<outbox, claimed, handled>>
      BY <2>3, <3>1 DEF BeginTx, DealOut, GoTo, published, rowVars
    <3>3. handled[w] = {} /\ claimed[w] \subseteq outbox
      BY <2>0, <2>3 DEF BeginTx, TxOK, InTx
    <3> QED BY <3>1, <3>2, <3>3 DEF DealOut, InTx, TxOK
  <2>4. CASE SkipProjection(w) \/ ReadCheckpoint(w) \/ InsertCheckpoint(w)
    <3>1. /\ InTx(w) /\ InTx(w)' /\ (pc'[w] \in {"insert", "handle", "set"} => step'[w] <= NumProjections)
      BY <2>0, <2>4 DEF SkipProjection, ReadCheckpoint, InsertCheckpoint, GoTo, txVars, TxOK, InTx
    <3>2. UNCHANGED <<outbox, claimed, unit, todo, acked, dead, handled>>
      BY <2>4 DEF SkipProjection, ReadCheckpoint, InsertCheckpoint, published, rowVars, txVars
    <3> QED BY <1>0, <2>0, <3>1, <3>2 DEF TxOK, InTx, PositionsOf
  <2>5. CASE SetCheckpoint(w)
    <3>1. InTx(w) /\ pc'[w] = "work"
      BY <2>5 DEF SetCheckpoint, GoTo, InTx
    <3>2. UNCHANGED <<outbox, claimed, unit, todo, acked, dead, handled>>
      BY <2>5 DEF SetCheckpoint, published, rowVars
    <3> QED BY <1>0, <2>0, <3>1, <3>2 DEF TxOK, InTx, PositionsOf
  <2>6. CASE HandleEvent(w)
    <3>1. PICK row \in todo[w] : handled' = [handled EXCEPT ![w] = @ \cup {<<step[w], rowPos[row]>>}]
      BY <2>6 DEF HandleEvent
    <3>2. rowPos[row] \in PositionsOf(acked[w] \cup todo[w])
      BY DEF PositionsOf
    <3>3. /\ InTx(w) /\ pc'[w] = "set" /\ step'[w] <= NumProjections
          /\ UNCHANGED <<outbox, claimed, unit, todo, acked, dead>>
      BY <2>0, <2>6 DEF HandleEvent, GoTo, published, rowVars, InTx, TxOK
    <3>4. PositionsOf(acked[w] \cup todo[w])' = PositionsOf(acked[w] \cup todo[w])
      BY <1>0, <3>3 DEF PositionsOf
    <3>5. \A pair \in handled'[w] : pair[2] \in PositionsOf(acked[w] \cup todo[w])
      <4>1. handled'[w] = handled[w] \cup {<<step[w], rowPos[row]>>}
        BY <3>1
      <4>2. \A pair \in handled[w] : pair[2] \in PositionsOf(acked[w] \cup todo[w])
        BY <2>0 DEF TxOK
      <4> HIDE DEF IInv, TypeOK, RunnerTypeOK
      <4> QED BY <3>2, <4>1, <4>2
    <3> QED BY <2>0, <3>3, <3>4, <3>5 DEF TxOK, InTx
  <2>7. CASE AckRow(w)
    <3>1. PICK row \in todo[w] : /\ acked' = [acked EXCEPT ![w] = @ \cup {row}]
                                 /\ todo' = [todo EXCEPT ![w] = @ \ {row}]
      BY <2>7 DEF AckRow
    <3>2. acked'[w] \cup todo'[w] = acked[w] \cup todo[w]
      BY <3>1
    <3>3. PositionsOf(acked[w] \cup todo[w])' = PositionsOf(acked[w] \cup todo[w])
      BY <1>0, <3>2 DEF PositionsOf
    <3>4. /\ pc[w] = "work" /\ pc' = pc
          /\ UNCHANGED <<outbox, claimed, unit, dead, handled>>
      BY <2>7 DEF AckRow, published, rowVars
    <3> QED BY <2>0, <3>2, <3>3, <3>4 DEF TxOK, InTx
  <2>8. CASE CommitTx(w)
    <3>1. claimed'[w] = claimed[w] \ unit[w] /\ pc'[w] \in {"poll", "begin"}
      BY <2>8 DEF CommitTx, GoTo
    <3>2. claimed[w] \subseteq outbox
      BY <2>0, <2>8 DEF CommitTx, Publish, TxOK, InTx
    <3>3. claimed'[w] \subseteq outbox'
      BY <2>0, <2>8, <3>1, <3>2 DEF CommitTx, Publish, RemoveRows, TxOK
    <3> QED BY <2>8, <3>1, <3>3, TxEnded DEF CommitTx
  <2>9. CASE CommitUnknown(w) \/ DbError(w) \/ DeadlockVictim(w) \/ HandlerThrows(w)
    <3>1. EndTx(w, unit[w]) /\ pc'[w] = "release"
      BY <2>9 DEF CommitUnknown, DbError, DeadlockVictim, HandlerThrows, GoTo
    <3> QED BY <3>1, TxEnded
  <2>10. CASE ReleaseRows(w) \/ ReleaseFails(w) \/ Crash(w)
    <3>1. EndTx(w, {}) /\ pc'[w] = "poll"
      BY <2>10 DEF ReleaseRows, ReleaseFails, Crash, GoTo
    <3> QED BY <3>1, TxEnded
  <2>11. CASE Abort(w)
    BY <2>0, <2>11 DEF Abort, GoTo, txVars, TxOK, InTx
  <2> QED BY <2>1, <2>2, <2>3, <2>4, <2>5, <2>6, <2>7, <2>8, <2>9, <2>10, <2>11
          DEF WorkerStep, WorkerFault
<1> QED BY <1>0, <1>1, <1>2 DEF TxInv

-----------------------------------------------------------------------------
(* The checkpoints.                                                        *)

\* Writers and operators leave the checkpoints as they are.
LEMMA CkptOutboxStep ==
  ASSUME IInv, OutboxNext, UNCHANGED runnerVars PROVE CkptInv'
<1> USE DEF IInv
<1>1. UNCHANGED <<pc, todo, step, handled, wrote, ckpt>>
  BY DEF runnerVars, txVars
<1>2. \A w \in Workers : \A id \in todo[w] : rowPos'[id] = rowPos[id]
  BY HeldRows, TodoRow
<1>3. \A w \in Workers : \A row \in todo[w] : IsCurrent(w, row)' <=> IsCurrent(w, row)
  BY <1>1, <1>2 DEF IsCurrent
<1> QED BY <1>1, <1>2, <1>3 DEF CkptInv, LockFree

\* What the two checkpoint statements write: never below what is there.
LEMMA Upsert ==
  ASSUME IInv, NEW w \in Workers, InsertCheckpoint(w) \/ SetCheckpoint(w)
  PROVE  \E row \in todo[w], n \in Nat \cup {NoRow} :
           /\ IsCurrent(w, row) /\ KeyOf(w, row) \in Keys
           /\ wrote' = [wrote EXCEPT ![w][KeyOf(w, row)] = n]
           /\ LockFree(w, KeyOf(w, row))
           /\ n # NoRow => ckpt[KeyOf(w, row)] <= n
           /\ wrote[w][KeyOf(w, row)] <= n
           /\ SetCheckpoint(w) => rowPos[row] <= n
<1>1. CASE InsertCheckpoint(w)
  <2>1. PICK row \in todo[w] :
          /\ IsCurrent(w, row) /\ LockFree(w, KeyOf(w, row))
          /\ wrote' = [wrote EXCEPT ![w][KeyOf(w, row)] = IF Visible(w, KeyOf(w, row)) = NoRow THEN 0 ELSE @]
    BY <1>1 DEF InsertCheckpoint
  <2> DEFINE key == KeyOf(w, row)
             n == IF Visible(w, key) = NoRow THEN 0 ELSE wrote[w][key]
  <2>2. key \in Keys
    BY <1>1, <2>1, KeyType DEF InsertCheckpoint
  <2>3. wrote[w][key] \in Nat \cup {NoRow} /\ ckpt[key] \in Nat \cup {NoRow}
    BY <2>2 DEF IInv, TypeOK, RunnerTypeOK
  <2>4. wrote[w][key] # NoRow => ckpt[key] <= wrote[w][key]
    BY <2>2 DEF IInv, CkptInv
  <2>5. n \in Nat \cup {NoRow} /\ wrote[w][key] <= n /\ (n # NoRow => ckpt[key] <= n)
    BY <2>3, <2>4 DEF Visible, NoRow
  <2>6. wrote' = [wrote EXCEPT ![w][key] = n]
    BY <2>1
  <2>7. ~SetCheckpoint(w)
    BY <1>1 DEF InsertCheckpoint, SetCheckpoint
  <2> HIDE DEF n
  <2> QED BY <2>1, <2>2, <2>5, <2>6, <2>7
<1>2. CASE SetCheckpoint(w)
  <2>1. PICK row \in todo[w] :
          /\ IsCurrent(w, row) /\ LockFree(w, KeyOf(w, row))
          /\ wrote' = [wrote EXCEPT ![w][KeyOf(w, row)] =
                         IF Visible(w, KeyOf(w, row)) <= rowPos[row]
                         THEN rowPos[row] ELSE Visible(w, KeyOf(w, row))]
    BY <1>2 DEF SetCheckpoint
  <2> DEFINE key == KeyOf(w, row)
             n == IF Visible(w, key) <= rowPos[row] THEN rowPos[row] ELSE Visible(w, key)
  <2>2. key \in Keys
    BY <1>2, <2>1, KeyType DEF SetCheckpoint
  <2>3. wrote[w][key] \in Nat \cup {NoRow} /\ ckpt[key] \in Nat \cup {NoRow} /\ rowPos[row] \in Nat
    BY <2>1, <2>2, TodoRow DEF IInv, TypeOK, RunnerTypeOK, Positions
  <2>4. wrote[w][key] # NoRow => ckpt[key] <= wrote[w][key]
    BY <2>2 DEF IInv, CkptInv
  <2>5. n \in Nat \cup {NoRow} /\ wrote[w][key] <= n /\ ckpt[key] <= n /\ rowPos[row] <= n
    BY <2>3, <2>4 DEF Visible, NoRow
  <2>6. wrote' = [wrote EXCEPT ![w][key] = n]
    BY <2>1
  <2> HIDE DEF n
  <2> QED BY <2>1, <2>2, <2>5, <2>6
<1> QED BY <1>1, <1>2

\* The checkpoint rows a transaction wrote are its own.
WroteOK(w) ==
  \A key \in Keys : wrote[w][key] # NoRow => LockFree(w, key) /\ ckpt[key] <= wrote[w][key]

\* Its handler runs are covered by them, but for the one in progress.
HandledOK(w) ==
  \A pair \in handled[w] :
    \/ wrote[w][<<pair[1], TenantOf[pair[2]]>>] >= pair[2]
    \/ pc[w] = "set" /\ \E row \in todo[w] :
         IsCurrent(w, row) /\ pair = <<step[w], rowPos[row]>>

\* The checkpoint invariant, one worker at a time.
LEMMA CkptParts ==
  /\ CkptInv <=> \A w \in Workers : WroteOK(w) /\ HandledOK(w)
  /\ CkptInv' <=> \A w \in Workers : WroteOK(w)' /\ HandledOK(w)'
BY DEF CkptInv, WroteOK, HandledOK

\* Checkpoint rows are locked by one transaction at a time and only go up.
LEMMA WroteWorkerStep ==
  ASSUME IInv, NEW w \in Workers, WorkerStep(w) \/ WorkerFault(w)
  PROVE  \A v \in Workers : WroteOK(v)'
<1> USE DEF IInv, TypeOK, RunnerTypeOK
<1>0. Others(w) /\ \A v \in Workers : WroteOK(v)
  BY WorkerFrame, CkptParts
<1>1. CASE InsertCheckpoint(w) \/ SetCheckpoint(w)
  <2>1. PICK row \in todo[w], n \in Nat \cup {NoRow} :
           /\ KeyOf(w, row) \in Keys
           /\ wrote' = [wrote EXCEPT ![w][KeyOf(w, row)] = n]
           /\ LockFree(w, KeyOf(w, row))
           /\ n # NoRow => ckpt[KeyOf(w, row)] <= n
    BY <1>1, Upsert
  <2>2. UNCHANGED ckpt
    BY <1>1 DEF InsertCheckpoint, SetCheckpoint, published
  <2> QED BY <1>0, <2>1, <2>2 DEF WroteOK, LockFree
<1>2. CASE UNCHANGED <<wrote, ckpt>>
  BY <1>0, <1>2 DEF WroteOK, LockFree
<1>3. CASE wrote' = [wrote EXCEPT ![w] = NoWrites] /\ (UNCHANGED ckpt \/ Publish(w))
  <2>1. \A key \in Keys : wrote'[w][key] = NoRow
    BY <1>3 DEF NoWrites
  <2>2. ASSUME NEW v \in Workers \ {w}, NEW key \in Keys, wrote[v][key] # NoRow
        PROVE  ckpt'[key] = ckpt[key]
    BY <1>0, <1>3, <2>2 DEF Publish, WroteOK, LockFree
  <2> QED BY <1>0, <1>3, <2>1, <2>2 DEF WroteOK, LockFree, Others
<1>4. CASE ClaimBatch(w) \/ ClaimUnknown(w) \/ BeginTx(w) \/ SkipProjection(w) \/ ReadCheckpoint(w)
  BY <1>2, <1>4 DEF ClaimBatch, ClaimUnknown, BeginTx, SkipProjection, ReadCheckpoint, published, txVars, runnerVars
<1>5. CASE HandleEvent(w) \/ AckRow(w) \/ Abort(w)
  BY <1>2, <1>5 DEF HandleEvent, AckRow, Abort, published, txVars
<1>6. CASE HandlerThrows(w) \/ DbError(w) \/ DeadlockVictim(w) \/ ReleaseFails(w) \/ Crash(w) \/ ReleaseRows(w)
  BY <1>3, <1>6 DEF HandlerThrows, DbError, DeadlockVictim, ReleaseFails, Crash, ReleaseRows, EndTx, published
<1>7. CASE CommitTx(w) \/ CommitUnknown(w)
  BY <1>3, <1>7 DEF CommitTx, CommitUnknown, EndTx
<1> QED BY <1>1, <1>4, <1>5, <1>6, <1>7 DEF WorkerStep, WorkerFault

\* A handler's run is followed by its checkpoint in the same transaction.
LEMMA HandledWorkerStep ==
  ASSUME IInv, NEW w \in Workers, WorkerStep(w) \/ WorkerFault(w)
  PROVE  \A v \in Workers : HandledOK(v)'
<1> USE DEF IInv, TypeOK, RunnerTypeOK
<1>0. UNCHANGED rowPos /\ Others(w) /\ \A v \in Workers : HandledOK(v)
  BY WorkerFrame, CkptParts DEF offRunner
<1>1. \A v \in Workers \ {w} : HandledOK(v)'
  BY <1>0 DEF HandledOK, IsCurrent, Others
<1>2. HandledOK(w)'
  <2>1. CASE handled'[w] = {}
    BY <2>1 DEF HandledOK
  <2>2. CASE pc[w] # "set" /\ UNCHANGED <<handled, wrote>>
    BY <1>0, <2>2 DEF HandledOK
  <2>3. CASE InsertCheckpoint(w) \/ SetCheckpoint(w)
    <3>1. PICK row \in todo[w], n \in Nat \cup {NoRow} :
             /\ IsCurrent(w, row) /\ KeyOf(w, row) \in Keys
             /\ wrote' = [wrote EXCEPT ![w][KeyOf(w, row)] = n]
             /\ wrote[w][KeyOf(w, row)] <= n
             /\ SetCheckpoint(w) => rowPos[row] <= n
      BY <2>3, Upsert
    <3>2. handled'[w] = handled[w] /\ UNCHANGED todo
      BY <2>3 DEF InsertCheckpoint, SetCheckpoint
    <3>3. ASSUME NEW pair \in handled[w]
          PROVE  wrote'[w][<<pair[1], TenantOf[pair[2]]>>] >= pair[2]
      <4> DEFINE key == <<pair[1], TenantOf[pair[2]]>>
      <4>1. key \in Keys /\ pair[2] \in Nat
        BY RowAssumption DEF Keys, Pairs, Positions
      <4>2. CASE wrote[w][key] >= pair[2]
        <5> HIDE DEF key
        <5>1. wrote[w][key] \in Nat \cup {NoRow}
          BY <4>1
        <5>2. CASE key = KeyOf(w, row)
          <6>1. wrote'[w][key] = n /\ wrote[w][key] <= n
            BY <3>1, <4>1, <5>2
          <6> QED BY <4>1, <4>2, <5>1, <6>1 DEF key, NoRow
        <5>3. CASE key # KeyOf(w, row)
          <6>1. wrote'[w][key] = wrote[w][key]
            BY <3>1, <4>1, <5>3
          <6> QED BY <4>2, <6>1 DEF key
        <5> QED BY <5>2, <5>3
      <4>3. CASE pc[w] = "set" /\ \E r \in todo[w] :
                   IsCurrent(w, r) /\ pair = <<step[w], rowPos[r]>>
        <5>1. SetCheckpoint(w)
          BY <2>3, <4>3 DEF InsertCheckpoint
        <5>2. PICK r \in todo[w] : IsCurrent(w, r) /\ pair = <<step[w], rowPos[r]>>
          BY <4>3
        <5>3. rowPos[r] = rowPos[row]
          <6>1. rowPos[r] <= rowPos[row] /\ rowPos[row] <= rowPos[r]
            BY <3>1, <5>2 DEF IsCurrent
          <6>2. rowPos[r] \in Int /\ rowPos[row] \in Int
            <7> HIDE DEF IInv, TypeOK, RunnerTypeOK
            <7>1. rowPos[r] \in Positions /\ rowPos[row] \in Positions
              BY <5>2, TodoRow
            <7> QED BY <7>1 DEF Positions
          <6>3. \A i, j \in Int : i <= j /\ j <= i => i = j
            OBVIOUS
          <6> HIDE DEF IInv, TypeOK, RunnerTypeOK
          <6> QED BY <6>1, <6>2, <6>3
        <5>4. key = KeyOf(w, row) /\ pair[2] = rowPos[row]
          BY <5>2, <5>3 DEF KeyOf
        <5>5. wrote'[w][key] = n
          BY <3>1, <4>1, <5>4
        <5> QED BY <3>1, <5>1, <5>4, <5>5
      <4> QED BY <1>0, <4>2, <4>3 DEF HandledOK
    <3> QED BY <3>2, <3>3 DEF HandledOK
  <2>4. CASE HandleEvent(w)
    <3>1. PICK row \in todo[w] :
            /\ IsCurrent(w, row)
            /\ handled' = [handled EXCEPT ![w] = @ \cup {<<step[w], rowPos[row]>>}]
      BY <2>4 DEF HandleEvent
    <3>2. /\ pc[w] = "handle" /\ pc'[w] = "set"
          /\ UNCHANGED <<todo, step, wrote>>
      BY <2>4 DEF HandleEvent, GoTo
    <3>3. handled'[w] = handled[w] \cup {<<step[w], rowPos[row]>>}
      BY <3>1
    <3>4. IsCurrent(w, row)'
      BY <1>0, <3>1, <3>2 DEF IsCurrent
    <3>5. \A pair \in handled[w] : wrote[w][<<pair[1], TenantOf[pair[2]]>>] >= pair[2]
      BY <1>0, <3>2 DEF HandledOK
    <3> QED BY <1>0, <3>2, <3>3, <3>4, <3>5 DEF HandledOK
  <2>5. CASE ClaimBatch(w) \/ ClaimUnknown(w) \/ BeginTx(w) \/ SkipProjection(w) \/ ReadCheckpoint(w)
    BY <2>2, <2>5 DEF ClaimBatch, ClaimUnknown, BeginTx, SkipProjection, ReadCheckpoint, txVars, runnerVars,
       TxInv, TxOK, InTx
  <2>6. CASE AckRow(w) \/ Abort(w)
    BY <2>2, <2>6 DEF AckRow, Abort, txVars
  <2>7. CASE HandlerThrows(w) \/ DbError(w) \/ DeadlockVictim(w) \/ ReleaseFails(w) \/ Crash(w) \/ ReleaseRows(w)
    BY <2>1, <2>7 DEF HandlerThrows, DbError, DeadlockVictim, ReleaseFails, Crash, ReleaseRows, EndTx
  <2>8. CASE CommitTx(w) \/ CommitUnknown(w)
    BY <2>1, <2>8 DEF CommitTx, CommitUnknown, EndTx
  <2> QED BY <2>3, <2>4, <2>5, <2>6, <2>7, <2>8 DEF WorkerStep, WorkerFault
<1> QED BY <1>1, <1>2

-----------------------------------------------------------------------------
(* The effects.                                                            *)

\* Writers and operators give no processed event a new row.
LEMMA EffectOutboxStep ==
  ASSUME IInv, OutboxNext, UNCHANGED runnerVars
  PROVE  EffectInv' /\ NoPartialEffect' /\ CheckpointCoversEffects'
<1> USE DEF IInv
<1>1. UNCHANGED <<effects, ckpt>> /\ events \subseteq events'
  BY DEF runnerVars, OutboxNext, AppendEvent, EnqueueOutbox, CommitAppend, RollbackAppend,
         Dismiss, DetachPartition, Requeue, Purge, eventVars
<1>2. ASSUME NEW id \in (outbox \cup dlq)'
      PROVE  \/ rowPos'[id] \notin events
             \/ \E old \in outbox \cup dlq : rowPos'[id] = rowPos[old]
  <2> USE DEF TypeOK, OutboxTypeOK
  <2>1. CASE AppendEvent \/ \E gp \in Positions : RollbackAppend(gp) \/ Dismiss(gp) \/ DetachPartition(gp)
    BY <1>2, <2>1 DEF AppendEvent, RollbackAppend, Dismiss, DetachPartition, rowVars
  <2>2. CASE \E gp \in Positions : EnqueueOutbox(gp)
    <3>1. /\ UNCHANGED <<outbox, dlq>>
          /\ \E gp \in Positions : rowPos' = [rowPos EXCEPT ![nextId] = gp] /\ gp \in pending
      BY <2>2 DEF EnqueueOutbox, rowVars
    <3> QED BY <1>2, <3>1 DEF RowInv
  <2>3. CASE \E gp \in Positions : CommitAppend(gp)
    <3>1. PICK gp \in pending, new \in Ids :
            rowPos[new] = gp /\ outbox' = outbox \cup {new} /\ UNCHANGED <<dlq, rowPos>>
      BY <2>3 DEF CommitAppend
    <3> QED BY <1>2, <3>1 DEF RowInv
  <2>4. CASE \E t \in Tenants, from, to \in Positions : Requeue(t, from, to)
    <3>1. PICK items, new : Requeued(items, new)
      BY <2>4, RequeueRows
    <3> QED BY <1>2, <3>1 DEF Requeued
  <2>5. CASE \E t \in Tenants : Purge(t)
    BY <1>2, <2>5 DEF Purge
  <2> QED BY <2>1, <2>2, <2>3, <2>4, <2>5 DEF OutboxNext
<1>3. \A pair \in Pairs : effects'[pair] > 0 => pair[2] \notin (Queued \cup DeadLetter)'
  <2> SUFFICES ASSUME NEW pair \in Pairs, effects[pair] > 0, NEW id \in (outbox \cup dlq)'
               PROVE  rowPos'[id] # pair[2]
    BY <1>1 DEF Queued, DeadLetter, PositionsOf
  <2>1. pair[2] \in events /\ \A old \in outbox \cup dlq : rowPos[old] # pair[2]
    BY DEF EffectInv, NoPartialEffect, Queued, DeadLetter, PositionsOf
  <2> QED BY <1>2, <2>1
<1> QED BY <1>1, <1>3 DEF EffectInv, NoPartialEffect, CheckpointCoversEffects

\* What a commit makes visible.
LEMMA Committed ==
  ASSUME IInv, NEW w \in Workers, Publish(w)
  PROVE  \A pair \in handled[w] :
           /\ pair \in Pairs /\ effects[pair] = 0
           /\ pair[2] \in PositionsOf(acked[w]) /\ pair[2] \in events
           /\ \A id \in outbox' \cup dlq' : rowPos[id] # pair[2]
           /\ ckpt'[<<pair[1], TenantOf[pair[2]]>>] >= pair[2]
<1> USE DEF IInv, TypeOK, RunnerTypeOK
<1> SUFFICES ASSUME NEW pair \in handled[w]
             PROVE  /\ pair \in Pairs /\ effects[pair] = 0
                    /\ pair[2] \in PositionsOf(acked[w]) /\ pair[2] \in events
                    /\ \A id \in outbox' \cup dlq' : rowPos[id] # pair[2]
                    /\ ckpt'[<<pair[1], TenantOf[pair[2]]>>] >= pair[2]
  OBVIOUS
<1>1. pc[w] = "work" /\ todo[w] = {} /\ RemoveRows(acked[w], dead[w])
  BY DEF Publish
<1>2. PICK row \in acked[w] : rowPos[row] = pair[2]
  <2> HIDE DEF IInv, TypeOK, RunnerTypeOK
  <2>1. TxOK(w)
    BY DEF IInv, TxInv
  <2>2. pair[2] \in PositionsOf(acked[w] \cup todo[w])
    BY <2>1 DEF TxOK
  <2>3. acked[w] \cup todo[w] = acked[w]
    BY <1>1
  <2>4. pair[2] \in PositionsOf(acked[w])
    BY <2>2, <2>3
  <2> QED BY <2>4 DEF PositionsOf
<1>3. row \in outbox /\ row \notin dead[w] /\ rowPos[row] \in events /\ row \notin dlq
  <2>1. row \in unit[w] /\ row \notin dead[w] /\ claimed[w] \subseteq outbox
    BY <1>1, <1>2 DEF TxInv, TxOK, InTx
  <2>2. row \in outbox /\ rowPos[row] \in events
    BY <2>1 DEF ClaimInv
  <2> QED BY <2>1, <2>2 DEF RowInv
<1>4. pair \in Pairs
  OBVIOUS
<1>5. effects[pair] = 0
  <2>1. ~(effects[pair] > 0)
    BY <1>2, <1>3, <1>4 DEF NoPartialEffect, Queued, PositionsOf
  <2>2. effects[pair] \in Nat
    BY <1>4
  <2> QED BY <2>1, <2>2
<1>6. \A id \in outbox' \cup dlq' : id # row /\ id \in outbox \cup dlq
  BY <1>1, <1>2, <1>3 DEF RemoveRows
<1>7. \A id \in outbox' \cup dlq' : rowPos[id] # pair[2]
  BY <1>2, <1>3, <1>6 DEF RowInv
<1>8. ckpt'[<<pair[1], TenantOf[pair[2]]>>] >= pair[2]
  <2> DEFINE key == <<pair[1], TenantOf[pair[2]]>>
  <2>1. key \in Keys /\ pair[2] \in Positions
    BY <1>4, RowAssumption DEF Keys, Pairs
  <2>2. wrote[w][key] >= pair[2]
    BY <1>1 DEF CkptInv
  <2>3. wrote[w][key] # NoRow
    BY <2>1, <2>2 DEF NoRow, Positions
  <2>4. ckpt'[key] = wrote[w][key]
    BY <2>1, <2>3 DEF Publish
  <2> QED BY <2>2, <2>4
<1> QED BY <1>2, <1>3, <1>4, <1>5, <1>7, <1>8 DEF PositionsOf

\* No step of a worker moves a checkpoint back.
LEMMA CkptGrows ==
  ASSUME IInv, NEW w \in Workers, WorkerStep(w) \/ WorkerFault(w), NEW key \in Keys
  PROVE  ckpt'[key] >= ckpt[key]
<1> USE DEF IInv, TypeOK, RunnerTypeOK
<1>1. ckpt[key] \in Int /\ wrote[w][key] \in Int
  BY DEF NoRow
<1>2. CASE UNCHANGED ckpt
  BY <1>1, <1>2
<1>3. CASE Publish(w)
  <2>1. wrote[w][key] # NoRow => ckpt[key] <= wrote[w][key]
    BY DEF CkptInv
  <2>2. ckpt'[key] = IF wrote[w][key] # NoRow THEN wrote[w][key] ELSE ckpt[key]
    BY <1>3 DEF Publish
  <2> QED BY <1>1, <2>1, <2>2
<1> QED BY <1>2, <1>3, WorkerRows

\* A commit takes the rows of the events it processed with it.
LEMMA EffectWorkerStep ==
  ASSUME IInv, NEW w \in Workers, WorkerStep(w) \/ WorkerFault(w)
  PROVE  EffectInv' /\ NoPartialEffect' /\ CheckpointCoversEffects'
<1> USE DEF IInv, TypeOK, RunnerTypeOK
<1>0. UNCHANGED <<rowPos, events>>
  BY WorkerFrame DEF offRunner, eventVars
<1>1. CASE UNCHANGED <<ckpt, effects>> /\ outbox' = outbox /\ dlq' = dlq
  BY <1>0, <1>1 DEF EffectInv, NoPartialEffect, CheckpointCoversEffects, Queued, DeadLetter, PositionsOf
<1>2. CASE Publish(w)
  <2>1. ASSUME NEW pair \in Pairs, effects'[pair] > 0
        PROVE  /\ effects'[pair] = 1 /\ pair[2] \in events
               /\ \A id \in outbox' \cup dlq' : rowPos[id] # pair[2]
               /\ ckpt'[<<pair[1], TenantOf[pair[2]]>>] >= pair[2]
    <3>1. CASE pair \in handled[w]
      <4>1. effects'[pair] = effects[pair] + 1
        BY <1>2, <3>1 DEF Publish
      <4> QED BY <1>2, <3>1, <4>1, Committed
    <3>2. CASE pair \notin handled[w]
      <4>1. effects'[pair] = effects[pair]
        BY <1>2, <3>2 DEF Publish
      <4>2. effects[pair] = 1 /\ pair[2] \in events
        BY <2>1, <4>1 DEF EffectInv
      <4>3. \A id \in outbox' \cup dlq' : id \in outbox \cup dlq
        BY <1>2 DEF Publish, RemoveRows
      <4>4. \A id \in outbox \cup dlq : rowPos[id] # pair[2]
        BY <2>1, <4>1 DEF NoPartialEffect, Queued, DeadLetter, PositionsOf
      <4>5. ckpt'[<<pair[1], TenantOf[pair[2]]>>] >= pair[2]
        <5> DEFINE key == <<pair[1], TenantOf[pair[2]]>>
        <5>1. key \in Keys /\ pair[2] \in Int
          BY RowAssumption DEF Keys, Pairs, Positions
        <5>2. ckpt[key] >= pair[2]
          BY <2>1, <4>1 DEF CheckpointCoversEffects
        <5>3. ckpt'[key] >= ckpt[key] /\ ckpt[key] \in Int
          BY <5>1, CkptGrows DEF NoRow
        <5>4. ckpt'[key] \in Int
          BY <1>2, <5>1 DEF Publish, NoRow
        <5> HIDE DEF key, IInv, TypeOK, RunnerTypeOK
        <5>5. ckpt'[key] >= pair[2]
          BY <5>1, <5>2, <5>3, <5>4
        <5> QED BY <5>5 DEF key
      <4> QED BY <4>1, <4>2, <4>3, <4>4, <4>5
    <3> QED BY <3>1, <3>2
  <2> HIDE DEF IInv, TypeOK, RunnerTypeOK
  <2> QED BY <1>0, <2>1 DEF EffectInv, NoPartialEffect, CheckpointCoversEffects, Queued, DeadLetter, PositionsOf
<1> QED BY <1>1, <1>2, WorkerRows DEF LockRows, UnlockRows, rowVars

-----------------------------------------------------------------------------
(* The inductive invariant and what it gives.                              *)

\* Nothing is claimed, written or counted in an initial state.
LEMMA InvInit == Init => IInv
<1> SUFFICES ASSUME Init PROVE IInv
  OBVIOUS
<1>1. RowInv
  BY DEF Init, OutboxInit, RowInv
<1>2. ClaimInv /\ TxInv
  BY RunnerAssumption DEF Init, ClaimInv, TxInv, TxOK, InTx, PositionsOf
<1>3. CkptInv
  BY DEF Init, CkptInv, NoWrites, NoRow
<1>4. EffectInv /\ NoPartialEffect /\ CheckpointCoversEffects
  BY DEF Init, EffectInv, NoPartialEffect, CheckpointCoversEffects
<1> QED BY <1>1, <1>2, <1>3, <1>4, TypeInit DEF IInv

\* A writer or an operator keeps the invariant.
LEMMA InvOutboxStep ==
  ASSUME IInv, OutboxNext, UNCHANGED runnerVars PROVE IInv'
<1>1. OutboxTypeOK'
  BY TypeOutboxStep DEF IInv, TypeOK
<1>2. RunnerTypeOK'
  BY DEF IInv, TypeOK, RunnerTypeOK, runnerVars, txVars
<1> QED BY <1>1, <1>2, RowOutboxStep, ClaimOutboxStep, TxOutboxStep, CkptOutboxStep,
           EffectOutboxStep DEF IInv, TypeOK

\* A worker keeps it, in every step and every failure.
LEMMA InvWorkerStep ==
  ASSUME IInv, NEW w \in Workers, WorkerStep(w) \/ WorkerFault(w) PROVE IInv'
<1>1. CkptInv'
  BY WroteWorkerStep, HandledWorkerStep, CkptParts
<1> QED BY <1>1, TypeWorkerStep, RowWorkerStep, ClaimWorkerStep, TxWorkerStep,
           EffectWorkerStep DEF IInv

\* A step that changes nothing keeps it.
LEMMA InvStutter ==
  ASSUME IInv, UNCHANGED vars PROVE IInv'
<1> USE DEF vars, outboxVars, eventVars, rowVars, runnerVars, txVars
<1>1. TypeOK'
  BY DEF IInv, TypeOK, OutboxTypeOK, RunnerTypeOK
<1>2. RowInv' /\ ClaimInv'
  BY DEF IInv, RowInv, ClaimInv
<1>3. TxInv'
  BY DEF IInv, TxInv, TxOK, InTx, PositionsOf
<1>4. CkptInv'
  BY DEF IInv, CkptInv, LockFree, IsCurrent
<1>5. EffectInv' /\ NoPartialEffect' /\ CheckpointCoversEffects'
  BY DEF IInv, EffectInv, NoPartialEffect, CheckpointCoversEffects, Queued, DeadLetter, PositionsOf
<1> QED BY <1>1, <1>2, <1>3, <1>4, <1>5 DEF IInv

(* The invariant of AsyncRunnerProperties holds in every reachable state,  *)
(* for any number of workers, projections, tenants, events and faults.     *)
THEOREM Invariance == Spec => []IInv
<1>1. IInv /\ [Next]_vars => IInv'
  <2> SUFFICES ASSUME IInv, [Next]_vars PROVE IInv'
    OBVIOUS
  <2>1. CASE OutboxNext /\ UNCHANGED runnerVars
    BY <2>1, InvOutboxStep
  <2>2. CASE \E w \in Workers : WorkerStep(w) \/ WorkerFault(w)
    BY <2>2, InvWorkerStep
  <2>3. CASE UNCHANGED vars
    BY <2>3, InvStutter
  <2> QED BY <2>1, <2>2, <2>3 DEF Next
<1> QED BY <1>1, InvInit, PTL DEF Spec

(* Every variable keeps its type: no statement of the writers, operators   *)
(* or runner takes a row, checkpoint or counter out of its domain.         *)
THEOREM TypeCorrect == Spec => []TypeOK
<1>1. IInv => TypeOK
  BY DEF IInv
<1> QED BY <1>1, Invariance, PTL

(* Two workers never have the same outbox row in their claimed arrays,     *)
(* though releaseWithError and ack look at the id alone.                   *)
THEOREM Exclusion == Spec => []RowExclusive
<1>1. IInv => RowExclusive
  <2> SUFFICES ASSUME IInv, NEW w \in Workers, NEW id \in claimed[w], id \in outbox
               PROVE  lockedBy[id] = w /\ \A v \in Workers \ {w} : id \notin claimed[v]
    BY DEF RowExclusive
  <2> QED BY DEF IInv, ClaimInv
<1> QED BY <1>1, Invariance, PTL

(* A handler's committed writes for an event are never committed again,    *)
(* after any retry, crash, ambiguous commit, race or requeue.              *)
THEOREM AtMostOnce == Spec => []EffectAtMostOnce
<1>1. IInv => EffectAtMostOnce
  <2> SUFFICES ASSUME IInv, NEW pair \in Pairs PROVE effects[pair] <= 1
    BY DEF EffectAtMostOnce
  <2>1. effects[pair] \in Nat /\ (effects[pair] > 0 => effects[pair] = 1)
    BY DEF IInv, TypeOK, RunnerTypeOK, EffectInv
  <2> QED BY <2>1
<1> QED BY <1>1, Invariance, PTL

(* While an event is queued or dead-lettered none of its projections has   *)
(* committed anything for it: the ack and the effects are one commit.      *)
THEOREM NothingPartial == Spec => []NoPartialEffect
<1>1. IInv => NoPartialEffect
  BY DEF IInv
<1> QED BY <1>1, Invariance, PTL

(* The checkpoint of a projection and tenant is at or past every event it  *)
(* has processed, so that a duplicate row of the event is skipped.         *)
THEOREM CheckpointCovers == Spec => []CheckpointCoversEffects
<1>1. IInv => CheckpointCoversEffects
  BY DEF IInv
<1> QED BY <1>1, Invariance, PTL

(* No step moves a checkpoint back, whatever order the workers commit in.  *)
THEOREM CheckpointNeverBack == Spec => CheckpointMonotone
<1>1. IInv /\ [Next]_vars => [\A key \in Keys : ckpt'[key] >= ckpt[key]]_vars
  <2> SUFFICES ASSUME IInv, Next, NEW key \in Keys PROVE ckpt'[key] >= ckpt[key]
    OBVIOUS
  <2>1. CASE UNCHANGED runnerVars
    <3>1. ckpt[key] \in Int /\ ckpt'[key] = ckpt[key]
      BY <2>1 DEF IInv, TypeOK, RunnerTypeOK, runnerVars, NoRow
    <3> QED BY <3>1
  <2>2. CASE \E w \in Workers : WorkerStep(w) \/ WorkerFault(w)
    BY <2>2, CkptGrows
  <2> QED BY <2>1, <2>2 DEF Next
<1> QED BY <1>1, Invariance, PTL DEF Spec, CheckpointMonotone

-----------------------------------------------------------------------------
(* The order in which effects commit.                                      *)

\* A worker that turns to a handler has just read its checkpoint.
LEMMA StartsByReading ==
  ASSUME IInv, Next, NEW w \in Workers, pc[w] = "work", pc'[w] \in {"insert", "handle"}
  PROVE  ReadCheckpoint(w)
<1> USE DEF IInv, TypeOK, RunnerTypeOK
<1>1. CASE UNCHANGED runnerVars
  BY <1>1 DEF runnerVars
<1>2. ASSUME NEW v \in Workers, WorkerStep(v) \/ WorkerFault(v) PROVE ReadCheckpoint(w)
  <2>1. v = w
    <3> SUFFICES ASSUME v # w PROVE FALSE
      OBVIOUS
    <3> QED BY <1>2 DEF WorkerStep, WorkerFault, ClaimBatch, BeginTx, SkipProjection, ReadCheckpoint,
          InsertCheckpoint, HandleEvent, HandlerThrows, SetCheckpoint, AckRow, CommitTx, ReleaseRows,
          DeadlockVictim, ClaimUnknown, DbError, CommitUnknown, ReleaseFails, Abort, Crash, GoTo, runnerVars
  <2>2. CASE CommitTx(w) \/ DbError(w) \/ DeadlockVictim(w) \/ CommitUnknown(w) \/ Crash(w)
    BY <2>2 DEF CommitTx, DbError, DeadlockVictim, CommitUnknown, Crash, GoTo
  <2> QED BY <1>2, <2>1, <2>2 DEF WorkerStep, WorkerFault, ClaimBatch, BeginTx, SkipProjection,
          InsertCheckpoint, HandleEvent, HandlerThrows, SetCheckpoint, AckRow, ReleaseRows,
          ClaimUnknown, ReleaseFails, Abort, GoTo, runnerVars
<1> QED BY <1>1, <1>2 DEF Next

\* No worker starts a run that is overtaken already.
LEMMA StartsAhead ==
  ASSUME IInv, Next, NEW w \in Workers, pc[w] = "work", pc'[w] \in {"insert", "handle"},
         NEW row \in todo[w], IsCurrent(w, row)
  PROVE  ~Overtaken(step[w], rowPos[row])
<1> SUFFICES ASSUME NEW late \in Positions, rowPos[row] < late, TenantOf[late] = TenantOf[rowPos[row]]
             PROVE  ~(effects[<<step[w], late>>] > 0)
  BY DEF Overtaken
<1>1. PICK read \in todo[w] : IsCurrent(w, read) /\ Visible(w, KeyOf(w, read)) < rowPos[read]
  BY StartsByReading DEF ReadCheckpoint
<1>2. step[w] \in Projections
  BY StartsByReading, RunnerAssumption DEF ReadCheckpoint, IInv, TypeOK, RunnerTypeOK, Projections
<1>3. rowPos[row] \in Nat /\ rowPos[read] \in Nat /\ late \in Nat
  BY TodoRow DEF Positions
<1>4. rowPos[read] = rowPos[row]
  BY <1>1, <1>3 DEF IsCurrent
<1> DEFINE key == <<step[w], TenantOf[late]>>
<1>5. KeyOf(w, read) = key
  BY <1>4 DEF KeyOf
<1>6. key \in Keys /\ <<step[w], late>> \in Pairs
  BY <1>2, RowAssumption DEF Keys, Pairs
<1>7. ckpt[key] \in Int /\ wrote[w][key] \in Int /\ (wrote[w][key] # NoRow => ckpt[key] <= wrote[w][key])
  BY <1>6 DEF IInv, TypeOK, RunnerTypeOK, NoRow, CkptInv
<1>8. effects[<<step[w], late>>] > 0 => ckpt[key] >= late
  BY <1>6 DEF IInv, CheckpointCoversEffects
<1> HIDE DEF key
<1>9. Visible(w, key) < rowPos[row]
  BY <1>1, <1>4, <1>5
<1> QED BY <1>3, <1>7, <1>8, <1>9 DEF Visible

\* The checkpoint row of a run that is not the first of its transaction is locked by it.
LEMMA LaterLocked ==
  ASSUME IInv, NEW w \in Workers, NEW pair \in handled[w], ~RanFirst(w, pair[1], pair[2])
  PROVE  LockFree(w, <<pair[1], TenantOf[pair[2]]>>)
<1>1. pair \in Pairs /\ handled[w] \subseteq Pairs
  BY DEF IInv, TypeOK, RunnerTypeOK
<1>2. PICK other \in handled[w] : other[1] = pair[1] /\ TenantOf[other[2]] = TenantOf[pair[2]] /\ ~(pair[2] <= other[2])
  BY DEF RanFirst
<1> DEFINE key == <<pair[1], TenantOf[pair[2]]>>
<1>3. key \in Keys /\ pair[2] \in Positions /\ other[2] \in Positions /\ other[2] # pair[2]
  <2>1. pair[2] \in Positions /\ other[2] \in Positions /\ pair[1] \in Projections
    BY <1>1 DEF Pairs
  <2>2. other[2] # pair[2]
    BY <1>2, <2>1 DEF Positions
  <2> QED BY <2>1, <2>2, RowAssumption DEF Keys
<1>4. \A q \in handled[w] :
        \/ wrote[w][<<q[1], TenantOf[q[2]]>>] >= q[2]
        \/ \E row \in todo[w] : IsCurrent(w, row) /\ q = <<step[w], rowPos[row]>>
  BY DEF IInv, CkptInv
<1>5. \A r, s \in todo[w] : IsCurrent(w, r) /\ IsCurrent(w, s) => rowPos[r] = rowPos[s]
  <2> SUFFICES ASSUME NEW r \in todo[w], NEW s \in todo[w], IsCurrent(w, r), IsCurrent(w, s)
               PROVE  rowPos[r] = rowPos[s]
    OBVIOUS
  <2>1. rowPos[r] \in Nat /\ rowPos[s] \in Nat
    BY TodoRow DEF Positions
  <2> QED BY <2>1 DEF IsCurrent
<1>6. wrote[w][key] >= pair[2] \/ wrote[w][key] >= other[2]
  <2>1. wrote[w][<<other[1], TenantOf[other[2]]>>] = wrote[w][key]
    BY <1>2
  <2> QED BY <1>2, <1>3, <1>4, <1>5, <2>1
<1>7. wrote[w][key] # NoRow
  BY <1>3, <1>6 DEF NoRow, Positions
<1> HIDE DEF key
<1>8. LockFree(w, key)
  BY <1>3, <1>7 DEF IInv, CkptInv
<1> QED BY <1>8 DEF key

\* So nobody else's commit overtakes it.
LEMMA NotOvertaken ==
  ASSUME IInv, NEW w \in Workers, WorkerStep(w) \/ WorkerFault(w), NEW v \in Workers \ {w},
         NEW pair \in handled[v], Overtaken(pair[1], pair[2])', ~RanFirst(v, pair[1], pair[2])
  PROVE  Overtaken(pair[1], pair[2])
<1>1. PICK late \in Positions : /\ pair[2] < late /\ TenantOf[late] = TenantOf[pair[2]]
                                /\ effects'[<<pair[1], late>>] > 0
  BY DEF Overtaken
<1>2. CASE UNCHANGED effects
  BY <1>1, <1>2 DEF Overtaken
<1>3. CASE Publish(w)
  <2> DEFINE ran == <<pair[1], late>>
             key == <<pair[1], TenantOf[pair[2]]>>
  <2>1. pair[1] \in Projections /\ ran \in Pairs /\ key \in Keys
    BY RowAssumption DEF IInv, TypeOK, RunnerTypeOK, Pairs, Keys
  <2>2. ran \notin handled[w]
    <3> SUFFICES ASSUME ran \in handled[w] PROVE FALSE
      OBVIOUS
    <3>1. pc[w] = "work"
      BY <1>3 DEF Publish
    <3>2. wrote[w][<<ran[1], TenantOf[ran[2]]>>] >= ran[2]
      BY <3>1 DEF IInv, CkptInv
    <3>3. wrote[w][key] >= late
      BY <1>1, <3>2
    <3>4. wrote[w][key] = NoRow
      BY LaterLocked DEF LockFree
    <3> QED BY <3>3, <3>4 DEF NoRow, Positions
  <2>3. effects'[ran] = effects[ran]
    BY <1>3, <2>1, <2>2 DEF Publish
  <2> QED BY <1>1, <2>3 DEF Overtaken
<1>4. UNCHANGED effects \/ Publish(w)
  BY WorkerRows
<1> QED BY <1>2, <1>3, <1>4

\* A handler runs after those its transaction ran before.
LEMMA TurnHandles ==
  ASSUME IInv, NEW w \in Workers, HandleEvent(w), TurnOK(w)
  PROVE  TurnOK(w)'
<1>1. PICK row \in todo[w] : /\ IsCurrent(w, row)
                             /\ handled' = [handled EXCEPT ![w] = @ \cup {<<step[w], rowPos[row]>>}]
  BY DEF HandleEvent
<1>2. pc[w] = "handle" /\ pc' = [pc EXCEPT ![w] = "set"] /\ UNCHANGED effects
  BY DEF HandleEvent, GoTo, published
<1>3. pc'[w] = "set"
  BY <1>2 DEF IInv, TypeOK, RunnerTypeOK
<1> DEFINE p == step[w]
           gp == rowPos[row]
           key == <<p, TenantOf[gp]>>
<1>4. handled'[w] = handled[w] \cup {<<p, gp>>} /\ handled[w] \subseteq Pairs
  BY <1>1 DEF IInv, TypeOK, RunnerTypeOK
<1>5. p \in Projections /\ gp \in Positions /\ key \in Keys
  BY <1>1, <1>2, KeyType, TodoRow DEF KeyOf
<1>6. wrote[w][key] < gp
  BY <1>1, <1>2 DEF TurnOK, KeyOf
<1>7. wrote[w][key] \in Int /\ ckpt[key] \in Int /\ (wrote[w][key] # NoRow => ckpt[key] <= wrote[w][key])
  BY <1>5 DEF IInv, TypeOK, RunnerTypeOK, NoRow, CkptInv
<1> HIDE DEF p, gp
<1>8. ASSUME NEW q \in handled[w], q[1] = p, TenantOf[q[2]] = TenantOf[gp]
      PROVE  q[2] \in Positions /\ q[2] <= wrote[w][key] /\ q[2] < gp
  <2>1. wrote[w][<<q[1], TenantOf[q[2]]>>] >= q[2]
    BY <1>2 DEF IInv, CkptInv
  <2>2. q[2] \in Positions
    BY <1>4 DEF Pairs
  <2>3. wrote[w][key] >= q[2]
    BY <1>8, <2>1
  <2> HIDE DEF key
  <2> QED BY <1>5, <1>6, <1>7, <2>2, <2>3 DEF Positions
<1>9. ASSUME NEW q \in handled[w], q[1] = p, TenantOf[q[2]] = TenantOf[gp]
      PROVE  ~Overtaken(p, gp)
  <2> SUFFICES ASSUME NEW late \in Positions, gp < late, TenantOf[late] = TenantOf[gp], effects[<<p, late>>] > 0
               PROVE  FALSE
    BY DEF Overtaken
  <2>1. <<p, late>> \in Pairs
    BY <1>5 DEF Pairs
  <2>2. ckpt[key] >= late
    BY <2>1 DEF IInv, CheckpointCoversEffects
  <2>3. wrote[w][key] # NoRow
    BY <1>8, <1>9 DEF NoRow, Positions
  <2> HIDE DEF key
  <2> QED BY <1>5, <1>6, <1>7, <2>2, <2>3 DEF Positions
<1> HIDE DEF key
<1>10. ASSUME NEW pair \in handled'[w], Overtaken(pair[1], pair[2])'
       PROVE  RanFirst(w, pair[1], pair[2])'
  <2>1. Overtaken(pair[1], pair[2])
    BY <1>2, <1>10 DEF Overtaken
  <2>2. CASE pair = <<p, gp>>
    <3>1. \A q \in handled[w] : ~(q[1] = p /\ TenantOf[q[2]] = TenantOf[gp])
      BY <1>9, <2>1, <2>2
    <3>2. gp <= gp
      BY <1>5 DEF Positions
    <3> QED BY <1>4, <2>2, <3>1, <3>2 DEF RanFirst
  <2>3. CASE pair \in handled[w]
    <3>1. RanFirst(w, pair[1], pair[2])
      BY <2>1, <2>3 DEF TurnOK
    <3>2. p = pair[1] /\ TenantOf[gp] = TenantOf[pair[2]] => pair[2] <= gp
      <4> SUFFICES ASSUME p = pair[1], TenantOf[gp] = TenantOf[pair[2]] PROVE pair[2] <= gp
        OBVIOUS
      <4>1. pair[2] \in Positions /\ pair[2] < gp
        BY <1>8, <2>3
      <4> QED BY <1>5, <4>1 DEF Positions
    <3> QED BY <1>4, <3>1, <3>2 DEF RanFirst
  <2> QED BY <1>4, <2>2, <2>3
<1> QED BY <1>3, <1>10 DEF TurnOK

\* Writers and operators overtake nobody.
LEMMA TurnOutboxStep ==
  ASSUME IInv, TurnInv, OutboxNext, UNCHANGED runnerVars PROVE TurnInv'
<1>1. UNCHANGED <<pc, todo, step, handled, wrote, effects>>
  BY DEF runnerVars, txVars
<1>2. \A w \in Workers : \A id \in todo[w] : rowPos'[id] = rowPos[id]
  BY HeldRows, TodoRow
<1>3. \A w \in Workers : \A row \in todo[w] : IsCurrent(w, row)' <=> IsCurrent(w, row)
  BY <1>1, <1>2 DEF IsCurrent
<1>4. \A w \in Workers : \A row \in todo[w] : KeyOf(w, row)' = KeyOf(w, row)
  BY <1>1, <1>2 DEF KeyOf
<1> QED BY <1>1, <1>2, <1>3, <1>4 DEF TurnInv, TurnOK, Overtaken, RanFirst

\* Neither the checkpoint a worker reads nor the one it inserts has reached its event.
LEMMA TurnAhead ==
  ASSUME IInv, NEW w \in Workers, ReadCheckpoint(w) \/ InsertCheckpoint(w), TurnOK(w),
         UNCHANGED rowPos, NEW row \in todo[w], IsCurrent(w, row)
  PROVE  wrote'[w][KeyOf(w, row)] < rowPos[row]
<1>1. PICK read \in todo[w] : /\ IsCurrent(w, read)
                              /\ ReadCheckpoint(w) => Visible(w, KeyOf(w, read)) < rowPos[read]
                              /\ InsertCheckpoint(w) =>
                                   wrote' = [wrote EXCEPT ![w][KeyOf(w, read)] =
                                               IF Visible(w, KeyOf(w, read)) = NoRow THEN 0 ELSE @]
  BY DEF ReadCheckpoint, InsertCheckpoint
<1>2. rowPos[row] \in Positions /\ rowPos[read] \in Positions
  BY TodoRow
<1>3. rowPos[read] = rowPos[row]
  BY <1>1, <1>2 DEF IsCurrent, Positions
<1>4. step[w] \in Projections
  <2>1. CASE InsertCheckpoint(w)
    BY <2>1, KeyType DEF InsertCheckpoint
  <2>2. CASE ReadCheckpoint(w)
    BY <2>2, RunnerAssumption DEF ReadCheckpoint, IInv, TypeOK, RunnerTypeOK, Projections
  <2> QED BY <2>1, <2>2
<1> DEFINE key == KeyOf(w, row)
<1>5. key \in Keys /\ KeyOf(w, read) = key
  BY <1>2, <1>3, <1>4, RowAssumption DEF KeyOf, Keys
<1>6. /\ wrote[w][key] \in Int /\ ckpt[key] \in Int
      /\ wrote \in [Workers -> [Keys -> Nat \cup {NoRow}]]
  BY <1>5 DEF IInv, TypeOK, RunnerTypeOK, NoRow
<1> HIDE DEF key
<1>7. CASE ReadCheckpoint(w)
  <2>1. wrote' = wrote /\ Visible(w, key) < rowPos[row]
    BY <1>1, <1>3, <1>5, <1>7 DEF ReadCheckpoint, txVars
  <2> QED BY <1>2, <1>6, <2>1 DEF Visible, NoRow, Positions, key
<1>8. CASE InsertCheckpoint(w)
  <2>1. wrote[w][key] < rowPos[row]
    BY <1>8 DEF TurnOK, InsertCheckpoint, key
  <2>2. wrote'[w][key] \in {0, wrote[w][key]}
    BY <1>1, <1>5, <1>6, <1>8
  <2> QED BY <1>2, <2>1, <2>2 DEF Positions, key
<1> QED BY <1>7, <1>8

\* The steps of a worker in its own turn.
LEMMA TurnOwnStep ==
  ASSUME IInv, NEW w \in Workers, WorkerStep(w) \/ WorkerFault(w), TurnOK(w)
  PROVE  TurnOK(w)'
<1> USE DEF IInv, TypeOK, RunnerTypeOK
<1>0. UNCHANGED rowPos
  BY WorkerFrame DEF offRunner
<1>1. CASE HandleEvent(w)
  BY <1>1, TurnHandles
<1>2. CASE handled'[w] = {} /\ pc'[w] \notin {"insert", "handle"}
  BY <1>2 DEF TurnOK
<1>3. CASE UNCHANGED <<handled, effects>> /\ pc'[w] \notin {"insert", "handle"}
  BY <1>3 DEF TurnOK, Overtaken, RanFirst
<1>4. CASE ReadCheckpoint(w) \/ InsertCheckpoint(w)
  <2>1. UNCHANGED <<todo, step, handled, effects>>
    BY <1>4 DEF ReadCheckpoint, InsertCheckpoint, txVars, published
  <2>2. \A row \in todo[w] : IsCurrent(w, row) => wrote'[w][KeyOf(w, row)] < rowPos[row]
    BY <1>0, <1>4, TurnAhead
  <2>3. \A row \in todo[w] : (IsCurrent(w, row)' <=> IsCurrent(w, row)) /\ KeyOf(w, row)' = KeyOf(w, row)
    BY <1>0, <2>1 DEF IsCurrent, KeyOf
  <2> QED BY <1>0, <2>1, <2>2, <2>3 DEF TurnOK, Overtaken, RanFirst
<1>5. CASE ClaimBatch(w) \/ BeginTx(w) \/ SetCheckpoint(w) \/ Abort(w)
  BY <1>3, <1>5 DEF ClaimBatch, BeginTx, SetCheckpoint, Abort, GoTo, published, txVars
<1>6. CASE ClaimUnknown(w) \/ SkipProjection(w) \/ AckRow(w)
  BY <1>3, <1>6 DEF ClaimUnknown, SkipProjection, AckRow, published, runnerVars, txVars
<1>7. CASE HandlerThrows(w) \/ DbError(w) \/ DeadlockVictim(w) \/ ReleaseFails(w) \/ Crash(w) \/ ReleaseRows(w)
  BY <1>2, <1>7 DEF HandlerThrows, DbError, DeadlockVictim, ReleaseFails, Crash, ReleaseRows, EndTx, GoTo
<1>8. CASE CommitTx(w) \/ CommitUnknown(w)
  BY <1>2, <1>8 DEF CommitTx, CommitUnknown, EndTx, GoTo
<1> QED BY <1>1, <1>4, <1>5, <1>6, <1>7, <1>8 DEF WorkerStep, WorkerFault

\* A worker keeps its own turn and everybody else's.
LEMMA TurnWorkerStep ==
  ASSUME IInv, TurnInv, NEW w \in Workers, WorkerStep(w) \/ WorkerFault(w)
  PROVE  TurnInv'
<1>0. UNCHANGED rowPos /\ Others(w)
  BY WorkerFrame DEF offRunner
<1>1. ASSUME NEW v \in Workers \ {w} PROVE TurnOK(v)'
  <2>1. /\ pc'[v] = pc[v] /\ todo'[v] = todo[v] /\ step'[v] = step[v]
        /\ handled'[v] = handled[v] /\ wrote'[v] = wrote[v]
    BY <1>0 DEF Others
  <2>2. TurnOK(v)
    BY DEF TurnInv
  <2>3. \A row \in todo[v] : (IsCurrent(v, row)' <=> IsCurrent(v, row)) /\ KeyOf(v, row)' = KeyOf(v, row)
    BY <1>0, <2>1 DEF IsCurrent, KeyOf
  <2>4. ASSUME NEW pair \in handled[v], Overtaken(pair[1], pair[2])'
        PROVE  RanFirst(v, pair[1], pair[2])
    BY <2>2, <2>4, NotOvertaken DEF TurnOK
  <2> QED BY <1>0, <2>1, <2>2, <2>3, <2>4 DEF TurnOK, RanFirst
<1>2. TurnOK(w)'
  BY TurnOwnStep DEF TurnInv
<1> QED BY <1>1, <1>2 DEF TurnInv

(* In every reachable state what a worker is about to run lies ahead of    *)
(* its lock, and only the first run of a transaction can be overtaken.     *)
THEOREM Turns == Spec => []TurnInv
<1>1. Init => TurnInv
  <2> SUFFICES ASSUME Init, NEW w \in Workers PROVE TurnOK(w)
    BY DEF TurnInv
  <2>1. pc[w] \in {"poll", "stopped"} /\ handled[w] = {}
    BY DEF Init
  <2> QED BY <2>1 DEF TurnOK
<1>2. IInv /\ TurnInv /\ [Next]_vars => TurnInv'
  <2> SUFFICES ASSUME IInv, TurnInv, [Next]_vars PROVE TurnInv'
    OBVIOUS
  <2>1. CASE OutboxNext /\ UNCHANGED runnerVars
    BY <2>1, TurnOutboxStep
  <2>2. CASE \E w \in Workers : WorkerStep(w) \/ WorkerFault(w)
    BY <2>2, TurnWorkerStep
  <2>3. CASE UNCHANGED vars
    BY <2>3 DEF vars, outboxVars, rowVars, runnerVars, txVars, TurnInv, TurnOK, Overtaken, RanFirst,
                IsCurrent, KeyOf
  <2> QED BY <2>1, <2>2, <2>3 DEF Next
<1> QED BY <1>1, <1>2, Invariance, PTL DEF Spec

\* A commit that is overtaken is of the first run of its transaction.
LEMMA OvertakenCommit ==
  ASSUME IInv, TurnInv, Next, NEW pair \in Pairs, effects'[pair] > effects[pair],
         Overtaken(pair[1], pair[2])
  PROVE  \E w \in Workers : pair \in handled[w] /\ RanFirst(w, pair[1], pair[2])
<1>1. effects[pair] \in Nat
  BY DEF IInv, TypeOK, RunnerTypeOK
<1>2. ~(UNCHANGED effects)
  BY <1>1
<1>3. PICK w \in Workers : WorkerStep(w) \/ WorkerFault(w)
  BY <1>2 DEF Next, runnerVars
<1>4. Publish(w)
  BY <1>2, <1>3, WorkerRows
<1>5. pair \in handled[w]
  BY <1>1, <1>4 DEF Publish
<1> QED BY <1>5 DEF TurnInv, TurnOK

(* For each projection and tenant effects commit in the order of the log,  *)
(* whatever the number of workers, but for the first run of a transaction  *)
(* that another worker overtook after its checkpoint was read.             *)
THEOREM OrderedEffects == Spec => EffectsInOrder
<1> DEFINE Ordered ==
      /\ \A w \in Workers : pc[w] = "work" /\ pc'[w] \in {"insert", "handle"} =>
           \A row \in todo[w] : IsCurrent(w, row) => ~Overtaken(step[w], rowPos[row])
      /\ \A pair \in Pairs : effects'[pair] > effects[pair] /\ Overtaken(pair[1], pair[2]) =>
           \E w \in Workers : pair \in handled[w] /\ RanFirst(w, pair[1], pair[2])
<1>1. IInv /\ TurnInv /\ [Next]_vars => [Ordered]_vars
  BY StartsAhead, OvertakenCommit
<1> QED BY <1>1, Invariance, Turns, PTL DEF Spec, EffectsInOrder

-----------------------------------------------------------------------------
(* The refinement: every step is a move of Custody, or none of its steps.  *)

\* The two variables of Custody, as AsyncRunnerProperties maps them.
Status == [gp \in Positions |-> StatusOf(gp)]
AbstractStep == C!Next \/ UNCHANGED <<Status, effects>>

\* Before the first append every position is absent.
LEMMA CustodyInit == Init => C!Init
<1> SUFFICES ASSUME Init PROVE C!Init
  OBVIOUS
<1>1. \A gp \in Positions : StatusOf(gp) = "absent"
  BY DEF Init, OutboxInit, StatusOf, Queued, DeadLetter, PositionsOf
<1> QED BY <1>1 DEF Init, C!Init, Pairs

\* A step that leaves the two tables as they are is no step of Custody.
LEMMA CustodySame ==
  ASSUME Queued' = Queued, DeadLetter' = DeadLetter, UNCHANGED <<purged, events, effects>>
  PROVE  UNCHANGED <<Status, effects>>
BY DEF Status, StatusOf

\* An append commits: its event is published.
LEMMA CustodyCommit ==
  ASSUME IInv, NEW gp \in Positions, CommitAppend(gp), UNCHANGED effects
  PROVE  C!Publish(gp)
<1> USE DEF IInv, TypeOK, OutboxTypeOK
<1>1. PICK id \in Ids : rowPos[id] = gp /\ outbox' = outbox \cup {id}
  BY DEF CommitAppend
<1>2. UNCHANGED <<rowPos, dlq, purged>> /\ events' = events \cup {gp} /\ gp \notin events
  BY DEF CommitAppend, RowInv
<1>3. Queued' = Queued \cup {gp} /\ DeadLetter' = DeadLetter
  BY <1>1, <1>2 DEF Queued, DeadLetter, PositionsOf
<1>4. gp \notin Queued /\ gp \notin DeadLetter /\ gp \notin purged
  BY <1>2 DEF RowInv, Queued, DeadLetter, PositionsOf
<1>5. StatusOf(gp) = "absent"
  BY <1>2, <1>4 DEF StatusOf
<1>6. \A m \in Positions : StatusOf(m)' = IF m = gp THEN "queued" ELSE StatusOf(m)
  BY <1>2, <1>3 DEF StatusOf
<1> QED BY <1>5, <1>6 DEF C!Publish, C!With, C!Move

\* A requeue puts the events of its items back in the queue.
LEMMA CustodyRequeue ==
  ASSUME IInv, NEW items, NEW new, Requeued(items, new), UNCHANGED <<events, purged, effects>>
  PROVE  C!Requeue(PositionsOf(items))
<1> USE DEF IInv, TypeOK, OutboxTypeOK, Requeued
<1> DEFINE moved == PositionsOf(items)
<1>0. \A id \in outbox \cup dlq : id \in Ids \ new /\ rowPos[id] \in Positions
  <2>1. \A id \in outbox \cup dlq : id \in Ids /\ rowPos[id] \in events
    BY DEF RowInv
  <2>2. \A id \in outbox \cup dlq : id < nextId
    BY <2>1, BoundsAssumption DEF RowInv, Positions
  <2> QED BY <2>1, <2>2 DEF Ids
<1>1. Queued' = Queued \cup moved
  BY <1>0 DEF Queued, PositionsOf
<1>2. DeadLetter' = DeadLetter \ moved
  BY <1>0 DEF DeadLetter, PositionsOf, RowInv
<1>3. moved \subseteq DeadLetter /\ moved \cap Queued = {}
  BY <1>0 DEF DeadLetter, Queued, PositionsOf, RowInv
<1>4. moved \subseteq Positions
  BY <1>0 DEF PositionsOf
<1> HIDE DEF moved, IInv, Requeued
<1>5. \A m \in Positions : StatusOf(m)' = IF m \in moved THEN "queued" ELSE StatusOf(m)
  BY <1>1, <1>2 DEF StatusOf
<1>6. \A m \in moved : StatusOf(m) = "dead"
  BY <1>3 DEF StatusOf
<1>7. C!Requeue(moved)
  BY <1>4, <1>5, <1>6 DEF C!Requeue, C!With, C!Move
<1> QED BY <1>7 DEF moved

\* A purge takes the events of its items out of the DLQ for good.
LEMMA CustodyPurge ==
  ASSUME IInv, NEW t \in Tenants, Purge(t), UNCHANGED effects
  PROVE  \E ms \in SUBSET C!With("dead") : C!Purge(ms)
<1> USE DEF IInv, TypeOK, OutboxTypeOK
<1> DEFINE items == DlqRange(t, 1, MaxPos)
           gone == PositionsOf(items)
<1>1. /\ items \subseteq dlq /\ UNCHANGED <<events, outbox, rowPos>>
      /\ dlq' = dlq \ items /\ purged' = purged \cup gone
  BY DEF Purge, DlqRange, eventVars
<1>2. \A id \in items : rowPos[id] \in Positions
  BY <1>1 DEF RowInv
<1> HIDE DEF items
<1>3. Queued' = Queued /\ DeadLetter' = DeadLetter \ gone
  BY <1>1 DEF Queued, DeadLetter, PositionsOf, RowInv
<1>4. gone \subseteq DeadLetter /\ gone \cap Queued = {} /\ gone \subseteq Positions
  BY <1>1, <1>2 DEF DeadLetter, Queued, PositionsOf, RowInv
<1>5. purged \cap Queued = {} /\ purged \cap DeadLetter = {}
  BY DEF DeadLetter, Queued, PositionsOf, RowInv
<1> HIDE DEF gone, IInv
<1>6. \A m \in Positions : StatusOf(m)' = IF m \in gone THEN "purged" ELSE StatusOf(m)
  BY <1>1, <1>3, <1>4, <1>5 DEF StatusOf
<1>7. \A m \in gone : StatusOf(m) = "dead"
  BY <1>4 DEF StatusOf
<1>8. C!Purge(gone)
  BY <1>4, <1>6, <1>7 DEF C!Purge, C!With, C!Move
<1> QED BY <1>8 DEF C!Purge

\* A runner's commit settles its acked rows and dead-letters the others.
LEMMA CustodyPublish ==
  ASSUME IInv, NEW w \in Workers, Publish(w), UNCHANGED <<rowPos, events, purged>>
  PROVE  C!Settle(PositionsOf(acked[w]), PositionsOf(dead[w]), handled[w])
<1> USE DEF IInv, TypeOK, OutboxTypeOK
<1> DEFINE done == PositionsOf(acked[w])
           failed == PositionsOf(dead[w])
<1>1. /\ acked[w] \subseteq outbox /\ dead[w] \subseteq outbox /\ acked[w] \cap dead[w] = {}
      /\ outbox' = outbox \ (acked[w] \cup dead[w]) /\ dlq' = dlq \cup dead[w]
  <2>1. TxOK(w) /\ pc[w] = "work" /\ RemoveRows(acked[w], dead[w])
    BY DEF Publish, TxInv
  <2>2. unit[w] \subseteq claimed[w]
    BY DEF ClaimInv
  <2> HIDE DEF IInv
  <2> QED BY <2>1, <2>2 DEF TxOK, InTx, RemoveRows
<1>2. \A id \in outbox \cup dlq : rowPos[id] \in events \ purged /\ rowPos[id] \in Positions
  BY DEF RowInv
<1>3. \A a, b \in outbox \cup dlq : rowPos[a] = rowPos[b] => a = b
  BY DEF RowInv
<1>4. outbox \cap dlq = {}
  BY DEF RowInv
<1>5. /\ \A pair \in handled[w] : pair \in Pairs /\ effects[pair] = 0 /\ pair[2] \in done
      /\ effects' = [pair \in Pairs |-> IF pair \in handled[w] THEN 1 ELSE effects[pair]]
  <2>1. \A pair \in handled[w] : pair \in Pairs /\ effects[pair] = 0 /\ pair[2] \in done
    BY Committed
  <2> QED BY <2>1 DEF Publish
<1> HIDE DEF IInv
<1>6. Queued' = Queued \ (done \cup failed) /\ DeadLetter' = DeadLetter \cup failed
  BY <1>1, <1>3 DEF Queued, DeadLetter, PositionsOf
<1>7. done \subseteq Queued /\ failed \subseteq Queued /\ done \cap failed = {}
  BY <1>1, <1>3 DEF Queued, PositionsOf
<1>8. Queued \cap DeadLetter = {} /\ Queued \subseteq (events \ purged) \cap Positions
  BY <1>2, <1>3, <1>4 DEF Queued, DeadLetter, PositionsOf
<1> HIDE DEF done, failed
<1>9. \A m \in Positions : StatusOf(m)' = IF m \in done THEN "settled"
                                          ELSE IF m \in failed THEN "dead" ELSE StatusOf(m)
  BY <1>6, <1>7, <1>8 DEF StatusOf
<1>10. \A m \in done \cup failed : m \in Positions /\ StatusOf(m) = "queued"
  BY <1>7, <1>8 DEF StatusOf
<1>11. C!Settle(done, failed, handled[w])
  BY <1>5, <1>7, <1>9, <1>10 DEF C!Settle, C!With, Pairs
<1> QED BY <1>11 DEF done, failed

\* What a writer or an operator does is a move of Custody.
LEMMA CustodyOutboxStep ==
  ASSUME IInv, OutboxNext, UNCHANGED runnerVars PROVE AbstractStep
<1>0. UNCHANGED effects
  BY DEF runnerVars
<1>1. CASE AppendEvent \/ \E gp \in Positions : RollbackAppend(gp) \/ Dismiss(gp) \/ DetachPartition(gp)
  <2>1. UNCHANGED <<outbox, dlq, purged, events, rowPos>>
    BY <1>1 DEF AppendEvent, RollbackAppend, Dismiss, DetachPartition, rowVars
  <2> QED BY <1>0, <2>1, CustodySame DEF Queued, DeadLetter, PositionsOf, AbstractStep
<1>2. CASE \E gp \in Positions : EnqueueOutbox(gp)
  <2>1. /\ UNCHANGED <<outbox, dlq, purged, events>>
        /\ \E gp \in Positions : rowPos' = [rowPos EXCEPT ![nextId] = gp]
    BY <1>2 DEF EnqueueOutbox, rowVars, eventVars
  <2>2. \A id \in outbox \cup dlq : id # nextId /\ id \in Ids
    BY BoundsAssumption DEF IInv, TypeOK, OutboxTypeOK, RowInv, Ids, Positions
  <2>3. \A id \in outbox \cup dlq : rowPos'[id] = rowPos[id]
    BY <2>1, <2>2 DEF IInv, TypeOK, OutboxTypeOK
  <2>4. Queued' = Queued /\ DeadLetter' = DeadLetter
    BY <2>1, <2>3 DEF Queued, DeadLetter, PositionsOf
  <2> QED BY <1>0, <2>1, <2>4, CustodySame DEF AbstractStep
<1>3. CASE \E gp \in Positions : CommitAppend(gp)
  BY <1>0, <1>3, CustodyCommit DEF AbstractStep, C!Next
<1>4. CASE \E t \in Tenants, from, to \in Positions : Requeue(t, from, to)
  <2>1. PICK items, new : Requeued(items, new)
    BY <1>4, RequeueRows
  <2>2. UNCHANGED <<events, purged>>
    BY <1>4 DEF Requeue, eventVars
  <2>3. C!Requeue(PositionsOf(items))
    BY <1>0, <2>1, <2>2, CustodyRequeue
  <2> QED BY <2>3 DEF AbstractStep, C!Next, C!Requeue
<1>5. CASE \E t \in Tenants : Purge(t)
  BY <1>0, <1>5, CustodyPurge DEF AbstractStep, C!Next
<1> QED BY <1>1, <1>2, <1>3, <1>4, <1>5 DEF OutboxNext

\* A worker's commit is one Settle; nothing else a worker does shows.
LEMMA CustodyWorkerStep ==
  ASSUME IInv, NEW w \in Workers, WorkerStep(w) \/ WorkerFault(w) PROVE AbstractStep
<1>0. UNCHANGED <<rowPos, events, purged>>
  BY WorkerFrame DEF offRunner, eventVars
<1>1. CASE UNCHANGED <<outbox, dlq, effects>>
  BY <1>0, <1>1, CustodySame DEF Queued, DeadLetter, PositionsOf, AbstractStep
<1>2. CASE Publish(w)
  <2>1. C!Settle(PositionsOf(acked[w]), PositionsOf(dead[w]), handled[w])
    BY <1>0, <1>2, CustodyPublish
  <2>2. /\ PositionsOf(acked[w]) \subseteq C!With("queued")
        /\ PositionsOf(dead[w]) \subseteq C!With("queued") \ PositionsOf(acked[w])
    BY <2>1 DEF C!Settle
  <2>3. handled[w] \subseteq Projections \X PositionsOf(acked[w])
    <3>1. \A pair \in handled[w] : pair \in Projections \X Positions
      BY DEF IInv, TypeOK, RunnerTypeOK, Pairs
    <3>2. \A pair \in handled[w] : pair[2] \in PositionsOf(acked[w])
      BY <2>1 DEF C!Settle
    <3> QED BY <3>1, <3>2
  <2> QED BY <2>1, <2>2, <2>3 DEF AbstractStep, C!Next
<1> QED BY <1>1, <1>2, WorkerRows DEF LockRows, UnlockRows, rowVars

(* Writers, operators and runners implement Custody: an event is queued    *)
(* until a commit settles or dead-letters it, delivered at most once and   *)
(* only as it is settled.                                                  *)
THEOREM Refinement == Spec => CustodySpec
<1>1. IInv /\ [Next]_vars => [C!Next]_<<Status, effects>>
  <2> SUFFICES ASSUME IInv, [Next]_vars PROVE AbstractStep
    BY DEF AbstractStep
  <2>1. CASE OutboxNext /\ UNCHANGED runnerVars
    BY <2>1, CustodyOutboxStep
  <2>2. CASE \E w \in Workers : WorkerStep(w) \/ WorkerFault(w)
    BY <2>2, CustodyWorkerStep
  <2>3. CASE UNCHANGED vars
    BY <2>3 DEF vars, outboxVars, eventVars, rowVars, runnerVars, Status, StatusOf, Queued,
                DeadLetter, PositionsOf, AbstractStep
  <2> QED BY <2>1, <2>2, <2>3 DEF Next
<1>2. C!Spec <=> C!Init /\ [][C!Next]_<<Status, effects>>
  BY DEF C!Spec, Status
<1> QED BY <1>1, <1>2, CustodyInit, Invariance, PTL DEF Spec, CustodySpec

-----------------------------------------------------------------------------
(* The budget of attempts.                                                 *)

\* What a step of a worker may do to the two counts of a row.
LEMMA WorkerCounts ==
  ASSUME IInv, NEW w \in Workers, WorkerStep(w) \/ WorkerFault(w)
  PROVE  \/ UNCHANGED <<attempts, calls>>
         \/ /\ ClaimBatch(w) \/ (ClaimUnknown(w) /\ UNCHANGED claimed)
            /\ LockRows(w, LowestIds(Claimable(ClaimTopic[w]), BatchSize))
            /\ UNCHANGED <<calls, todo, unit, step, dead>>
         \/ /\ HandleEvent(w) \/ HandlerThrows(w)
            /\ pc[w] = "handle" /\ UNCHANGED <<attempts, claimed>>
            /\ \E row \in todo[w] : IsCurrent(w, row) /\ Called(w, row)
<1>0. CASE ClaimBatch(w)
  BY <1>0 DEF ClaimBatch, txVars
<1>1. CASE ClaimUnknown(w)
  BY <1>1 DEF ClaimUnknown, runnerVars, txVars
<1>2. CASE HandleEvent(w) \/ HandlerThrows(w)
  BY <1>2 DEF HandleEvent, HandlerThrows, published, rowVars
<1>3. CASE BeginTx(w) \/ SkipProjection(w) \/ ReadCheckpoint(w) \/ InsertCheckpoint(w)
  BY <1>3 DEF BeginTx, SkipProjection, ReadCheckpoint, InsertCheckpoint, published, rowVars
<1>4. CASE SetCheckpoint(w) \/ AckRow(w) \/ CommitTx(w) \/ CommitUnknown(w) \/ ReleaseRows(w)
  <2>1. CASE CommitTx(w) \/ CommitUnknown(w)
    BY <2>1 DEF CommitTx, CommitUnknown, Publish, RemoveRows
  <2>2. CASE SetCheckpoint(w) \/ AckRow(w)
    BY <2>2 DEF SetCheckpoint, AckRow, published, rowVars
  <2>3. CASE ReleaseRows(w)
    BY <2>3 DEF ReleaseRows, UnlockRows
  <2> QED BY <1>4, <2>1, <2>2, <2>3
<1>5. CASE DeadlockVictim(w) \/ DbError(w) \/ ReleaseFails(w) \/ Abort(w) \/ Crash(w)
  BY <1>5 DEF DeadlockVictim, DbError, ReleaseFails, Abort, Crash, published, rowVars
<1> QED BY <1>0, <1>1, <1>2, <1>3, <1>4, <1>5 DEF WorkerStep, WorkerFault

\* A row has one claim at a time.
LEMMA OneHolder ==
  ASSUME IInv, NEW v \in Workers, NEW w \in Workers, v # w,
         NEW id \in claimed[v], id \in outbox
  PROVE  id \notin todo[w] /\ lockedBy[id] # NoWorker
<1>1. lockedBy[id] = v /\ v # NoWorker
  BY RowAssumption DEF IInv, ClaimInv
<1>2. \A row \in todo[w] : row \in outbox => lockedBy[row] = w
  BY DEF IInv, ClaimInv, TxInv, TxOK
<1> QED BY <1>1, <1>2

\* The budget of the rows in the hands of another worker is left alone.
LEMMA BudgetOthers ==
  ASSUME IInv, BudgetInv, NEW w \in Workers, WorkerStep(w) \/ WorkerFault(w),
         NEW v \in Workers \ {w}, NEW id \in claimed[v], id \in outbox
  PROVE  attempts'[id] = attempts[id] /\ \A p \in Projections : calls'[<<p, id>>] = calls[<<p, id>>]
<1>1. id \in Ids /\ id \notin todo[w] /\ lockedBy[id] # NoWorker
  BY OneHolder DEF IInv, TypeOK, RunnerTypeOK
<1>2. CASE UNCHANGED <<attempts, calls>>
  BY <1>2
<1>3. CASE LockRows(w, LowestIds(Claimable(ClaimTopic[w]), BatchSize)) /\ UNCHANGED calls
  BY <1>1, <1>3 DEF LockRows, LowestIds, Claimable
<1>4. CASE UNCHANGED attempts /\ \E row \in todo[w] : Called(w, row)
  BY <1>1, <1>4 DEF Called, IInv, TypeOK, RunnerTypeOK
<1> QED BY <1>2, <1>3, <1>4, WorkerCounts

\* The parts of BudgetInv.
CallsBound ==
  \A p \in Projections, id \in Ids :
    calls[<<p, id>>] <= attempts[id] /\ calls[<<p, id>>] <= MaxAttempts
HandBound(w) ==
  pc[w] = "begin" \/ InTx(w) =>
    \A id \in claimed[w] \ unit[w], p \in Projections : calls[<<p, id>>] < attempts[id]
TodoBound(w) ==
  \A id \in todo[w] : /\ attempts[id] <= MaxAttempts
                      /\ \A p \in ToInvoke(w, id) : calls[<<p, id>>] < attempts[id]
DeadBound(ids) == \A id \in ids : attempts[id] > MaxAttempts \/ rowPos[id] \in archived

LEMMA BudgetParts ==
  BudgetInv <=> /\ CallsBound /\ DeadBound(dlq)
                /\ \A w \in Workers : HandBound(w) /\ TodoBound(w) /\ DeadBound(dead[w])
BY DEF BudgetInv, CallsBound, HandBound, TodoBound, DeadBound

\* Rows keep their position, and a position its archive.
LEMMA RowsStay ==
  ASSUME IInv, OutboxNext
  PROVE  /\ \A id \in outbox \cup dlq : rowPos'[id] = rowPos[id]
         /\ dlq' \subseteq dlq /\ archived \subseteq archived' /\ UNCHANGED attempts
<1> USE DEF eventVars, rowVars
<1>1. \A id \in outbox \cup dlq : id \in Ids /\ id < nextId /\ id # nextId
  BY BoundsAssumption DEF IInv, TypeOK, OutboxTypeOK, RowInv, Ids, Positions
<1>2. CASE \E gp \in Positions : EnqueueOutbox(gp)
  BY <1>1, <1>2 DEF EnqueueOutbox, IInv, TypeOK, OutboxTypeOK
<1>3. CASE \E t \in Tenants, from, to \in Positions : Requeue(t, from, to)
  <2>1. PICK items, new : Requeued(items, new)
    BY <1>3, RequeueRows
  <2>2. \A id \in outbox \cup dlq : id \notin new
    BY <1>1, <2>1, BoundsAssumption DEF Requeued, Ids, IInv, TypeOK, OutboxTypeOK
  <2> QED BY <1>1, <1>3, <2>1, <2>2 DEF Requeued, Requeue
<1>4. CASE \E gp \in Positions : DetachPartition(gp)
  BY <1>4 DEF DetachPartition
<1>5. CASE AppendEvent \/ \E gp \in Positions : CommitAppend(gp) \/ RollbackAppend(gp) \/ Dismiss(gp)
  BY <1>5 DEF AppendEvent, CommitAppend, RollbackAppend, Dismiss
<1>6. CASE \E t \in Tenants : Purge(t)
  BY <1>6 DEF Purge
<1> QED BY <1>2, <1>3, <1>4, <1>5, <1>6 DEF OutboxNext

LEMMA BudgetOutboxStep ==
  ASSUME IInv, BudgetInv, OutboxNext, UNCHANGED runnerVars PROVE BudgetInv'
<1>1. UNCHANGED <<pc, claimed, unit, todo, step, dead, calls, attempts>>
  BY RowsStay DEF runnerVars, txVars
<1>2. CallsBound'
  BY <1>1, BudgetParts DEF CallsBound
<1>3. DeadBound(dlq)'
  BY RowsStay, BudgetParts DEF DeadBound
<1>4. ASSUME NEW w \in Workers PROVE HandBound(w)' /\ TodoBound(w)' /\ DeadBound(dead[w])'
  <2>1. \A id \in todo[w] \cup dead[w] : rowPos'[id] = rowPos[id]
    BY HeldRows DEF IInv, ClaimInv, TxInv, TxOK
  <2>2. HandBound(w)'
    BY <1>1, BudgetParts DEF HandBound, InTx
  <2>3. TodoBound(w)'
    <3>1. \A id \in todo[w] : ToInvoke(w, id)' = ToInvoke(w, id)
      BY <1>1, <2>1 DEF ToInvoke, IsCurrent
    <3> QED BY <1>1, <3>1, BudgetParts DEF TodoBound
  <2>4. DeadBound(dead[w])'
    BY <1>1, <2>1, RowsStay, BudgetParts DEF DeadBound
  <2> QED BY <2>2, <2>3, <2>4
<1> QED BY <1>2, <1>3, <1>4, BudgetParts DEF BudgetInv, CallsBound, HandBound, TodoBound, DeadBound

\* What a worker does keeps the bound on the calls: an invocation is one of
\* those the claim was still worth.
LEMMA BudgetCalls ==
  ASSUME IInv, BudgetInv, NEW w \in Workers, WorkerStep(w) \/ WorkerFault(w)
  PROVE  CallsBound'
<1> SUFFICES ASSUME NEW p \in Projections, NEW id \in Ids
             PROVE  calls'[<<p, id>>] <= attempts'[id] /\ calls'[<<p, id>>] <= MaxAttempts
  BY DEF CallsBound
<1>0. /\ attempts[id] \in Nat /\ calls[<<p, id>>] \in Nat /\ MaxAttempts \in Nat
      /\ calls[<<p, id>>] <= attempts[id] /\ calls[<<p, id>>] <= MaxAttempts
  BY RunnerAssumption, BudgetParts DEF IInv, TypeOK, OutboxTypeOK, RunnerTypeOK, CallsBound
<1>1. CASE UNCHANGED <<attempts, calls>>
  BY <1>0, <1>1
<1>2. CASE LockRows(w, LowestIds(Claimable(ClaimTopic[w]), BatchSize)) /\ UNCHANGED calls
  <2>1. attempts'[id] \in {attempts[id], attempts[id] + 1}
    BY <1>2 DEF LockRows
  <2> QED BY <1>0, <1>2, <2>1
<1>3. CASE /\ pc[w] = "handle" /\ UNCHANGED attempts
           /\ \E row \in todo[w] : IsCurrent(w, row) /\ Called(w, row)
  <2>1. PICK row \in todo[w] : IsCurrent(w, row) /\ Called(w, row)
    BY <1>3
  <2>2. step[w] \in Projections /\ <<step[w], row>> \in Projections \X Ids
    BY <1>3, KeyType, TodoRow
  <2>3. calls'[<<p, id>>] = IF p = step[w] /\ id = row THEN calls[<<p, id>>] + 1 ELSE calls[<<p, id>>]
    BY <2>1, <2>2 DEF Called, IInv, TypeOK, RunnerTypeOK
  <2>4. step[w] \in ToInvoke(w, row)
    BY <1>3, <2>2 DEF ToInvoke
  <2>5. attempts[row] <= MaxAttempts /\ calls[<<step[w], row>>] < attempts[row]
    BY <2>4, BudgetParts DEF TodoBound
  <2>6. CASE p = step[w] /\ id = row
    BY <1>0, <1>3, <2>3, <2>5, <2>6
  <2>7. CASE ~(p = step[w] /\ id = row)
    BY <1>0, <1>3, <2>3, <2>7
  <2> QED BY <2>6, <2>7
<1> QED BY <1>1, <1>2, <1>3, WorkerCounts

\* The rows of a worker's claimed array stay in its budget.
LEMMA BudgetHand ==
  ASSUME IInv, BudgetInv, NEW w \in Workers, WorkerStep(w) \/ WorkerFault(w)
  PROVE  HandBound(w)'
<1> USE DEF HandBound
<1>0. HandBound(w) /\ CallsBound
  BY BudgetParts
<1>1. CASE ClaimBatch(w)
  <2> SUFFICES ASSUME NEW id \in claimed'[w], NEW p \in Projections
               PROVE  calls'[<<p, id>>] < attempts'[id]
    OBVIOUS
  <2>1. claimed'[w] = LowestIds(Claimable(ClaimTopic[w]), BatchSize)
    BY <1>1 DEF ClaimBatch, IInv, TypeOK, RunnerTypeOK
  <2>2. id \in LowestIds(Claimable(ClaimTopic[w]), BatchSize) /\ id \in Ids
    BY <2>1 DEF LowestIds, Claimable, IInv, TypeOK, OutboxTypeOK
  <2>3. attempts'[id] = attempts[id] + 1 /\ calls' = calls
    BY <1>1, <2>2 DEF ClaimBatch, LockRows
  <2>4. calls[<<p, id>>] <= attempts[id] /\ calls[<<p, id>>] \in Nat /\ attempts[id] \in Nat
    BY <1>0, <2>2 DEF CallsBound, IInv, TypeOK, OutboxTypeOK, RunnerTypeOK
  <2> QED BY <2>3, <2>4
<1>2. CASE ClaimUnknown(w)
  BY <1>2 DEF ClaimUnknown, runnerVars, txVars, InTx
<1>3. CASE BeginTx(w)
  <2>1. PICK rows, d, k, t : rows \in Units(w) /\ DealOut(w, rows, d, k, t)
    BY <1>3, BeginTxRows
  <2>2. unit[w] = {} /\ UNCHANGED <<claimed, calls, attempts>>
    BY <1>3 DEF BeginTx, published, rowVars, IInv, TxInv, TxOK
  <2> QED BY <1>0, <1>3, <2>2 DEF BeginTx
<1>4. CASE HandleEvent(w)
  <2>1. PICK row \in todo[w] : Called(w, row)
    BY <1>4 DEF HandleEvent
  <2>2. row \in unit[w] /\ InTx(w) /\ row \in Ids
    BY TodoRow
  <2>3. UNCHANGED <<claimed, unit, attempts>>
    BY <1>4 DEF HandleEvent, published, rowVars
  <2>4. \A id \in claimed[w] \ unit[w], p \in Projections : calls'[<<p, id>>] = calls[<<p, id>>]
    BY <2>1, <2>2 DEF Called, IInv, TypeOK, RunnerTypeOK
  <2> QED BY <1>0, <2>2, <2>3, <2>4
<1>5. CASE SkipProjection(w) \/ ReadCheckpoint(w) \/ InsertCheckpoint(w)
  BY <1>0, <1>5 DEF SkipProjection, ReadCheckpoint, InsertCheckpoint, InTx, published, rowVars, txVars
<1>6. CASE SetCheckpoint(w) \/ AckRow(w)
  BY <1>0, <1>6 DEF SetCheckpoint, AckRow, InTx, published, rowVars
<1>7. CASE CommitTx(w)
  <2>1. claimed'[w] = claimed[w] \ unit[w] /\ UNCHANGED <<attempts, calls>> /\ InTx(w)
    BY <1>7 DEF CommitTx, Publish, RemoveRows, InTx, IInv, TypeOK, RunnerTypeOK
  <2> QED BY <1>0, <2>1
<1>8. CASE pc'[w] \notin {"begin", "work", "insert", "handle", "set"}
  BY <1>8 DEF InTx
<1>9. CASE CommitUnknown(w) \/ DbError(w) \/ DeadlockVictim(w) \/ HandlerThrows(w)
  BY <1>8, <1>9 DEF CommitUnknown, DbError, DeadlockVictim, HandlerThrows, GoTo, IInv, TypeOK, RunnerTypeOK
<1>10. CASE ReleaseRows(w) \/ ReleaseFails(w) \/ Crash(w) \/ Abort(w)
  BY <1>8, <1>10 DEF ReleaseRows, ReleaseFails, Crash, Abort, GoTo, IInv, TypeOK, RunnerTypeOK
<1> QED BY <1>1, <1>2, <1>3, <1>4, <1>5, <1>6, <1>7, <1>9, <1>10 DEF WorkerStep, WorkerFault

\* So do the rows whose events are still to be processed.
LEMMA BudgetTodo ==
  ASSUME IInv, BudgetInv, NEW w \in Workers, WorkerStep(w) \/ WorkerFault(w)
  PROVE  TodoBound(w)'
<1> USE DEF TodoBound
<1>0. TodoBound(w) /\ UNCHANGED rowPos
  BY BudgetParts, WorkerFrame DEF offRunner
<1>1. CASE todo'[w] = {}
  BY <1>1
<1>2. CASE ClaimBatch(w) \/ ClaimUnknown(w)
  <2>1. todo[w] = {} /\ UNCHANGED todo
    BY <1>2 DEF ClaimBatch, ClaimUnknown, IInv, TxInv, TxOK, InTx, runnerVars, txVars
  <2> QED BY <1>1, <2>1
<1>3. CASE BeginTx(w)
  <2>1. PICK rows, d, k, t : rows \in Units(w) /\ DealOut(w, rows, d, k, t)
    BY <1>3, BeginTxRows
  <2>2. UNCHANGED <<calls, attempts>> /\ pc[w] = "begin" /\ unit[w] = {}
    BY <1>3 DEF BeginTx, published, rowVars, IInv, TxInv, TxOK
  <2>3. todo'[w] = t /\ t \subseteq claimed[w] /\ claimed[w] \subseteq Ids
    BY <2>1 DEF DealOut, Units, IInv, TypeOK, RunnerTypeOK
  <2>4. \A id \in t : attempts[id] <= MaxAttempts
    BY <2>1, <2>3, RunnerAssumption DEF DealOut, IInv, TypeOK, OutboxTypeOK
  <2>5. \A id \in t, p \in Projections : calls[<<p, id>>] < attempts[id]
    BY <2>2, <2>3, BudgetParts DEF HandBound
  <2> QED BY <2>2, <2>3, <2>4, <2>5 DEF ToInvoke
<1>4. CASE HandleEvent(w)
  <2>1. PICK row \in todo[w] : IsCurrent(w, row) /\ Called(w, row)
    BY <1>4 DEF HandleEvent
  <2>2. /\ UNCHANGED <<todo, step, attempts>> /\ pc'[w] = "set"
        /\ pc[w] = "handle" /\ row \in Ids
    BY <1>4, TodoRow DEF HandleEvent, GoTo, published, rowVars, IInv, TypeOK, RunnerTypeOK
  <2>3. \A id \in todo[w], p \in Projections :
          ~(p = step[w] /\ id = row) => calls'[<<p, id>>] = calls[<<p, id>>]
    BY <2>1, <2>2 DEF Called, IInv, TypeOK, RunnerTypeOK
  <2>4. \A id \in todo[w] : IsCurrent(w, id)' <=> IsCurrent(w, id)
    BY <1>0, <2>2 DEF IsCurrent
  <2>5. ASSUME NEW id \in todo[w], NEW p \in ToInvoke(w, id)'
        PROVE  p \in ToInvoke(w, id) /\ ~(p = step[w] /\ id = row)
    <3>1. step[w] \in Nat /\ p \in Nat /\ p \in Projections
      BY <2>5 DEF ToInvoke, Projections, IInv, TypeOK, RunnerTypeOK
    <3>2. IsCurrent(w, id) => p > step[w]
      BY <2>2, <2>4, <2>5 DEF ToInvoke
    <3> QED BY <2>1, <3>1, <3>2 DEF ToInvoke
  <2> QED BY <1>0, <2>2, <2>3, <2>5 DEF ToInvoke
<1>5. CASE SkipProjection(w) \/ SetCheckpoint(w)
  <2>1. /\ UNCHANGED <<todo, attempts, calls>> /\ step'[w] = step[w] + 1 /\ step[w] \in Nat
        /\ pc'[w] = "work"
    BY <1>5 DEF SkipProjection, SetCheckpoint, GoTo, published, rowVars, IInv, TypeOK, RunnerTypeOK
  <2>2. \A id \in todo[w] : ToInvoke(w, id)' \subseteq ToInvoke(w, id)
    <3> SUFFICES ASSUME NEW id \in todo[w], NEW p \in ToInvoke(w, id)' PROVE p \in ToInvoke(w, id)
      OBVIOUS
    <3>1. IsCurrent(w, id)' <=> IsCurrent(w, id)
      BY <1>0, <2>1 DEF IsCurrent
    <3>2. p \in Nat /\ p \in Projections
      BY DEF ToInvoke, Projections
    <3> QED BY <2>1, <3>1, <3>2 DEF ToInvoke
  <2> QED BY <1>0, <2>1, <2>2
<1>6. CASE ReadCheckpoint(w) \/ InsertCheckpoint(w)
  <2>1. /\ UNCHANGED <<todo, attempts, calls, step>> /\ pc[w] # "set"
        /\ pc'[w] # "set"
    BY <1>6 DEF ReadCheckpoint, InsertCheckpoint, GoTo, txVars, published, rowVars, IInv, TypeOK, RunnerTypeOK
  <2>2. \A id \in todo[w] : ToInvoke(w, id)' = ToInvoke(w, id)
    BY <1>0, <2>1 DEF ToInvoke, IsCurrent
  <2> QED BY <1>0, <2>1, <2>2
<1>7. CASE AckRow(w)
  <2>1. PICK row \in todo[w] : IsCurrent(w, row) /\ todo' = [todo EXCEPT ![w] = @ \ {row}]
    BY <1>7 DEF AckRow
  <2>2. todo'[w] = todo[w] \ {row} /\ UNCHANGED <<attempts, calls>>
    BY <1>7, <2>1 DEF AckRow, published, rowVars, IInv, TypeOK, RunnerTypeOK
  <2>3. ASSUME NEW id \in todo'[w] PROVE ToInvoke(w, id) = Projections
    <3>1. id \in todo[w] /\ id # row /\ id \in outbox /\ row \in outbox
      BY <2>2, <2>3, TodoRow
    <3>2. rowPos[id] # rowPos[row] /\ rowPos[id] \in Nat /\ rowPos[row] \in Nat
      BY <3>1, TodoRow DEF IInv, RowInv, Positions
    <3>3. ~IsCurrent(w, id)
      BY <2>1, <3>2 DEF IsCurrent
    <3> QED BY <3>3 DEF ToInvoke
  <2>4. \A id \in todo'[w] : ToInvoke(w, id)' \subseteq Projections
    BY DEF ToInvoke
  <2> QED BY <1>0, <2>2, <2>3, <2>4
<1>8. CASE CommitTx(w) \/ CommitUnknown(w) \/ DbError(w) \/ DeadlockVictim(w) \/ HandlerThrows(w)
  BY <1>1, <1>8 DEF CommitTx, CommitUnknown, DbError, DeadlockVictim, HandlerThrows, EndTx,
                    IInv, TypeOK, RunnerTypeOK
<1>9. CASE ReleaseRows(w) \/ ReleaseFails(w) \/ Crash(w)
  BY <1>1, <1>9 DEF ReleaseRows, ReleaseFails, Crash, EndTx, IInv, TypeOK, RunnerTypeOK
<1>10. CASE Abort(w)
  <2>1. todo[w] = {} /\ UNCHANGED todo
    BY <1>10 DEF Abort, IInv, TxInv, TxOK, InTx, txVars
  <2> QED BY <1>1, <2>1
<1> QED BY <1>2, <1>3, <1>4, <1>5, <1>6, <1>7, <1>8, <1>9, <1>10 DEF WorkerStep, WorkerFault

\* A row that is dead-lettered has spent its budget, or its event is archived.
LEMMA BudgetDead ==
  ASSUME IInv, BudgetInv, NEW w \in Workers, WorkerStep(w) \/ WorkerFault(w)
  PROVE  DeadBound(dead[w])' /\ DeadBound(dlq)'
<1>0. /\ UNCHANGED <<rowPos, archived, events>> /\ DeadBound(dead[w]) /\ DeadBound(dlq)
      /\ dead[w] \cup dlq \subseteq Ids
  BY BudgetParts, WorkerFrame DEF offRunner, eventVars, IInv, TypeOK, OutboxTypeOK, RunnerTypeOK
<1>1. \A id \in Ids : attempts[id] > MaxAttempts => attempts'[id] > MaxAttempts
  <2>1. \A id \in Ids : attempts'[id] \in {attempts[id], attempts[id] + 1}
    BY WorkerCounts DEF LockRows
  <2> QED BY <2>1, RunnerAssumption DEF IInv, TypeOK, OutboxTypeOK
<1>2. \A ids : ids \subseteq dead[w] \cup dlq => DeadBound(ids)'
  BY <1>0, <1>1 DEF DeadBound
<1>3. dlq' \subseteq dead[w] \cup dlq
  BY WorkerRows DEF LockRows, UnlockRows, Publish, RemoveRows, rowVars
<1>4. CASE dead'[w] \subseteq dead[w]
  BY <1>2, <1>3, <1>4
<1>5. CASE BeginTx(w)
  <2>1. PICK rows, d, k, t : rows \in Units(w) /\ DealOut(w, rows, d, k, t)
    BY <1>5, BeginTxRows
  <2>2. UNCHANGED attempts /\ dead'[w] = d
    BY <1>5, <2>1 DEF BeginTx, published, rowVars, DealOut, IInv, TypeOK, RunnerTypeOK
  <2>3. \A id \in d : rowPos[id] \in events
    BY <2>1 DEF DealOut, Units, IInv, ClaimInv
  <2>4. DeadBound(dead[w])'
    BY <1>0, <2>1, <2>2, <2>3 DEF DealOut, DeadBound, Loadable
  <2> QED BY <1>2, <1>3, <2>4
<1>6. CASE ClaimBatch(w) \/ ClaimUnknown(w) \/ Abort(w)
  BY <1>4, <1>6 DEF ClaimBatch, ClaimUnknown, Abort, runnerVars, txVars
<1>7. CASE SkipProjection(w) \/ ReadCheckpoint(w) \/ InsertCheckpoint(w)
  BY <1>4, <1>7 DEF SkipProjection, ReadCheckpoint, InsertCheckpoint, txVars
<1>8. CASE HandleEvent(w) \/ SetCheckpoint(w) \/ AckRow(w)
  BY <1>4, <1>8 DEF HandleEvent, SetCheckpoint, AckRow
<1>9. CASE CommitTx(w) \/ CommitUnknown(w) \/ DbError(w) \/ DeadlockVictim(w) \/ HandlerThrows(w)
  BY <1>4, <1>9 DEF CommitTx, CommitUnknown, DbError, DeadlockVictim, HandlerThrows, EndTx,
                    IInv, TypeOK, RunnerTypeOK
<1>10. CASE ReleaseRows(w) \/ ReleaseFails(w) \/ Crash(w)
  BY <1>4, <1>10 DEF ReleaseRows, ReleaseFails, Crash, EndTx, IInv, TypeOK, RunnerTypeOK
<1> QED BY <1>5, <1>6, <1>7, <1>8, <1>9, <1>10 DEF WorkerStep, WorkerFault

LEMMA BudgetWorkerStep ==
  ASSUME IInv, BudgetInv, NEW w \in Workers, WorkerStep(w) \/ WorkerFault(w)
  PROVE  BudgetInv'
<1>1. HandBound(w)' /\ TodoBound(w)' /\ DeadBound(dead[w])' /\ DeadBound(dlq)' /\ CallsBound'
  BY BudgetCalls, BudgetHand, BudgetTodo, BudgetDead
<1>2. ASSUME NEW v \in Workers, v # w PROVE HandBound(v)' /\ TodoBound(v)' /\ DeadBound(dead[v])'
  <2>1. /\ pc'[v] = pc[v] /\ claimed'[v] = claimed[v] /\ unit'[v] = unit[v]
        /\ todo'[v] = todo[v] /\ step'[v] = step[v] /\ dead'[v] = dead[v]
        /\ UNCHANGED <<rowPos, archived>>
    BY <1>2, WorkerFrame DEF Others, offRunner, eventVars
  <2>2. HandBound(v) /\ TodoBound(v) /\ DeadBound(dead[v])
    BY BudgetParts
  <2>3. HandBound(v)'
    <3>1. pc[v] = "begin" \/ InTx(v) => claimed[v] \subseteq outbox
      BY DEF IInv, TxInv, TxOK
    <3> QED BY <1>2, <2>1, <2>2, <3>1, BudgetOthers DEF HandBound, InTx
  <2>4. \A id \in todo[v] : id \in claimed[v] /\ id \in outbox
    BY TodoRow
  <2>5. \A id \in todo[v] : ToInvoke(v, id)' = ToInvoke(v, id) /\ ToInvoke(v, id) \subseteq Projections
    BY <2>1 DEF ToInvoke, IsCurrent
  <2>6. TodoBound(v)'
    <3> SUFFICES ASSUME NEW id \in todo[v]
                 PROVE  /\ attempts'[id] <= MaxAttempts
                        /\ \A p \in ToInvoke(v, id)' : calls'[<<p, id>>] < attempts'[id]
      BY <2>1 DEF TodoBound
    <3>1. attempts'[id] = attempts[id] /\ \A p \in Projections : calls'[<<p, id>>] = calls[<<p, id>>]
      BY <1>2, <2>4, BudgetOthers
    <3> QED BY <2>2, <2>5, <3>1 DEF TodoBound
  <2>7. \A id \in Ids : attempts[id] > MaxAttempts => attempts'[id] > MaxAttempts
    <3>1. \A id \in Ids : attempts'[id] \in {attempts[id], attempts[id] + 1}
      BY WorkerCounts DEF LockRows
    <3> QED BY <3>1, RunnerAssumption DEF IInv, TypeOK, OutboxTypeOK
  <2>8. DeadBound(dead[v])'
    BY <2>1, <2>2, <2>7 DEF DeadBound, IInv, TypeOK, RunnerTypeOK
  <2> QED BY <2>3, <2>6, <2>8
<1> QED BY <1>1, <1>2, BudgetParts DEF BudgetInv, CallsBound, HandBound, TodoBound, DeadBound

(* However often a row is claimed, released, lost and claimed again, it    *)
(* costs each projection at most MaxAttempts invocations, and it is        *)
(* dead-lettered with a loadable event only when they are spent.           *)
THEOREM BudgetKept == Spec => []AttemptBudget
<1>1. Init => BudgetInv
  BY RunnerAssumption DEF Init, OutboxInit, BudgetInv, InTx
<1>2. IInv /\ BudgetInv /\ [Next]_vars => BudgetInv'
  <2> SUFFICES ASSUME IInv, BudgetInv, [Next]_vars PROVE BudgetInv'
    OBVIOUS
  <2>1. CASE UNCHANGED vars
    BY <2>1 DEF vars, outboxVars, eventVars, rowVars, runnerVars, txVars, BudgetInv, ToInvoke,
                IsCurrent, InTx
  <2> QED BY <2>1, BudgetOutboxStep, BudgetWorkerStep DEF Next
<1>3. IInv /\ BudgetInv => AttemptBudget
  <2> SUFFICES ASSUME IInv, BudgetInv PROVE AttemptBudget
    OBVIOUS
  <2>1. \A call \in Projections \X Ids : calls[call] <= MaxAttempts
    BY DEF BudgetInv
  <2> QED BY <2>1 DEF BudgetInv, AttemptBudget, Loadable
<1> QED BY <1>1, <1>2, <1>3, Invariance, PTL DEF Spec

-----------------------------------------------------------------------------
(* Delivery, when a runner is alone and writers take turns.                *)

\* What a writer or an operator does to the rows of the outbox: it adds the
\* one whose event commits, or none.
LEMMA OutboxRows ==
  ASSUME OneAtATime, IInv, OutboxNext
  PROVE  /\ UNCHANGED lockedBy /\ events \subseteq events'
         /\ archived \subseteq archived' /\ dismissed \subseteq dismissed'
         /\ \/ UNCHANGED outbox
            \/ \E gp \in pending, id \in Ids : /\ rowPos[id] = gp /\ UNCHANGED rowPos
                                               /\ outbox' = outbox \cup {id}
<1> USE DEF eventVars, rowVars
<1>1. CASE AppendEvent \/ \E gp \in Positions : EnqueueOutbox(gp) \/ RollbackAppend(gp)
  BY <1>1 DEF AppendEvent, EnqueueOutbox, RollbackAppend
<1>2. CASE \E gp \in Positions : CommitAppend(gp)
  <2>1. PICK gp \in Positions : CommitAppend(gp)
    BY <1>2
  <2>2. PICK id \in Ids : rowPos[id] = gp /\ outbox' = outbox \cup {id}
    BY <2>1 DEF CommitAppend
  <2> QED BY <2>1, <2>2 DEF CommitAppend
<1>3. CASE \E gp \in Positions : Dismiss(gp) \/ DetachPartition(gp)
  BY <1>3 DEF Dismiss, DetachPartition
<1>4. CASE \E t \in Tenants, from, to \in Positions : Requeue(t, from, to)
  BY <1>4 DEF OneAtATime, Requeue, Disrupt
<1>5. CASE \E t \in Tenants : Purge(t)
  BY <1>5 DEF Purge
<1> QED BY <1>1, <1>2, <1>3, <1>4, <1>5 DEF OutboxNext

\* A runner is alone: who moves is not stopped, and the others are.
LEMMA OthersStopped ==
  ASSUME AloneInv, NEW w \in Workers, pc[w] # "stopped"
  PROVE  \A v \in Workers : v # w => pc[v] = "stopped" /\ claimed[v] = {}
BY DEF AloneInv

LEMMA MoverRuns ==
  ASSUME NEW w \in Workers, WorkerStep(w) \/ WorkerFault(w)
  PROVE  pc[w] # "stopped"
<1>1. CASE WorkerStep(w)
  <2>1. CASE DeadlockVictim(w)
    <3>1. \E cycle \in SUBSET Workers : w \in cycle /\ \E u \in cycle : WaitsFor(w, u)
      BY <2>1 DEF DeadlockVictim
    <3> QED BY <3>1 DEF WaitsFor
  <2>2. CASE CommitTx(w)
    BY <2>2 DEF CommitTx, Publish
  <2>3. CASE ClaimBatch(w) \/ BeginTx(w) \/ SkipProjection(w) \/ ReadCheckpoint(w)
    BY <2>3 DEF ClaimBatch, BeginTx, SkipProjection, ReadCheckpoint
  <2>4. CASE InsertCheckpoint(w) \/ HandleEvent(w) \/ HandlerThrows(w) \/ SetCheckpoint(w)
    BY <2>4 DEF InsertCheckpoint, HandleEvent, HandlerThrows, SetCheckpoint
  <2>5. CASE AckRow(w) \/ ReleaseRows(w)
    BY <2>5 DEF AckRow, ReleaseRows
  <2> QED BY <1>1, <2>1, <2>2, <2>3, <2>4, <2>5 DEF WorkerStep
<1>2. CASE WorkerFault(w)
  BY <1>2 DEF WorkerFault, ClaimUnknown, DbError, InTx, CommitUnknown, Publish, ReleaseFails, Abort, Crash
<1> QED BY <1>1, <1>2

\* In batches the transaction takes all that was claimed.
LEMMA AloneWorkerStep ==
  ASSUME OneAtATime, IInv, AloneInv, NEW w \in Workers, WorkerStep(w) \/ WorkerFault(w)
  PROVE  AloneInv'
<1> DEFINE Dealt == claimed[w] = unit[w] /\
             \A id \in unit[w] \ (todo[w] \cup acked[w] \cup dead[w]) : rowPos[id] \in archived
<1>0. /\ Mode[w] = "batch" /\ (InTx(w) => Dealt) /\ UNCHANGED <<rowPos, archived>>
      /\ \A v \in Workers : v # w => pc[v] = "stopped" /\ claimed[v] = {}
      /\ \A v \in Workers : v # w => pc'[v] = pc[v] /\ claimed'[v] = claimed[v]
  BY MoverRuns, OthersStopped, WorkerFrame DEF AloneInv, Others, offRunner, eventVars
<1>1. SUFFICES IF pc'[w] = "stopped" THEN claimed'[w] = {} ELSE InTx(w)' => Dealt'
  BY <1>0 DEF AloneInv
<1>2. CASE ~InTx(w)' /\ pc'[w] # "stopped"
  BY <1>2
<1> USE DEF IInv, TypeOK, RunnerTypeOK, OutboxTypeOK, GoTo
<1>3. CASE ClaimBatch(w) \/ ClaimUnknown(w)
  BY <1>2, <1>3 DEF ClaimBatch, ClaimUnknown, runnerVars, InTx
<1>4. CASE BeginTx(w)
  <2>1. PICK rows \in Units(w) :
          LET spent   == {id \in rows : attempts[id] > MaxAttempts}
              found   == {id \in rows \ spent : rowPos[id] \in Loadable}
              missing == rows \ (spent \cup found)
              skipped == {id \in found : rowPos[id] \in dismissed /\ ~IncludeDismissed}
          IN /\ unit' = [unit EXCEPT ![w] = rows]
             /\ dead' = [dead EXCEPT ![w] = spent \cup (IF Mode[w] = "perRow" THEN missing ELSE {})]
             /\ acked' = [acked EXCEPT ![w] = skipped]
             /\ todo' = [todo EXCEPT ![w] = found \ skipped]
    BY <1>4 DEF BeginTx
  <2>2. rows = claimed[w] /\ UNCHANGED claimed /\ pc'[w] = "work"
    BY <1>0, <1>4 DEF Units, BeginTx
  <2>3. \A id \in rows : rowPos[id] \in events
    BY <2>2 DEF ClaimInv
  <2>4. /\ unit'[w] = rows
        /\ \A id \in rows : id \in todo'[w] \cup acked'[w] \cup dead'[w] \/ rowPos[id] \notin Loadable
    BY <2>1
  <2> QED BY <1>0, <2>2, <2>3, <2>4 DEF Loadable
<1>5. CASE SkipProjection(w) \/ ReadCheckpoint(w) \/ InsertCheckpoint(w)
  BY <1>0, <1>5 DEF SkipProjection, ReadCheckpoint, InsertCheckpoint, InTx, txVars
<1>6. CASE HandleEvent(w) \/ SetCheckpoint(w)
  BY <1>0, <1>6 DEF HandleEvent, SetCheckpoint, InTx
<1>7. CASE AckRow(w)
  <2>1. PICK row \in todo[w] : /\ acked' = [acked EXCEPT ![w] = @ \cup {row}]
                               /\ todo' = [todo EXCEPT ![w] = @ \ {row}]
    BY <1>7 DEF AckRow
  <2>2. acked'[w] \cup todo'[w] = acked[w] \cup todo[w]
    BY <2>1
  <2> QED BY <1>0, <1>7, <2>2 DEF AckRow, InTx
<1>8. CASE CommitTx(w) \/ CommitUnknown(w) \/ DbError(w) \/ DeadlockVictim(w) \/ HandlerThrows(w)
  BY <1>2, <1>8 DEF CommitTx, CommitUnknown, DbError, DeadlockVictim, HandlerThrows, InTx
<1>9. CASE ReleaseRows(w) \/ ReleaseFails(w) \/ Crash(w)
  BY <1>2, <1>9 DEF ReleaseRows, ReleaseFails, Crash, InTx
<1>10. CASE Abort(w)
  BY <1>10 DEF Abort
<1> QED BY <1>3, <1>4, <1>5, <1>6, <1>7, <1>8, <1>9, <1>10 DEF WorkerStep, WorkerFault

LEMMA AloneOutboxStep ==
  ASSUME OneAtATime, IInv, AloneInv, OutboxNext, UNCHANGED runnerVars PROVE AloneInv'
<1>1. UNCHANGED <<pc, claimed, unit, todo, acked, dead>> /\ archived \subseteq archived'
  BY OutboxRows DEF runnerVars, txVars
<1>2. \A w \in Workers : \A id \in unit[w] : rowPos'[id] = rowPos[id]
  BY HeldRows DEF IInv, ClaimInv
<1> QED BY <1>1, <1>2 DEF AloneInv, InTx

\* Positions are handed out, written and committed one after the other.
LEMMA LineOutboxStep ==
  ASSUME OneAtATime, IInv, LineInv, OutboxNext, UNCHANGED runnerVars PROVE LineInv'
<1> USE DEF eventVars, rowVars
<1>1. UNCHANGED <<ckpt, wrote>> /\ events \subseteq events'
  BY OutboxRows DEF runnerVars, txVars
<1>2. \A key \in Keys : \A n \in {ckpt'[key]} \cup {wrote'[w][key] : w \in Workers} :
        n \in events' \cup {0, NoRow}
  BY <1>1 DEF LineInv
<1>3. nextPos \in Nat /\ nextId \in Nat /\ \A id \in Ids : rowPos[id] \in Nat /\ id \in Nat
  BY BoundsAssumption DEF IInv, TypeOK, OutboxTypeOK, Positions, Ids
<1>4. CASE AppendEvent
  <2>1. pending = {}
    <3>1. IsFiniteSet(pending)
      <4>1. IsFiniteSet(Positions)
        BY FS_Interval, BoundsAssumption DEF Positions
      <4> QED BY <4>1, FS_Subset DEF IInv, TypeOK, OutboxTypeOK
    <3>2. Cardinality(pending) \in Nat /\ Cardinality(pending) < MaxOpenTx /\ MaxOpenTx <= 1
      BY <1>4, <3>1, FS_CardinalityType DEF AppendEvent, OneAtATime
    <3>3. Cardinality(pending) = 0
      BY <3>2, BoundsAssumption
    <3> QED BY <3>1, <3>3, FS_EmptySet
  <2>2. pending' = {nextPos} /\ nextPos' = nextPos + 1 /\ UNCHANGED rowPos
    BY <1>4, <2>1 DEF AppendEvent
  <2>3. /\ \A gp \in pending' : gp = nextPos' - 1
        /\ \A b \in Ids : rowPos'[b] < nextPos'
    BY <1>3, <2>2 DEF LineInv
  <2> QED BY <1>2, <2>2, <2>3 DEF LineInv
<1>5. CASE \E gp \in Positions : EnqueueOutbox(gp)
  <2>1. PICK gp \in Positions : EnqueueOutbox(gp)
    BY <1>5
  <2>2. /\ gp \in pending /\ gp = nextPos - 1 /\ nextId \in Ids /\ UNCHANGED <<pending, nextPos>>
        /\ \A id \in Ids : rowPos[id] # gp
        /\ \A id \in Ids : rowPos'[id] = IF id = nextId THEN gp ELSE rowPos[id]
    BY <2>1, BoundsAssumption DEF EnqueueOutbox, LineInv, PositionsOf, Ids, IInv, TypeOK, OutboxTypeOK
  <2>3. \A id \in Ids : rowPos[id] < gp
    <3> SUFFICES ASSUME NEW id \in Ids PROVE rowPos[id] < gp
      OBVIOUS
    <3>1. rowPos[id] < nextPos /\ rowPos[id] # gp
      BY <2>2 DEF LineInv
    <3> QED BY <1>3, <2>2, <3>1
  <2>4. \A b \in Ids : rowPos[b] # 0 => b < nextId
    BY DEF IInv, RowInv
  <2>5. ASSUME NEW a \in Ids, NEW b \in Ids, a < b, rowPos'[b] # 0 PROVE rowPos'[a] < rowPos'[b]
    <3>1. CASE b = nextId
      BY <1>3, <2>2, <2>3, <2>5, <3>1
    <3>2. CASE b # nextId
      <4>1. a # nextId
        BY <1>3, <2>2, <2>4, <2>5, <3>2
      <4> QED BY <2>2, <2>5, <3>2, <4>1 DEF LineInv
    <3> QED BY <3>1, <3>2
  <2>6. \A b \in Ids : rowPos'[b] < nextPos'
    BY <1>3, <2>2, <2>3 DEF LineInv
  <2> QED BY <1>2, <2>2, <2>5, <2>6 DEF LineInv
<1>6. CASE \E gp \in Positions : CommitAppend(gp) \/ RollbackAppend(gp)
  BY <1>2, <1>6 DEF CommitAppend, RollbackAppend, LineInv
<1>7. CASE \E gp \in Positions : Dismiss(gp) \/ DetachPartition(gp)
  BY <1>2, <1>7 DEF Dismiss, DetachPartition, LineInv
<1>8. CASE \E t \in Tenants, from, to \in Positions : Requeue(t, from, to)
  BY <1>8 DEF OneAtATime, Requeue, Disrupt
<1>9. CASE \E t \in Tenants : Purge(t)
  BY <1>2, <1>9 DEF Purge, LineInv
<1> QED BY <1>4, <1>5, <1>6, <1>7, <1>8, <1>9 DEF OutboxNext

\* The row a worker is at is one row.
LEMMA OneCurrent ==
  ASSUME IInv, NEW w \in Workers, NEW a \in todo[w], NEW b \in todo[w],
         IsCurrent(w, a), IsCurrent(w, b)
  PROVE  a = b
<1>1. rowPos[a] = rowPos[b]
  BY TodoRow DEF IsCurrent, Positions
<1> QED BY <1>1, TodoRow DEF IInv, RowInv

\* What the two checkpoint statements write, when the checkpoint lags behind.
LEMMA AheadWrites ==
  ASSUME IInv, AheadInv, NEW w \in Workers, InsertCheckpoint(w) \/ SetCheckpoint(w)
  PROVE  \E row \in todo[w], n \in Nat \cup {NoRow} :
           /\ IsCurrent(w, row) /\ KeyOf(w, row) \in Keys
           /\ wrote' = [wrote EXCEPT ![w][KeyOf(w, row)] = n]
           /\ IF SetCheckpoint(w) THEN n = rowPos[row] ELSE n = 0 \/ n = wrote[w][KeyOf(w, row)]
<1>1. CASE InsertCheckpoint(w)
  <2>1. PICK row \in todo[w] :
          /\ IsCurrent(w, row)
          /\ wrote' = [wrote EXCEPT ![w][KeyOf(w, row)] = IF Visible(w, KeyOf(w, row)) = NoRow THEN 0 ELSE @]
    BY <1>1 DEF InsertCheckpoint
  <2>2. KeyOf(w, row) \in Keys
    BY <1>1, <2>1, KeyType DEF InsertCheckpoint
  <2>3. wrote[w][KeyOf(w, row)] \in Nat \cup {NoRow}
    BY <2>2 DEF IInv, TypeOK, RunnerTypeOK
  <2>4. ~SetCheckpoint(w)
    BY <1>1 DEF InsertCheckpoint, SetCheckpoint
  <2> QED BY <2>1, <2>2, <2>3, <2>4
<1>2. CASE SetCheckpoint(w)
  <2>1. PICK row \in todo[w] :
          /\ IsCurrent(w, row)
          /\ wrote' = [wrote EXCEPT ![w][KeyOf(w, row)] =
                         IF Visible(w, KeyOf(w, row)) <= rowPos[row]
                         THEN rowPos[row] ELSE Visible(w, KeyOf(w, row))]
    BY <1>2 DEF SetCheckpoint
  <2>2. KeyOf(w, row) \in Keys /\ step[w] \in Projections /\ rowPos[row] \in Nat
    <3>1. pc[w] \in {"insert", "handle", "set"}
      BY <1>2 DEF SetCheckpoint
    <3>2. rowPos[row] \in Positions
      BY TodoRow
    <3>3. KeyOf(w, row) \in Keys /\ step[w] \in Projections
      BY <3>1, KeyType
    <3>4. rowPos[row] \in Nat
      BY <3>2, BoundsAssumption DEF Positions
    <3> QED BY <3>3, <3>4
  <2>3. Visible(w, KeyOf(w, row)) < rowPos[row]
    <3>0. pc[w] # "stopped"
      BY <1>2 DEF SetCheckpoint
    <3>1. step[w] >= step[w]
      BY <2>2, RunnerAssumption DEF Projections
    <3>2. Visible(w, <<step[w], TenantOf[rowPos[row]]>>) < rowPos[row]
      BY <2>2, <3>0, <3>1 DEF AheadInv
    <3> QED BY <3>2 DEF KeyOf
  <2>4. Visible(w, KeyOf(w, row)) \in Nat \cup {NoRow}
    BY <2>2 DEF Visible, IInv, TypeOK, RunnerTypeOK
  <2>5. Visible(w, KeyOf(w, row)) <= rowPos[row]
    BY <2>2, <2>3, <2>4 DEF NoRow
  <2> QED BY <1>2, <2>1, <2>2, <2>5
<1> QED BY <1>1, <1>2

\* A checkpoint is moved to a committed position.
LEMMA LineWorkerStep ==
  ASSUME IInv, LineInv, AheadInv, NEW w \in Workers, WorkerStep(w) \/ WorkerFault(w)
  PROVE  LineInv'
<1> DEFINE Good(n) == n \in events \cup {0, NoRow}
<1>0. /\ UNCHANGED <<nextPos, pending, events, rowPos>>
      /\ \A v \in Workers : v # w => wrote'[v] = wrote[v]
      /\ \A key \in Keys : Good(ckpt[key]) /\ \A v \in Workers : Good(wrote[v][key])
  BY WorkerFrame DEF offRunner, eventVars, Others, LineInv
<1>1. \A key \in Keys : Good(ckpt'[key])
  <2>1. UNCHANGED ckpt \/ Publish(w)
    BY WorkerRows
  <2> QED BY <1>0, <2>1 DEF Publish
<1>2. \A key \in Keys : Good(wrote'[w][key])
  <2>1. CASE InsertCheckpoint(w) \/ SetCheckpoint(w)
    <3>1. PICK row \in todo[w], n \in Nat \cup {NoRow} :
           /\ KeyOf(w, row) \in Keys
           /\ wrote' = [wrote EXCEPT ![w][KeyOf(w, row)] = n]
           /\ IF SetCheckpoint(w) THEN n = rowPos[row] ELSE n = 0 \/ n = wrote[w][KeyOf(w, row)]
      BY <2>1, AheadWrites
    <3>2. rowPos[row] \in events
      BY TodoRow
    <3>3. Good(n)
      BY <1>0, <3>1, <3>2
    <3>4. \A key \in Keys : wrote'[w][key] = IF key = KeyOf(w, row) THEN n ELSE wrote[w][key]
      BY <3>1 DEF IInv, TypeOK, RunnerTypeOK
    <3> QED BY <1>0, <3>3, <3>4
  <2>2. CASE wrote'[w] = wrote[w] \/ wrote'[w] = NoWrites
    BY <1>0, <2>2 DEF NoWrites
  <2>3. CASE ClaimBatch(w) \/ ClaimUnknown(w) \/ BeginTx(w) \/ SkipProjection(w) \/ ReadCheckpoint(w)
    BY <2>2, <2>3 DEF ClaimBatch, ClaimUnknown, BeginTx, SkipProjection, ReadCheckpoint, txVars, runnerVars
  <2>4. CASE HandleEvent(w) \/ AckRow(w) \/ Abort(w)
    BY <2>2, <2>4 DEF HandleEvent, AckRow, Abort, txVars
  <2>5. CASE HandlerThrows(w) \/ DbError(w) \/ DeadlockVictim(w) \/ CommitTx(w) \/ CommitUnknown(w)
    BY <2>2, <2>5 DEF HandlerThrows, DbError, DeadlockVictim, CommitTx, CommitUnknown, EndTx,
                      IInv, TypeOK, RunnerTypeOK
  <2>6. CASE ReleaseFails(w) \/ Crash(w) \/ ReleaseRows(w)
    BY <2>2, <2>6 DEF ReleaseFails, Crash, ReleaseRows, EndTx, IInv, TypeOK, RunnerTypeOK
  <2> QED BY <2>1, <2>3, <2>4, <2>5, <2>6 DEF WorkerStep, WorkerFault
<1>3. \A v \in Workers, key \in Keys : Good(wrote'[v][key])
  BY <1>0, <1>2
<1> QED BY <1>0, <1>1, <1>3 DEF LineInv

\* A row that commits lies ahead of every checkpoint, and of what is in hand.
LEMMA AheadOutboxStep ==
  ASSUME OneAtATime, IInv, LineInv, AheadInv, OutboxNext, UNCHANGED runnerVars PROVE AheadInv'
<1>0. /\ UNCHANGED <<ckpt, wrote, claimed, todo, step, pc, lockedBy>> /\ archived \subseteq archived'
      /\ \A id \in outbox : rowPos'[id] = rowPos[id] /\ rowPos[id] \in Positions
      /\ \A w \in Workers : \A id \in todo[w] : rowPos'[id] = rowPos[id]
  BY OutboxRows, RowsStay, HeldRows, TodoRow
     DEF runnerVars, txVars, IInv, RowInv, TypeOK, OutboxTypeOK, RunnerTypeOK
<1> SUFFICES ASSUME NEW w \in Workers, pc[w] # "stopped"
    PROVE  /\ \A id \in OpenRows(w)', p \in Projections : ckpt[<<p, TenantOf[rowPos'[id]]>>] < rowPos'[id]
           /\ \A id \in Claimable(ClaimTopic[w])' :
                (\A c \in claimed[w] : c < id) /\ \A key \in Keys : wrote[w][key] < rowPos'[id]
           /\ \A id \in todo[w], p \in Projections :
                (IsCurrent(w, id) => p >= step[w]) => Visible(w, <<p, TenantOf[rowPos[id]]>>) < rowPos[id]
  <2>1. \A v \in Workers : \A id \in todo[v] : IsCurrent(v, id)' <=> IsCurrent(v, id)
    BY <1>0 DEF IsCurrent
  <2> QED BY <1>0, <2>1 DEF AheadInv, Visible
<1>1. \A id \in outbox : /\ id \in OpenRows(w)' => id \in OpenRows(w)
                         /\ id \in Claimable(ClaimTopic[w])' => id \in Claimable(ClaimTopic[w])
  BY <1>0 DEF OpenRows, Claimable
<1>2. CASE UNCHANGED outbox
  <2>1. \A id \in OpenRows(w)' \cup Claimable(ClaimTopic[w])' : id \in outbox
    BY <1>2 DEF OpenRows, Claimable
  <2> QED BY <1>0, <1>1, <2>1 DEF AheadInv
<1>3. ASSUME NEW gp \in pending, NEW new \in Ids,
             rowPos[new] = gp, UNCHANGED rowPos, outbox' = outbox \cup {new}
      PROVE  /\ \A id \in OpenRows(w)', p \in Projections : ckpt[<<p, TenantOf[rowPos'[id]]>>] < rowPos'[id]
             /\ \A id \in Claimable(ClaimTopic[w])' :
                  (\A c \in claimed[w] : c < id) /\ \A key \in Keys : wrote[w][key] < rowPos'[id]
  <2>1. gp \in Positions /\ gp = nextPos - 1 /\ nextPos \in Nat /\ gp \in Nat /\ gp > 0
    BY BoundsAssumption DEF LineInv, IInv, TypeOK, OutboxTypeOK, Positions
  <2>2. \A e \in events : e \in Nat /\ e < gp
    <3> SUFFICES ASSUME NEW e \in events PROVE e \in Nat /\ e < gp
      OBVIOUS
    <3>1. e \in Positions /\ e < nextPos /\ e # gp
      BY DEF IInv, TypeOK, OutboxTypeOK, RowInv
    <3> QED BY <2>1, <3>1 DEF Positions
  <2>3. \A key \in Keys : ckpt[key] < gp /\ wrote[w][key] < gp
    <3>1. \A n \in events \cup {0, NoRow} : n < gp
      BY <2>1, <2>2 DEF NoRow
    <3> QED BY <3>1 DEF LineInv
  <2>4. \A c \in claimed[w] : c < new
    <3> SUFFICES ASSUME NEW c \in claimed[w], ~(c < new) PROVE FALSE
      OBVIOUS
    <3>1. c \in Ids /\ rowPos[c] \in events /\ rowPos[c] < gp /\ rowPos[c] # 0
      BY <2>2 DEF IInv, TypeOK, OutboxTypeOK, RunnerTypeOK, ClaimInv, Positions
    <3>2. c # new /\ c \in Nat /\ new \in Nat
      BY <1>3, <2>1, <3>1 DEF Ids
    <3>3. new < c
      BY <3>2
    <3>4. rowPos[new] < rowPos[c]
      BY <3>1, <3>3 DEF LineInv
    <3> QED BY <1>3, <2>1, <2>2, <3>1, <3>4
  <2>5. \A id \in OpenRows(w)' \cup Claimable(ClaimTopic[w])' : id \in outbox \/ id = new
    BY <1>3 DEF OpenRows, Claimable
  <2>6. \A p \in Projections : <<p, TenantOf[gp]>> \in Keys
    BY <2>1, RowAssumption DEF Keys
  <2>7. \A id \in OpenRows(w)', p \in Projections : ckpt[<<p, TenantOf[rowPos'[id]]>>] < rowPos'[id]
    BY <1>0, <1>1, <1>3, <2>3, <2>5, <2>6 DEF AheadInv
  <2>8. \A id \in Claimable(ClaimTopic[w])' :
          (\A c \in claimed[w] : c < id) /\ \A key \in Keys : wrote[w][key] < rowPos'[id]
    BY <1>0, <1>1, <1>3, <2>3, <2>4, <2>5 DEF AheadInv
  <2> QED BY <2>7, <2>8
<1> QED BY <1>2, <1>3, OutboxRows DEF AheadInv

\* What is left behind of the lowest ids is higher.
LEMMA LowestFirst ==
  ASSUME NEW ids \in SUBSET Ids, NEW n \in Nat,
         NEW a \in LowestIds(ids, n), NEW b \in ids \ LowestIds(ids, n)
  PROVE  a < b
<1> DEFINE Below(id) == {j \in ids : j < id}
<1>1. a \in ids /\ b \in ids /\ a \in Nat /\ b \in Nat
  BY BoundsAssumption DEF LowestIds, Ids
<1>2. IsFiniteSet(Ids)
  BY FS_Interval, BoundsAssumption DEF Ids
<1>3. IsFiniteSet(Below(a)) /\ IsFiniteSet(Below(b))
  <2>1. Below(a) \subseteq Ids /\ Below(b) \subseteq Ids
    OBVIOUS
  <2> QED BY <1>2, <2>1, FS_Subset
<1>4. Cardinality(Below(a)) \in Nat /\ Cardinality(Below(b)) \in Nat
  BY <1>3, FS_CardinalityType
<1>5. Cardinality(Below(a)) < n /\ ~(Cardinality(Below(b)) < n)
  BY DEF LowestIds
<1> SUFFICES ASSUME ~(a < b) PROVE FALSE
  OBVIOUS
<1>6. Below(b) \subseteq Below(a)
  <2> SUFFICES ASSUME NEW j \in ids, j < b PROVE j < a
    OBVIOUS
  <2>1. j \in Nat
    BY BoundsAssumption DEF Ids
  <2> QED BY <1>1, <2>1
<1>7. Cardinality(Below(b)) <= Cardinality(Below(a))
  BY <1>3, <1>6, FS_Subset
<1> QED BY <1>4, <1>5, <1>7

\* The parts of AheadInv.
OpenAhead(w) ==
  \A id \in OpenRows(w), p \in Projections : ckpt[<<p, TenantOf[rowPos[id]]>>] < rowPos[id]
ClaimAhead(w) ==
  \A id \in Claimable(ClaimTopic[w]) :
    (\A c \in claimed[w] : c < id) /\ \A key \in Keys : wrote[w][key] < rowPos[id]
TodoAhead(w) ==
  \A id \in todo[w], p \in Projections :
    (IsCurrent(w, id) => p >= step[w]) => Visible(w, <<p, TenantOf[rowPos[id]]>>) < rowPos[id]
Ahead(w) == OpenAhead(w) /\ ClaimAhead(w) /\ TodoAhead(w)

LEMMA AheadParts ==
  /\ AheadInv <=> \A w \in Workers : pc[w] # "stopped" => Ahead(w)
  /\ AheadInv' <=> \A w \in Workers : pc'[w] # "stopped" => Ahead(w)'
BY DEF AheadInv, Ahead, OpenAhead, ClaimAhead, TodoAhead

\* A transaction has ended: what the worker let go of was never ahead of itself.
LEMMA AheadEnded ==
  ASSUME IInv, NEW w \in Workers, NEW rows, EndTx(w, rows), UNCHANGED rowPos,
         outbox' \subseteq outbox, OpenAhead(w)',
         \A id \in Claimable(ClaimTopic[w])', c \in claimed'[w] : c < id
  PROVE  Ahead(w)'
<1>1. todo'[w] = {} /\ wrote'[w] = NoWrites
  BY DEF EndTx, IInv, TypeOK, RunnerTypeOK
<1>2. ASSUME NEW id \in Claimable(ClaimTopic[w])', NEW key \in Keys PROVE wrote'[w][key] < rowPos'[id]
  <2>1. rowPos[id] \in Nat
    BY <1>2, BoundsAssumption DEF Claimable, IInv, RowInv, TypeOK, OutboxTypeOK, Positions
  <2>2. wrote'[w][key] = -1
    BY <1>1 DEF NoWrites, NoRow
  <2> QED BY <2>1, <2>2
<1> QED BY <1>1, <1>2 DEF Ahead, ClaimAhead, TodoAhead

\* The rows of a claim were the first in line.
LEMMA AheadClaims ==
  ASSUME IInv, NEW w \in Workers, Ahead(w), ClaimBatch(w) \/ ClaimUnknown(w)
  PROVE  Ahead(w)'
<1> DEFINE here == Claimable(ClaimTopic[w])
           batch == LowestIds(here, BatchSize)
<1>1. /\ UNCHANGED <<rowPos, outbox, archived, ckpt, todo, step, wrote>> /\ LockRows(w, batch)
      /\ claimed'[w] = batch \/ UNCHANGED claimed
  BY DEF ClaimBatch, ClaimUnknown, LockRows, offRunner, eventVars, txVars, runnerVars,
         IInv, TypeOK, RunnerTypeOK
<1>2. here \subseteq Ids /\ batch \subseteq here
  BY DEF Claimable, LowestIds, IInv, TypeOK, OutboxTypeOK
<1>3. Claimable(ClaimTopic[w])' = here \ batch
  <2>1. \A id \in Ids : lockedBy'[id] = IF id \in batch THEN w ELSE lockedBy[id]
    BY <1>1 DEF LockRows
  <2> QED BY <1>1, <1>2, <2>1, RowAssumption DEF Claimable, IInv, TypeOK, OutboxTypeOK
<1>4. OpenRows(w)' \subseteq OpenRows(w)
  BY <1>1, <1>2, <1>3 DEF OpenRows
<1>5. OpenAhead(w)'
  BY <1>1, <1>4 DEF Ahead, OpenAhead
<1>6. ASSUME NEW id \in here \ batch, NEW c \in claimed'[w] PROVE c < id
  <2>1. CASE c \in batch
    BY <1>2, <2>1, LowestFirst, RunnerAssumption
  <2>2. CASE c \in claimed[w]
    BY <1>2, <2>2 DEF Ahead, ClaimAhead
  <2> QED BY <1>1, <1>6, <2>1, <2>2
<1>7. ClaimAhead(w)'
  BY <1>1, <1>2, <1>3, <1>6 DEF Ahead, ClaimAhead
<1>8. TodoAhead(w)'
  BY <1>1 DEF Ahead, TodoAhead, IsCurrent, Visible
<1> QED BY <1>5, <1>7, <1>8 DEF Ahead

\* Rows whose events are loaded have not been passed yet.
LEMMA AheadBegins ==
  ASSUME IInv, NEW w \in Workers, Ahead(w), BeginTx(w)
  PROVE  Ahead(w)'
<1>1. UNCHANGED <<rowPos, rowVars, outbox, lockedBy, archived, ckpt, claimed, wrote, step>> /\ pc[w] = "begin"
  BY DEF BeginTx, offRunner, eventVars, published, rowVars
<1>2. \A id \in todo'[w] : id \in claimed[w] /\ id \in outbox /\ rowPos[id] \notin archived
  <2>1. PICK rows \in Units(w) :
          LET spent   == {id \in rows : attempts[id] > MaxAttempts}
              found   == {id \in rows \ spent : rowPos[id] \in Loadable}
              skipped == {id \in found : rowPos[id] \in dismissed /\ ~IncludeDismissed}
          IN todo' = [todo EXCEPT ![w] = found \ skipped]
    BY DEF BeginTx
  <2>2. \A id \in todo'[w] : id \in rows /\ rowPos[id] \in Loadable
    BY <2>1 DEF IInv, TypeOK, RunnerTypeOK
  <2>3. rows \subseteq claimed[w]
    BY <2>1 DEF Units
  <2>4. claimed[w] \subseteq outbox
    BY <1>1 DEF IInv, TxInv, TxOK
  <2> QED BY <2>2, <2>3, <2>4 DEF Loadable
<1>3. wrote[w] = NoWrites
  BY <1>1 DEF IInv, TxInv, TxOK, InTx
<1>4. ASSUME NEW id \in todo'[w], NEW p \in Projections
      PROVE  Visible(w, <<p, TenantOf[rowPos[id]]>>)' < rowPos'[id]
  <2>1. id \in OpenRows(w)
    BY <1>2, <1>4 DEF OpenRows
  <2>2. ckpt[<<p, TenantOf[rowPos[id]]>>] < rowPos[id]
    BY <1>4, <2>1 DEF Ahead, OpenAhead
  <2>3. rowPos[id] \in Positions
    BY <1>2 DEF IInv, RowInv, TypeOK, OutboxTypeOK
  <2>4. <<p, TenantOf[rowPos[id]]>> \in Keys
    BY <2>3, RowAssumption DEF Keys
  <2> QED BY <1>1, <1>3, <2>2, <2>4 DEF Visible, NoWrites
<1>5. TodoAhead(w)'
  BY <1>4 DEF TodoAhead
<1> QED BY <1>1, <1>5 DEF Ahead, OpenAhead, ClaimAhead, OpenRows, Claimable

\* A write of one of the two checkpoint statements passes the current row only.
LEMMA AheadUpserts ==
  ASSUME IInv, LineInv, AheadInv, NEW w \in Workers, Ahead(w), InsertCheckpoint(w) \/ SetCheckpoint(w)
  PROVE  Ahead(w)'
<1>1. /\ UNCHANGED <<rowPos, rowVars, outbox, lockedBy, archived, ckpt, claimed, todo>>
      /\ step' = IF SetCheckpoint(w) THEN [step EXCEPT ![w] = @ + 1] ELSE step
  BY DEF InsertCheckpoint, SetCheckpoint, offRunner, eventVars, published, rowVars
<1>2. PICK row \in todo[w], n \in Nat \cup {NoRow} :
        /\ IsCurrent(w, row) /\ KeyOf(w, row) \in Keys
        /\ wrote' = [wrote EXCEPT ![w][KeyOf(w, row)] = n]
        /\ IF SetCheckpoint(w) THEN n = rowPos[row] ELSE n = 0 \/ n = wrote[w][KeyOf(w, row)]
  BY AheadWrites
<1>3. \A key \in Keys : wrote'[w][key] = IF key = KeyOf(w, row) THEN n ELSE wrote[w][key]
  BY <1>2 DEF IInv, TypeOK, RunnerTypeOK
<1>4. \A id \in outbox : rowPos[id] \in Positions /\ rowPos[id] \in Nat /\ rowPos[id] > 0
  BY BoundsAssumption DEF IInv, RowInv, TypeOK, OutboxTypeOK, Positions
<1>5. row \in outbox /\ row \in claimed[w] /\ \A id \in todo[w] : id \in outbox
  BY TodoRow
<1>6. step[w] \in Nat /\ step'[w] = IF SetCheckpoint(w) THEN step[w] + 1 ELSE step[w]
  BY <1>1, RunnerAssumption DEF IInv, TypeOK, RunnerTypeOK
<1>7. ClaimAhead(w)'
  <2> SUFFICES ASSUME NEW id \in Claimable(ClaimTopic[w]), NEW key \in Keys
               PROVE  wrote'[w][key] < rowPos[id]
    BY <1>1 DEF Ahead, ClaimAhead, Claimable
  <2>1. row < id /\ wrote[w][key] < rowPos[id] /\ id \in outbox
    BY <1>5 DEF Ahead, ClaimAhead, Claimable
  <2>2. rowPos[row] < rowPos[id]
    BY <1>4, <1>5, <2>1 DEF LineInv, IInv, TypeOK, OutboxTypeOK
  <2>3. key = KeyOf(w, row) => n < rowPos[id]
    <3>1. n = rowPos[row] \/ n = 0 \/ n = wrote[w][KeyOf(w, row)]
      BY <1>2
    <3> QED BY <1>4, <2>1, <2>2, <3>1
  <2> QED BY <1>3, <2>1, <2>3
<1>8. ASSUME NEW id \in todo[w], NEW p \in Projections, IsCurrent(w, id) => p >= step'[w]
      PROVE  Visible(w, <<p, TenantOf[rowPos[id]]>>)' < rowPos[id]
  <2> DEFINE key == <<p, TenantOf[rowPos[id]]>>
  <2>1. id \in outbox /\ p \in Nat /\ key \in Keys
    BY <1>4, <1>5, RowAssumption, RunnerAssumption DEF Keys, Projections
  <2>2. (IsCurrent(w, id) => p >= step[w])
    BY <1>6, <1>8, <2>1
  <2>3. Visible(w, key) < rowPos[id]
    BY <1>8, <2>2 DEF Ahead, TodoAhead
  <2>4. CASE key # KeyOf(w, row)
    BY <1>1, <1>3, <2>1, <2>3, <2>4 DEF Visible
  <2>5. CASE key = KeyOf(w, row) /\ ~SetCheckpoint(w)
    <3>1. wrote'[w][key] = 0 \/ wrote'[w][key] = wrote[w][key]
      BY <1>2, <1>3, <2>1, <2>5
    <3>2. CASE wrote'[w][key] = 0
      BY <1>1, <1>4, <2>1, <3>2 DEF Visible, NoRow
    <3>3. CASE wrote'[w][key] = wrote[w][key]
      BY <1>1, <2>3, <3>3 DEF Visible
    <3> QED BY <3>1, <3>2, <3>3
  <2>6. CASE key = KeyOf(w, row) /\ SetCheckpoint(w)
    <3>1. p = step[w]
      BY <2>6 DEF KeyOf
    <3>2. ~IsCurrent(w, id)
      BY <1>6, <1>8, <2>1, <2>6, <3>1
    <3>3. id # row /\ rowPos[row] <= rowPos[id]
      BY <1>2, <1>8, <3>2 DEF IsCurrent
    <3>4. rowPos[row] # rowPos[id]
      BY <1>5, <2>1, <3>3 DEF IInv, RowInv
    <3>5. wrote'[w][key] = rowPos[row] /\ rowPos[row] \in Nat
      BY <1>2, <1>3, <1>4, <1>5, <2>1, <2>6
    <3> QED BY <1>1, <1>4, <2>1, <3>3, <3>4, <3>5 DEF Visible, NoRow
  <2> QED BY <2>4, <2>5, <2>6
<1>9. TodoAhead(w)'
  <2>1. \A id \in todo[w] : IsCurrent(w, id)' <=> IsCurrent(w, id)
    BY <1>1 DEF IsCurrent
  <2> QED BY <1>1, <1>8, <2>1 DEF TodoAhead
<1> QED BY <1>1, <1>7, <1>9 DEF Ahead, OpenAhead, OpenRows, Claimable

\* The next row starts over with the first projection.
LEMMA AheadAcks ==
  ASSUME IInv, NEW w \in Workers, Ahead(w), AckRow(w)
  PROVE  Ahead(w)'
<1>1. UNCHANGED <<rowPos, rowVars, outbox, lockedBy, archived, ckpt, claimed, wrote>>
  BY DEF AckRow, offRunner, eventVars, published, rowVars
<1>2. PICK row \in todo[w] : IsCurrent(w, row) /\ todo' = [todo EXCEPT ![w] = @ \ {row}]
  BY DEF AckRow
<1>3. ASSUME NEW id \in todo'[w], NEW p \in Projections
      PROVE  Visible(w, <<p, TenantOf[rowPos[id]]>>) < rowPos[id]
  <2>1. id \in todo[w] /\ id # row
    BY <1>2 DEF IInv, TypeOK, RunnerTypeOK
  <2>2. ~IsCurrent(w, id)
    BY <1>2, <2>1, OneCurrent
  <2> QED BY <2>1, <2>2 DEF Ahead, TodoAhead
<1>4. TodoAhead(w)'
  BY <1>1, <1>3 DEF TodoAhead, Visible
<1> QED BY <1>1, <1>4 DEF Ahead, OpenAhead, ClaimAhead, OpenRows, Claimable

\* A commit passes no row it leaves open.
LEMMA AheadCommits ==
  ASSUME IInv, AloneInv, NEW w \in Workers, Ahead(w), CommitTx(w) \/ CommitUnknown(w)
  PROVE  Ahead(w)'
<1>1. /\ pc[w] = "work" /\ todo[w] = {} /\ UNCHANGED <<rowPos, archived>>
      /\ RemoveRows(acked[w], dead[w]) /\ EndTx(w, unit'[w])
      /\ ckpt' = [key \in Keys |-> IF wrote[w][key] # NoRow THEN wrote[w][key] ELSE ckpt[key]]
  BY DEF CommitTx, CommitUnknown, Publish, EndTx, offRunner, eventVars, IInv, TypeOK, RunnerTypeOK
<1>2. claimed[w] = unit[w] /\ \A id \in unit[w] \ (acked[w] \cup dead[w]) : rowPos[id] \in archived
  BY <1>1 DEF AloneInv, InTx
<1>3. claimed'[w] = {} \/ UNCHANGED claimed
  BY <1>2 DEF CommitTx, CommitUnknown, IInv, TypeOK, RunnerTypeOK
<1>4. outbox' = outbox \ (acked[w] \cup dead[w]) /\ \A id \in outbox' : lockedBy'[id] = lockedBy[id]
  BY <1>1 DEF RemoveRows, IInv, TypeOK, OutboxTypeOK
<1>5. Claimable(ClaimTopic[w])' \subseteq Claimable(ClaimTopic[w])
  BY <1>1, <1>4 DEF Claimable
<1>6. \A id \in OpenRows(w)' : id \in OpenRows(w) /\ id \in Claimable(ClaimTopic[w])
  BY <1>1, <1>2, <1>3, <1>4, <1>5 DEF OpenRows
<1>7. OpenAhead(w)'
  <2> SUFFICES ASSUME NEW id \in OpenRows(w)', NEW p \in Projections
               PROVE  ckpt'[<<p, TenantOf[rowPos[id]]>>] < rowPos[id]
    BY <1>1 DEF OpenAhead
  <2>1. rowPos[id] \in Positions
    BY <1>4 DEF OpenRows, IInv, RowInv, TypeOK, OutboxTypeOK
  <2>2. <<p, TenantOf[rowPos[id]]>> \in Keys
    BY <2>1, RowAssumption DEF Keys
  <2>3. /\ ckpt[<<p, TenantOf[rowPos[id]]>>] < rowPos[id]
        /\ wrote[w][<<p, TenantOf[rowPos[id]]>>] < rowPos[id]
    BY <1>6, <2>2 DEF Ahead, OpenAhead, ClaimAhead
  <2> QED BY <1>1, <2>2, <2>3
<1>8. \A id \in Claimable(ClaimTopic[w])', c \in claimed'[w] : c < id
  BY <1>3, <1>5 DEF Ahead, ClaimAhead
<1> QED BY <1>1, <1>4, <1>7, <1>8, AheadEnded

\* A release gives back rows that were in hand.
LEMMA AheadReleases ==
  ASSUME IInv, NEW w \in Workers, Ahead(w), ReleaseRows(w)
  PROVE  Ahead(w)'
<1>1. /\ UNCHANGED <<rowPos, archived, outbox, ckpt>> /\ claimed'[w] = {} /\ EndTx(w, {})
      /\ \A id \in Ids : lockedBy'[id] = IF id \in unit[w] THEN NoWorker ELSE lockedBy[id]
  BY DEF ReleaseRows, UnlockRows, offRunner, eventVars, IInv, TypeOK, RunnerTypeOK
<1>2. unit[w] \subseteq claimed[w] /\ outbox \subseteq Ids
  BY DEF IInv, ClaimInv, TypeOK, OutboxTypeOK
<1>3. OpenRows(w)' \subseteq OpenRows(w)
  BY <1>1, <1>2 DEF OpenRows, Claimable
<1>4. OpenAhead(w)'
  BY <1>1, <1>3 DEF Ahead, OpenAhead
<1> QED BY <1>1, <1>4, AheadEnded

\* A transaction that fails leaves the rows as they were.
LEMMA AheadFails ==
  ASSUME IInv, NEW w \in Workers, Ahead(w),
         HandlerThrows(w) \/ DbError(w) \/ DeadlockVictim(w) \/ ReleaseFails(w) \/ Crash(w)
  PROVE  Ahead(w)'
<1>1. UNCHANGED <<rowPos, archived, outbox, lockedBy, ckpt>> /\ claimed'[w] \subseteq claimed[w]
  BY DEF HandlerThrows, DbError, DeadlockVictim, ReleaseFails, Crash, offRunner, eventVars,
         published, rowVars, IInv, TypeOK, RunnerTypeOK
<1>2. \E rows : EndTx(w, rows)
  BY DEF HandlerThrows, DbError, DeadlockVictim, ReleaseFails, Crash
<1>3. Claimable(ClaimTopic[w])' = Claimable(ClaimTopic[w])
  BY <1>1 DEF Claimable
<1>4. OpenRows(w)' \subseteq OpenRows(w)
  BY <1>1, <1>3 DEF OpenRows
<1>5. OpenAhead(w)'
  BY <1>1, <1>4 DEF Ahead, OpenAhead
<1>6. \A id \in Claimable(ClaimTopic[w])', c \in claimed'[w] : c < id
  BY <1>1, <1>3 DEF Ahead, ClaimAhead
<1> QED BY <1>1, <1>2, <1>5, <1>6, AheadEnded

LEMMA AheadWorkerStep ==
  ASSUME IInv, AloneInv, LineInv, AheadInv, NEW w \in Workers, WorkerStep(w) \/ WorkerFault(w)
  PROVE  AheadInv'
<1>1. pc[w] # "stopped" /\ Ahead(w) /\ \A v \in Workers : v # w => pc'[v] = "stopped"
  BY MoverRuns, OthersStopped, WorkerFrame, AheadParts DEF Others
<1> SUFFICES pc'[w] # "stopped" => Ahead(w)'
  BY <1>1, AheadParts
<1>2. CASE SkipProjection(w) \/ ReadCheckpoint(w) \/ HandleEvent(w)
  <2>1. UNCHANGED <<rowPos, outbox, lockedBy, archived, ckpt, claimed, todo, wrote>>
    BY <1>2 DEF SkipProjection, ReadCheckpoint, HandleEvent, offRunner, eventVars, published, rowVars, txVars
  <2>2. step'[w] = step[w] \/ step'[w] = step[w] + 1
    BY <1>2 DEF SkipProjection, ReadCheckpoint, HandleEvent, txVars, IInv, TypeOK, RunnerTypeOK
  <2>3. step[w] \in Nat /\ \A p \in Projections : p \in Nat
    BY RunnerAssumption DEF IInv, TypeOK, RunnerTypeOK, Projections
  <2>4. \A p \in Projections : p >= step'[w] => p >= step[w]
    BY <2>2, <2>3
  <2>5. TodoAhead(w)'
    BY <1>1, <2>1, <2>4 DEF Ahead, TodoAhead, IsCurrent, Visible
  <2> QED BY <1>1, <2>1, <2>5 DEF Ahead, OpenAhead, ClaimAhead, OpenRows, Claimable
<1>3. CASE Abort(w)
  BY <1>3 DEF Abort, GoTo, IInv, TypeOK, RunnerTypeOK
<1>4. CASE ClaimBatch(w) \/ ClaimUnknown(w) \/ BeginTx(w) \/ InsertCheckpoint(w) \/ SetCheckpoint(w)
  BY <1>1, <1>4, AheadClaims, AheadBegins, AheadUpserts
<1>5. CASE AckRow(w) \/ CommitTx(w) \/ CommitUnknown(w) \/ ReleaseRows(w)
  BY <1>1, <1>5, AheadAcks, AheadCommits, AheadReleases
<1>6. CASE HandlerThrows(w) \/ DbError(w) \/ DeadlockVictim(w) \/ ReleaseFails(w) \/ Crash(w)
  BY <1>1, <1>6, AheadFails
<1> QED BY <1>2, <1>3, <1>4, <1>5, <1>6 DEF WorkerStep, WorkerFault

\* The parts of DoneInv.
StepReset(w) == ~InTx(w) => step[w] = 1
AckedRan(w)  == \A id \in acked[w] : rowPos[id] \in dismissed \/ \A p \in Projections : Ran(w, id, p)
TodoRan(w)   ==
  \A id \in todo[w], p \in Projections :
    IsCurrent(w, id) /\ (p < step[w] \/ (p = step[w] /\ pc[w] = "set")) => Ran(w, id, p)
Done(w)      == StepReset(w) /\ AckedRan(w) /\ TodoRan(w)
AllDelivered == \A gp \in Settled, p \in Projections : Matches(p, gp) => effects[<<p, gp>>] > 0

LEMMA DoneParts ==
  /\ DoneInv <=> AllDelivered /\ \A w \in Workers : Done(w)
  /\ DoneInv' <=> AllDelivered' /\ \A w \in Workers : Done(w)'
BY DEF DoneInv, Done, StepReset, AckedRan, TodoRan, AllDelivered

LEMMA DoneOutboxStep ==
  ASSUME OneAtATime, IInv, DoneInv, OutboxNext, UNCHANGED runnerVars PROVE DoneInv'
<1>1. /\ UNCHANGED <<pc, step, todo, acked, handled, effects>> /\ dismissed \subseteq dismissed'
      /\ \A w \in Workers : \A id \in todo[w] \cup acked[w] : rowPos'[id] = rowPos[id]
  BY OutboxRows, HeldRows DEF runnerVars, txVars, IInv, ClaimInv, TxInv, TxOK
<1>2. \A w \in Workers : Done(w)'
  <2> SUFFICES ASSUME NEW w \in Workers PROVE Done(w)'
    OBVIOUS
  <2>1. Done(w) /\ \A id \in todo[w] : IsCurrent(w, id)' <=> IsCurrent(w, id)
    BY <1>1, DoneParts DEF IsCurrent
  <2>2. \A id \in todo[w] \cup acked[w], p \in Projections : Ran(w, id, p)' <=> Ran(w, id, p)
    BY <1>1 DEF Ran
  <2> QED BY <1>1, <2>1, <2>2 DEF Done, StepReset, AckedRan, TodoRan, InTx
<1>3. Settled' \subseteq Settled
  <2> USE DEF eventVars, rowVars
  <2>1. \A id \in outbox \cup dlq : rowPos'[id] = rowPos[id]
    BY RowsStay
  <2>2. CASE AppendEvent \/ \E gp \in Positions : EnqueueOutbox(gp) \/ RollbackAppend(gp)
    <3>1. UNCHANGED <<events, outbox, dlq, purged, dismissed>>
      BY <2>2 DEF AppendEvent, EnqueueOutbox, RollbackAppend
    <3> QED BY <2>1, <3>1 DEF Settled, Queued, DeadLetter, PositionsOf
  <2>3. CASE \E gp \in Positions : Dismiss(gp) \/ DetachPartition(gp)
    BY <2>3 DEF Dismiss, DetachPartition, Settled, Queued, DeadLetter, PositionsOf
  <2>4. CASE \E gp \in Positions : CommitAppend(gp)
    BY <2>4 DEF CommitAppend, Settled, Queued, DeadLetter, PositionsOf
  <2>5. CASE \E t \in Tenants : Purge(t)
    BY <2>5 DEF Purge, Settled, Queued, DeadLetter, PositionsOf
  <2>6. CASE \E t \in Tenants, from, to \in Positions : Requeue(t, from, to)
    BY <2>6 DEF OneAtATime, Requeue, Disrupt
  <2> QED BY <2>2, <2>3, <2>4, <2>5, <2>6 DEF OutboxNext
<1>4. AllDelivered'
  BY <1>1, <1>3, DoneParts DEF AllDelivered
<1> QED BY <1>2, <1>4, DoneParts

\* A worker that lets its transaction go owes nothing.
LEMMA DoneEnded ==
  ASSUME IInv, NEW w \in Workers, NEW rows, EndTx(w, rows) PROVE Done(w)'
BY DEF EndTx, Done, StepReset, AckedRan, TodoRan, IInv, TypeOK, RunnerTypeOK

\* While it works, it passes a row only with every projection dealt with.
LEMMA DoneTxStep ==
  ASSUME IInv, NEW w \in Workers, Ahead(w), Done(w), BeginTx(w) \/ SkipProjection(w) \/ ReadCheckpoint(w) \/
         InsertCheckpoint(w) \/ HandleEvent(w) \/ SetCheckpoint(w) \/ AckRow(w)
  PROVE  Done(w)'
<1>0. UNCHANGED <<rowPos, dismissed>> /\ step[w] \in Nat /\ \A p \in Projections : p \in Nat
  BY RunnerAssumption
     DEF BeginTx, SkipProjection, ReadCheckpoint, InsertCheckpoint, HandleEvent, SetCheckpoint, AckRow,
         offRunner, eventVars, IInv, TypeOK, RunnerTypeOK, Projections
<1> USE DEF GoTo
<1>1. CASE BeginTx(w)
  <2>1. PICK rows \in Units(w) :
          LET spent   == {id \in rows : attempts[id] > MaxAttempts}
              found   == {id \in rows \ spent : rowPos[id] \in Loadable}
          IN acked' = [acked EXCEPT ![w] = {id \in found : rowPos[id] \in dismissed /\ ~IncludeDismissed}]
    BY <1>1 DEF BeginTx
  <2>2. \A id \in acked'[w] : rowPos'[id] \in dismissed'
    BY <1>0, <2>1 DEF IInv, TypeOK, RunnerTypeOK
  <2>3. step'[w] = 1 /\ pc'[w] = "work"
    BY <1>1 DEF BeginTx, Done, StepReset, InTx, IInv, TypeOK, RunnerTypeOK
  <2>4. \A p \in Projections : ~(p < 1)
    BY RunnerAssumption DEF Projections
  <2> QED BY <2>2, <2>3, <2>4 DEF Done, StepReset, AckedRan, TodoRan
<1>2. CASE SkipProjection(w)
  <2>1. PICK row \in todo[w] :
          /\ IsCurrent(w, row)
          /\ ~Matches(step[w], rowPos[row]) \/ Visible(w, KeyOf(w, row)) >= rowPos[row]
    BY <1>2 DEF SkipProjection
  <2>2. /\ UNCHANGED <<pc, todo, acked, handled>> /\ step'[w] = step[w] + 1
        /\ pc[w] = "work" /\ step[w] <= NumProjections
    BY <1>2 DEF SkipProjection, IInv, TypeOK, RunnerTypeOK
  <2>3. step[w] \in Projections
    BY <2>2, RunnerAssumption DEF IInv, TypeOK, RunnerTypeOK, Projections
  <2>4. ~Matches(step[w], rowPos[row])
    <3>0. rowPos[row] \in Positions
      BY TodoRow
    <3>1. step[w] >= step[w] /\ rowPos[row] \in Nat
      BY <1>0, <3>0, BoundsAssumption DEF Positions
    <3>2. Visible(w, KeyOf(w, row)) < rowPos[row]
      BY <2>3, <3>1 DEF Ahead, TodoAhead, KeyOf
    <3>3. KeyOf(w, row) \in Keys
      BY <2>3, <3>0, RowAssumption DEF KeyOf, Keys
    <3>4. Visible(w, KeyOf(w, row)) \in Int
      BY <3>3 DEF Visible, NoRow, IInv, TypeOK, RunnerTypeOK
    <3> QED BY <2>1, <3>1, <3>2, <3>4
  <2>5. ASSUME NEW id \in todo[w], NEW p \in Projections, IsCurrent(w, id), p < step[w] + 1
        PROVE  Ran(w, id, p)
    <3>1. p < step[w] \/ p = step[w]
      BY <1>0, <2>5
    <3>2. id = row
      BY <2>1, <2>5, OneCurrent
    <3>3. p = step[w] => Ran(w, id, p)
      BY <2>4, <3>2 DEF Ran
    <3> QED BY <2>5, <3>1, <3>3 DEF Done, TodoRan
  <2>6. TodoRan(w)'
    BY <1>0, <2>2, <2>5 DEF TodoRan, IsCurrent, Ran
  <2> QED BY <1>0, <2>2, <2>6 DEF Done, StepReset, AckedRan, Ran, InTx
<1>3. CASE ReadCheckpoint(w) \/ InsertCheckpoint(w)
  <2>1. UNCHANGED <<todo, acked, step, handled>> /\ pc'[w] \in {"insert", "handle"}
    BY <1>3 DEF ReadCheckpoint, InsertCheckpoint, txVars, IInv, TypeOK, RunnerTypeOK
  <2> QED BY <1>0, <2>1 DEF Done, StepReset, AckedRan, TodoRan, IsCurrent, Ran, InTx
<1>4. CASE HandleEvent(w)
  <2>1. PICK row \in todo[w] :
          IsCurrent(w, row) /\ handled' = [handled EXCEPT ![w] = @ \cup {<<step[w], rowPos[row]>>}]
    BY <1>4 DEF HandleEvent
  <2>2. UNCHANGED <<todo, acked, step>> /\ pc'[w] = "set" /\ pc[w] = "handle"
    BY <1>4 DEF HandleEvent, IInv, TypeOK, RunnerTypeOK
  <2>3. handled'[w] = handled[w] \cup {<<step[w], rowPos[row]>>}
    BY <2>1 DEF IInv, TypeOK, RunnerTypeOK
  <2>4. \A id, p : Ran(w, id, p) => Ran(w, id, p)'
    BY <1>0, <2>3 DEF Ran
  <2>5. \A id \in todo[w] : IsCurrent(w, id) => id = row
    BY <2>1, OneCurrent
  <2>6. TodoRan(w)'
    BY <1>0, <2>2, <2>3, <2>4, <2>5 DEF Done, TodoRan, IsCurrent, Ran
  <2> QED BY <1>0, <2>2, <2>4, <2>6 DEF Done, StepReset, AckedRan, InTx
<1>5. CASE SetCheckpoint(w)
  <2>1. /\ UNCHANGED <<todo, acked, handled>> /\ step'[w] = step[w] + 1
        /\ pc[w] = "set" /\ pc'[w] = "work"
    BY <1>5 DEF SetCheckpoint, IInv, TypeOK, RunnerTypeOK
  <2>2. \A p \in Projections : p < step[w] + 1 => p < step[w] \/ p = step[w]
    BY <1>0
  <2>3. TodoRan(w)'
    BY <1>0, <2>1, <2>2 DEF Done, TodoRan, IsCurrent, Ran
  <2> QED BY <1>0, <2>1, <2>3 DEF Done, StepReset, AckedRan, Ran, InTx
<1>6. CASE AckRow(w)
  <2>1. PICK row \in todo[w] : IsCurrent(w, row) /\ acked' = [acked EXCEPT ![w] = @ \cup {row}]
    BY <1>6 DEF AckRow
  <2>2. /\ UNCHANGED <<pc, handled>> /\ step'[w] = 1 /\ acked'[w] = acked[w] \cup {row}
        /\ pc[w] = "work" /\ step[w] > NumProjections
    BY <1>6, <2>1 DEF AckRow, IInv, TypeOK, RunnerTypeOK
  <2>3. \A p \in Projections : p < step[w] /\ ~(p < 1)
    BY <1>0, <2>2, RunnerAssumption DEF Projections
  <2>4. \A p \in Projections : Ran(w, row, p)
    BY <2>1, <2>3 DEF Done, TodoRan
  <2>5. AckedRan(w)'
    BY <1>0, <2>2, <2>4 DEF Done, AckedRan, Ran
  <2> QED BY <2>2, <2>3, <2>5 DEF Done, StepReset, TodoRan
<1> QED BY <1>1, <1>2, <1>3, <1>4, <1>5, <1>6

\* What leaves the outbox for good was processed.
LEMMA DeliveredWorkerStep ==
  ASSUME IInv, DoneInv, NEW w \in Workers, WorkerStep(w) \/ WorkerFault(w)
  PROVE  AllDelivered'
<1>1. UNCHANGED <<events, purged, dismissed, rowPos>>
  BY WorkerFrame DEF offRunner, eventVars
<1>2. CASE UNCHANGED <<outbox, dlq, effects>>
  BY <1>1, <1>2, DoneParts DEF AllDelivered, Settled, Queued, DeadLetter, PositionsOf
<1>3. CASE Publish(w)
  <2>1. /\ outbox' = outbox \ (acked[w] \cup dead[w]) /\ dlq' = dlq \cup (dead[w] \cap outbox)
        /\ \A pair \in Pairs : effects'[pair] = IF pair \in handled[w] THEN effects[pair] + 1 ELSE effects[pair]
    BY <1>3 DEF Publish, RemoveRows
  <2>2. \A pair \in Pairs : effects[pair] \in Nat
    BY DEF IInv, TypeOK, RunnerTypeOK
  <2> SUFFICES ASSUME NEW gp \in Settled', NEW p \in Projections, Matches(p, gp)
               PROVE  effects'[<<p, gp>>] > 0
    BY DEF AllDelivered
  <2>3. gp \in events /\ <<p, gp>> \in Pairs
    BY <1>1 DEF Settled, Pairs, IInv, TypeOK, OutboxTypeOK
  <2>4. CASE gp \in Settled
    <3>1. effects[<<p, gp>>] > 0
      BY <2>4, DoneParts DEF AllDelivered
    <3> QED BY <2>1, <2>2, <2>3, <3>1
  <2>5. CASE gp \notin Settled
    <3>1. gp \notin dismissed /\ gp \in Queued \cup DeadLetter
      BY <1>1, <2>5 DEF Settled
    <3>2. PICK id \in outbox \cup dlq : rowPos[id] = gp
      BY <3>1 DEF Queued, DeadLetter, PositionsOf
    <3>3. id \notin outbox' \cup dlq'
      BY <1>1, <3>2 DEF Settled, Queued, DeadLetter, PositionsOf
    <3>4. id \in acked[w]
      BY <2>1, <3>2, <3>3
    <3>5. <<p, gp>> \in handled[w]
      BY <3>1, <3>2, <3>4, DoneParts DEF Done, AckedRan, Ran
    <3> QED BY <2>1, <2>2, <2>3, <3>5
  <2> QED BY <2>4, <2>5
<1>4. UNCHANGED <<outbox, dlq, effects>> \/ Publish(w)
  BY WorkerRows DEF rowVars, LockRows, UnlockRows
<1> QED BY <1>2, <1>3, <1>4

LEMMA DoneWorkerStep ==
  ASSUME IInv, AloneInv, AheadInv, DoneInv, NEW w \in Workers, WorkerStep(w) \/ WorkerFault(w)
  PROVE  DoneInv'
<1>1. Ahead(w) /\ \A v \in Workers : Done(v)
  BY MoverRuns, AheadParts, DoneParts
<1>2. ASSUME NEW v \in Workers, v # w PROVE Done(v)'
  <2>1. /\ UNCHANGED <<rowPos, dismissed>> /\ pc'[v] = pc[v] /\ step'[v] = step[v]
        /\ todo'[v] = todo[v] /\ acked'[v] = acked[v] /\ handled'[v] = handled[v]
    BY <1>2, WorkerFrame DEF Others, offRunner, eventVars
  <2> QED BY <1>1, <2>1 DEF Done, StepReset, AckedRan, TodoRan, Ran, IsCurrent, InTx
<1>3. Done(w)'
  <2>1. CASE BeginTx(w) \/ SkipProjection(w) \/ ReadCheckpoint(w) \/ InsertCheckpoint(w) \/
             HandleEvent(w) \/ SetCheckpoint(w) \/ AckRow(w)
    BY <1>1, <2>1, DoneTxStep
  <2>2. CASE ClaimBatch(w) \/ ClaimUnknown(w) \/ Abort(w)
    <3>1. UNCHANGED <<rowPos, dismissed, step, todo, acked, handled>>
      BY <2>2 DEF ClaimBatch, ClaimUnknown, Abort, offRunner, eventVars, txVars, runnerVars
    <3>2. ~InTx(w) /\ pc'[w] # "set"
      BY <2>2 DEF ClaimBatch, ClaimUnknown, Abort, GoTo, InTx, runnerVars, IInv, TypeOK, RunnerTypeOK
    <3>3. todo[w] = {}
      BY <3>2 DEF IInv, TxInv, TxOK
    <3> QED BY <1>1, <3>1, <3>2, <3>3 DEF Done, StepReset, AckedRan, TodoRan, Ran
  <2>3. CASE \E rows : EndTx(w, rows)
    BY <2>3, DoneEnded
  <2>4. CASE CommitTx(w) \/ CommitUnknown(w) \/ ReleaseRows(w) \/ ReleaseFails(w)
    BY <2>3, <2>4 DEF CommitTx, CommitUnknown, ReleaseRows, ReleaseFails
  <2>5. CASE HandlerThrows(w) \/ DbError(w) \/ DeadlockVictim(w) \/ Crash(w)
    BY <2>3, <2>5 DEF HandlerThrows, DbError, DeadlockVictim, Crash
  <2> QED BY <2>1, <2>2, <2>4, <2>5 DEF WorkerStep, WorkerFault
<1> QED BY <1>2, <1>3, DeliveredWorkerStep, DoneParts

LEMMA OrderInit == OneAtATime /\ Init => OrderInv
<1> SUFFICES ASSUME OneAtATime, Init PROVE OrderInv
  OBVIOUS
<1>1. PICK d \in Deployments :
        pc = [w \in Workers |-> IF w \in d.started THEN "poll" ELSE "stopped"] /\ nextPos = d.first
  BY DEF Init
<1>2. /\ outbox = {} /\ events = {} /\ pending = {} /\ nextPos \in Nat /\ nextPos > 0
      /\ \A id \in Ids : rowPos[id] = 0
  BY <1>1, RunnerAssumption, BoundsAssumption DEF Init, OutboxInit, Positions
<1>3. \A w \in Workers : /\ claimed[w] = {} /\ todo[w] = {} /\ acked[w] = {} /\ step[w] = 1
                         /\ wrote[w] = NoWrites /\ ~InTx(w) /\ ckpt = NoWrites
                         /\ pc[w] # "stopped" => w \in d.started
  BY <1>1 DEF Init, InTx
<1>4. AloneInv
  BY <1>1, <1>3 DEF AloneInv, OneAtATime
<1>5. LineInv
  <2>1. \A key \in Keys : ckpt[key] = NoRow /\ \A w \in Workers : wrote[w][key] = NoRow
    BY DEF Init, NoWrites
  <2> QED BY <1>2, <2>1 DEF LineInv
<1>6. AheadInv
  BY <1>2, <1>3 DEF AheadInv, OpenRows, Claimable
<1>7. DoneInv
  BY <1>2, <1>3 DEF DoneInv, Settled
<1> QED BY <1>4, <1>5, <1>6, <1>7 DEF OrderInv

(* Where a runner in batch mode runs alone, writers commit one at a time   *)
(* and no operator requeues, every event that has left the outbox without  *)
(* being dismissed, dead-lettered or purged was processed by every         *)
(* projection that wants its topic, through crashes, failed and ambiguous  *)
(* commits, detached partitions and restarts.  Each hypothesis is needed:  *)
(* run LateCommitSkip breaks the claim with two writers.                   *)
THEOREM Delivery == ASSUME OneAtATime PROVE Spec => []AtLeastOnce
<1>1. IInv /\ IInv' /\ OrderInv /\ [Next]_vars => OrderInv'
  <2> SUFFICES ASSUME IInv, IInv', OrderInv, [Next]_vars PROVE OrderInv'
    OBVIOUS
  <2> USE DEF OrderInv
  <2>1. CASE OutboxNext /\ UNCHANGED runnerVars
    BY <2>1, AloneOutboxStep, LineOutboxStep, AheadOutboxStep, DoneOutboxStep
  <2>2. CASE \E w \in Workers : WorkerStep(w) \/ WorkerFault(w)
    BY <2>2, AloneWorkerStep, LineWorkerStep, AheadWorkerStep, DoneWorkerStep
  <2>3. CASE UNCHANGED vars
    <3> USE <2>3 DEF vars, outboxVars, runnerVars, eventVars, rowVars, txVars
    <3>1. AloneInv' /\ LineInv'
      BY DEF AloneInv, LineInv, InTx
    <3>2. AheadInv'
      BY DEF AheadInv, OpenRows, Claimable, Visible, IsCurrent
    <3>3. DoneInv'
      BY DEF DoneInv, InTx, Settled, Queued, DeadLetter, PositionsOf, Ran, IsCurrent
    <3> QED BY <3>1, <3>2, <3>3
  <2> QED BY <2>1, <2>2, <2>3 DEF Next
<1>2. OrderInv => AtLeastOnce
  BY DEF OrderInv, DoneInv, AtLeastOnce
<1> QED BY <1>1, <1>2, OrderInit, Invariance, PTL DEF Spec
=============================================================================
