------------------------- MODULE ExampleAppsProofs --------------------------
(***************************************************************************)
(* Proofs about the programs of src/examples: a process that serves has    *)
(* the schema it needs, the banking examples keep accounts and money       *)
(* sound, and they implement a bank that moves money.  Sums and batches    *)
(* are folds: what is said of them is shown by induction on a set of       *)
(* numbers, or on the size of a finite set.                                *)
(***************************************************************************)
EXTENDS ExampleApps, FiniteSetTheorems, SequenceTheorems, WellFoundedInduction, TLAPS

-----------------------------------------------------------------------------
(* Counting.                                                               *)

\* Induction, on a set of numbers.
LEMMA Counting ==
  ASSUME NEW S \in SUBSET Nat, 0 \in S, \A n \in S : n + 1 \in S
  PROVE  S = Nat
<1> SUFFICES ASSUME Nat \ S # {} PROVE FALSE
  OBVIOUS
<1>1. PICK n \in Nat \ S : \A m \in Nat \ S : ~(<<m, n>> \in OpToRel(<, Nat))
  BY WFMin, NatLessThanWellFounded
<1>2. \A m \in Nat \ S : ~(m < n)
  BY <1>1 DEF OpToRel
<1>3. n # 0 /\ n - 1 \in Nat /\ n - 1 < n /\ (n - 1) + 1 = n
  OBVIOUS
<1>4. n - 1 \in S
  BY <1>2, <1>3
<1> QED BY <1>3, <1>4

\* A set of numbers that is not empty has a smallest one.
LEMMA SmallestIs ==
  ASSUME NEW S \in SUBSET Nat, S # {}
  PROVE  \E n \in S : \A m \in S : n <= m
<1>1. PICK n \in S : \A m \in S : ~(<<m, n>> \in OpToRel(<, Nat))
  BY WFMin, NatLessThanWellFounded
<1>2. \A m \in S : ~(m < n)
  BY <1>1 DEF OpToRel
<1>3. n \in Nat /\ \A m \in S : m \in Nat
  OBVIOUS
<1>4. \A m \in S : n <= m
  BY <1>2, <1>3
<1> QED BY <1>4

-----------------------------------------------------------------------------
(* Starting processes.                                                     *)

DatabaseRecord ==
  [ran : SUBSET Nat, recorded : SUBSET Nat, partitioned : BOOLEAN,
   ranges : SUBSET [from : Int, to : Int], made : SUBSET [from : Int, to : Int], top : Nat]

Stage == [at : {"off", "next", "ran", "convert", "up"}, left : SUBSET Nat]

\* What a process on its way has done to a database: what is not left of its plan.
OnItsWay(p, d) ==
  LET s == starting[p][d] IN
  /\ s.left \subseteq ToSet(PlanOf[p])
  /\ s.at # "off" => ToSet(PlanOf[p]) \ s.left \subseteq database[d].ran
  /\ s.at = "ran" => s.left # {} /\ Due(p, s.left) \in database[d].ran
  /\ s.at \in {"convert", "up"} => s.left = {}
  /\ s.at = "up" /\ p \in Partitioning => database[d].partitioned

StartupInv ==
  /\ database \in [Databases -> DatabaseRecord]
  /\ DOMAIN starting = Processes
  /\ \A p \in Processes : starting[p] \in [Served[p] -> Stage]
  /\ \A d \in Databases : database[d].recorded \subseteq database[d].ran
  /\ \A p \in Processes : \A d \in Served[p] : OnItsWay(p, d)

\* Min is that one.
LEMMA Smallest ==
  ASSUME NEW S \in SUBSET Nat, S # {}
  PROVE  Min(S) \in S /\ \A n \in S : Min(S) <= n
BY SmallestIs DEF Min

\* What is due is one of what is left.
LEMMA DueIsLeft ==
  ASSUME NEW p \in Processes, NEW left, left \subseteq ToSet(PlanOf[p]), left # {}
  PROVE  Due(p, left) \in left
<1> DEFINE I == {i \in DOMAIN PlanOf[p] : PlanOf[p][i] \in left}
<1>1. PlanOf[p] \in Seq(Nat)
  BY StartupAssumption
<1>2. I \in SUBSET Nat
  BY <1>1
<1>3. I # {}
  BY DEF ToSet
<1>4. Min(I) \in I
  BY <1>2, <1>3, Smallest
<1> QED BY <1>4 DEF Due

LEMMA PlansAreNumbers ==
  ASSUME NEW p \in Processes
  PROVE  ToSet(PlanOf[p]) \subseteq Nat
<1>1. PlanOf[p] \in Seq(Nat)
  BY StartupAssumption
<1> QED BY <1>1 DEF ToSet

\* A database only gains: scripts that were run, and partitions for good.
Gains ==
  \A d \in Databases :
    /\ database[d].ran \subseteq database'[d].ran
    /\ database[d].partitioned => database'[d].partitioned

\* Where nothing is done, what was done stays.
LEMMA StaysOnItsWay ==
  ASSUME NEW p \in Processes, NEW d \in Served[p], d \in Databases, Gains, OnItsWay(p, d),
         starting'[p][d] = starting[p][d]
  PROVE  OnItsWay(p, d)'
BY DEF OnItsWay, Gains, Due

LEMMA OffIsOnItsWay ==
  ASSUME NEW p \in Processes, NEW d, starting'[p][d] = Off
  PROVE  OnItsWay(p, d)'
BY DEF OnItsWay, Off

LEMMA ServedAreDatabases ==
  ASSUME NEW p \in Processes
  PROVE  Served[p] \subseteq Databases
BY StartupAssumption

\* One process goes to a stage on one database.
LEMMA Went ==
  ASSUME StartupInv, NEW p \in Processes, NEW d \in Served[p], NEW label, NEW left,
         Go(p, d, label, left), [at |-> label, left |-> left] \in Stage
  PROVE  /\ DOMAIN starting' = Processes
         /\ \A q \in Processes : starting'[q] \in [Served[q] -> Stage]
         /\ starting'[p][d] = [at |-> label, left |-> left]
         /\ \A q \in Processes, e \in Databases :
              e \in Served[q] /\ ~(q = p /\ e = d) => starting'[q][e] = starting[q][e]
<1> DEFINE s == [at |-> label, left |-> left]
<1>1. starting' = [starting EXCEPT ![p] = [starting[p] EXCEPT ![d] = s]]
  BY DEF Go
<1>2. starting[p] \in [Served[p] -> Stage] /\ DOMAIN starting = Processes
  BY DEF StartupInv
<1>3. [starting[p] EXCEPT ![d] = s] \in [Served[p] -> Stage]
  BY <1>2
<1>4. starting'[p] = [starting[p] EXCEPT ![d] = s] /\ \A q \in Processes \ {p} : starting'[q] = starting[q]
  BY <1>1, <1>2
<1>5. DOMAIN starting' = Processes
  BY <1>1, <1>2
<1>6. \A q \in Processes : starting'[q] \in [Served[q] -> Stage]
  BY <1>3, <1>4 DEF StartupInv
<1>7. starting'[p][d] = s /\ \A e \in Served[p] : e # d => starting'[p][e] = starting[p][e]
  BY <1>2, <1>4
<1> QED BY <1>4, <1>5, <1>6, <1>7

\* A process goes on, or gives up, on one database.
LEMMA StepKeeps ==
  ASSUME StartupInv, NEW p \in Processes, NEW d \in Served[p], NEW label, NEW left,
         Go(p, d, label, left), [at |-> label, left |-> left] \in Stage,
         database' \in [Databases -> DatabaseRecord], Gains,
         \A e \in Databases : database'[e].recorded \subseteq database'[e].ran,
         OnItsWay(p, d)'
  PROVE  StartupInv'
<1>1. \A q \in Processes : \A e \in Served[q] : OnItsWay(q, e)'
  <2> SUFFICES ASSUME NEW q \in Processes, NEW e \in Served[q] PROVE OnItsWay(q, e)'
    OBVIOUS
  <2>1. CASE q = p /\ e = d
    BY <2>1
  <2>2. CASE ~(q = p /\ e = d)
    <3>1. e \in Databases
      BY ServedAreDatabases
    <3>2. starting'[q][e] = starting[q][e]
      BY <2>2, <3>1, Went
    <3> QED BY <3>1, <3>2, StaysOnItsWay DEF StartupInv
  <2> QED BY <2>1, <2>2
<1>2. DOMAIN starting' = Processes /\ \A q \in Processes : starting'[q] \in [Served[q] -> Stage]
  BY Went
<1> QED BY <1>1, <1>2 DEF StartupInv

LEMMA ExitKeeps ==
  ASSUME StartupInv, NEW p \in Processes, Exit(p), UNCHANGED database
  PROVE  StartupInv'
<1>1. DOMAIN starting = Processes /\ starting' = [starting EXCEPT ![p] = Idling[p]]
  BY DEF StartupInv, Exit
<1>2. Idling[p] \in [Served[p] -> Stage] /\ \A d \in Served[p] : Idling[p][d] = Off
  BY DEF Idling, Off, Stage
<1>3. DOMAIN starting' = Processes /\ starting'[p] = Idling[p] /\ \A q \in Processes \ {p} : starting'[q] = starting[q]
  BY <1>1
<1>4. Gains
  BY DEF Gains
<1>5. \A q \in Processes : \A e \in Served[q] : OnItsWay(q, e)'
  <2> SUFFICES ASSUME NEW q \in Processes, NEW e \in Served[q] PROVE OnItsWay(q, e)'
    OBVIOUS
  <2>1. CASE q = p
    BY <2>1, <1>2, <1>3, OffIsOnItsWay
  <2>2. CASE q # p
    BY <2>2, <1>3, <1>4, StaysOnItsWay, ServedAreDatabases DEF StartupInv
  <2> QED BY <2>1, <2>2
<1>6. \A q \in Processes : starting'[q] \in [Served[q] -> Stage]
  BY <1>2, <1>3 DEF StartupInv
<1> QED BY <1>3, <1>5, <1>6 DEF StartupInv

\* A database changes while no process takes a step of its own.
LEMMA OthersKeep ==
  ASSUME StartupInv, UNCHANGED starting, database' \in [Databases -> DatabaseRecord], Gains,
         \A e \in Databases : database'[e].recorded \subseteq database'[e].ran
  PROVE  StartupInv'
<1>1. \A q \in Processes : \A e \in Served[q] : OnItsWay(q, e)'
  BY StaysOnItsWay, ServedAreDatabases DEF StartupInv
<1> QED BY <1>1 DEF StartupInv

\* One field of one database.
LEMMA ChangeOf ==
  ASSUME StartupInv, NEW d \in Databases, NEW r \in DatabaseRecord, database' = [database EXCEPT ![d] = r],
         database[d].ran \subseteq r.ran, r.recorded \subseteq r.ran, database[d].partitioned => r.partitioned
  PROVE  /\ database' \in [Databases -> DatabaseRecord] /\ Gains
         /\ \A e \in Databases : database'[e].recorded \subseteq database'[e].ran
         /\ database'[d] = r
BY DEF StartupInv, Gains

LEMMA StageOf ==
  ASSUME StartupInv, NEW p \in Processes, NEW d \in Served[p]
  PROVE  /\ starting[p][d] \in Stage
         /\ starting[p][d].at \in {"off", "next", "ran", "convert", "up"} /\ starting[p][d].left \subseteq Nat
BY DEF StartupInv, Stage

LEMMA FieldsOf ==
  ASSUME StartupInv, NEW d \in Databases
  PROVE  /\ database[d] \in DatabaseRecord
         /\ database[d].ran \subseteq Nat /\ database[d].recorded \subseteq database[d].ran
         /\ database[d].recorded \subseteq Nat /\ database[d].top \in Nat
BY DEF StartupInv, DatabaseRecord

LEMMA Untouched ==
  ASSUME StartupInv, UNCHANGED database
  PROVE  /\ database' \in [Databases -> DatabaseRecord] /\ Gains
         /\ \A e \in Databases : database'[e].recorded \subseteq database'[e].ran
BY DEF StartupInv, Gains

LEMMA ListKeeps ==
  ASSUME StartupInv, NEW p \in Processes, NEW d \in Served[p], List(p, d)
  PROVE  StartupInv'
<1> DEFINE left == ToSet(PlanOf[p]) \ database[d].recorded
<1>1. d \in Databases
  BY ServedAreDatabases
<1>2. Go(p, d, "next", left) /\ UNCHANGED database
  BY DEF List
<1>3. [at |-> "next", left |-> left] \in Stage
  BY PlansAreNumbers DEF Stage
<1>4. starting'[p][d] = [at |-> "next", left |-> left]
  BY <1>2, <1>3, Went
<1>5. ToSet(PlanOf[p]) \ left \subseteq database'[d].ran
  BY <1>1, <1>2, FieldsOf
<1>6. OnItsWay(p, d)'
  BY <1>4, <1>5 DEF OnItsWay
<1> QED BY <1>2, <1>3, <1>6, Untouched, StepKeeps

LEMMA RunKeeps ==
  ASSUME StartupInv, NEW p \in Processes, NEW d \in Served[p], Run(p, d)
  PROVE  StartupInv'
<1> DEFINE left == starting[p][d].left
           due == Due(p, left)
           r == [database[d] EXCEPT !.ran = @ \cup {due}]
<1>1. d \in Databases
  BY ServedAreDatabases
<1>2. /\ starting[p][d].at = "next" /\ left # {}
      /\ database' = [database EXCEPT ![d] = r] /\ Go(p, d, "ran", left)
  BY DEF Run, At
<1>3. /\ left \subseteq ToSet(PlanOf[p]) /\ ToSet(PlanOf[p]) \ left \subseteq database[d].ran
      /\ left \subseteq Nat
  BY <1>2, StageOf DEF StartupInv, OnItsWay
<1>4. due \in left /\ due \in Nat
  BY <1>2, <1>3, DueIsLeft
<1>5. database[d] \in DatabaseRecord /\ database[d].ran \subseteq Nat /\ database[d].recorded \subseteq database[d].ran
  BY <1>1, FieldsOf
<1>6. /\ r \in DatabaseRecord /\ r.ran = database[d].ran \cup {due}
      /\ r.recorded = database[d].recorded /\ r.partitioned = database[d].partitioned
  BY <1>4, <1>5 DEF DatabaseRecord
<1>7. /\ database' \in [Databases -> DatabaseRecord] /\ Gains /\ database'[d] = r
      /\ \A e \in Databases : database'[e].recorded \subseteq database'[e].ran
  <2> HIDE DEF r
  <2>1. database[d].ran \subseteq r.ran /\ r.recorded \subseteq r.ran
    BY <1>5, <1>6
  <2> QED BY <1>1, <1>2, <1>6, <2>1, ChangeOf
<1>8. [at |-> "ran", left |-> left] \in Stage
  BY <1>3 DEF Stage
<1>9. starting'[p][d] = [at |-> "ran", left |-> left]
  BY <1>2, <1>8, Went
<1>10. ToSet(PlanOf[p]) \ left \subseteq database'[d].ran /\ due \in database'[d].ran
  BY <1>3, <1>6, <1>7
<1>11. OnItsWay(p, d)'
  BY <1>2, <1>3, <1>9, <1>10 DEF OnItsWay, Due
<1> QED BY <1>2, <1>7, <1>8, <1>11, StepKeeps

LEMMA RecordKeeps ==
  ASSUME StartupInv, NEW p \in Processes, NEW d \in Served[p], Record(p, d)
  PROVE  StartupInv'
<1> DEFINE left == starting[p][d].left
           due == Due(p, left)
           r == [database[d] EXCEPT !.recorded = @ \cup {due}]
<1>1. d \in Databases
  BY ServedAreDatabases
<1>2. /\ starting[p][d].at = "ran"
      /\ database' = [database EXCEPT ![d] = r] /\ Go(p, d, "next", left \ {due})
  BY DEF Record, At
<1>3. /\ left \subseteq ToSet(PlanOf[p]) /\ ToSet(PlanOf[p]) \ left \subseteq database[d].ran
      /\ left \subseteq Nat /\ left # {} /\ due \in database[d].ran
  BY <1>2, StageOf DEF StartupInv, OnItsWay
<1>4. due \in left /\ due \in Nat
  BY <1>3, DueIsLeft
<1>5. database[d] \in DatabaseRecord /\ database[d].ran \subseteq Nat /\ database[d].recorded \subseteq database[d].ran
  BY <1>1, FieldsOf
<1>6. /\ r \in DatabaseRecord /\ r.ran = database[d].ran
      /\ r.recorded = database[d].recorded \cup {due} /\ r.partitioned = database[d].partitioned
  BY <1>4, <1>5 DEF DatabaseRecord
<1>7. /\ database' \in [Databases -> DatabaseRecord] /\ Gains /\ database'[d] = r
      /\ \A e \in Databases : database'[e].recorded \subseteq database'[e].ran
  <2> HIDE DEF r
  <2>1. database[d].ran \subseteq r.ran /\ r.recorded \subseteq r.ran
    BY <1>3, <1>5, <1>6
  <2> QED BY <1>1, <1>2, <1>6, <2>1, ChangeOf
<1>8. [at |-> "next", left |-> left \ {due}] \in Stage
  BY <1>3 DEF Stage
<1>9. starting'[p][d] = [at |-> "next", left |-> left \ {due}]
  <2>1. StartupInv /\ p \in Processes /\ d \in Served[p] /\ Go(p, d, "next", left \ {due})
    BY <1>2
  <2> QED BY ONLY <1>8, <2>1, Went
<1>10. ToSet(PlanOf[p]) \ (left \ {due}) \subseteq database'[d].ran
  BY <1>3, <1>6, <1>7
<1>11. OnItsWay(p, d)'
  BY <1>3, <1>9, <1>10 DEF OnItsWay
<1> QED BY <1>2, <1>7, <1>8, <1>11, StepKeeps

LEMMA FinishKeeps ==
  ASSUME StartupInv, NEW p \in Processes, NEW d \in Served[p], Finish(p, d)
  PROVE  StartupInv'
<1> DEFINE label == IF p \in Partitioning /\ ~database[d].partitioned THEN "convert" ELSE "up"
<1>1. Go(p, d, label, {}) /\ UNCHANGED database /\ starting[p][d].at = "next" /\ starting[p][d].left = {}
  BY DEF Finish, At
<1>2. [at |-> label, left |-> {}] \in Stage
  BY DEF Stage
<1> HIDE DEF label
<1>3. starting'[p][d] = [at |-> label, left |-> {}]
  <2>1. StartupInv /\ p \in Processes /\ d \in Served[p] /\ Go(p, d, label, {})
    BY <1>1
  <2> QED BY ONLY <1>2, <2>1, Went
<1>4. ToSet(PlanOf[p]) \subseteq database[d].ran
  BY <1>1 DEF StartupInv, OnItsWay
<1>5. OnItsWay(p, d)'
  BY <1>1, <1>3, <1>4 DEF OnItsWay, label
<1> QED BY <1>1, <1>2, <1>5, Untouched, StepKeeps

LEMMA Partitions ==
  ASSUME StartupInv, NEW d \in Databases, database' = Partitioned(d)
  PROVE  /\ database' \in [Databases -> DatabaseRecord] /\ Gains
         /\ \A e \in Databases : database'[e].recorded \subseteq database'[e].ran
         /\ database'[d].partitioned /\ database'[d].ran = database[d].ran
<1> DEFINE ranges == {[from |-> 0, to |-> Boundary(d)], [from |-> Boundary(d), to |-> Boundary(d) + PartitionSize]}
           r == [database[d] EXCEPT !.partitioned = TRUE, !.ranges = ranges]
<1>1. database[d] \in DatabaseRecord /\ database[d].ran \subseteq Nat /\ database[d].recorded \subseteq database[d].ran
  BY FieldsOf
<1>2. Boundary(d) \in Int /\ PartitionSize \in Int
  <2>1. PartitionSize \in Nat \ {0} /\ database[d].top \in Nat
    BY StartupAssumption, FieldsOf
  <2>2. database[d].top \div PartitionSize \in Int
    BY <2>1
  <2> QED BY <2>1, <2>2 DEF Boundary
<1>3. ranges \subseteq [from : Int, to : Int]
  BY <1>2
<1>4. /\ r \in DatabaseRecord /\ r.ran = database[d].ran /\ r.recorded = database[d].recorded /\ r.partitioned
  <2> HIDE DEF ranges
  <2> QED BY <1>1, <1>3 DEF DatabaseRecord
<1>5. database' = [database EXCEPT ![d] = r]
  BY DEF Partitioned
<1> HIDE DEF r
<1> QED BY <1>1, <1>4, <1>5, ChangeOf

LEMMA ConvertKeeps ==
  ASSUME StartupInv, NEW p \in Processes, NEW d \in Served[p], Convert(p, d)
  PROVE  StartupInv'
<1>1. d \in Databases
  BY ServedAreDatabases
<1>2. Go(p, d, "up", {}) /\ database' = Partitioned(d) /\ starting[p][d].at = "convert"
  BY DEF Convert, At
<1>3. [at |-> "up", left |-> {}] \in Stage
  BY DEF Stage
<1>4. starting'[p][d] = [at |-> "up", left |-> {}]
  BY <1>2, <1>3, Went
<1>5. ToSet(PlanOf[p]) \subseteq database[d].ran
  BY <1>2 DEF StartupInv, OnItsWay
<1>6. /\ database' \in [Databases -> DatabaseRecord] /\ Gains
      /\ \A e \in Databases : database'[e].recorded \subseteq database'[e].ran
      /\ database'[d].partitioned /\ database'[d].ran = database[d].ran
  BY <1>1, <1>2, Partitions
<1>7. OnItsWay(p, d)'
  BY <1>4, <1>5, <1>6 DEF OnItsWay
<1> QED BY <1>2, <1>3, <1>6, <1>7, StepKeeps

LEMMA EnableKeeps ==
  ASSUME StartupInv, NEW d \in Databases, EnablePartitioning(d)
  PROVE  StartupInv'
<1>1. database' = Partitioned(d) /\ UNCHANGED starting
  BY DEF EnablePartitioning
<1> QED BY <1>1, Partitions, OthersKeep

\* Steps that write positions or ranges only.
LEMMA RestKeeps ==
  ASSUME StartupInv, NEW d \in Databases, UNCHANGED starting,
         NEW r \in DatabaseRecord, database' = [database EXCEPT ![d] = r],
         r.ran = database[d].ran, r.recorded = database[d].recorded, r.partitioned = database[d].partitioned
  PROVE  StartupInv'
<1>1. /\ database' \in [Databases -> DatabaseRecord] /\ Gains
      /\ \A e \in Databases : database'[e].recorded \subseteq database'[e].ran
  BY FieldsOf, ChangeOf
<1> QED BY <1>1, OthersKeep

LEMMA WriteKeeps ==
  ASSUME StartupInv, NEW p \in Processes, NEW d \in Served[p], Write(p, d)
  PROVE  StartupInv'
<1>1. d \in Databases
  BY ServedAreDatabases
<1>2. PICK pos \in database[d].top + 1 .. MaxTop : database' = [database EXCEPT ![d].top = pos]
  BY DEF Write
<1> DEFINE r == [database[d] EXCEPT !.top = pos]
<1>3. database[d] \in DatabaseRecord /\ pos \in Nat
  BY <1>1, FieldsOf
<1>4. r \in DatabaseRecord /\ r.ran = database[d].ran /\ r.recorded = database[d].recorded
      /\ r.partitioned = database[d].partitioned
  BY <1>3 DEF DatabaseRecord
<1>5. database' = [database EXCEPT ![d] = r] /\ UNCHANGED starting
  BY <1>2 DEF Write
<1> HIDE DEF r
<1> QED BY <1>1, <1>4, <1>5, RestKeeps

LEMMA CreateKeeps ==
  ASSUME StartupInv, NEW d \in Databases, CreatePartition(d)
  PROVE  StartupInv'
<1>1. PICK new \in Ranges : database' = [database EXCEPT ![d].ranges = @ \cup {new}, ![d].made = @ \cup {new}]
  BY DEF CreatePartition
<1> DEFINE r == [database[d] EXCEPT !.ranges = @ \cup {new}, !.made = @ \cup {new}]
<1>2. database[d] \in DatabaseRecord /\ new \in [from : Int, to : Int]
  BY FieldsOf, StartupAssumption
<1>3. r \in DatabaseRecord /\ r.ran = database[d].ran /\ r.recorded = database[d].recorded
      /\ r.partitioned = database[d].partitioned
  BY <1>2 DEF DatabaseRecord
<1>4. database' = [database EXCEPT ![d] = r] /\ UNCHANGED starting
  BY <1>1 DEF CreatePartition, StartupInv
<1> HIDE DEF r
<1> QED BY <1>3, <1>4, RestKeeps

LEMMA DetachKeeps ==
  ASSUME StartupInv, NEW d \in Databases, DetachPartition(d)
  PROVE  StartupInv'
<1>1. PICK old : database' = [database EXCEPT ![d].ranges = @ \ {old}]
  BY DEF DetachPartition
<1> DEFINE r == [database[d] EXCEPT !.ranges = @ \ {old}]
<1>2. database[d] \in DatabaseRecord
  BY FieldsOf
<1>3. r \in DatabaseRecord /\ r.ran = database[d].ran /\ r.recorded = database[d].recorded
      /\ r.partitioned = database[d].partitioned
  BY <1>2 DEF DatabaseRecord
<1>4. database' = [database EXCEPT ![d] = r] /\ UNCHANGED starting
  BY <1>1 DEF DetachPartition
<1> HIDE DEF r
<1> QED BY <1>3, <1>4, RestKeeps

LEMMA StartupKeeps ==
  ASSUME StartupInv, StartupNext
  PROVE  StartupInv'
<1>1. ASSUME NEW p \in Processes, Kill(p) PROVE StartupInv'
  BY <1>1, ExitKeeps DEF Kill
<1>2. ASSUME NEW p \in Processes, NEW d \in Served[p], StartStep(p, d) PROVE StartupInv'
  <2>1. CASE RunFails(p, d) \/ ConvertFails(p, d)
    BY <2>1, ExitKeeps DEF RunFails, ConvertFails
  <2> QED BY <1>2, <2>1, ListKeeps, RunKeeps, RecordKeeps, FinishKeeps, ConvertKeeps DEF StartStep
<1> QED BY <1>1, <1>2, WriteKeeps, EnableKeeps, CreateKeeps, DetachKeeps DEF StartupNext

LEMMA StartupStarts ==
  ASSUME StartupInit
  PROVE  StartupInv
<1>1. PICK h \in Histories :
        database = [d \in Databases |->
          [ran |-> h.ran, recorded |-> h.ran, partitioned |-> FALSE, ranges |-> {}, made |-> {}, top |-> h.top]]
  BY DEF StartupInit
<1>2. h.ran \subseteq Nat /\ h.top \in Nat
  BY StartupAssumption
<1>3. database \in [Databases -> DatabaseRecord]
  BY <1>1, <1>2 DEF DatabaseRecord
<1>4. starting = Idling
  BY DEF StartupInit
<1>5. /\ DOMAIN starting = Processes
      /\ \A p \in Processes : starting[p] \in [Served[p] -> Stage] /\ \A d \in Served[p] : starting[p][d] = Off
  BY <1>4 DEF Idling, Off, Stage
<1>6. \A p \in Processes : \A d \in Served[p] : OnItsWay(p, d)
  BY <1>5 DEF OnItsWay, Off
<1> QED BY <1>1, <1>3, <1>5, <1>6 DEF StartupInv

LEMMA StartupAlways == Spec => []StartupInv
<1>1. Init => StartupInv
  BY StartupStarts DEF Init
<1>2. StartupInv /\ [Next]_vars => StartupInv'
  <2> SUFFICES ASSUME StartupInv, [Next]_vars PROVE StartupInv'
    OBVIOUS
  <2>1. CASE StartupNext
    BY <2>1, StartupKeeps
  <2>2. CASE UNCHANGED startupVars
    BY <2>2, Untouched, OthersKeep DEF startupVars
  <2> QED BY <2>1, <2>2 DEF Next, vars
<1> QED BY <1>1, <1>2, PTL DEF Spec

(* Every process that serves has run, on each of its databases, every      *)
(* migration of its plan, itself or through another process, and has the   *)
(* table partitioned if it asked for that; and nothing is recorded that    *)
(* was not run.                                                            *)
THEOREM ServesWhatItNeeds == Spec => []ServesMigrated
<1>1. StartupInv => ServesMigrated
  BY DEF StartupInv, OnItsWay, ServesMigrated, At
<1> QED BY <1>1, StartupAlways, PTL

-----------------------------------------------------------------------------
(* Sums.                                                                   *)

\* The sums of all parts of f, in whatever order they are taken.
SumsOf(f, g) ==
  /\ g \in [SUBSET DOMAIN f -> Int]
  /\ g[{}] = 0
  /\ \A s \in SUBSET DOMAIN f : \A x \in s : g[s] = f[x] + g[s \ {x}]

\* One element more, y.
WithOne(S, f, y, h) == [s \in SUBSET S |-> IF y \in s THEN f[y] + h[s \ {y}] ELSE h[s]]

LEMMA SumsOfOneMore ==
  ASSUME NEW S, NEW y \in S, NEW f \in [S -> Int], NEW e \in [S \ {y} -> Int],
         \A x \in S \ {y} : e[x] = f[x], NEW h, SumsOf(e, h)
  PROVE  SumsOf(f, WithOne(S, f, y, h))
<1> DEFINE R == S \ {y}
           g == [s \in SUBSET S |-> IF y \in s THEN f[y] + h[s \ {y}] ELSE h[s]]
<1>1. /\ h \in [SUBSET R -> Int] /\ h[{}] = 0
      /\ \A s \in SUBSET R : \A x \in s : h[s] = f[x] + h[s \ {x}]
  BY DEF SumsOf
<1>2. g \in [SUBSET S -> Int]
  BY <1>1
<1>3. g[{}] = 0
  BY <1>1
<1>4. ASSUME NEW s \in SUBSET S, NEW x \in s PROVE g[s] = f[x] + g[s \ {x}]
  <2>1. f[x] \in Int /\ f[y] \in Int
    OBVIOUS
  <2>2. CASE x = y
    <3>1. g[s] = f[y] + h[s \ {y}] /\ g[s \ {x}] = h[s \ {x}]
      BY <2>2
    <3> QED BY <2>2, <3>1
  <2>3. CASE x # y /\ y \in s
    <3>1. g[s] = f[y] + h[s \ {y}] /\ g[s \ {x}] = f[y] + h[(s \ {x}) \ {y}]
      BY <2>3
    <3>2. s \ {y} \in SUBSET R /\ x \in s \ {y} /\ (s \ {y}) \ {x} = (s \ {x}) \ {y}
      BY <2>3
    <3>3. h[s \ {y}] = f[x] + h[(s \ {y}) \ {x}]
      <4> HIDE DEF R
      <4> QED BY <1>1, <3>2
    <3>4. h[s \ {y}] \in Int /\ h[(s \ {x}) \ {y}] \in Int
      BY <1>1, <3>2
    <3>5. h[s \ {y}] = f[x] + h[(s \ {x}) \ {y}]
      BY <3>2, <3>3
    <3> HIDE DEF g
    <3> QED BY <2>1, <3>1, <3>4, <3>5
  <2>4. CASE x # y /\ y \notin s
    <3>1. g[s] = h[s] /\ g[s \ {x}] = h[s \ {x}]
      BY <2>4
    <3>2. s \in SUBSET R
      BY <2>4
    <3> QED BY <1>1, <3>1, <3>2
  <2> QED BY <2>2, <2>3, <2>4
<1>5. SumsOf(f, g)
  <2> HIDE DEF g
  <2>1. DOMAIN f = S
    OBVIOUS
  <2> QED BY <1>2, <1>3, <1>4, <2>1 DEF SumsOf
<1> QED BY <1>5 DEF WithOne

\* Every function on a finite set has sums.
LEMMA SumsExist ==
  ASSUME NEW S, IsFiniteSet(S), NEW f \in [S -> Int]
  PROVE  \E g : SumsOf(f, g)
<1> DEFINE N == {n \in Nat : \A T : IsFiniteSet(T) /\ Cardinality(T) = n =>
                               \A e \in [T -> Int] : \E g : SumsOf(e, g)}
<1>1. 0 \in N
  <2> SUFFICES ASSUME NEW T, IsFiniteSet(T), Cardinality(T) = 0, NEW e \in [T -> Int]
               PROVE  \E g : SumsOf(e, g)
    OBVIOUS
  <2>1. T = {}
    BY FS_EmptySet
  <2>2. SumsOf(e, [s \in SUBSET T |-> 0])
    BY <2>1 DEF SumsOf
  <2> QED BY <2>2
<1>2. ASSUME NEW n \in N PROVE n + 1 \in N
  <2> SUFFICES ASSUME NEW T, IsFiniteSet(T), Cardinality(T) = n + 1, NEW e \in [T -> Int]
               PROVE  \E g : SumsOf(e, g)
    OBVIOUS
  <2>1. T # {}
    BY FS_EmptySet
  <2>2. PICK y \in T : TRUE
    BY <2>1
  <2>3. IsFiniteSet(T \ {y}) /\ Cardinality(T \ {y}) = n
    <3>1. IsFiniteSet(T \ {y}) /\ Cardinality(T \ {y}) = Cardinality(T) - 1
      BY <2>2, FS_RemoveElement
    <3>2. n \in Nat
      OBVIOUS
    <3> QED BY <3>1, <3>2
  <2>4. \A c \in [T \ {y} -> Int] : \E g : SumsOf(c, g)
    BY <2>3
  <2>5. PICK d \in [T \ {y} -> Int] : \A x \in T \ {y} : d[x] = e[x]
    <3>1. [x \in T \ {y} |-> e[x]] \in [T \ {y} -> Int]
      OBVIOUS
    <3> QED BY <3>1
  <2>6. PICK h : SumsOf(d, h)
    BY <2>4
  <2> QED BY <2>2, <2>5, <2>6, SumsOfOneMore
<1>3. N = Nat
  <2> HIDE DEF N
  <2>1. N \in SUBSET Nat
    BY DEF N
  <2> QED BY <1>1, <1>2, <2>1, Counting
<1>4. Cardinality(S) \in N
  BY <1>3, FS_CardinalityType
<1> QED BY <1>4

\* What the fold behind SumOf does with a part of f.
Folds(f, g) ==
  g = [s \in SUBSET DOMAIN f |->
         IF s = {} THEN 0 ELSE f[CHOOSE x \in s : TRUE] + g[s \ {CHOOSE x \in s : TRUE}]]

LEMMA SumIs ==
  ASSUME NEW f
  PROVE  SumOf(f) = (CHOOSE g : Folds(f, g))[DOMAIN f]
BY DEF SumOf, FoldFunction, FoldFunctionOnSet, MapThenFoldSet, Folds

\* Whatever folds is the sums.
LEMMA FoldsUnique ==
  ASSUME NEW S, IsFiniteSet(S), NEW f \in [S -> Int], NEW g, SumsOf(f, g), NEW h, Folds(f, h)
  PROVE  h[S] = g[S]
<1> DEFINE N == {n \in Nat : \A s \in SUBSET S : Cardinality(s) = n => h[s] = g[s]}
<1>1. 0 \in N
  <2> SUFFICES ASSUME NEW s \in SUBSET S, Cardinality(s) = 0 PROVE h[s] = g[s]
    OBVIOUS
  <2>1. s = {}
    BY FS_EmptySet, FS_Subset
  <2>2. h[{}] = 0
    BY DEF Folds
  <2> QED BY <2>1, <2>2 DEF SumsOf
<1>2. ASSUME NEW n \in N PROVE n + 1 \in N
  <2> SUFFICES ASSUME NEW s \in SUBSET S, Cardinality(s) = n + 1 PROVE h[s] = g[s]
    OBVIOUS
  <2>1. IsFiniteSet(s)
    BY FS_Subset
  <2>2. s # {}
    BY FS_EmptySet
  <2> DEFINE x == CHOOSE y \in s : TRUE
  <2>3. x \in s
    BY <2>2
  <2>4. h[s] = f[x] + h[s \ {x}]
    BY <2>2 DEF Folds
  <2> HIDE DEF x
  <2>5. Cardinality(s \ {x}) = n
    <3>1. Cardinality(s \ {x}) = Cardinality(s) - 1
      BY <2>1, <2>3, FS_RemoveElement
    <3>2. n \in Nat
      OBVIOUS
    <3> QED BY <3>1, <3>2
  <2>6. h[s \ {x}] = g[s \ {x}]
    BY <2>5
  <2> QED BY <2>3, <2>4, <2>6 DEF SumsOf
<1>3. N = Nat
  <2> HIDE DEF N
  <2>1. N \in SUBSET Nat
    BY DEF N
  <2> QED BY <1>1, <1>2, <2>1, Counting
<1>4. Cardinality(S) \in N
  BY <1>3, FS_CardinalityType
<1> QED BY <1>4

LEMMA SumsFold ==
  ASSUME NEW S, NEW f \in [S -> Int], NEW g, SumsOf(f, g)
  PROVE  Folds(f, g)
<1>1. ASSUME NEW s \in SUBSET S, s # {}
      PROVE  g[s] = f[CHOOSE x \in s : TRUE] + g[s \ {CHOOSE x \in s : TRUE}]
  <2> DEFINE x == CHOOSE y \in s : TRUE
  <2>1. x \in s
    BY <1>1
  <2> HIDE DEF x
  <2>2. g[s] = f[x] + g[s \ {x}]
    BY <2>1 DEF SumsOf
  <2> QED BY <2>2 DEF x
<1>2. g = [s \in SUBSET S |-> g[s]] /\ g[{}] = 0
  BY DEF SumsOf
<1> QED BY <1>1, <1>2 DEF Folds

LEMMA SumIsSums ==
  ASSUME NEW S, IsFiniteSet(S), NEW f \in [S -> Int], NEW g, SumsOf(f, g)
  PROVE  SumOf(f) = g[S]
<1> DEFINE h == CHOOSE e : Folds(f, e)
<1>1. Folds(f, h)
  BY SumsFold
<1> HIDE DEF h
<1>2. h[S] = g[S]
  BY <1>1, FoldsUnique
<1> QED BY <1>2, SumIs DEF h

LEMMA SumType ==
  ASSUME NEW S, IsFiniteSet(S), NEW f \in [S -> Int]
  PROVE  SumOf(f) \in Int
<1>1. PICK g : SumsOf(f, g)
  BY SumsExist
<1>2. g \in [SUBSET S -> Int] /\ SumOf(f) = g[S]
  BY <1>1, SumIsSums DEF SumsOf
<1> QED BY <1>2

LEMMA SumEmpty ==
  ASSUME NEW S, S = {}, NEW f \in [S -> Int]
  PROVE  SumOf(f) = 0
<1>1. IsFiniteSet(S)
  BY FS_EmptySet
<1>2. PICK g : SumsOf(f, g)
  BY <1>1, SumsExist
<1> QED BY <1>1, <1>2, SumIsSums DEF SumsOf

\* A sum is one of its terms and the sum of the others.
LEMMA SumSplit ==
  ASSUME NEW S, IsFiniteSet(S), NEW f \in [S -> Int], NEW x \in S, NEW e \in [S \ {x} -> Int],
         \A y \in S \ {x} : e[y] = f[y]
  PROVE  SumOf(f) = f[x] + SumOf(e)
<1>1. IsFiniteSet(S \ {x})
  BY FS_RemoveElement
<1>2. PICK h : SumsOf(e, h)
  BY <1>1, SumsExist
<1>3. SumsOf(f, WithOne(S, f, x, h))
  BY <1>2, SumsOfOneMore
<1>4. SumOf(f) = WithOne(S, f, x, h)[S]
  BY <1>3, SumIsSums
<1>6. WithOne(S, f, x, h)[S] = f[x] + h[S \ {x}]
  BY DEF WithOne
<1>5. SumOf(e) = h[S \ {x}]
  BY <1>1, <1>2, SumIsSums
<1> QED BY <1>4, <1>5, <1>6

\* One term changes.
LEMMA SumChange ==
  ASSUME NEW S, IsFiniteSet(S), NEW f \in [S -> Int], NEW g \in [S -> Int], NEW x \in S,
         \A y \in S \ {x} : g[y] = f[y]
  PROVE  SumOf(g) = SumOf(f) - f[x] + g[x]
<1>1. PICK e \in [S \ {x} -> Int] : \A y \in S \ {x} : e[y] = f[y]
  <2>1. [y \in S \ {x} |-> f[y]] \in [S \ {x} -> Int]
    OBVIOUS
  <2> QED BY <2>1
<1>2. SumOf(f) = f[x] + SumOf(e) /\ SumOf(g) = g[x] + SumOf(e)
  BY <1>1, SumSplit
<1>3. SumOf(e) \in Int
  BY FS_RemoveElement, SumType
<1>4. f[x] \in Int /\ g[x] \in Int
  OBVIOUS
<1> QED BY <1>2, <1>3, <1>4

\* One term more.
LEMMA SumAdd ==
  ASSUME NEW R, IsFiniteSet(R), NEW x \in R, NEW S, S = R \ {x},
         NEW f \in [S -> Int], NEW g \in [R -> Int], \A y \in S : g[y] = f[y]
  PROVE  SumOf(g) = SumOf(f) + g[x]
<1>1. SumOf(g) = g[x] + SumOf(f)
  BY SumSplit
<1>2. SumOf(f) \in Int
  BY FS_RemoveElement, SumType
<1>3. g[x] \in Int
  OBVIOUS
<1> QED BY <1>1, <1>2, <1>3

-----------------------------------------------------------------------------
(* Banks, and what is true of each.                                        *)

AccountRecord == [version : Nat, opening : Nat, balance : Nat, closed : BOOLEAN]
TransactionRecord ==
  [status : {"pending", "started", "completed", "failed"},
   from : Accounts \cup {{}}, to : Accounts \cup {{}}, amount : Nat]
Entry ==
  [type : {"TransactionStarted", "WithdrawalCompleted", "DepositCompleted", "TransactionFailed"},
   transfer : Transfers, visible : BOOLEAN, enqueued : BOOLEAN]
BankRecord ==
  [accounts : [Accounts -> AccountRecord], transactions : [Transfers -> TransactionRecord], log : Seq(Entry)]

Is(e, type, t) == e.type = type /\ e.transfer = t
Logged(b, type, t) == \E i \in DOMAIN b.log : Is(b.log[i], type, t)

\* A transfer between two accounts was posted.
Ordered(b, t) ==
  b.transactions[t].from \in Accounts /\ b.transactions[t].to \in Accounts /\ b.transactions[t].amount > 0

AccountSound(account) ==
  /\ account.closed => account.balance = 0
  /\ account.version = 0 => account.balance = 0 /\ account.opening = 0

\* The events of a transfer that moves money.
Moving == {"TransactionStarted", "WithdrawalCompleted", "DepositCompleted"}

\* Each of them is there once, for a transfer that was posted; only the first
\* is in the outbox or may be invisible; nothing is given that was not taken.
LogSound(b) ==
  /\ \A i \in DOMAIN b.log : b.log[i].type \in Moving => Ordered(b, b.log[i].transfer)
  /\ \A i, j \in DOMAIN b.log :
       b.log[i].type \in Moving /\ Is(b.log[j], b.log[i].type, b.log[i].transfer) => i = j
  /\ \A i \in DOMAIN b.log : b.log[i].type # "TransactionStarted" => b.log[i].visible /\ ~b.log[i].enqueued
  /\ \A t \in Transfers : Logged(b, "DepositCompleted", t) => Logged(b, "WithdrawalCompleted", t)

Sound(b) ==
  /\ b \in BankRecord
  /\ \A a \in Accounts : AccountSound(b.accounts[a])
  /\ LogSound(b)

LEMMA BankFields ==
  ASSUME NEW b \in BankRecord
  PROVE  /\ b.accounts \in [Accounts -> AccountRecord]
         /\ b.transactions \in [Transfers -> TransactionRecord]
         /\ b.log \in Seq(Entry)
         /\ Len(b.log) \in Nat /\ DOMAIN b.log = 1 .. Len(b.log)
         /\ \A i \in DOMAIN b.log : b.log[i] \in Entry
BY DEF BankRecord

LEMMA AccountFields ==
  ASSUME NEW account \in AccountRecord
  PROVE  /\ account.version \in Nat /\ account.opening \in Nat /\ account.balance \in Nat
         /\ account.closed \in BOOLEAN
BY DEF AccountRecord

LEMMA TransactionFields ==
  ASSUME NEW o \in TransactionRecord
  PROVE  /\ o.status \in {"pending", "started", "completed", "failed"} /\ o.amount \in Nat
         /\ o.from \in Accounts \cup {{}} /\ o.to \in Accounts \cup {{}}
BY DEF TransactionRecord

LEMMA EntryFields ==
  ASSUME NEW e \in Entry
  PROVE  /\ e.type \in Moving \cup {"TransactionFailed"} /\ e.transfer \in Transfers
         /\ e.visible \in BOOLEAN /\ e.enqueued \in BOOLEAN
BY DEF Entry, Moving

LEMMA TermTypes ==
  ASSUME NEW b \in BankRecord
  PROVE  /\ \A a \in Accounts : b.accounts[a].balance \in Nat /\ b.accounts[a].opening \in Nat
                                /\ b.accounts[a].version \in Nat
         /\ \A t \in Transfers : b.transactions[t].amount \in Nat
<1>1. /\ \A a \in Accounts : b.accounts[a] \in AccountRecord
      /\ \A t \in Transfers : b.transactions[t] \in TransactionRecord
  BY BankFields
<1> QED BY <1>1, AccountFields, TransactionFields

\* Taken and not yet given.
LEMMA InTransitIs ==
  ASSUME NEW b, Sound(b)
  PROVE  InTransit(b) = {t \in Transfers : Logged(b, "WithdrawalCompleted", t) /\ ~Logged(b, "DepositCompleted", t)}
BY DEF Sound, LogSound, InTransit, Debited, Credited, Happened, Logged, Is

\* What a bank holds that was not paid in when accounts were opened.
Held(b) == Balances(b) + Travelling(b) - PaidIn(b)

LEMMA HeldTypes ==
  ASSUME NEW b, b \in BankRecord
  PROVE  Balances(b) \in Int /\ Travelling(b) \in Int /\ PaidIn(b) \in Int
<1> DEFINE f == [a \in Accounts |-> b.accounts[a].balance]
           g == [t \in InTransit(b) |-> b.transactions[t].amount]
           h == [a \in Accounts |-> b.accounts[a].opening]
<1>1. f \in [Accounts -> Int] /\ h \in [Accounts -> Int]
  BY TermTypes
<1>2. InTransit(b) \subseteq Transfers
  BY DEF InTransit
<1>3. g \in [InTransit(b) -> Int]
  BY <1>2, TermTypes
<1>4. IsFiniteSet(Accounts) /\ IsFiniteSet(InTransit(b))
  BY <1>2, BankingAssumption, FS_Subset
<1> HIDE DEF f, g, h
<1>5. SumOf(f) \in Int /\ SumOf(g) \in Int /\ SumOf(h) \in Int
  BY <1>1, <1>3, <1>4, SumType
<1> QED BY <1>5 DEF f, g, h, Balances, Travelling, PaidIn

\* The three sums of banks that differ in one account, in one transfer, or not at all.
LEMMA BalancesMove ==
  ASSUME NEW b \in BankRecord, NEW c \in BankRecord, NEW x \in Accounts,
         \A a \in Accounts \ {x} : c.accounts[a].balance = b.accounts[a].balance
  PROVE  Balances(c) = Balances(b) - b.accounts[x].balance + c.accounts[x].balance
<1> DEFINE f == [a \in Accounts |-> b.accounts[a].balance]
           g == [a \in Accounts |-> c.accounts[a].balance]
<1>1. f \in [Accounts -> Int] /\ g \in [Accounts -> Int]
  BY TermTypes
<1>2. /\ f[x] = b.accounts[x].balance /\ g[x] = c.accounts[x].balance
      /\ \A a \in Accounts \ {x} : g[a] = f[a]
  OBVIOUS
<1> HIDE DEF f, g
<1>3. SumOf(g) = SumOf(f) - f[x] + g[x]
  BY <1>1, <1>2, BankingAssumption, SumChange
<1> QED BY <1>2, <1>3 DEF f, g, Balances

LEMMA PaidInMoves ==
  ASSUME NEW b \in BankRecord, NEW c \in BankRecord, NEW x \in Accounts,
         \A a \in Accounts \ {x} : c.accounts[a].opening = b.accounts[a].opening
  PROVE  PaidIn(c) = PaidIn(b) - b.accounts[x].opening + c.accounts[x].opening
<1> DEFINE f == [a \in Accounts |-> b.accounts[a].opening]
           g == [a \in Accounts |-> c.accounts[a].opening]
<1>1. f \in [Accounts -> Int] /\ g \in [Accounts -> Int]
  BY TermTypes
<1>2. /\ f[x] = b.accounts[x].opening /\ g[x] = c.accounts[x].opening
      /\ \A a \in Accounts \ {x} : g[a] = f[a]
  OBVIOUS
<1> HIDE DEF f, g
<1>3. SumOf(g) = SumOf(f) - f[x] + g[x]
  BY <1>1, <1>2, BankingAssumption, SumChange
<1> QED BY <1>2, <1>3 DEF f, g, PaidIn

LEMMA AccountsStand ==
  ASSUME NEW b \in BankRecord, NEW c \in BankRecord, c.accounts = b.accounts
  PROVE  Balances(c) = Balances(b) /\ PaidIn(c) = PaidIn(b)
BY DEF Balances, PaidIn

LEMMA TransitStands ==
  ASSUME NEW b, NEW c, InTransit(c) = InTransit(b),
         \A t \in InTransit(b) : c.transactions[t].amount = b.transactions[t].amount
  PROVE  Travelling(c) = Travelling(b)
<1> DEFINE f == [t \in InTransit(b) |-> b.transactions[t].amount]
           g == [t \in InTransit(c) |-> c.transactions[t].amount]
<1>1. f = g
  OBVIOUS
<1> QED BY <1>1 DEF Travelling

LEMMA TransitGains ==
  ASSUME NEW b \in BankRecord, NEW c \in BankRecord, NEW t \in Transfers,
         t \notin InTransit(b), InTransit(c) = InTransit(b) \cup {t},
         \A u \in Transfers : c.transactions[u].amount = b.transactions[u].amount
  PROVE  Travelling(c) = Travelling(b) + b.transactions[t].amount
<1>1. PICK S : S = InTransit(b)
  OBVIOUS
<1>2. PICK f : f = [u \in S |-> b.transactions[u].amount]
  OBVIOUS
<1>3. PICK R : R = S \cup {t}
  OBVIOUS
<1>4. PICK g : g = [u \in R |-> c.transactions[u].amount]
  OBVIOUS
<1>5. S \subseteq Transfers /\ t \notin S /\ t \in R /\ S = R \ {t} /\ R \subseteq Transfers
  BY <1>1, <1>3 DEF InTransit
<1>6. IsFiniteSet(R)
  BY <1>5, BankingAssumption, FS_Subset
<1>7. f \in [S -> Int] /\ g \in [R -> Int]
  BY <1>2, <1>4, <1>5, TermTypes
<1>8. \A u \in S : g[u] = f[u]
  BY <1>2, <1>4, <1>5
<1>9. SumOf(g) = SumOf(f) + g[t]
  <2>1. t \in R /\ S = R \ {t}
    BY <1>5
  <2> QED BY ONLY <1>6, <1>7, <1>8, <2>1, SumAdd
<1>11. g[t] = b.transactions[t].amount
  BY <1>4, <1>5
<1>10. Travelling(b) = SumOf(f) /\ Travelling(c) = SumOf(g)
  BY <1>1, <1>2, <1>3, <1>4 DEF Travelling
<1> QED BY <1>9, <1>10, <1>11

-----------------------------------------------------------------------------
(* What a piece of work does to a bank.                                    *)

\* Logs grow at the end, and accounts do not change under their version.
Follows(b, c) ==
  /\ Len(b.log) <= Len(c.log)
  /\ \A i \in DOMAIN b.log : c.log[i] = b.log[i]
  /\ \A a \in Accounts : c.accounts[a] = b.accounts[a] \/ c.accounts[a].version > b.accounts[a].version

\* Of the events that move money one is new at most.
Adds(b, c, type, t) ==
  \A y \in Moving, u \in Transfers : Logged(c, y, u) => Logged(b, y, u) \/ (y = type /\ u = t)

Worked(b, c, type, t) == Sound(c) /\ Held(c) = Held(b) /\ Follows(b, c) /\ Adds(b, c, type, t)

LEMMA FollowsItself ==
  ASSUME NEW b \in BankRecord
  PROVE  Follows(b, b)
<1>1. Len(b.log) \in Nat
  BY BankFields
<1> QED BY <1>1 DEF Follows

LEMMA FollowsOn ==
  ASSUME NEW b \in BankRecord, NEW c \in BankRecord, NEW d \in BankRecord, Follows(b, c), Follows(c, d)
  PROVE  Follows(b, d)
<1>1. /\ Len(b.log) \in Nat /\ DOMAIN b.log = 1 .. Len(b.log)
      /\ Len(c.log) \in Nat /\ DOMAIN c.log = 1 .. Len(c.log)
      /\ Len(d.log) \in Nat
  BY BankFields
<1>2. Len(b.log) <= Len(d.log) /\ \A i \in DOMAIN b.log : i \in DOMAIN c.log
  BY <1>1 DEF Follows
<1>3. \A i \in DOMAIN b.log : d.log[i] = b.log[i]
  BY <1>2 DEF Follows
<1>4. ASSUME NEW a \in Accounts
      PROVE  d.accounts[a] = b.accounts[a] \/ d.accounts[a].version > b.accounts[a].version
  <2>1. b.accounts[a].version \in Nat /\ c.accounts[a].version \in Nat /\ d.accounts[a].version \in Nat
    BY TermTypes
  <2> QED BY <2>1 DEF Follows
<1> QED BY <1>2, <1>3, <1>4 DEF Follows

LEMMA LoggedStays ==
  ASSUME NEW b \in BankRecord, NEW c \in BankRecord, Follows(b, c), NEW type, NEW t, Logged(b, type, t)
  PROVE  Logged(c, type, t)
<1>1. PICK i \in DOMAIN b.log : Is(b.log[i], type, t)
  BY DEF Logged
<1>2. /\ Len(b.log) \in Nat /\ DOMAIN b.log = 1 .. Len(b.log)
      /\ Len(c.log) \in Nat /\ DOMAIN c.log = 1 .. Len(c.log)
  BY BankFields
<1>3. i \in DOMAIN c.log /\ c.log[i] = b.log[i]
  BY <1>2 DEF Follows
<1> QED BY <1>1, <1>3 DEF Logged

\* One entry more.
LEMMA LogGrows ==
  ASSUME NEW b \in BankRecord, NEW c \in BankRecord, NEW e \in Entry, c.log = Append(b.log, e)
  PROVE  /\ Len(b.log) <= Len(c.log)
         /\ DOMAIN c.log = DOMAIN b.log \cup {Len(b.log) + 1} /\ Len(b.log) + 1 \notin DOMAIN b.log
         /\ c.log[Len(b.log) + 1] = e
         /\ \A i \in DOMAIN b.log : c.log[i] = b.log[i]
         /\ \A type, t : Logged(c, type, t) <=> Logged(b, type, t) \/ Is(e, type, t)
<1>1. b.log \in Seq(Entry) /\ Len(b.log) \in Nat /\ DOMAIN b.log = 1 .. Len(b.log)
  BY BankFields
<1>2. Len(c.log) = Len(b.log) + 1 /\ DOMAIN c.log = 1 .. Len(b.log) + 1
  BY <1>1
<1>3. DOMAIN c.log = DOMAIN b.log \cup {Len(b.log) + 1} /\ Len(b.log) + 1 \notin DOMAIN b.log
  BY <1>1, <1>2
<1>4. c.log[Len(b.log) + 1] = e /\ \A i \in DOMAIN b.log : c.log[i] = b.log[i]
  BY <1>1, <1>2
<1>5. \A type, t : Logged(c, type, t) <=> Logged(b, type, t) \/ Is(e, type, t)
  BY <1>3, <1>4 DEF Logged
<1> QED BY <1>1, <1>2, <1>3, <1>4, <1>5

LEMMA LogStaysSound ==
  ASSUME NEW b \in BankRecord, NEW c \in BankRecord, NEW e \in Entry, c.log = Append(b.log, e), LogSound(b),
         \A t \in Transfers : Ordered(b, t) => Ordered(c, t),
         e.type \in Moving => Ordered(c, e.transfer) /\ ~Logged(b, e.type, e.transfer),
         e.type = "DepositCompleted" => Logged(b, "WithdrawalCompleted", e.transfer),
         e.type # "TransactionStarted" => e.visible /\ ~e.enqueued
  PROVE  LogSound(c)
<1> DEFINE n == Len(b.log) + 1
<1>1. /\ DOMAIN c.log = DOMAIN b.log \cup {n} /\ n \notin DOMAIN b.log /\ c.log[n] = e
      /\ \A i \in DOMAIN b.log : c.log[i] = b.log[i]
      /\ \A type, t : Logged(c, type, t) <=> Logged(b, type, t) \/ Is(e, type, t)
  BY LogGrows
<1> HIDE DEF n
<1>2. \A i \in DOMAIN b.log : b.log[i].transfer \in Transfers
  BY BankFields, EntryFields
<1>3. \A i \in DOMAIN c.log : c.log[i].type \in Moving => Ordered(c, c.log[i].transfer)
  BY <1>1, <1>2 DEF LogSound
<1>4. ASSUME NEW i \in DOMAIN c.log, NEW j \in DOMAIN c.log,
             c.log[i].type \in Moving, Is(c.log[j], c.log[i].type, c.log[i].transfer)
      PROVE  i = j
  <2>1. CASE i \in DOMAIN b.log /\ j \in DOMAIN b.log
    BY <1>1, <1>4, <2>1 DEF LogSound
  <2>2. CASE i = n /\ j \in DOMAIN b.log
    BY <1>1, <1>4, <2>2 DEF Logged, Is
  <2>3. CASE i \in DOMAIN b.log /\ j = n
    BY <1>1, <1>4, <2>3 DEF Logged, Is
  <2> QED BY <1>1, <2>1, <2>2, <2>3
<1>5. \A i \in DOMAIN c.log : c.log[i].type # "TransactionStarted" => c.log[i].visible /\ ~c.log[i].enqueued
  BY <1>1 DEF LogSound
<1>6. \A t \in Transfers : Logged(c, "DepositCompleted", t) => Logged(c, "WithdrawalCompleted", t)
  BY <1>1 DEF LogSound, Is
<1> QED BY <1>3, <1>4, <1>5, <1>6 DEF LogSound

\* The same log, and orders that stay.
LEMMA LogIsSound ==
  ASSUME NEW b, NEW c, c.log = b.log, LogSound(b),
         \A t \in Transfers : Ordered(b, t) => Ordered(c, t),
         \A i \in DOMAIN b.log : b.log[i].transfer \in Transfers
  PROVE  LogSound(c) /\ \A type, t : Logged(c, type, t) <=> Logged(b, type, t)
<1>1. \A type, t : Logged(c, type, t) <=> Logged(b, type, t)
  BY DEF Logged
<1> QED BY <1>1 DEF LogSound

\* What Emit leaves.
Entered(type, t) == [type |-> type, transfer |-> t, visible |-> TRUE, enqueued |-> FALSE]

LEMMA EmitIs ==
  ASSUME NEW b \in BankRecord, NEW type \in {"WithdrawalCompleted", "DepositCompleted", "TransactionFailed"},
         NEW t \in Transfers
  PROVE  /\ Emit(b, type, t) \in BankRecord /\ Entered(type, t) \in Entry
         /\ Emit(b, type, t).accounts = b.accounts
         /\ Emit(b, type, t).transactions = b.transactions
         /\ Emit(b, type, t).log = Append(b.log, Entered(type, t))
<1>1. Entered(type, t) \in Entry
  BY DEF Entered, Entry
<1>2. Append(b.log, Entered(type, t)) \in Seq(Entry)
  BY <1>1, BankFields
<1>3. Emit(b, type, t) = [b EXCEPT !.log = Append(b.log, Entered(type, t))]
  BY DEF Emit, Entered
<1> QED BY <1>1, <1>2, <1>3 DEF BankRecord

\* A transaction that changes its status only.
LEMMA StatusSet ==
  ASSUME NEW b, Sound(b), NEW t \in Transfers, NEW s \in {"completed", "failed"},
         NEW c, c = [b EXCEPT !.transactions[t].status = s]
  PROVE  /\ Worked(b, c, "none", t) /\ c.log = b.log
         /\ \A u \in Transfers : c.transactions[u].amount = b.transactions[u].amount
         /\ c.accounts = b.accounts
<1>1. b \in BankRecord /\ LogSound(b)
  BY DEF Sound
<1>2. b.transactions \in [Transfers -> TransactionRecord]
  BY <1>1, BankFields
<1> DEFINE o == [b.transactions[t] EXCEPT !.status = s]
<1>3. /\ o \in TransactionRecord /\ o.from = b.transactions[t].from /\ o.to = b.transactions[t].to
      /\ o.amount = b.transactions[t].amount
  BY <1>2 DEF TransactionRecord
<1>4. c = [b EXCEPT !.transactions = [b.transactions EXCEPT ![t] = o]]
  BY DEF Sound, BankRecord
<1> HIDE DEF o
<1>5. /\ c.accounts = b.accounts /\ c.log = b.log
      /\ c.transactions = [b.transactions EXCEPT ![t] = o]
  BY <1>1, <1>4 DEF BankRecord
<1>6. c.transactions \in [Transfers -> TransactionRecord]
  BY <1>2, <1>3, <1>5
<1>7. c \in BankRecord
  BY <1>1, <1>3, <1>2, <1>4 DEF BankRecord
<1>8. \A u \in Transfers : /\ c.transactions[u].from = b.transactions[u].from
                           /\ c.transactions[u].to = b.transactions[u].to
                           /\ c.transactions[u].amount = b.transactions[u].amount
  BY <1>2, <1>3, <1>5
<1>9. \A u \in Transfers : Ordered(b, u) => Ordered(c, u)
  BY <1>8 DEF Ordered
<1>10. \A i \in DOMAIN b.log : b.log[i].transfer \in Transfers
  BY <1>1, BankFields, EntryFields
<1>11. LogSound(c) /\ \A type, u : Logged(c, type, u) <=> Logged(b, type, u)
  BY <1>1, <1>5, <1>9, <1>10, LogIsSound
<1>12. Sound(c)
  BY <1>5, <1>7, <1>11 DEF Sound
<1>13. InTransit(c) = InTransit(b) /\ InTransit(b) \subseteq Transfers
  BY <1>11, <1>12, InTransitIs
<1>14. Travelling(c) = Travelling(b)
  BY <1>8, <1>13, TransitStands
<1>15. Held(c) = Held(b)
  BY <1>1, <1>5, <1>7, <1>14, AccountsStand DEF Held
<1>16. Follows(b, c)
  BY <1>1, <1>5, BankFields DEF Follows
<1> QED BY <1>5, <1>8, <1>11, <1>12, <1>15, <1>16 DEF Worked, Adds

LEMMA CompleteWorks ==
  ASSUME NEW b, Sound(b), NEW t \in Transfers, NEW c \in Complete(b, t)
  PROVE  Worked(b, c, "none", t)
<1>1. c = [b EXCEPT !.transactions[t].status = "completed"]
  BY DEF Complete
<1> QED BY <1>1, StatusSet

LEMMA FailWorks ==
  ASSUME NEW b, Sound(b), NEW t \in Transfers, NEW c \in Fail(b, t)
  PROVE  Worked(b, c, "none", t)
<1> DEFINE d == [b EXCEPT !.transactions[t].status = "failed"]
           e == Entered("TransactionFailed", t)
<1>1. c = Emit(d, "TransactionFailed", t)
  BY DEF Fail
<1>2. /\ Worked(b, d, "none", t) /\ d.log = b.log /\ d.accounts = b.accounts
      /\ \A u \in Transfers : d.transactions[u].amount = b.transactions[u].amount
  BY StatusSet
<1> HIDE DEF d
<1>3. Sound(d) /\ d \in BankRecord /\ b \in BankRecord
  BY <1>2 DEF Worked, Sound
<1>4. /\ c \in BankRecord /\ e \in Entry /\ c.accounts = d.accounts /\ c.transactions = d.transactions
      /\ c.log = Append(d.log, e)
  BY <1>1, <1>3, EmitIs
<1>5. e.type = "TransactionFailed" /\ e.type \notin Moving /\ e.visible /\ ~e.enqueued
  BY DEF Entered, Moving
<1> HIDE DEF e
<1>6. \A u \in Transfers : Ordered(d, u) => Ordered(c, u)
  BY <1>4 DEF Ordered
<1>7. LogSound(c)
  BY <1>3, <1>4, <1>5, <1>6, LogStaysSound DEF Sound
<1>8. /\ Len(d.log) <= Len(c.log) /\ \A i \in DOMAIN d.log : c.log[i] = d.log[i]
      /\ \A type, u : Logged(c, type, u) <=> Logged(d, type, u) \/ Is(e, type, u)
  BY <1>3, <1>4, LogGrows
<1>9. Sound(c)
  BY <1>3, <1>4, <1>7 DEF Sound
<1>10. InTransit(c) = InTransit(d)
  BY <1>3, <1>5, <1>8, <1>9, InTransitIs DEF Is, Moving
<1>11. Held(c) = Held(d)
  BY <1>3, <1>4, <1>10, TransitStands, AccountsStand DEF Held
<1>12. Follows(b, c)
  BY <1>2, <1>4, <1>8 DEF Follows
<1>13. Adds(b, c, "none", t)
  BY <1>2, <1>5, <1>8 DEF Worked, Adds, Is
<1> QED BY <1>2, <1>9, <1>11, <1>12, <1>13 DEF Worked

\* An account with n more, after some events.
Put(b, x, n, k) == [b EXCEPT !.accounts[x] = Moved(@, n, k)]

LEMMA PutIs ==
  ASSUME NEW b \in BankRecord, NEW x \in Accounts, NEW n \in Int, b.accounts[x].balance + n >= 0, NEW k \in Nat,
         NEW d, d = Put(b, x, n, k)
  PROVE  /\ d \in BankRecord /\ d.transactions = b.transactions /\ d.log = b.log
         /\ d.accounts[x].balance = b.accounts[x].balance + n
         /\ d.accounts[x].version = b.accounts[x].version + k
         /\ d.accounts[x].opening = b.accounts[x].opening /\ d.accounts[x].closed = b.accounts[x].closed
         /\ \A a \in Accounts \ {x} : d.accounts[a] = b.accounts[a]
<1> DEFINE m == Moved(b.accounts[x], n, k)
<1>1. b.accounts \in [Accounts -> AccountRecord]
  BY BankFields
<1>2. b.accounts[x] \in AccountRecord
  BY <1>1
<1>3. b.accounts[x].balance \in Nat /\ b.accounts[x].version \in Nat
  BY <1>2, AccountFields
<1>4. /\ m.balance = b.accounts[x].balance + n /\ m.version = b.accounts[x].version + k
      /\ m.opening = b.accounts[x].opening /\ m.closed = b.accounts[x].closed
  BY <1>2 DEF Moved, AccountRecord
<1>5. m \in AccountRecord
  <2>1. b.accounts[x].balance + n \in Nat /\ b.accounts[x].version + k \in Nat
    BY <1>3
  <2> QED BY <1>2, <2>1 DEF Moved, AccountRecord
<1>6. d = [b EXCEPT !.accounts = [b.accounts EXCEPT ![x] = m]]
  BY DEF BankRecord, Put
<1> HIDE DEF m
<1>7. d.transactions = b.transactions /\ d.log = b.log /\ d.accounts = [b.accounts EXCEPT ![x] = m]
  BY <1>6 DEF BankRecord
<1>8. d \in BankRecord
  BY <1>1, <1>5, <1>6 DEF BankRecord
<1>9. d.accounts[x] = m /\ \A a \in Accounts \ {x} : d.accounts[a] = b.accounts[a]
  BY <1>1, <1>7
<1> QED BY <1>4, <1>7, <1>8, <1>9

\* Of two events of a transfer the later is not there without the earlier.
LEMMA NotGivenYet ==
  ASSUME NEW b, Sound(b), NEW t \in Transfers, ~Logged(b, "WithdrawalCompleted", t)
  PROVE  ~Logged(b, "DepositCompleted", t)
BY DEF Sound, LogSound

\* Money leaves or reaches an account, and the log says so.
LEMMA TransferMoves ==
  ASSUME NEW b, Sound(b), NEW t \in Transfers, Ordered(b, t),
         NEW type \in {"WithdrawalCompleted", "DepositCompleted"}, ~Logged(b, type, t),
         type = "DepositCompleted" => Logged(b, "WithdrawalCompleted", t),
         NEW x \in Accounts, NEW n \in Int, b.accounts[x].balance + n >= 0, ~b.accounts[x].closed,
         n = IF type = "DepositCompleted" THEN b.transactions[t].amount ELSE 0 - b.transactions[t].amount,
         NEW c, c = Emit(Put(b, x, n, 2), type, t)
  PROVE  Worked(b, c, type, t)
<1>1. PICK d : d = Put(b, x, n, 2)
  OBVIOUS
<1>2. PICK e : e = Entered(type, t)
  OBVIOUS
<1>3. b \in BankRecord /\ LogSound(b)
  BY DEF Sound
<1>4. /\ d \in BankRecord /\ d.transactions = b.transactions /\ d.log = b.log
      /\ d.accounts[x].balance = b.accounts[x].balance + n
      /\ d.accounts[x].version = b.accounts[x].version + 2
      /\ d.accounts[x].opening = b.accounts[x].opening /\ d.accounts[x].closed = b.accounts[x].closed
      /\ \A a \in Accounts \ {x} : d.accounts[a] = b.accounts[a]
  BY <1>1, <1>3, PutIs
<1>5. /\ c \in BankRecord /\ e \in Entry /\ c.accounts = d.accounts /\ c.transactions = d.transactions
      /\ c.log = Append(d.log, e)
  <2>1. c = Emit(d, type, t) /\ type \in {"WithdrawalCompleted", "DepositCompleted", "TransactionFailed"}
    BY <1>1
  <2>2. d \in BankRecord
    BY <1>4
  <2> QED BY <1>2, <2>1, <2>2, EmitIs
<1>6. e.type = type /\ e.transfer = t /\ e.visible /\ ~e.enqueued /\ type \in Moving
  BY <1>2 DEF Entered, Moving
<1>7. \A u \in Transfers : Ordered(b, u) => Ordered(c, u)
  BY <1>4, <1>5 DEF Ordered
<1>8. LogSound(c)
  <2>1. c.log = Append(b.log, e)
    BY <1>4, <1>5
  <2>2. Ordered(c, t)
    BY <1>7
  <2>3. ~Logged(b, e.type, e.transfer) /\ (e.type = "DepositCompleted" => Logged(b, "WithdrawalCompleted", e.transfer))
    BY <1>6
  <2>4. b \in BankRecord /\ c \in BankRecord /\ e \in Entry /\ Ordered(c, e.transfer)
    BY <1>3, <1>5, <1>6, <2>2
  <2> QED BY ONLY <1>3, <1>6, <1>7, <2>1, <2>3, <2>4, LogStaysSound
<1>9. /\ Len(b.log) <= Len(c.log) /\ \A i \in DOMAIN b.log : c.log[i] = b.log[i]
      /\ \A y, u : Logged(c, y, u) <=> Logged(b, y, u) \/ Is(e, y, u)
  <2>1. c.log = Append(b.log, e) /\ c \in BankRecord /\ e \in Entry
    BY <1>4, <1>5
  <2> QED BY <1>3, <2>1, LogGrows
<1>10. b.accounts[x].version \in Nat /\ b.accounts[x].balance \in Nat /\ b.accounts[x].opening \in Nat
  BY <1>3, TermTypes
<1>11. \A a \in Accounts : AccountSound(c.accounts[a])
  <2>1. AccountSound(d.accounts[x])
    BY <1>4, <1>10 DEF AccountSound
  <2>2. \A a \in Accounts \ {x} : AccountSound(d.accounts[a])
    BY <1>4 DEF Sound
  <2> QED BY <1>5, <2>1, <2>2
<1>12. Sound(c)
  BY <1>5, <1>8, <1>11 DEF Sound
<1>13. Follows(b, c)
  <2>1. c.accounts[x].version > b.accounts[x].version
    BY <1>4, <1>5, <1>10
  <2>2. \A a \in Accounts \ {x} : c.accounts[a] = b.accounts[a]
    BY <1>4, <1>5
  <2> QED BY <1>9, <2>1, <2>2 DEF Follows
<1>14. Adds(b, c, type, t)
  BY <1>6, <1>9 DEF Adds, Is
<1>15. Balances(c) = Balances(b) + n
  <2>1. Balances(d) = Balances(b) - b.accounts[x].balance + d.accounts[x].balance
    BY <1>3, <1>4, BalancesMove
  <2>2. Balances(c) = Balances(d)
    BY <1>4, <1>5, AccountsStand
  <2>3. Balances(b) \in Int
    BY <1>3, HeldTypes
  <2> QED BY <1>4, <1>10, <2>1, <2>2, <2>3
<1>16. PaidIn(c) = PaidIn(b)
  <2>1. PaidIn(d) = PaidIn(b) - b.accounts[x].opening + d.accounts[x].opening
    BY <1>3, <1>4, PaidInMoves
  <2>2. PaidIn(c) = PaidIn(d)
    BY <1>4, <1>5, AccountsStand
  <2>3. PaidIn(b) \in Int
    BY <1>3, HeldTypes
  <2> QED BY <1>4, <1>10, <2>1, <2>2, <2>3
<1>17. \A u \in Transfers : c.transactions[u].amount = b.transactions[u].amount
  BY <1>4, <1>5
<1>18. Travelling(c) = Travelling(b) - n
  <2>1. CASE type = "WithdrawalCompleted"
    <3>1. t \notin InTransit(b) /\ InTransit(c) = InTransit(b) \cup {t}
      BY <1>6, <1>9, <1>12, <2>1, InTransitIs, NotGivenYet DEF Is
    <3>2. Travelling(c) = Travelling(b) + b.transactions[t].amount
      BY <1>3, <1>5, <1>17, <3>1, TransitGains
    <3>3. b.transactions[t].amount \in Nat /\ Travelling(b) \in Int
      BY <1>3, TermTypes, HeldTypes
    <3> QED BY <2>1, <3>2, <3>3
  <2>2. CASE type = "DepositCompleted"
    <3>1. t \notin InTransit(c) /\ InTransit(b) = InTransit(c) \cup {t}
      BY <1>6, <1>9, <1>12, <2>2, InTransitIs DEF Is
    <3>2. Travelling(b) = Travelling(c) + c.transactions[t].amount
      <4>1. b \in BankRecord /\ c \in BankRecord /\ t \in Transfers
        BY <1>3, <1>5
      <4> QED BY ONLY <1>17, <3>1, <4>1, TransitGains
    <3>3. b.transactions[t].amount \in Nat /\ Travelling(c) \in Int
      BY <1>3, <1>5, TermTypes, HeldTypes
    <3>4. c.transactions[t].amount = n /\ n \in Int
      BY <1>17, <2>2
    <3>5. Travelling(b) = Travelling(c) + n
      BY <3>2, <3>4
    <3> QED BY ONLY <3>3, <3>4, <3>5
  <2> QED BY <2>1, <2>2
<1>19. Held(c) = Held(b)
  <2>1. Balances(b) \in Int /\ Travelling(b) \in Int /\ PaidIn(b) \in Int
    BY <1>3, HeldTypes
  <2> QED BY <1>15, <1>16, <1>18, <2>1 DEF Held
<1> QED BY <1>12, <1>13, <1>14, <1>19 DEF Worked

LEMMA WithdrawWorks ==
  ASSUME NEW b, Sound(b), NEW t \in Transfers, Ordered(b, t), ~Logged(b, "WithdrawalCompleted", t),
         NEW c \in Withdraw(b, t)
  PROVE  Worked(b, c, "WithdrawalCompleted", t)
<1> DEFINE o == b.transactions[t]
           from == b.accounts[o.from]
<1>1. b \in BankRecord
  BY DEF Sound
<1>2. CASE from.balance < o.amount
  <2>1. c \in Fail(b, t)
    BY <1>2 DEF Withdraw
  <2> QED BY <2>1, FailWorks DEF Worked, Adds, Moving
<1>3. CASE ~(from.balance < o.amount)
  <2>1. /\ CanWithdraw(from, o.amount)
        /\ c = Emit([b EXCEPT !.accounts[o.from] = Moved(@, 0 - o.amount, 2)], "WithdrawalCompleted", t)
    BY <1>3 DEF Withdraw
  <2>2. o.from \in Accounts /\ o.amount \in Nat /\ from.balance \in Nat
    BY <1>1, TermTypes DEF Ordered
  <2>3. from.balance + (0 - o.amount) >= 0 /\ ~from.closed /\ 0 - o.amount \in Int
    BY <1>3, <2>1, <2>2 DEF CanWithdraw
  <2>4. c = Emit(Put(b, o.from, 0 - o.amount, 2), "WithdrawalCompleted", t)
    BY <2>1 DEF Put
  <2> QED BY <2>2, <2>3, <2>4, TransferMoves
<1> QED BY <1>2, <1>3

LEMMA DepositWorks ==
  ASSUME NEW b, Sound(b), NEW t \in Transfers, Logged(b, "WithdrawalCompleted", t),
         ~Logged(b, "DepositCompleted", t), NEW c \in Deposit(b, t)
  PROVE  Worked(b, c, "DepositCompleted", t)
<1> DEFINE o == b.transactions[t]
           to == b.accounts[o.to]
<1>1. b \in BankRecord
  BY DEF Sound
<1>2. Ordered(b, t)
  BY DEF Sound, LogSound, Logged, Is, Moving
<1>3. /\ CanDeposit(to, o.amount)
      /\ c = Emit([b EXCEPT !.accounts[o.to] = Moved(@, o.amount, 2)], "DepositCompleted", t)
  BY DEF Deposit
<1>4. o.to \in Accounts /\ o.amount \in Nat /\ to.balance \in Nat
  BY <1>1, <1>2, TermTypes DEF Ordered
<1>5. to.balance + o.amount >= 0 /\ ~to.closed /\ o.amount \in Int
  BY <1>3, <1>4 DEF CanDeposit
<1>6. c = Emit(Put(b, o.to, o.amount, 2), "DepositCompleted", t)
  BY <1>3 DEF Put
<1> QED BY <1>2, <1>4, <1>5, <1>6, TransferMoves

-----------------------------------------------------------------------------
(* Batches of the projections.                                             *)

\* What each projection takes and makes.
Takes(p) ==
  CASE p = "withdrawal-handler"             -> "TransactionStarted"
    [] p = "deposit-handler"                -> "WithdrawalCompleted"
    [] p = "transaction-completion-handler" -> "DepositCompleted"
Makes(p) ==
  CASE p = "withdrawal-handler"             -> "WithdrawalCompleted"
    [] p = "deposit-handler"                -> "DepositCompleted"
    [] p = "transaction-completion-handler" -> "none"

\* A handler that meets an event for the first time.
LEMMA HandleWorks ==
  ASSUME NEW b, Sound(b), NEW p \in Projections, NEW e \in Entry, NEW c \in Handle(p, b, e),
         Logged(b, e.type, e.transfer), e.type = Takes(p) => ~Logged(b, Makes(p), e.transfer)
  PROVE  /\ Sound(c) /\ Held(c) = Held(b) /\ Follows(b, c)
         /\ \A y \in Moving, u \in Transfers :
              Logged(c, y, u) => Logged(b, y, u) \/ (y = Makes(p) /\ e.type = Takes(p) /\ u = e.transfer)
<1> DEFINE t == e.transfer
<1>1. t \in Transfers
  BY EntryFields
<1>2. b \in BankRecord
  BY DEF Sound
<1>3. CASE e.type # Takes(p)
  <2>1. c = b
    BY <1>3 DEF Projections, Takes, Handle, WithdrawalHandler, DepositHandler, TransactionCompletionHandler
  <2> QED BY <1>2, <2>1, FollowsItself
<1>4. CASE e.type = Takes(p) /\ p = "withdrawal-handler"
  <2>1. e.type = "TransactionStarted" /\ Makes(p) = "WithdrawalCompleted"
    BY <1>4 DEF Takes, Makes
  <2>2. c \in Withdraw(b, t)
    BY <1>4, <2>1 DEF Handle, WithdrawalHandler
  <2>3. Ordered(b, t)
    BY <2>1 DEF Sound, LogSound, Logged, Is, Moving
  <2>4. Worked(b, c, "WithdrawalCompleted", t)
    BY <1>1, <1>4, <2>1, <2>2, <2>3, WithdrawWorks
  <2> QED BY <1>4, <2>1, <2>4 DEF Worked, Adds
<1>5. CASE e.type = Takes(p) /\ p = "deposit-handler"
  <2>1. e.type = "WithdrawalCompleted" /\ Makes(p) = "DepositCompleted"
    BY <1>5 DEF Takes, Makes
  <2>2. c \in Deposit(b, t)
    BY <1>5, <2>1 DEF Handle, DepositHandler
  <2>3. Worked(b, c, "DepositCompleted", t)
    BY <1>1, <1>5, <2>1, <2>2, DepositWorks
  <2> QED BY <1>5, <2>1, <2>3 DEF Worked, Adds
<1>6. CASE e.type = Takes(p) /\ p = "transaction-completion-handler"
  <2>1. c \in Complete(b, t)
    BY <1>6 DEF Takes, Handle, TransactionCompletionHandler
  <2>2. Worked(b, c, "none", t)
    BY <1>1, <2>1, CompleteWorks
  <2> QED BY <2>2 DEF Worked, Adds, Moving
<1> QED BY <1>3, <1>4, <1>5, <1>6 DEF Projections

\* The banks after each position, as Outcomes folds over them.
Batch(p, g) == g = [i \in 0 .. Len(bank.log) |-> IF i = 0 THEN {bank} ELSE Handled(p, g[i - 1], i)]

LEMMA BatchExists ==
  ASSUME NEW p, bank \in BankRecord
  PROVE  \E g : Batch(p, g)
<1> DEFINE Upto(n, g) == g = [i \in 0 .. n |-> IF i = 0 THEN {bank} ELSE Handled(p, g[i - 1], i)]
           N == {n \in Nat : \E g : Upto(n, g)}
<1>1. 0 \in N
  <2>1. Upto(0, [i \in 0 .. 0 |-> {bank}])
    OBVIOUS
  <2> QED BY <2>1
<1>2. ASSUME NEW n \in N PROVE n + 1 \in N
  <2>1. PICK g : Upto(n, g)
    OBVIOUS
  <2> DEFINE h == [i \in 0 .. n + 1 |-> IF i = n + 1 THEN Handled(p, g[n], n + 1) ELSE g[i]]
  <2>2. n \in Nat
    OBVIOUS
  <2>3. ASSUME NEW i \in 0 .. n + 1
        PROVE  h[i] = IF i = 0 THEN {bank} ELSE Handled(p, h[i - 1], i)
    <3>1. CASE i = n + 1
      <4>1. i # 0 /\ i - 1 = n /\ n \in 0 .. n + 1 /\ n # n + 1
        BY <2>2, <3>1
      <4>2. h[i] = Handled(p, g[n], n + 1) /\ h[n] = g[n]
        BY <3>1, <4>1
      <4> HIDE DEF h
      <4> QED BY <3>1, <4>1, <4>2
    <3>2. CASE i # n + 1 /\ i # 0
      <4>1. i \in 0 .. n /\ i - 1 \in 0 .. n + 1 /\ i - 1 # n + 1
        BY <2>2, <3>2
      <4>2. h[i] = g[i] /\ h[i - 1] = g[i - 1]
        BY <3>2, <4>1
      <4>3. g[i] = Handled(p, g[i - 1], i)
        BY <2>1, <3>2, <4>1
      <4> HIDE DEF h
      <4> QED BY <3>2, <4>2, <4>3
    <3>3. CASE i = 0
      <4>1. 0 \in 0 .. n /\ 0 # n + 1
        BY <2>2
      <4>2. h[0] = g[0] /\ g[0] = {bank}
        BY <2>1, <4>1
      <4> QED BY <3>3, <4>2
    <3> QED BY <3>1, <3>2, <3>3
  <2>4. h = [i \in 0 .. n + 1 |-> h[i]]
    OBVIOUS
  <2>5. Upto(n + 1, h)
    <3> HIDE DEF h
    <3>1. [i \in 0 .. n + 1 |-> h[i]]
           = [i \in 0 .. n + 1 |-> IF i = 0 THEN {bank} ELSE Handled(p, h[i - 1], i)]
      BY <2>3
    <3> QED BY <2>4, <3>1
  <2> HIDE DEF h, Upto
  <2>6. n + 1 \in Nat /\ \E f : Upto(n + 1, f)
    BY <2>2, <2>5
  <2> QED BY <2>6
<1>3. N = Nat
  <2> HIDE DEF N
  <2>1. N \in SUBSET Nat
    BY DEF N
  <2> QED BY <1>1, <1>2, <2>1, Counting
<1>4. Len(bank.log) \in N
  BY <1>3, BankFields
<1> QED BY <1>4 DEF Batch

LEMMA OutcomesAre ==
  ASSUME NEW p, bank \in BankRecord
  PROVE  \E g : Batch(p, g) /\ Outcomes(p) = g[Len(bank.log)]
<1> DEFINE g == CHOOSE h : Batch(p, h)
<1>1. Batch(p, g)
  BY BatchExists
<1>2. Outcomes(p) = g[Len(bank.log)]
  BY DEF Outcomes, Batch
<1> QED BY <1>1, <1>2

\* A bounded set of numbers that is not empty has a largest one.
LEMMA Largest ==
  ASSUME NEW n \in Nat, NEW S, S \subseteq 1 .. n, S # {}
  PROVE  Max(S) \in S /\ \A m \in S : m <= Max(S)
<1>1. PICK T : T = {n - m : m \in S}
  OBVIOUS
<1>2. T \in SUBSET Nat /\ T # {}
  <2>1. \A m \in S : n - m \in Nat
    OBVIOUS
  <2>2. T \subseteq Nat
    BY <1>1, <2>1
  <2>3. PICK m : m \in S
    OBVIOUS
  <2>4. n - m \in T
    BY <1>1, <2>3
  <2> QED BY <2>2, <2>4
<1>3. PICK k \in T : \A m \in T : k <= m
  BY <1>2, SmallestIs
<1>4. PICK x \in S : k = n - x
  BY <1>1, <1>3
<1>5. ASSUME NEW m \in S PROVE x >= m
  <2>1. n - m \in T
    BY <1>1
  <2>2. n - x <= n - m /\ m \in Nat /\ x \in Nat
    BY <1>3, <1>4, <2>1
  <2> QED BY <2>2
<1>6. \E y \in S : \A m \in S : y >= m
  BY <1>5
<1>7. Max(S) \in S /\ \A m \in S : Max(S) >= m
  BY <1>6 DEF Max
<1>8. \A m \in S : m \in Nat
  OBVIOUS
<1> QED BY <1>7, <1>8

LEMMA WindowIs ==
  ASSUME NEW p \in Projections, bank \in BankRecord
  PROVE  /\ Window(p) \subseteq DOMAIN bank.log
         /\ \A i \in Window(p) : i > ckpt[p] /\ bank.log[i].visible /\ i \in Nat
         /\ Window(p) # {} => Max(Window(p)) \in Window(p) /\ \A i \in Window(p) : i <= Max(Window(p))
<1>1. Len(bank.log) \in Nat /\ DOMAIN bank.log = 1 .. Len(bank.log)
  BY BankFields
<1>2. Window(p) \subseteq 1 .. Len(bank.log)
  BY <1>1 DEF Window, Ahead
<1>3. \A i \in Window(p) : i > ckpt[p] /\ bank.log[i].visible
  BY DEF Window, Ahead
<1> QED BY <1>1, <1>2, <1>3, Largest

\* What a projection made, it made of an event at or below its checkpoint.
CaughtUp(p) ==
  \A t \in Transfers : Logged(bank, Makes(p), t) =>
    \E i \in DOMAIN bank.log : i <= ckpt[p] /\ Is(bank.log[i], Takes(p), t)

\* A bank on the way through a batch, after the events up to position n.
Midway(p, b, n) ==
  /\ Sound(b) /\ Held(b) = Held(bank) /\ Follows(bank, b)
  /\ \A y \in Moving, t \in Transfers : Logged(b, y, t) =>
       \/ Logged(bank, y, t)
       \/ y = Makes(p) /\ \E j \in Window(p) : j <= n /\ Is(bank.log[j], Takes(p), t)

LEMMA MidwayStarts ==
  ASSUME NEW p \in Projections, Sound(bank)
  PROVE  Midway(p, bank, 0)
BY FollowsItself DEF Midway, Sound

LEMMA MidwayWaits ==
  ASSUME NEW p \in Projections, NEW b, NEW n \in Nat, Midway(p, b, n), bank \in BankRecord
  PROVE  Midway(p, b, n + 1)
<1>1. \A j \in Window(p) : j \in Nat
  BY WindowIs
<1>2. \A j \in Window(p) : j <= n => j <= n + 1
  BY <1>1
<1> QED BY <1>2 DEF Midway

\* An event that a projection comes to was not handled before.
LEMMA NotMadeYet ==
  ASSUME NEW p \in Projections, Sound(bank), ckpt[p] \in Nat, CaughtUp(p), NEW b, NEW n \in Nat, Midway(p, b, n),
         n + 1 \in Window(p), bank.log[n + 1].type = Takes(p)
  PROVE  ~Logged(b, Makes(p), bank.log[n + 1].transfer)
<1> DEFINE e == bank.log[n + 1]
<1> SUFFICES ASSUME Logged(b, Makes(p), e.transfer) PROVE FALSE
  OBVIOUS
<1>1. bank \in BankRecord /\ b \in BankRecord
  BY DEF Sound, Midway
<1>2. n + 1 \in DOMAIN bank.log /\ n + 1 > ckpt[p]
  BY <1>1, WindowIs
<1>3. e.transfer \in Transfers
  BY <1>1, <1>2, BankFields, EntryFields
<1>4. Takes(p) \in Moving /\ (p = "transaction-completion-handler" => Makes(p) = "none")
      /\ (p # "transaction-completion-handler" => Makes(p) \in Moving)
  BY DEF Projections, Takes, Makes, Moving
<1>5. Makes(p) \in Moving
  <2>1. PICK i \in DOMAIN b.log : b.log[i].type = Makes(p)
    BY DEF Logged, Is
  <2>2. b.log[i].type \in Moving \cup {"TransactionFailed"}
    BY <1>1, BankFields, EntryFields
  <2> QED BY <1>4, <2>1, <2>2 DEF Moving
<1>6. PICK j \in DOMAIN bank.log : (j <= ckpt[p] \/ j <= n) /\ Is(bank.log[j], Takes(p), e.transfer)
  <2>1. CASE Logged(bank, Makes(p), e.transfer)
    BY <1>3, <2>1 DEF CaughtUp
  <2>2. CASE ~Logged(bank, Makes(p), e.transfer)
    BY <1>1, <1>3, <1>5, <2>2, WindowIs DEF Midway
  <2> QED BY <2>1, <2>2
<1>7. j = n + 1
  BY <1>2, <1>4, <1>6 DEF Sound, LogSound
<1>8. ckpt[p] \in Nat /\ n \in Nat
  OBVIOUS
<1> QED BY <1>2, <1>6, <1>7, <1>8

LEMMA MidwayOn ==
  ASSUME NEW p \in Projections, Sound(bank), ckpt[p] \in Nat, CaughtUp(p), NEW b, NEW n \in Nat, Midway(p, b, n),
         n + 1 \in Window(p), NEW c \in Handle(p, b, bank.log[n + 1])
  PROVE  Midway(p, c, n + 1)
<1> DEFINE e == bank.log[n + 1]
<1>1. bank \in BankRecord /\ b \in BankRecord /\ Sound(b)
  BY DEF Sound, Midway
<1>2. n + 1 \in DOMAIN bank.log /\ n + 1 > ckpt[p]
  BY <1>1, WindowIs
<1>3. e \in Entry
  BY <1>1, <1>2, BankFields
<1>4. e.transfer \in Transfers /\ e.type \in Moving \cup {"TransactionFailed"}
  BY <1>3, EntryFields
<1>5. Logged(bank, e.type, e.transfer)
  BY <1>2 DEF Logged, Is
<1>6. Logged(b, e.type, e.transfer)
  BY <1>1, <1>5, LoggedStays DEF Midway
<1>8. e.type = Takes(p) => ~Logged(b, Makes(p), e.transfer)
  BY NotMadeYet
<1>9. /\ Sound(c) /\ Held(c) = Held(b) /\ Follows(b, c)
      /\ \A y \in Moving, u \in Transfers :
           Logged(c, y, u) => Logged(b, y, u) \/ (y = Makes(p) /\ e.type = Takes(p) /\ u = e.transfer)
  <2> HIDE DEF e
  <2>1. c \in Handle(p, b, e)
    BY DEF e
  <2> QED BY <1>1, <1>3, <1>6, <1>8, <2>1, HandleWorks
<1>10. Held(c) = Held(bank) /\ Follows(bank, c)
  <2>1. c \in BankRecord
    BY <1>9 DEF Sound
  <2> QED BY <1>1, <1>9, <2>1, FollowsOn DEF Midway
<1>11. ASSUME NEW y \in Moving, NEW t \in Transfers, Logged(c, y, t)
       PROVE  \/ Logged(bank, y, t)
              \/ y = Makes(p) /\ \E j \in Window(p) : j <= n + 1 /\ Is(bank.log[j], Takes(p), t)
  <2>1. CASE Logged(b, y, t)
    BY <1>1, <2>1, MidwayWaits DEF Midway
  <2>2. CASE ~Logged(b, y, t)
    <3>1. y = Makes(p) /\ e.type = Takes(p) /\ t = e.transfer
      BY <1>9, <1>11, <2>2
    <3>2. Is(bank.log[n + 1], Takes(p), t) /\ n + 1 <= n + 1
      BY <3>1 DEF Is
    <3> QED BY <3>1, <3>2
  <2> QED BY <2>1, <2>2
<1> QED BY <1>9, <1>10, <1>11 DEF Midway

\* What holds before a batch and is kept at each of its positions holds after it.
LEMMA BatchGoesOn ==
  ASSUME NEW p, bank \in BankRecord, NEW R, <<bank, 0>> \in R,
         \A n \in Nat : \A b : <<b, n>> \in R /\ n + 1 \notin Window(p) => <<b, n + 1>> \in R,
         \A n \in Nat : \A b : <<b, n>> \in R /\ n + 1 \in Window(p) =>
           \A c \in Handle(p, b, bank.log[n + 1]) : <<c, n + 1>> \in R,
         NEW b \in Outcomes(p)
  PROVE  <<b, Len(bank.log)>> \in R
<1>2. Len(bank.log) \in Nat
  BY BankFields
<1>3. PICK g : Batch(p, g) /\ Outcomes(p) = g[Len(bank.log)]
  BY OutcomesAre
<1> DEFINE N == {n \in Nat : n <= Len(bank.log) => \A c \in g[n] : <<c, n>> \in R}
<1>4. \A i \in 0 .. Len(bank.log) : g[i] = IF i = 0 THEN {bank} ELSE Handled(p, g[i - 1], i)
  BY <1>3 DEF Batch
<1>5. 0 \in N
  <2>1. g[0] = {bank}
    BY <1>2, <1>4
  <2> QED BY <2>1
<1>6. ASSUME NEW n \in N PROVE n + 1 \in N
  <2> SUFFICES ASSUME n + 1 <= Len(bank.log), NEW c \in g[n + 1] PROVE <<c, n + 1>> \in R
    OBVIOUS
  <2>1. n \in Nat /\ n <= Len(bank.log) /\ n + 1 \in 0 .. Len(bank.log) /\ n + 1 # 0 /\ (n + 1) - 1 = n
    BY <1>2
  <2>2. c \in Handled(p, g[n], n + 1)
    BY <1>4, <2>1
  <2>3. \A d \in g[n] : <<d, n>> \in R
    BY <2>1
  <2>4. CASE n + 1 \in Window(p)
    <3>1. PICK d \in g[n] : c \in Handle(p, d, bank.log[n + 1])
      BY <2>2, <2>4 DEF Handled
    <3> QED BY <2>1, <2>3, <2>4, <3>1
  <2>5. CASE n + 1 \notin Window(p)
    <3>1. c \in g[n]
      BY <2>2, <2>5 DEF Handled
    <3> QED BY <2>1, <2>3, <2>5, <3>1
  <2> QED BY <2>4, <2>5
<1>7. N = Nat
  <2> HIDE DEF N
  <2>1. N \in SUBSET Nat
    BY DEF N
  <2> QED BY <1>5, <1>6, <2>1, Counting
<1>8. Len(bank.log) \in N
  BY <1>2, <1>7
<1> QED BY <1>2, <1>3, <1>8

LEMMA OutcomesWork ==
  ASSUME NEW p \in Projections, Sound(bank), ckpt[p] \in Nat, CaughtUp(p), NEW b \in Outcomes(p)
  PROVE  Midway(p, b, Len(bank.log))
<1>1. bank \in BankRecord
  BY DEF Sound
<1>2. PICK R : R = {x \in BankRecord \X Nat : Midway(p, x[1], x[2])}
  OBVIOUS
<1>3. ASSUME NEW c, NEW n PROVE <<c, n>> \in R <=> n \in Nat /\ Midway(p, c, n)
  BY <1>2 DEF Midway, Sound
<1>4. <<bank, 0>> \in R
  BY <1>3, MidwayStarts
<1>5. ASSUME NEW n \in Nat, NEW c, <<c, n>> \in R, n + 1 \notin Window(p) PROVE <<c, n + 1>> \in R
  BY <1>1, <1>3, <1>5, MidwayWaits
<1>6. ASSUME NEW n \in Nat, NEW c, <<c, n>> \in R, n + 1 \in Window(p), NEW d \in Handle(p, c, bank.log[n + 1])
      PROVE  <<d, n + 1>> \in R
  BY <1>3, <1>6, MidwayOn
<1>7. <<b, Len(bank.log)>> \in R
  BY <1>1, <1>4, <1>5, <1>6, BatchGoesOn
<1> QED BY <1>3, <1>7

-----------------------------------------------------------------------------
(* The state of a banking example.                                         *)

RequestRecord ==
  [status : {"idle", "loaded", "done", "rejected"}, op : {"none", "deposit", "withdraw", "close"},
   account : Accounts \cup {{}}, amount : Int, seen : AccountRecord, tries : Nat]

\* A request decided on what it saw, and a version stands for one state of an account.
Decided(b, r) ==
  r.status = "loaded" =>
    /\ r.account \in Accounts /\ r.op \in {"deposit", "withdraw", "close"}
    /\ Allows(r.op, r.seen, r.amount)
    /\ r.seen.version <= b.accounts[r.account].version
    /\ r.seen.version = b.accounts[r.account].version => r.seen = b.accounts[r.account]

RequestsSound(b, rs) ==
  /\ rs \in [Clients -> RequestRecord]
  /\ \A c \in Clients : Decided(b, rs[c])

\* What was paid in or out, in requests answered with success.
PaidOf(rs, op) == {c \in Clients : rs[c].status = "done" /\ rs[c].op = op}
TotalOf(rs, op) == SumOf([c \in PaidOf(rs, op) |-> rs[c].amount])

CommandRecord ==
  [type : {"WithdrawFromAccount", "FailTransaction"}, transfer : Transfers, attempts : Nat,
   status : {"pending", "acked", "failed"}]

Withdraws(c) == c.type = "WithdrawFromAccount"

\* A transfer is withdrawn by its one command, which stands for a delivered event.
CommandsSound(b, ds, cs) ==
  /\ ds \subseteq DOMAIN b.log
  /\ cs \subseteq CommandRecord
  /\ \A c, d \in cs : Withdraws(c) /\ Withdraws(d) /\ c.transfer = d.transfer => c = d
  /\ \A c \in cs : Withdraws(c) =>
       /\ \E i \in ds : Is(b.log[i], "TransactionStarted", c.transfer)
       /\ c.status = "pending" => ~Logged(b, "WithdrawalCompleted", c.transfer)
  /\ \A t \in Transfers : Logged(b, "WithdrawalCompleted", t) => \E c \in cs : Withdraws(c) /\ c.transfer = t

BankingInv ==
  /\ Sound(bank)
  /\ Held(bank) = TotalOf(requests, "deposit") - TotalOf(requests, "withdraw")
  /\ RequestsSound(bank, requests)
  /\ "projections" \in deployed => ckpt \in [Projections -> Nat] /\ \A p \in Projections : CaughtUp(p)
  /\ "saga" \in deployed => CommandsSound(bank, delivered, commands)
  /\ ~({"projections", "saga"} \subseteq deployed)

-----------------------------------------------------------------------------
(* What a request does to a bank.                                          *)

\* Readers find what was there, and new transfers at most.
Grown(b, c) ==
  /\ \A i \in DOMAIN b.log :
       i \in DOMAIN c.log /\ c.log[i].type = b.log[i].type /\ c.log[i].transfer = b.log[i].transfer
  /\ \A a \in Accounts : c.accounts[a] = b.accounts[a] \/ c.accounts[a].version > b.accounts[a].version

NothingMoves(b, c) ==
  \A y \in {"WithdrawalCompleted", "DepositCompleted"}, t \in Transfers : Logged(c, y, t) => Logged(b, y, t)

LEMMA FollowsIsGrown ==
  ASSUME NEW b \in BankRecord, NEW c \in BankRecord, Follows(b, c)
  PROVE  Grown(b, c)
<1>1. /\ Len(b.log) \in Nat /\ DOMAIN b.log = 1 .. Len(b.log)
      /\ Len(c.log) \in Nat /\ DOMAIN c.log = 1 .. Len(c.log)
  BY BankFields
<1>2. \A i \in DOMAIN b.log : i \in DOMAIN c.log
  BY <1>1 DEF Follows
<1> QED BY <1>2 DEF Follows, Grown

\* One account is replaced.
LEMMA AccountReplaced ==
  ASSUME NEW b, Sound(b), NEW x \in Accounts, NEW m \in AccountRecord, AccountSound(m),
         m.version > b.accounts[x].version, NEW c, c = [b EXCEPT !.accounts[x] = m]
  PROVE  /\ Sound(c) /\ Grown(b, c) /\ NothingMoves(b, c)
         /\ Held(c) = Held(b) - b.accounts[x].balance + m.balance + b.accounts[x].opening - m.opening
<1>1. b \in BankRecord
  BY DEF Sound
<1>2. c.transactions = b.transactions /\ c.log = b.log /\ c.accounts = [b.accounts EXCEPT ![x] = m]
  BY <1>1 DEF BankRecord
<1>3. c.accounts[x] = m /\ \A a \in Accounts \ {x} : c.accounts[a] = b.accounts[a]
  BY <1>1, <1>2, BankFields
<1>4. c \in BankRecord
  <2>1. [b.accounts EXCEPT ![x] = m] \in [Accounts -> AccountRecord]
    BY <1>1, BankFields
  <2> QED BY <1>1, <2>1 DEF BankRecord
<1>5. LogSound(c) /\ \A type, t : Logged(c, type, t) <=> Logged(b, type, t)
  <2>1. \A i \in DOMAIN b.log : b.log[i].transfer \in Transfers
    BY <1>1, BankFields, EntryFields
  <2>2. \A t \in Transfers : Ordered(b, t) => Ordered(c, t)
    BY <1>2 DEF Ordered
  <2> QED BY <1>2, <2>1, <2>2, LogIsSound DEF Sound
<1>6. Sound(c)
  BY <1>3, <1>4, <1>5 DEF Sound
<1>7. Travelling(c) = Travelling(b)
  <2>1. InTransit(c) = InTransit(b)
    BY <1>5, <1>6, InTransitIs
  <2> QED BY <1>2, <2>1, TransitStands
<1>8. Balances(c) = Balances(b) - b.accounts[x].balance + m.balance
  BY <1>1, <1>3, <1>4, BalancesMove
<1>9. PaidIn(c) = PaidIn(b) - b.accounts[x].opening + m.opening
  BY <1>1, <1>3, <1>4, PaidInMoves
<1>10. Held(c) = Held(b) - b.accounts[x].balance + m.balance + b.accounts[x].opening - m.opening
  <2>1. /\ Balances(b) \in Int /\ Travelling(b) \in Int /\ PaidIn(b) \in Int
        /\ b.accounts[x].balance \in Int /\ b.accounts[x].opening \in Int
        /\ m.balance \in Int /\ m.opening \in Int
    BY <1>1, HeldTypes, TermTypes, AccountFields
  <2> QED BY <1>7, <1>8, <1>9, <2>1 DEF Held
<1>11. Grown(b, c)
  BY <1>2, <1>3 DEF Grown
<1>12. NothingMoves(b, c)
  BY <1>5 DEF NothingMoves
<1> QED BY <1>6, <1>10, <1>11, <1>12

LEMMA StartWorks ==
  ASSUME NEW b, Sound(b), NEW x \in Accounts, b.accounts[x].version = 0,
         NEW m \in AccountRecord, m.version > 0, m.opening = m.balance, ~m.closed,
         NEW c, c = [b EXCEPT !.accounts[x] = m]
  PROVE  Sound(c) /\ Grown(b, c) /\ NothingMoves(b, c) /\ Held(c) = Held(b)
<1>1. m.balance \in Int /\ m.opening \in Int /\ m.version \in Nat
  BY AccountFields
<1>2. AccountSound(m) /\ m.version > b.accounts[x].version
  BY <1>1 DEF AccountSound
<1>3. b.accounts[x].balance = 0 /\ b.accounts[x].opening = 0
  BY DEF Sound, AccountSound
<1>4. /\ Sound(c) /\ Grown(b, c) /\ NothingMoves(b, c)
      /\ Held(c) = Held(b) - b.accounts[x].balance + m.balance + b.accounts[x].opening - m.opening
  BY <1>2, AccountReplaced
<1>5. Held(b) \in Int
  <2>1. Balances(b) \in Int /\ Travelling(b) \in Int /\ PaidIn(b) \in Int
    BY HeldTypes DEF Sound
  <2> QED BY <2>1 DEF Held
<1> QED BY <1>1, <1>3, <1>4, <1>5

LEMMA OrderWorks ==
  ASSUME NEW b, Sound(b), NEW t \in Transfers, b.transactions[t] = NoTransaction,
         NEW o \in TransactionRecord, o.from \in Accounts, o.to \in Accounts, o.amount > 0,
         NEW e \in Entry, e.type = "TransactionStarted", e.transfer = t,
         NEW c \in BankRecord, c.accounts = b.accounts, c.log = Append(b.log, e),
         c.transactions[t] = o, \A u \in Transfers \ {t} : c.transactions[u] = b.transactions[u]
  PROVE  Sound(c) /\ Grown(b, c) /\ NothingMoves(b, c) /\ Held(c) = Held(b)
<1>1. b \in BankRecord
  BY DEF Sound
<1>2. c.accounts = b.accounts /\ c.log = Append(b.log, e)
  OBVIOUS
<1>3. c.transactions[t] = o /\ \A u \in Transfers \ {t} : c.transactions[u] = b.transactions[u]
  OBVIOUS
<1>4. c \in BankRecord
  OBVIOUS
<1>5. ~Ordered(b, t) /\ Ordered(c, t)
  BY <1>3 DEF Ordered, NoTransaction
<1>6. \A y \in Moving : ~Logged(b, y, t)
  BY <1>5 DEF Sound, LogSound, Logged, Is
<1>7. \A u \in Transfers : Ordered(b, u) => Ordered(c, u)
  BY <1>3, <1>5 DEF Ordered
<1>8. LogSound(c)
  <2>1. LogSound(b) /\ ~Logged(b, e.type, e.transfer)
    BY <1>6 DEF Sound, Moving
  <2>2. Ordered(c, e.transfer)
    BY <1>5
  <2> QED BY <1>1, <1>2, <1>4, <1>7, <2>1, <2>2, LogStaysSound
<1>9. Sound(c)
  BY <1>2, <1>4, <1>8 DEF Sound
<1>10. /\ Len(b.log) <= Len(c.log)
       /\ \A i \in DOMAIN b.log : c.log[i] = b.log[i]
       /\ \A type, u : Logged(c, type, u) <=> Logged(b, type, u) \/ Is(e, type, u)
  BY ONLY <1>1, <1>2, <1>4, LogGrows
<1>11. \A y \in {"WithdrawalCompleted", "DepositCompleted"}, u \in Transfers : Logged(c, y, u) <=> Logged(b, y, u)
  BY <1>10 DEF Is
<1>12. Travelling(c) = Travelling(b)
  <2>1. InTransit(c) = InTransit(b)
    BY <1>9, <1>11, InTransitIs
  <2>2. t \notin InTransit(b) /\ InTransit(b) \subseteq Transfers
    BY <1>6, InTransitIs DEF Moving
  <2> QED BY <1>3, <2>1, <2>2, TransitStands
<1>13. Held(c) = Held(b)
  BY <1>1, <1>2, <1>4, <1>12, AccountsStand DEF Held
<1>14. Grown(b, c)
  <2>1. Follows(b, c)
    BY <1>2, <1>10 DEF Follows
  <2> QED BY <1>1, <1>4, <2>1, FollowsIsGrown
<1> QED BY <1>9, <1>11, <1>13, <1>14 DEF NothingMoves

LEMMA CommitWorks ==
  ASSUME NEW b, Sound(b), NEW i \in DOMAIN b.log, NEW c, c = [b EXCEPT !.log[i].visible = TRUE]
  PROVE  Sound(c) /\ Grown(b, c) /\ NothingMoves(b, c) /\ Held(c) = Held(b)
<1> DEFINE e == [b.log[i] EXCEPT !.visible = TRUE]
<1>1. b \in BankRecord
  BY DEF Sound
<1>2. b.log \in Seq(Entry) /\ b.log[i] \in Entry
  BY <1>1, BankFields
<1>3. /\ e \in Entry /\ e.type = b.log[i].type /\ e.transfer = b.log[i].transfer
      /\ e.enqueued = b.log[i].enqueued /\ e.visible
  BY <1>2 DEF Entry
<1>4. c = [b EXCEPT !.log = [b.log EXCEPT ![i] = e]]
  BY <1>1 DEF BankRecord
<1> HIDE DEF e
<1>5. c.accounts = b.accounts /\ c.transactions = b.transactions /\ c.log = [b.log EXCEPT ![i] = e]
  BY <1>1, <1>4 DEF BankRecord
<1>6. DOMAIN c.log = DOMAIN b.log /\ c.log[i] = e /\ \A j \in DOMAIN b.log \ {i} : c.log[j] = b.log[j]
  BY <1>2, <1>5
<1>7. c \in BankRecord
  <2>1. [b.log EXCEPT ![i] = e] \in Seq(Entry)
    BY <1>2, <1>3
  <2> QED BY <1>1, <1>4, <2>1 DEF BankRecord
<1>8. \A j \in DOMAIN b.log :
        /\ c.log[j].type = b.log[j].type /\ c.log[j].transfer = b.log[j].transfer
        /\ c.log[j].enqueued = b.log[j].enqueued /\ (b.log[j].visible => c.log[j].visible)
  BY <1>3, <1>6
<1>9. \A type, u : Logged(c, type, u) <=> Logged(b, type, u)
  BY <1>6, <1>8 DEF Logged, Is
<1>10. LogSound(c)
  <2>1. /\ \A j \in DOMAIN b.log : b.log[j].type \in Moving => Ordered(b, b.log[j].transfer)
        /\ \A j, k \in DOMAIN b.log :
             b.log[j].type \in Moving /\ Is(b.log[k], b.log[j].type, b.log[j].transfer) => j = k
        /\ \A j \in DOMAIN b.log : b.log[j].type # "TransactionStarted" => b.log[j].visible /\ ~b.log[j].enqueued
        /\ \A t \in Transfers : Logged(b, "DepositCompleted", t) => Logged(b, "WithdrawalCompleted", t)
    BY DEF Sound, LogSound
  <2>2. \A j \in DOMAIN c.log : c.log[j].type \in Moving => Ordered(c, c.log[j].transfer)
    BY <1>5, <1>6, <1>8, <2>1 DEF Ordered
  <2>3. \A j, k \in DOMAIN c.log :
          c.log[j].type \in Moving /\ Is(c.log[k], c.log[j].type, c.log[j].transfer) => j = k
    BY <1>6, <1>8, <2>1 DEF Is
  <2>4. \A j \in DOMAIN c.log : c.log[j].type # "TransactionStarted" => c.log[j].visible /\ ~c.log[j].enqueued
    BY <1>6, <1>8, <2>1
  <2> QED BY <1>9, <2>1, <2>2, <2>3, <2>4 DEF LogSound
<1>11. Sound(c)
  BY <1>5, <1>7, <1>10 DEF Sound
<1>12. Travelling(c) = Travelling(b)
  <2>1. InTransit(c) = InTransit(b)
    BY <1>9, <1>11, InTransitIs
  <2> QED BY <1>5, <2>1, TransitStands
<1>13. Held(c) = Held(b)
  BY <1>1, <1>5, <1>7, <1>12, AccountsStand DEF Held
<1>14. Grown(b, c) /\ NothingMoves(b, c)
  BY <1>5, <1>6, <1>8, <1>9 DEF Grown, NothingMoves
<1> QED BY <1>11, <1>13, <1>14

-----------------------------------------------------------------------------
(* What others find when a bank has grown.                                 *)

LEMMA RequestsStay ==
  ASSUME NEW b \in BankRecord, NEW c \in BankRecord, Grown(b, c), NEW rs, RequestsSound(b, rs)
  PROVE  RequestsSound(c, rs)
<1> SUFFICES ASSUME NEW x \in Clients PROVE Decided(c, rs[x])
  BY DEF RequestsSound
<1> DEFINE r == rs[x]
<1>1. r \in RequestRecord /\ Decided(b, r)
  BY DEF RequestsSound
<1>2. r.seen.version \in Nat
  BY <1>1, AccountFields DEF RequestRecord
<1> HIDE DEF r
<1>3. ASSUME r.status = "loaded"
      PROVE  /\ r.seen.version <= c.accounts[r.account].version
             /\ r.seen.version = c.accounts[r.account].version => r.seen = c.accounts[r.account]
  <2>1. r.account \in Accounts
    BY <1>1, <1>3 DEF Decided
  <2>2. b.accounts[r.account].version \in Nat /\ c.accounts[r.account].version \in Nat
    BY <2>1, TermTypes
  <2>3. /\ r.seen.version <= b.accounts[r.account].version
        /\ r.seen.version = b.accounts[r.account].version => r.seen = b.accounts[r.account]
    BY <1>1, <1>3 DEF Decided
  <2>4. \/ c.accounts[r.account] = b.accounts[r.account]
        \/ c.accounts[r.account].version > b.accounts[r.account].version
    BY <2>1 DEF Grown
  <2> QED BY <1>2, <2>2, <2>3, <2>4
<1>4. Decided(c, r)
  BY <1>1, <1>3 DEF Decided
<1> QED BY <1>4 DEF r

LEMMA CommandsStay ==
  ASSUME NEW b, NEW c, Grown(b, c), NEW ds, NEW cs, CommandsSound(b, ds, cs),
         \A t \in Transfers : Logged(c, "WithdrawalCompleted", t) => Logged(b, "WithdrawalCompleted", t)
  PROVE  CommandsSound(c, ds, cs)
<1>1. \A i \in ds : i \in DOMAIN c.log /\ c.log[i].type = b.log[i].type /\ c.log[i].transfer = b.log[i].transfer
  BY DEF CommandsSound, Grown
<1>2. \A d \in cs : d.transfer \in Transfers
  BY DEF CommandsSound, CommandRecord
<1>3. ASSUME NEW d \in cs, Withdraws(d)
      PROVE  /\ \E i \in ds : Is(c.log[i], "TransactionStarted", d.transfer)
             /\ d.status = "pending" => ~Logged(c, "WithdrawalCompleted", d.transfer)
  <2>1. PICK i \in ds : Is(b.log[i], "TransactionStarted", d.transfer)
    BY <1>3 DEF CommandsSound
  <2>2. Is(c.log[i], "TransactionStarted", d.transfer)
    BY <1>1, <2>1 DEF Is
  <2> QED BY <1>2, <1>3, <2>2 DEF CommandsSound
<1> QED BY <1>1, <1>3 DEF CommandsSound

\* A projection that makes nothing the log shows is caught up.
LEMMA NothingIsMade ==
  ASSUME NEW b \in BankRecord, NEW t
  PROVE  ~Logged(b, "none", t)
<1>1. \A i \in DOMAIN b.log : b.log[i].type # "none"
  BY BankFields, EntryFields DEF Moving
<1> QED BY <1>1 DEF Logged, Is

LEMMA CaughtUpStays ==
  ASSUME NEW p \in Projections, bank \in BankRecord, ckpt[p] \in Nat, CaughtUp(p),
         bank' \in BankRecord, Grown(bank, bank'),
         \A t \in Transfers : Logged(bank', Makes(p), t) => Logged(bank, Makes(p), t),
         ckpt'[p] = ckpt[p]
  PROVE  CaughtUp(p)'
<1> SUFFICES ASSUME NEW t \in Transfers, Logged(bank', Makes(p), t)
             PROVE  \E i \in DOMAIN bank'.log : i <= ckpt'[p] /\ Is(bank'.log[i], Takes(p), t)
  BY DEF CaughtUp, Takes, Makes
<1>1. PICK i \in DOMAIN bank.log : i <= ckpt[p] /\ Is(bank.log[i], Takes(p), t)
  BY DEF CaughtUp
<1> QED BY <1>1 DEF Grown, Is

\* A step that neither takes nor gives money for a transfer, and leaves the chain alone.
LEMMA ChainStays ==
  ASSUME BankingInv, bank' \in BankRecord, Grown(bank, bank'), NothingMoves(bank, bank'),
         UNCHANGED <<deployed, ckpt, delivered, commands>>
  PROVE  /\ "projections" \in deployed' => ckpt' \in [Projections -> Nat] /\ \A p \in Projections : CaughtUp(p)'
         /\ "saga" \in deployed' => CommandsSound(bank', delivered', commands')
         /\ ~({"projections", "saga"} \subseteq deployed')
<1>1. bank \in BankRecord
  BY DEF BankingInv, Sound
<1>2. ASSUME "projections" \in deployed, NEW p \in Projections PROVE CaughtUp(p)'
  <2>1. \A t \in Transfers : Logged(bank', Makes(p), t) => Logged(bank, Makes(p), t)
    BY NothingIsMade DEF Projections, Makes, NothingMoves
  <2>2. ckpt[p] \in Nat /\ CaughtUp(p)
    BY <1>2 DEF BankingInv
  <2> QED BY <1>1, <2>1, <2>2, CaughtUpStays
<1>3. ASSUME "saga" \in deployed PROVE CommandsSound(bank', delivered, commands)
  <2>1. CommandsSound(bank, delivered, commands)
    BY <1>3 DEF BankingInv
  <2> QED BY <2>1, CommandsStay DEF NothingMoves
<1> QED BY <1>2, <1>3 DEF BankingInv

-----------------------------------------------------------------------------
(* What was paid in and out.                                               *)

LEMMA RequestFields ==
  ASSUME NEW r \in RequestRecord
  PROVE  r.amount \in Int /\ r.seen \in AccountRecord /\ r.tries \in Nat
BY DEF RequestRecord

LEMMA TotalType ==
  ASSUME NEW rs \in [Clients -> RequestRecord], NEW op
  PROVE  TotalOf(rs, op) \in Int
<1>1. PICK f : f = [c \in PaidOf(rs, op) |-> rs[c].amount]
  OBVIOUS
<1>2. IsFiniteSet(PaidOf(rs, op))
  BY BankingAssumption, FS_Subset DEF PaidOf
<1>3. f \in [PaidOf(rs, op) -> Int]
  BY <1>1, RequestFields DEF PaidOf
<1>4. SumOf(f) \in Int
  BY <1>2, <1>3, SumType
<1> QED BY <1>1, <1>4 DEF TotalOf

\* The same requests were answered with success.
LEMMA TotalStays ==
  ASSUME NEW rs, NEW qs, NEW op, PaidOf(qs, op) = PaidOf(rs, op),
         \A c \in PaidOf(rs, op) : qs[c].amount = rs[c].amount
  PROVE  TotalOf(qs, op) = TotalOf(rs, op)
<1>1. [c \in PaidOf(qs, op) |-> qs[c].amount] = [c \in PaidOf(rs, op) |-> rs[c].amount]
  OBVIOUS
<1> QED BY <1>1 DEF TotalOf

\* One more request was.
LEMMA TotalGains ==
  ASSUME NEW rs, rs \in [Clients -> RequestRecord], NEW qs, qs \in [Clients -> RequestRecord], NEW op,
         NEW x \in Clients, x \notin PaidOf(rs, op), PaidOf(qs, op) = PaidOf(rs, op) \cup {x},
         \A c \in PaidOf(rs, op) : qs[c].amount = rs[c].amount
  PROVE  TotalOf(qs, op) = TotalOf(rs, op) + qs[x].amount
<1>1. PICK S : S = PaidOf(rs, op)
  OBVIOUS
<1>2. PICK R : R = PaidOf(qs, op)
  OBVIOUS
<1>3. PICK f : f = [c \in S |-> rs[c].amount]
  OBVIOUS
<1>4. PICK g : g = [c \in R |-> qs[c].amount]
  OBVIOUS
<1>5. x \in R /\ S = R \ {x} /\ S \subseteq Clients /\ R \subseteq Clients
  BY <1>1, <1>2 DEF PaidOf
<1>6. IsFiniteSet(R)
  BY <1>5, BankingAssumption, FS_Subset
<1>7. f \in [S -> Int] /\ g \in [R -> Int]
  BY <1>3, <1>4, <1>5, RequestFields
<1>8. \A c \in S : g[c] = f[c]
  BY <1>1, <1>3, <1>4, <1>5
<1>9. SumOf(g) = SumOf(f) + g[x]
  <2>1. x \in R /\ S = R \ {x}
    BY <1>5
  <2> QED BY ONLY <1>6, <1>7, <1>8, <2>1, SumAdd
<1>10. g[x] = qs[x].amount
  BY <1>4, <1>5
<1> QED BY <1>1, <1>2, <1>3, <1>4, <1>9, <1>10 DEF TotalOf

\* One request changes: it was not answered before, and keeps what it asks for.
LEMMA OneAnswer ==
  ASSUME NEW rs \in [Clients -> RequestRecord], NEW x \in Clients, NEW r \in RequestRecord,
         rs[x].status # "done", r.status = "done" => r.op = rs[x].op /\ r.amount = rs[x].amount,
         NEW qs \in [Clients -> RequestRecord], qs[x] = r, \A c \in Clients \ {x} : qs[c] = rs[c], NEW op
  PROVE  /\ r.status = "done" /\ r.op = op => TotalOf(qs, op) = TotalOf(rs, op) + r.amount
         /\ ~(r.status = "done" /\ r.op = op) => TotalOf(qs, op) = TotalOf(rs, op)
<1>1. qs \in [Clients -> RequestRecord] /\ qs[x] = r /\ \A c \in Clients \ {x} : qs[c] = rs[c]
  OBVIOUS
<1>2. \A c \in PaidOf(rs, op) : c # x /\ qs[c] = rs[c]
  BY <1>1 DEF PaidOf
<1>3. CASE r.status = "done" /\ r.op = op
  <2>1. x \notin PaidOf(rs, op)
    BY <1>2
  <2>2. PaidOf(qs, op) = PaidOf(rs, op) \cup {x}
    BY <1>1, <1>2, <1>3 DEF PaidOf
  <2>3. \A c \in PaidOf(rs, op) : qs[c].amount = rs[c].amount
    BY <1>2
  <2>4. TotalOf(qs, op) = TotalOf(rs, op) + qs[x].amount
    BY ONLY <1>1, <2>1, <2>2, <2>3, rs \in [Clients -> RequestRecord], x \in Clients, TotalGains
  <2> QED BY <1>1, <1>3, <2>4
<1>4. CASE ~(r.status = "done" /\ r.op = op)
  <2>1. PaidOf(qs, op) = PaidOf(rs, op)
    BY <1>1, <1>2, <1>4 DEF PaidOf
  <2>2. \A c \in PaidOf(rs, op) : qs[c].amount = rs[c].amount
    BY <1>2
  <2>3. TotalOf(qs, op) = TotalOf(rs, op)
    BY ONLY <2>1, <2>2, TotalStays
  <2> QED BY <1>4, <2>3
<1> QED BY <1>3, <1>4

-----------------------------------------------------------------------------
(* The routes.                                                             *)

\* A route that changes the bank and no request.
LEMMA RouteKeeps ==
  ASSUME BankingInv, Sound(bank'), Grown(bank, bank'), NothingMoves(bank, bank'), Held(bank') = Held(bank),
         UNCHANGED <<deployed, requests, ckpt, delivered, commands>>
  PROVE  BankingInv'
<1>1. bank \in BankRecord /\ bank' \in BankRecord
  BY DEF BankingInv, Sound
<1>2. RequestsSound(bank', requests')
  <2>1. RequestsSound(bank, requests)
    BY DEF BankingInv
  <2> QED BY <1>1, <2>1, RequestsStay
<1>3. Held(bank') = TotalOf(requests', "deposit") - TotalOf(requests', "withdraw")
  BY DEF BankingInv
<1> QED BY <1>1, <1>2, <1>3, ChainStays DEF BankingInv

LEMMA StartKeeps ==
  ASSUME BankingInv, NEW x \in Accounts, NEW k \in Nat, k > 0, NEW n \in Nat, Start(x, k, n),
         UNCHANGED <<deployed, ckpt, delivered, commands>>
  PROVE  BankingInv'
<1>1. Sound(bank)
  BY DEF BankingInv
<1>2. PICK m : m = [NoAccount EXCEPT !.version = k, !.opening = n, !.balance = n]
  OBVIOUS
<1>3. m \in AccountRecord /\ m.version > 0 /\ m.opening = m.balance /\ ~m.closed
  BY <1>2 DEF NoAccount, AccountRecord
<1>4. bank.accounts[x].version = 0 /\ bank' = [bank EXCEPT !.accounts[x] = m] /\ UNCHANGED requests
  BY <1>2 DEF Start
<1>5. Sound(bank') /\ Grown(bank, bank') /\ NothingMoves(bank, bank') /\ Held(bank') = Held(bank)
  BY <1>1, <1>3, <1>4, StartWorks
<1> QED BY <1>4, <1>5, RouteKeeps

\* What posting a transfer leaves.
LEMMA PostIs ==
  ASSUME bank \in BankRecord, NEW r \in Orders, PostTransfer(r)
  PROVE  \E t \in Transfers, o \in TransactionRecord, e \in Entry :
           /\ bank.transactions[t] = NoTransaction
           /\ o.status = "started" /\ o.from \in Accounts /\ o.to \in Accounts /\ o.amount > 0
           /\ e.type = "TransactionStarted" /\ e.transfer = t
           /\ bank' \in BankRecord /\ bank'.accounts = bank.accounts /\ bank'.log = Append(bank.log, e)
           /\ bank'.transactions[t] = o /\ \A u \in Transfers \ {t} : bank'.transactions[u] = bank.transactions[u]
<1>2. PICK t : t = r.transfer
  OBVIOUS
<1>3. PICK o : o = [status |-> "started", from |-> r.from, to |-> r.to, amount |-> r.amount]
  OBVIOUS
<1>4. PICK e : e = [type |-> "TransactionStarted", transfer |-> t, visible |-> FALSE, enqueued |-> TRUE]
  OBVIOUS
<1>5. t \in Transfers /\ r.from \in Accounts /\ r.to \in Accounts /\ r.amount \in Int
  BY <1>2, BankingAssumption
<1>6. bank.transactions[t] = NoTransaction /\ r.amount > 0
  BY <1>2 DEF PostTransfer
<1>7. bank' = [bank EXCEPT !.transactions[t] = o, !.log = Append(@, e)]
  BY <1>2, <1>3, <1>4 DEF PostTransfer
<1>8. o \in TransactionRecord /\ o.status = "started" /\ o.from \in Accounts /\ o.to \in Accounts /\ o.amount > 0
  <2>1. r.amount \in Nat
    BY <1>5, <1>6
  <2> QED BY <1>3, <1>5, <1>6, <2>1 DEF TransactionRecord
<1>9. e \in Entry /\ e.type = "TransactionStarted" /\ e.transfer = t
  BY <1>4, <1>5 DEF Entry
<1>10. PICK b : b = bank
  OBVIOUS
<1>11. PICK c : c = bank'
  OBVIOUS
<1>12. c = [b EXCEPT !.transactions = [b.transactions EXCEPT ![t] = o], !.log = Append(b.log, e)]
  BY <1>7, <1>10, <1>11
<1>13. b \in BankRecord
  BY <1>10
<1>14. b.transactions \in [Transfers -> TransactionRecord] /\ b.log \in Seq(Entry)
  BY <1>13, BankFields
<1>15. [b.transactions EXCEPT ![t] = o] \in [Transfers -> TransactionRecord] /\ Append(b.log, e) \in Seq(Entry)
  <2>1. [b.transactions EXCEPT ![t] = o] \in [Transfers -> TransactionRecord]
    BY <1>8, <1>14
  <2>2. Append(b.log, e) \in Seq(Entry)
    BY <1>9, <1>14
  <2> QED BY <2>1, <2>2
<1>16. /\ c \in BankRecord /\ c.accounts = b.accounts /\ c.log = Append(b.log, e)
       /\ c.transactions = [b.transactions EXCEPT ![t] = o]
  BY <1>12, <1>13, <1>15 DEF BankRecord
<1>17. c.transactions[t] = o /\ \A u \in Transfers \ {t} : c.transactions[u] = b.transactions[u]
  BY <1>5, <1>14, <1>16
<1>18. /\ bank'.accounts = bank.accounts /\ bank'.log = Append(bank.log, e) /\ bank' \in BankRecord
       /\ bank'.transactions[t] = o /\ \A u \in Transfers \ {t} : bank'.transactions[u] = bank.transactions[u]
  BY <1>10, <1>11, <1>16, <1>17
<1>19. t \in Transfers /\ o \in TransactionRecord /\ e \in Entry
  BY <1>5, <1>8, <1>9
<1> QED BY ONLY <1>6, <1>8, <1>9, <1>18, <1>19

LEMMA PostKeeps ==
  ASSUME BankingInv, NEW r \in Orders, PostTransfer(r), UNCHANGED <<deployed, ckpt, delivered, commands>>
  PROVE  BankingInv'
<1>1. Sound(bank) /\ bank \in BankRecord
  BY DEF BankingInv, Sound
<1>2. PICK t \in Transfers, o \in TransactionRecord, e \in Entry :
           /\ bank.transactions[t] = NoTransaction
           /\ o.status = "started" /\ o.from \in Accounts /\ o.to \in Accounts /\ o.amount > 0
           /\ e.type = "TransactionStarted" /\ e.transfer = t
           /\ bank' \in BankRecord /\ bank'.accounts = bank.accounts /\ bank'.log = Append(bank.log, e)
           /\ bank'.transactions[t] = o /\ \A u \in Transfers \ {t} : bank'.transactions[u] = bank.transactions[u]
  BY <1>1, PostIs
<1>3. Sound(bank') /\ Grown(bank, bank') /\ NothingMoves(bank, bank') /\ Held(bank') = Held(bank)
  BY ONLY <1>1, <1>2, OrderWorks
<1>4. UNCHANGED requests
  BY DEF PostTransfer
<1> QED BY <1>3, <1>4, RouteKeeps

LEMMA CommitKeeps ==
  ASSUME BankingInv, NEW i \in DOMAIN bank.log, CommitTransfer(i),
         UNCHANGED <<deployed, ckpt, delivered, commands>>
  PROVE  BankingInv'
<1>1. Sound(bank)
  BY DEF BankingInv
<1>2. bank' = [bank EXCEPT !.log[i].visible = TRUE] /\ UNCHANGED requests
  BY DEF CommitTransfer
<1>3. Sound(bank') /\ Grown(bank, bank') /\ NothingMoves(bank, bank') /\ Held(bank') = Held(bank)
  BY <1>1, <1>2, CommitWorks
<1> QED BY <1>2, <1>3, RouteKeeps

\* A request that moves no money: what becomes of it fits the bank.
LEMMA RequestKeeps ==
  ASSUME BankingInv, NEW x \in Clients, NEW r \in RequestRecord, requests[x].status # "done", r.status # "done",
         Decided(bank, r), requests' = [requests EXCEPT ![x] = r],
         UNCHANGED <<deployed, bank, ckpt, delivered, commands>>
  PROVE  BankingInv'
<1>1. requests \in [Clients -> RequestRecord] /\ \A c \in Clients : Decided(bank, requests[c])
  BY DEF BankingInv, RequestsSound
<1>2. PICK qs : qs = requests'
  OBVIOUS
<1>3. /\ qs \in [Clients -> RequestRecord] /\ qs[x] = r /\ \A c \in Clients \ {x} : qs[c] = requests[c]
      /\ TotalOf(qs, "deposit") = TotalOf(requests, "deposit")
      /\ TotalOf(qs, "withdraw") = TotalOf(requests, "withdraw")
  <2>1. qs \in [Clients -> RequestRecord] /\ qs[x] = r /\ \A c \in Clients \ {x} : qs[c] = requests[c]
    BY <1>1, <1>2
  <2> QED BY <1>1, <2>1, OneAnswer
<1>4. RequestsSound(bank, qs)
  BY <1>1, <1>3 DEF RequestsSound
<1>5. Held(bank) = TotalOf(qs, "deposit") - TotalOf(qs, "withdraw")
  BY <1>3 DEF BankingInv
<1>6. bank \in BankRecord
  BY DEF BankingInv, Sound
<1>7. Grown(bank, bank') /\ NothingMoves(bank, bank') /\ bank' \in BankRecord
  BY <1>6 DEF Grown, NothingMoves
<1>8. Sound(bank')
  BY DEF BankingInv
<1> QED BY <1>2, <1>4, <1>5, <1>7, <1>8, ChainStays DEF BankingInv

LEMMA LoadedRequest ==
  ASSUME BankingInv, NEW x \in Clients
  PROVE  /\ requests \in [Clients -> RequestRecord] /\ requests[x] \in RequestRecord /\ Decided(bank, requests[x])
         /\ bank \in BankRecord /\ \A a \in Accounts : bank.accounts[a] \in AccountRecord
<1>1. bank \in BankRecord
  BY DEF BankingInv, Sound
<1>2. \A a \in Accounts : bank.accounts[a] \in AccountRecord
  BY <1>1, BankFields
<1> QED BY <1>1, <1>2 DEF BankingInv, RequestsSound

LEMMA NoAccountIsOne == NoAccount \in AccountRecord
BY DEF NoAccount, AccountRecord

LEMMA AskKeeps ==
  ASSUME BankingInv, NEW x \in Clients, Ask(x), UNCHANGED <<deployed, ckpt, delivered, commands>>
  PROVE  BankingInv'
<1>1. PICK op \in {"deposit", "withdraw", "close"}, a \in Accounts, n \in Amounts :
        /\ Allows(op, bank.accounts[a], n)
        /\ requests' = [requests EXCEPT ![x] =
             [status |-> "loaded", op |-> op, account |-> a, amount |-> IF op = "close" THEN 0 ELSE n,
              seen |-> bank.accounts[a], tries |-> 1]]
  BY DEF Ask
<1>2. PICK r : r = [status |-> "loaded", op |-> op, account |-> a, amount |-> IF op = "close" THEN 0 ELSE n,
                    seen |-> bank.accounts[a], tries |-> 1]
  OBVIOUS
<1>3. n \in Int /\ bank.accounts[a] \in AccountRecord
  BY LoadedRequest, BankingAssumption
<1>4. r \in RequestRecord
  BY <1>2, <1>3 DEF RequestRecord
<1>5. /\ r.status = "loaded" /\ r.op = op /\ r.account = a /\ r.seen = bank.accounts[a]
      /\ op # "close" => r.amount = n
  BY <1>2
<1>6. Allows(r.op, r.seen, r.amount)
  <2>1. CASE op = "close"
    BY <1>1, <1>5, <2>1 DEF Allows
  <2>2. CASE op # "close"
    BY <1>1, <1>5, <2>2
  <2> QED BY <2>1, <2>2
<1>7. r.seen.version \in Nat
  BY <1>3, <1>5, AccountFields
<1>8. Decided(bank, r)
  BY <1>5, <1>6, <1>7 DEF Decided
<1>9. requests[x].status # "done" /\ bank' = bank
  BY DEF Ask
<1>10. requests' = [requests EXCEPT ![x] = r]
  BY <1>1, <1>2
<1> QED BY <1>4, <1>5, <1>8, <1>9, <1>10, RequestKeeps

LEMMA RetryKeeps ==
  ASSUME BankingInv, NEW x \in Clients, Retry(x), UNCHANGED <<deployed, ckpt, delivered, commands>>
  PROVE  BankingInv'
<1>1. PICK q : q = requests[x]
  OBVIOUS
<1>2. q \in RequestRecord /\ Decided(bank, q) /\ requests \in [Clients -> RequestRecord]
  BY <1>1, LoadedRequest
<1>3. /\ q.status = "loaded" /\ Allows(q.op, bank.accounts[q.account], q.amount) /\ bank' = bank
      /\ requests' = [requests EXCEPT ![x].seen = bank.accounts[q.account], ![x].tries = @ + 1]
  BY <1>1 DEF Retry
<1>4. q.account \in Accounts /\ q.op \in {"deposit", "withdraw", "close"}
  BY <1>2, <1>3 DEF Decided
<1>5. PICK s : s = bank.accounts[q.account]
  OBVIOUS
<1>6. s \in AccountRecord
  BY <1>4, <1>5, LoadedRequest
<1>7. PICK r : r = [q EXCEPT !.seen = s, !.tries = @ + 1]
  OBVIOUS
<1>8. q.tries + 1 \in Nat
  BY <1>2, RequestFields
<1>9. r \in RequestRecord
  BY <1>2, <1>6, <1>7, <1>8 DEF RequestRecord
<1>10. r.status = "loaded" /\ r.op = q.op /\ r.account = q.account /\ r.amount = q.amount /\ r.seen = s
  BY <1>2, <1>3, <1>7 DEF RequestRecord
<1>11. Decided(bank, r)
  <2>1. s.version \in Nat
    BY <1>6, AccountFields
  <2> QED BY <1>3, <1>4, <1>5, <1>10, <2>1 DEF Decided
<1>12. requests' = [requests EXCEPT ![x] = r]
  BY <1>1, <1>2, <1>3, <1>5, <1>7 DEF RequestRecord
<1> QED BY <1>1, <1>3, <1>9, <1>10, <1>11, <1>12, RequestKeeps

LEMMA RejectKeeps ==
  ASSUME BankingInv, NEW x \in Clients, Reject(x), UNCHANGED <<deployed, ckpt, delivered, commands>>
  PROVE  BankingInv'
<1>1. PICK q : q = requests[x]
  OBVIOUS
<1>2. q \in RequestRecord
  BY <1>1, LoadedRequest
<1>3. PICK r : r = [q EXCEPT !.status = "rejected", !.seen = NoAccount]
  OBVIOUS
<1>4. r \in RequestRecord /\ r.status = "rejected"
  BY <1>2, <1>3, NoAccountIsOne DEF RequestRecord
<1>5. Decided(bank, r)
  BY <1>4 DEF Decided
<1>6. q.status = "loaded" /\ bank' = bank /\ requests' = [requests EXCEPT ![x] = r]
  BY <1>1, <1>3 DEF Reject, Answer
<1> QED BY <1>1, <1>4, <1>5, <1>6, RequestKeeps

\* The account a decided request leaves.
LEMMA AfterIs ==
  ASSUME NEW account \in AccountRecord, AccountSound(account), NEW n \in Int,
         NEW op \in {"deposit", "withdraw", "close"}, Allows(op, account, n),
         NEW m, m = After(op, account, n)
  PROVE  /\ m \in AccountRecord /\ AccountSound(m) /\ m.version > account.version /\ m.opening = account.opening
         /\ op = "deposit" => m.balance = account.balance + n
         /\ op = "withdraw" => m.balance = account.balance - n
         /\ op = "close" => m.balance = account.balance
<1>1. account.version \in Nat /\ account.balance \in Nat /\ account.opening \in Nat /\ account.closed \in BOOLEAN
  BY AccountFields
<1>2. ASSUME op = "deposit" \/ op = "withdraw", NEW k \in Int, account.balance + k >= 0, ~account.closed,
             m = Moved(account, k, 1)
      PROVE  /\ m \in AccountRecord /\ AccountSound(m) /\ m.version > account.version
             /\ m.opening = account.opening /\ m.balance = account.balance + k
  <2>1. account.balance + k \in Nat /\ account.version + 1 \in Nat
    BY <1>1, <1>2
  <2>2. m = [account EXCEPT !.balance = account.balance + k, !.version = account.version + 1]
    BY <1>2 DEF Moved
  <2>3. /\ m \in AccountRecord /\ m.balance = account.balance + k /\ m.version = account.version + 1
        /\ m.opening = account.opening /\ m.closed = account.closed
    BY <2>1, <2>2 DEF AccountRecord
  <2> QED BY <1>1, <1>2, <2>3 DEF AccountSound
<1>3. CASE op = "deposit"
  <2>1. ~account.closed /\ n > 0 /\ m = Moved(account, n, 1)
    BY <1>3 DEF Allows, CanDeposit, After
  <2>2. account.balance + n >= 0
    BY <1>1, <2>1
  <2> QED BY <1>2, <1>3, <2>1, <2>2
<1>4. CASE op = "withdraw"
  <2>1. ~account.closed /\ account.balance >= n /\ m = Moved(account, 0 - n, 1)
    BY <1>4 DEF Allows, CanWithdraw, After
  <2>2. 0 - n \in Int /\ account.balance + (0 - n) >= 0 /\ account.balance + (0 - n) = account.balance - n
    BY <1>1, <2>1
  <2> QED BY <1>2, <1>4, <2>1, <2>2
<1>5. CASE op = "close"
  <2>1. account.balance = 0 /\ m = [account EXCEPT !.closed = TRUE, !.version = @ + 1]
    BY <1>5 DEF Allows, CanClose, After
  <2>2. account.version + 1 \in Nat
    BY <1>1
  <2>3. /\ m \in AccountRecord /\ m.version = account.version + 1 /\ m.opening = account.opening
        /\ m.balance = account.balance
    BY <2>1, <2>2 DEF AccountRecord
  <2> QED BY <1>1, <1>5, <2>1, <2>3 DEF AccountSound
<1> QED BY <1>3, <1>4, <1>5

LEMMA SaveKeeps ==
  ASSUME BankingInv, NEW x \in Clients, Save(x), UNCHANGED <<deployed, ckpt, delivered, commands>>
  PROVE  BankingInv'
<1>1. PICK q : q = requests[x]
  OBVIOUS
<1>2. q \in RequestRecord /\ Decided(bank, q) /\ requests \in [Clients -> RequestRecord] /\ bank \in BankRecord
  BY <1>1, LoadedRequest
<1>3. PICK a : a = q.account
  OBVIOUS
<1>4. /\ q.status = "loaded" /\ bank.accounts[a].version = q.seen.version
      /\ bank' = [bank EXCEPT !.accounts[a] = After(q.op, q.seen, q.amount)]
      /\ requests' = [requests EXCEPT ![x] = [q EXCEPT !.status = "done", !.seen = NoAccount]]
  BY <1>1, <1>3 DEF Save, Unchanged, Answer
<1>5. a \in Accounts /\ q.op \in {"deposit", "withdraw", "close"} /\ Allows(q.op, bank.accounts[a], q.amount)
      /\ q.seen = bank.accounts[a]
  BY <1>2, <1>3, <1>4 DEF Decided
<1>6. q.amount \in Int
  BY <1>2, RequestFields
<1>7. PICK s : s = bank.accounts[a]
  OBVIOUS
<1>8. PICK m : m = After(q.op, s, q.amount)
  OBVIOUS
<1>9. s \in AccountRecord /\ AccountSound(s)
  BY <1>5, <1>7, LoadedRequest DEF BankingInv, Sound
<1>10. /\ m \in AccountRecord /\ AccountSound(m) /\ m.version > s.version /\ m.opening = s.opening
       /\ q.op = "deposit" => m.balance = s.balance + q.amount
       /\ q.op = "withdraw" => m.balance = s.balance - q.amount
       /\ q.op = "close" => m.balance = s.balance
  BY <1>5, <1>6, <1>7, <1>8, <1>9, AfterIs
<1>11. Sound(bank) /\ bank' = [bank EXCEPT !.accounts[a] = m]
  BY <1>4, <1>5, <1>7, <1>8 DEF BankingInv
<1>12. /\ Sound(bank') /\ Grown(bank, bank') /\ NothingMoves(bank, bank')
       /\ Held(bank') = Held(bank) - s.balance + m.balance + s.opening - m.opening
  BY <1>5, <1>7, <1>10, <1>11, AccountReplaced
<1>13. PICK r : r = [q EXCEPT !.status = "done", !.seen = NoAccount]
  OBVIOUS
<1>14. r \in RequestRecord /\ r.status = "done" /\ r.op = q.op /\ r.amount = q.amount
  BY <1>2, <1>13, NoAccountIsOne DEF RequestRecord
<1>15. PICK qs : qs = requests'
  OBVIOUS
<1>16. qs \in [Clients -> RequestRecord] /\ qs[x] = r /\ \A c \in Clients \ {x} : qs[c] = requests[c]
  BY <1>2, <1>4, <1>13, <1>14, <1>15
<1>17. ASSUME NEW op
       PROVE  TotalOf(qs, op) = IF op = q.op THEN TotalOf(requests, op) + q.amount ELSE TotalOf(requests, op)
  <2>1. requests[x].status # "done" /\ requests[x].op = r.op /\ requests[x].amount = r.amount
    BY <1>1, <1>4, <1>14
  <2>2. /\ r.status = "done" /\ r.op = op => TotalOf(qs, op) = TotalOf(requests, op) + r.amount
        /\ ~(r.status = "done" /\ r.op = op) => TotalOf(qs, op) = TotalOf(requests, op)
    BY <1>2, <1>14, <1>16, <2>1, OneAnswer
  <2> QED BY <1>14, <2>2
<1>18. RequestsSound(bank', qs)
  <2>1. bank' \in BankRecord
    BY <1>12 DEF Sound
  <2>2. RequestsSound(bank', requests)
    BY <1>2, <1>12, <2>1, RequestsStay DEF BankingInv
  <2>3. Decided(bank', r)
    BY <1>14 DEF Decided
  <2> QED BY <1>16, <2>2, <2>3 DEF RequestsSound
<1>19. Held(bank') = TotalOf(qs, "deposit") - TotalOf(qs, "withdraw")
  <2>1. Held(bank) = TotalOf(requests, "deposit") - TotalOf(requests, "withdraw")
    BY DEF BankingInv
  <2>2. TotalOf(requests, "deposit") \in Int /\ TotalOf(requests, "withdraw") \in Int
    BY <1>2, TotalType
  <2>3. s.balance \in Int /\ s.opening \in Int /\ m.balance \in Int /\ m.opening \in Int
    BY <1>9, <1>10, AccountFields
  <2>4. /\ TotalOf(qs, "deposit") = IF q.op = "deposit" THEN TotalOf(requests, "deposit") + q.amount
                                     ELSE TotalOf(requests, "deposit")
        /\ TotalOf(qs, "withdraw") = IF q.op = "withdraw" THEN TotalOf(requests, "withdraw") + q.amount
                                      ELSE TotalOf(requests, "withdraw")
    BY <1>17
  <2>5. Held(bank') = Held(bank) - s.balance + m.balance
    BY <1>10, <1>12, <2>1, <2>2, <2>3
  <2> QED BY <1>5, <1>6, <1>10, <2>1, <2>2, <2>3, <2>4, <2>5
<1>20. bank' \in BankRecord
  BY <1>12 DEF Sound
<1> QED BY <1>12, <1>15, <1>18, <1>19, <1>20, ChainStays DEF BankingInv

-----------------------------------------------------------------------------
(* The chains.                                                             *)

\* A step of a chain moves money on its way, and leaves requests alone.
LEMMA ChainMoves ==
  ASSUME BankingInv, Sound(bank'), Grown(bank, bank'), Held(bank') = Held(bank), UNCHANGED requests
  PROVE  /\ RequestsSound(bank', requests')
         /\ Held(bank') = TotalOf(requests', "deposit") - TotalOf(requests', "withdraw")
<1>1. bank \in BankRecord /\ bank' \in BankRecord /\ RequestsSound(bank, requests)
  BY DEF BankingInv, Sound
<1>2. RequestsSound(bank', requests)
  BY <1>1, RequestsStay
<1> QED BY <1>2 DEF BankingInv

LEMMA CatchUpKeeps ==
  ASSUME BankingInv, "projections" \in deployed, NEW p \in Projections, CatchUp(p), UNCHANGED <<deployed, requests>>
  PROVE  BankingInv'
<1>1. Sound(bank) /\ bank \in BankRecord /\ ckpt \in [Projections -> Nat] /\ \A q \in Projections : CaughtUp(q)
  BY DEF BankingInv, Sound
<1>2. ckpt[p] \in Nat
  BY <1>1
<1>3. PICK m : m = Max(Window(p))
  OBVIOUS
<1>4. Window(p) # {} /\ bank' \in Outcomes(p) /\ ckpt' = [ckpt EXCEPT ![p] = m]
  BY <1>3 DEF CatchUp
<1>5. m \in Window(p) /\ (\A i \in Window(p) : i <= m) /\ m \in Nat /\ m > ckpt[p] /\ Window(p) \subseteq DOMAIN bank.log
  BY <1>1, <1>3, <1>4, WindowIs
<1>6. Midway(p, bank', Len(bank.log))
  BY <1>1, <1>2, <1>4, OutcomesWork
<1>7. Sound(bank') /\ Held(bank') = Held(bank) /\ bank' \in BankRecord /\ Follows(bank, bank')
  BY <1>6 DEF Midway, Sound
<1>8. Grown(bank, bank')
  BY <1>1, <1>7, FollowsIsGrown
<1>9. ckpt' \in [Projections -> Nat] /\ ckpt'[p] = m /\ \A q \in Projections \ {p} : ckpt'[q] = ckpt[q]
  BY <1>1, <1>4, <1>5
<1>10. \A q \in Projections : Makes(q) \in Moving \cup {"none"} /\ (q # p => Makes(q) # Makes(p))
  BY DEF Projections, Makes, Moving
<1>11. ASSUME NEW q \in Projections \ {p} PROVE CaughtUp(q)'
  <2>1. ASSUME NEW t \in Transfers, Logged(bank', Makes(q), t) PROVE Logged(bank, Makes(q), t)
    <3>1. Makes(q) # "none"
      BY <1>7, <2>1, NothingIsMade
    <3> QED BY <1>6, <1>10, <2>1, <3>1 DEF Midway
  <2>2. ckpt[q] \in Nat /\ ckpt'[q] = ckpt[q] /\ CaughtUp(q)
    BY <1>1, <1>9
  <2> QED BY <1>1, <1>7, <1>8, <2>1, <2>2, CaughtUpStays
<1>12. CaughtUp(p)'
  <2> SUFFICES ASSUME NEW t \in Transfers, Logged(bank', Makes(p), t)
               PROVE  \E i \in DOMAIN bank'.log : i <= m /\ Is(bank'.log[i], Takes(p), t)
    BY <1>9 DEF CaughtUp, Takes, Makes
  <2>1. Makes(p) # "none"
    BY <1>7, NothingIsMade
  <2>2. PICK i \in DOMAIN bank.log : i <= m /\ Is(bank.log[i], Takes(p), t)
    <3>1. CASE Logged(bank, Makes(p), t)
      <4>1. PICK i \in DOMAIN bank.log : i <= ckpt[p] /\ Is(bank.log[i], Takes(p), t)
        BY <1>1, <3>1 DEF CaughtUp
      <4>2. i \in Nat
        BY <1>1, BankFields
      <4>3. i <= m
        BY <1>2, <1>5, <4>1, <4>2
      <4> QED BY <4>1, <4>3
    <3>2. CASE ~Logged(bank, Makes(p), t)
      <4>1. PICK j \in Window(p) : Is(bank.log[j], Takes(p), t)
        BY <1>6, <1>10, <2>1, <3>2 DEF Midway
      <4> QED BY <1>5, <4>1
    <3> QED BY <3>1, <3>2
  <2> QED BY <1>8, <2>2 DEF Grown, Is
<1>13. ~("saga" \in deployed) /\ deployed' = deployed
  BY DEF BankingInv
<1> QED BY <1>7, <1>8, <1>9, <1>11, <1>12, <1>13, ChainMoves DEF BankingInv

\* A step of the saga that leaves the bank as it is.
LEMMA QueueKeeps ==
  ASSUME BankingInv, "saga" \in deployed, CommandsSound(bank, delivered', commands'), UNCHANGED <<deployed, bank, requests>>
  PROVE  BankingInv'
<1>1. ~("projections" \in deployed) /\ deployed' = deployed
  BY DEF BankingInv
<1>2. TotalOf(requests', "deposit") = TotalOf(requests, "deposit") /\ TotalOf(requests', "withdraw") = TotalOf(requests, "withdraw")
  OBVIOUS
<1> QED BY <1>1, <1>2 DEF BankingInv

\* The queue with one command more, or with commands of the other kinds.
LEMMA CommandAdded ==
  ASSUME NEW b, NEW ds, NEW cs, CommandsSound(b, ds, cs), NEW es, ds \subseteq es, es \subseteq DOMAIN b.log,
         NEW d \in CommandRecord,
         Withdraws(d) =>
           /\ \A c \in cs : ~(Withdraws(c) /\ c.transfer = d.transfer)
           /\ \E i \in es : Is(b.log[i], "TransactionStarted", d.transfer)
           /\ ~Logged(b, "WithdrawalCompleted", d.transfer)
  PROVE  CommandsSound(b, es, cs \cup {d})
<1> DEFINE ks == cs \cup {d}
<1>1. ks \subseteq CommandRecord
  BY DEF CommandsSound
<1>2. \A c, e \in ks : Withdraws(c) /\ Withdraws(e) /\ c.transfer = e.transfer => c = e
  BY DEF CommandsSound
<1>3. \A c \in ks : Withdraws(c) =>
        /\ \E i \in es : Is(b.log[i], "TransactionStarted", c.transfer)
        /\ c.status = "pending" => ~Logged(b, "WithdrawalCompleted", c.transfer)
  BY DEF CommandsSound
<1>4. \A t \in Transfers : Logged(b, "WithdrawalCompleted", t) => \E c \in ks : Withdraws(c) /\ c.transfer = t
  BY DEF CommandsSound
<1> HIDE DEF ks
<1>5. CommandsSound(b, es, ks)
  BY <1>1, <1>2, <1>3, <1>4 DEF CommandsSound
<1> QED BY <1>5 DEF ks

LEMMA DeliverKeeps ==
  ASSUME BankingInv, "saga" \in deployed, NEW i \in DOMAIN bank.log, Deliver(i), UNCHANGED <<deployed, requests>>
  PROVE  BankingInv'
<1>1. PICK e : e = bank.log[i]
  OBVIOUS
<1>2. PICK t : t = e.transfer
  OBVIOUS
<1>3. Sound(bank) /\ bank \in BankRecord /\ CommandsSound(bank, delivered, commands)
  BY DEF BankingInv, Sound
<1>4. e \in Entry /\ t \in Transfers
  BY <1>1, <1>2, <1>3, BankFields, EntryFields
<1>5. e.enqueued /\ i \notin delivered /\ delivered' = delivered \cup {i} /\ bank' = bank
  BY <1>1 DEF Deliver
<1>6. e.type = "TransactionStarted"
  BY <1>1, <1>3, <1>5 DEF Sound, LogSound
<1>7. PICK d : d = [type |-> "WithdrawFromAccount", transfer |-> t, attempts |-> 0, status |-> "pending"]
  OBVIOUS
<1>8. commands' = commands \/ commands' = commands \cup {d}
  <2>1. ASSUME NEW instance, Applied(t, instance, ReactToEvent(e.type, instance.step, timers[t]), i)
        PROVE  commands' = commands \cup {d}
    <3>1. PICK reaction : reaction = ReactToEvent(e.type, instance.step, timers[t])
      OBVIOUS
    <3>2. reaction.emits = {"WithdrawFromAccount"}
      BY <1>6, <3>1 DEF ReactToEvent, Reaction
    <3>3. commands' = commands \cup
            {[type |-> c, transfer |-> t, attempts |-> 0, status |-> "pending"] : c \in reaction.emits}
      BY <2>1, <3>1 DEF Applied
    <3>4. {[type |-> c, transfer |-> t, attempts |-> 0, status |-> "pending"] : c \in {"WithdrawFromAccount"}} = {d}
      BY <1>7
    <3> QED BY <3>2, <3>3, <3>4
  <2>2. \/ Applied(t, InstanceFor(t, e.type), ReactToEvent(e.type, InstanceFor(t, e.type).step, timers[t]), i)
        \/ commands' = commands
    BY <1>1, <1>2 DEF Deliver
  <2> QED BY <2>1, <2>2
<1>9. delivered \subseteq delivered' /\ delivered' \subseteq DOMAIN bank.log
  BY <1>3, <1>5 DEF CommandsSound
<1>10. Is(bank.log[i], "TransactionStarted", t)
  BY <1>1, <1>2, <1>6 DEF Is
<1>11. \A c \in commands : ~(Withdraws(c) /\ c.transfer = t)
  <2> SUFFICES ASSUME NEW c \in commands, Withdraws(c), c.transfer = t PROVE FALSE
    OBVIOUS
  <2>1. PICK j \in delivered : Is(bank.log[j], "TransactionStarted", t) /\ j \in DOMAIN bank.log
    BY <1>3 DEF CommandsSound
  <2>2. j = i
    BY <1>1, <1>2, <1>3, <1>6, <1>10, <2>1 DEF Sound, LogSound, Moving
  <2> QED BY <1>5, <2>1, <2>2
<1>12. ~Logged(bank, "WithdrawalCompleted", t)
  BY <1>3, <1>4, <1>11 DEF CommandsSound
<1>13. d \in CommandRecord /\ d.transfer = t
  BY <1>4, <1>7 DEF CommandRecord
<1>14. CommandsSound(bank, delivered', commands')
  <2>1. CASE commands' = commands
    <3>1. \A c \in commands : Withdraws(c) => \E j \in delivered' : Is(bank.log[j], "TransactionStarted", c.transfer)
      BY <1>3, <1>9 DEF CommandsSound
    <3> QED BY <1>3, <1>9, <2>1, <3>1 DEF CommandsSound
  <2>2. CASE commands' = commands \cup {d}
    <3>1. CommandsSound(bank, delivered', commands \cup {d})
      BY <1>3, <1>5, <1>9, <1>10, <1>11, <1>12, <1>13, CommandAdded
    <3> QED BY <2>2, <3>1
  <2> QED BY <1>8, <2>1, <2>2
<1> QED BY <1>5, <1>14, QueueKeeps

LEMMA FireKeeps ==
  ASSUME BankingInv, "saga" \in deployed, NEW t \in Transfers, Fire(t), UNCHANGED <<deployed, requests>>
  PROVE  BankingInv'
<1>1. CommandsSound(bank, delivered, commands) /\ bank' = bank /\ delivered' = delivered
  BY DEF BankingInv, Fire
<1>2. PICK d : d = [type |-> "FailTransaction", transfer |-> t, attempts |-> 0, status |-> "pending"]
  OBVIOUS
<1>3. commands' = commands \/ commands' = commands \cup {d}
  <2>1. ASSUME Applied(t, sagas[t], ReactToTimer(sagas[t].step), sagas[t].lastPos)
        PROVE  commands' = commands \cup {d}
    <3>1. PICK reaction : reaction = ReactToTimer(sagas[t].step)
      OBVIOUS
    <3>2. reaction.emits = {"FailTransaction"}
      BY <3>1 DEF ReactToTimer, Reaction
    <3>3. commands' = commands \cup
            {[type |-> c, transfer |-> t, attempts |-> 0, status |-> "pending"] : c \in reaction.emits}
      BY <2>1, <3>1 DEF Applied
    <3>4. {[type |-> c, transfer |-> t, attempts |-> 0, status |-> "pending"] : c \in {"FailTransaction"}} = {d}
      BY <1>2
    <3> QED BY <3>2, <3>3, <3>4
  <2> QED BY <2>1 DEF Fire
<1>4. d \in CommandRecord /\ ~Withdraws(d)
  BY <1>2 DEF CommandRecord, Withdraws
<1>5. delivered \subseteq DOMAIN bank.log
  BY <1>1 DEF CommandsSound
<1>6. CommandsSound(bank, delivered, commands \cup {d})
  BY <1>1, <1>4, <1>5, CommandAdded
<1>7. CommandsSound(bank, delivered', commands')
  BY <1>1, <1>3, <1>6
<1> QED BY <1>1, <1>7, QueueKeeps

\* A command that was tried takes its own place.
LEMMA CommandReplaced ==
  ASSUME NEW b, NEW w, Grown(b, w), NEW ds, NEW cs, CommandsSound(b, ds, cs), NEW c \in cs,
         NEW d \in CommandRecord, d.type = c.type, d.transfer = c.transfer,
         \A t \in Transfers : Logged(w, "WithdrawalCompleted", t) =>
           Logged(b, "WithdrawalCompleted", t) \/ (Withdraws(c) /\ t = c.transfer),
         Withdraws(d) /\ d.status = "pending" => ~Logged(w, "WithdrawalCompleted", d.transfer)
  PROVE  CommandsSound(w, ds, (cs \ {c}) \cup {d})
<1> DEFINE ks == (cs \ {c}) \cup {d}
<1>1. ks \subseteq CommandRecord /\ \A e \in cs : e.transfer \in Transfers
  BY DEF CommandsSound, CommandRecord
<1>2. Withdraws(d) <=> Withdraws(c)
  BY DEF Withdraws
<1>3. \A i \in ds : i \in DOMAIN w.log /\ w.log[i].type = b.log[i].type /\ w.log[i].transfer = b.log[i].transfer
  BY DEF CommandsSound, Grown
<1>4. \A e, f \in ks : Withdraws(e) /\ Withdraws(f) /\ e.transfer = f.transfer => e = f
  BY <1>2 DEF CommandsSound
<1>5. \A e \in cs : Withdraws(e) => \E i \in ds : Is(w.log[i], "TransactionStarted", e.transfer)
  BY <1>3 DEF CommandsSound, Is
<1>6. ASSUME NEW e \in ks, Withdraws(e)
      PROVE  /\ \E i \in ds : Is(w.log[i], "TransactionStarted", e.transfer)
             /\ e.status = "pending" => ~Logged(w, "WithdrawalCompleted", e.transfer)
  <2>1. CASE e = d
    BY <1>2, <1>5, <1>6, <2>1
  <2>2. CASE e # d
    <3>1. e \in cs /\ e # c
      BY <2>2
    <3>2. ~(Withdraws(c) /\ e.transfer = c.transfer)
      BY <1>6, <3>1 DEF CommandsSound
    <3>3. e.status = "pending" => ~Logged(b, "WithdrawalCompleted", e.transfer)
      BY <1>6, <3>1 DEF CommandsSound
    <3> QED BY <1>1, <1>5, <1>6, <3>1, <3>2, <3>3
  <2> QED BY <2>1, <2>2
<1>7. ASSUME NEW t \in Transfers, Logged(w, "WithdrawalCompleted", t)
      PROVE  \E e \in ks : Withdraws(e) /\ e.transfer = t
  <2>1. CASE Withdraws(c) /\ t = c.transfer
    BY <1>2, <2>1
  <2>2. CASE ~(Withdraws(c) /\ t = c.transfer)
    <3>1. PICK e \in cs : Withdraws(e) /\ e.transfer = t
      BY <1>7, <2>2 DEF CommandsSound
    <3> QED BY <2>2, <3>1
  <2> QED BY <2>1, <2>2
<1> HIDE DEF ks
<1>8. CommandsSound(w, ds, ks)
  BY <1>1, <1>3, <1>4, <1>6, <1>7 DEF CommandsSound
<1> QED BY <1>8 DEF ks

LEMMA DispatchKeeps ==
  ASSUME BankingInv, "saga" \in deployed, NEW c \in commands, Dispatch(c), UNCHANGED <<deployed, requests>>
  PROVE  BankingInv'
<1>1. Sound(bank) /\ bank \in BankRecord /\ CommandsSound(bank, delivered, commands)
  BY DEF BankingInv, Sound
<1>2. PICK t : t = c.transfer
  OBVIOUS
<1>3. c \in CommandRecord
  BY <1>1 DEF CommandsSound
<1>4. t \in Transfers /\ c.type \in {"WithdrawFromAccount", "FailTransaction"} /\ c.status = "pending"
  BY <1>2, <1>3 DEF CommandRecord, Dispatch
<1>5. PICK d : d = [c EXCEPT !.status = "acked"]
  OBVIOUS
<1>6. d \in CommandRecord /\ d.type = c.type /\ d.transfer = c.transfer /\ d.status = "acked"
  BY <1>3, <1>5 DEF CommandRecord
<1>7. bank' \in HandleCommand(bank, c) /\ commands' = (commands \ {c}) \cup {d} /\ delivered' = delivered
  BY <1>5 DEF Dispatch, Becomes
<1>8. PICK type : type = IF Withdraws(c) THEN "WithdrawalCompleted" ELSE "none"
  OBVIOUS
<1>9. Worked(bank, bank', type, t)
  <2>1. CASE Withdraws(c)
    <3>1. bank' \in Withdraw(bank, t)
      BY <1>2, <1>7, <2>1 DEF HandleCommand, WithdrawFromAccount, Withdraws
    <3>2. PICK i \in delivered : Is(bank.log[i], "TransactionStarted", t) /\ i \in DOMAIN bank.log
      BY <1>1, <1>2, <2>1 DEF CommandsSound
    <3>3. Ordered(bank, t)
      BY <1>1, <3>2 DEF Sound, LogSound, Moving, Is
    <3>4. ~Logged(bank, "WithdrawalCompleted", t)
      BY <1>1, <1>2, <1>4, <2>1 DEF CommandsSound
    <3> QED BY <1>1, <1>4, <1>8, <2>1, <3>1, <3>3, <3>4, WithdrawWorks
  <2>2. CASE ~Withdraws(c)
    <3>1. bank' \in Fail(bank, t)
      BY <1>2, <1>4, <1>7, <2>2 DEF HandleCommand, FailTransaction, Withdraws
    <3> QED BY <1>1, <1>4, <1>8, <2>2, <3>1, FailWorks
  <2> QED BY <2>1, <2>2
<1>10. Sound(bank') /\ Held(bank') = Held(bank) /\ Follows(bank, bank') /\ Adds(bank, bank', type, t) /\ bank' \in BankRecord
  BY <1>9 DEF Worked, Sound
<1>11. Grown(bank, bank')
  BY <1>1, <1>10, FollowsIsGrown
<1>12. \A u \in Transfers : Logged(bank', "WithdrawalCompleted", u) =>
         Logged(bank, "WithdrawalCompleted", u) \/ (Withdraws(c) /\ u = c.transfer)
  BY <1>2, <1>8, <1>10 DEF Adds, Moving
<1>13. CommandsSound(bank', delivered', commands')
  <2>1. CommandsSound(bank', delivered, (commands \ {c}) \cup {d})
    BY <1>1, <1>6, <1>11, <1>12, CommandReplaced
  <2> QED BY <1>7, <2>1
<1>14. ~("projections" \in deployed) /\ deployed' = deployed
  BY DEF BankingInv
<1> QED BY <1>10, <1>11, <1>13, <1>14, ChainMoves DEF BankingInv

LEMMA DispatchFailsKeeps ==
  ASSUME BankingInv, "saga" \in deployed, NEW c \in commands, DispatchFails(c), UNCHANGED <<deployed, requests>>
  PROVE  BankingInv'
<1>1. bank \in BankRecord /\ CommandsSound(bank, delivered, commands)
  BY DEF BankingInv, Sound
<1>2. c \in CommandRecord
  BY <1>1 DEF CommandsSound
<1>3. PICK d : d = [c EXCEPT !.attempts = @ + 1,
                             !.status = IF c.attempts + 1 >= MaxDispatches THEN "failed" ELSE "pending"]
  OBVIOUS
<1>4. c.attempts + 1 \in Nat
  BY <1>2 DEF CommandRecord
<1>5. d \in CommandRecord /\ d.type = c.type /\ d.transfer = c.transfer
  BY <1>2, <1>3, <1>4 DEF CommandRecord
<1>6. /\ c.status = "pending" /\ bank' = bank /\ delivered' = delivered
      /\ commands' = (commands \ {c}) \cup {d}
  BY <1>3 DEF DispatchFails, Becomes
<1>7. Withdraws(d) => ~Logged(bank, "WithdrawalCompleted", d.transfer)
  BY <1>1, <1>5, <1>6 DEF CommandsSound, Withdraws
<1>8. Grown(bank, bank)
  BY DEF Grown
<1>9. CommandsSound(bank, delivered, (commands \ {c}) \cup {d})
  BY <1>1, <1>5, <1>7, <1>8, CommandReplaced
<1>10. CommandsSound(bank, delivered', commands')
  BY <1>6, <1>9
<1> QED BY <1>6, <1>10, QueueKeeps

-----------------------------------------------------------------------------
(* The banking examples.                                                   *)

LEMMA BankingKeeps ==
  ASSUME BankingInv, BankingNext, UNCHANGED deployed
  PROVE  BankingInv'
<1>1. CASE UNCHANGED <<projecting, orchestrating>> /\ ApiStep
  <2>1. UNCHANGED <<deployed, ckpt, delivered, commands>>
    BY <1>1 DEF projecting, orchestrating
  <2>2. ASSUME NEW o \in Openings, Open(o) \/ OpenWithStream(o) PROVE BankingInv'
    <3>1. o.account \in Accounts /\ o.amount \in Nat
      BY BankingAssumption
    <3>2. Start(o.account, 1, o.amount) \/ Start(o.account, 2, o.amount)
      BY <2>2 DEF Open, OpenWithStream
    <3>3. 1 \in Nat /\ 1 > 0 /\ 2 \in Nat /\ 2 > 0
      OBVIOUS
    <3> QED BY <2>1, <3>1, <3>2, <3>3, StartKeeps
  <2>3. ASSUME NEW o \in Orders, PostTransfer(o) PROVE BankingInv'
    BY <2>1, <2>3, PostKeeps
  <2>4. ASSUME NEW x \in Clients, Ask(x) \/ Save(x) \/ Retry(x) \/ Reject(x) PROVE BankingInv'
    BY <2>1, <2>4, AskKeeps, SaveKeeps, RetryKeeps, RejectKeeps
  <2> QED BY <1>1, <2>2, <2>3, <2>4 DEF ApiStep
<1>2. ASSUME UNCHANGED orchestrating, NEW i \in DOMAIN bank.log, CommitTransfer(i), Arrives(i) PROVE BankingInv'
  <2>1. UNCHANGED <<deployed, ckpt, delivered, commands>>
    BY <1>2 DEF orchestrating, Arrives
  <2> QED BY <1>2, <2>1, CommitKeeps
<1>3. ASSUME "projections" \in deployed, UNCHANGED <<requests, orchestrating>>, NEW p \in Projections, CatchUp(p)
      PROVE  BankingInv'
  BY <1>3, CatchUpKeeps
<1>4. ASSUME "saga" \in deployed, UNCHANGED <<requests, projecting>>, SagaStep PROVE BankingInv'
  BY <1>4, DeliverKeeps, FireKeeps, DispatchKeeps, DispatchFailsKeeps DEF SagaStep
<1> QED BY <1>1, <1>2, <1>3, <1>4 DEF BankingNext, BankingBackground

LEMMA SumOfNothing ==
  ASSUME NEW S, IsFiniteSet(S), NEW f \in [S -> Int], \A x \in S : f[x] = 0
  PROVE  SumOf(f) = 0
<1>1. PICK g : g = [s \in SUBSET S |-> 0]
  OBVIOUS
<1>2. g \in [SUBSET S -> Int] /\ \A s \in SUBSET S : g[s] = 0
  BY <1>1
<1>3. SumsOf(f, g)
  <2>1. DOMAIN f = S
    OBVIOUS
  <2>2. g[{}] = 0
    BY <1>2
  <2>3. ASSUME NEW s \in SUBSET S, NEW x \in s PROVE g[s] = f[x] + g[s \ {x}]
    <3>1. g[s] = 0 /\ f[x] = 0 /\ g[s \ {x}] = 0
      BY <1>2
    <3> QED BY <3>1
  <2> QED BY <1>2, <2>1, <2>2, <2>3 DEF SumsOf
<1>4. SumOf(f) = g[S]
  BY <1>3, SumIsSums
<1> QED BY <1>2, <1>4

LEMMA EmptyBankIsSound == Sound(EmptyBank) /\ Held(EmptyBank) = 0
<1> DEFINE b == EmptyBank
<1>1. /\ b.accounts = [a \in Accounts |-> NoAccount] /\ b.transactions = [t \in Transfers |-> NoTransaction]
      /\ b.log = <<>>
  BY DEF EmptyBank
<1>2. b \in BankRecord
  <2>1. NoTransaction \in TransactionRecord
    BY DEF NoTransaction, TransactionRecord
  <2>2. [a \in Accounts |-> NoAccount] \in [Accounts -> AccountRecord]
    BY NoAccountIsOne
  <2>3. [t \in Transfers |-> NoTransaction] \in [Transfers -> TransactionRecord]
    BY <2>1
  <2>4. <<>> \in Seq(Entry)
    OBVIOUS
  <2> QED BY <2>2, <2>3, <2>4 DEF EmptyBank, BankRecord
<1>3. \A a \in Accounts : b.accounts[a].balance = 0 /\ b.accounts[a].opening = 0 /\ b.accounts[a].closed = FALSE
  <2>1. \A a \in Accounts : b.accounts[a] = NoAccount
    BY <1>1
  <2>2. NoAccount.balance = 0 /\ NoAccount.opening = 0 /\ NoAccount.closed = FALSE
    BY DEF NoAccount
  <2> HIDE DEF b
  <2> QED BY <2>1, <2>2
<1>4. DOMAIN b.log = {}
  BY <1>1
<1> HIDE DEF b
<1>5. Sound(b)
  BY <1>2, <1>3, <1>4 DEF Sound, AccountSound, LogSound, Logged
<1>6. Balances(b) = 0
  <2>1. PICK f : f = [a \in Accounts |-> b.accounts[a].balance]
    OBVIOUS
  <2>2. f \in [Accounts -> Int] /\ \A a \in Accounts : f[a] = 0
    BY <1>3, <2>1
  <2>3. SumOf(f) = 0
    BY <2>2, BankingAssumption, SumOfNothing
  <2> QED BY <2>1, <2>3 DEF Balances
<1>7. PaidIn(b) = 0
  <2>1. PICK f : f = [a \in Accounts |-> b.accounts[a].opening]
    OBVIOUS
  <2>2. f \in [Accounts -> Int] /\ \A a \in Accounts : f[a] = 0
    BY <1>3, <2>1
  <2>3. SumOf(f) = 0
    BY <2>2, BankingAssumption, SumOfNothing
  <2> QED BY <2>1, <2>3 DEF PaidIn
<1>8. Travelling(b) = 0
  <2>1. InTransit(b) = {}
    BY <1>4 DEF InTransit, Debited, Happened
  <2>2. PICK f : f = [t \in InTransit(b) |-> b.transactions[t].amount]
    OBVIOUS
  <2>3. f \in [InTransit(b) -> Int]
    BY <2>1, <2>2
  <2>4. SumOf(f) = 0
    BY <2>1, <2>3, SumEmpty
  <2> QED BY <2>2, <2>4 DEF Travelling
<1> QED BY <1>5, <1>6, <1>7, <1>8 DEF Held, b

LEMMA BankingStarts ==
  ASSUME deployed \in Deployments, BankingInit
  PROVE  BankingInv
<1>1. bank = EmptyBank /\ requests = [c \in Clients |-> Idle]
  BY DEF BankingInit, ApiInit
<1>2. Sound(bank) /\ Held(bank) = 0 /\ DOMAIN bank.log = {}
  BY <1>1, EmptyBankIsSound DEF EmptyBank
<1>3. Idle \in RequestRecord /\ Idle.status = "idle"
  BY NoAccountIsOne DEF Idle, RequestRecord
<1>4. requests \in [Clients -> RequestRecord] /\ \A c \in Clients : requests[c].status = "idle"
  BY <1>1, <1>3
<1>5. RequestsSound(bank, requests)
  BY <1>4 DEF RequestsSound, Decided
<1>6. ASSUME NEW op PROVE TotalOf(requests, op) = 0
  <2>1. PaidOf(requests, op) = {}
    BY <1>4 DEF PaidOf
  <2>2. PICK f : f = [c \in PaidOf(requests, op) |-> requests[c].amount]
    OBVIOUS
  <2>3. f \in [PaidOf(requests, op) -> Int]
    BY <2>1, <2>2
  <2>4. SumOf(f) = 0
    BY <2>1, <2>3, SumEmpty
  <2> QED BY <2>2, <2>4 DEF TotalOf
<1>7. ckpt \in [Projections -> Nat] /\ \A p \in Projections : CaughtUp(p)
  BY <1>2 DEF BankingInit, ProjectionsInit, CaughtUp, Logged
<1>8. CommandsSound(bank, delivered, commands)
  <2>1. delivered = {} /\ commands = {}
    BY DEF BankingInit, SagaInit
  <2> QED BY <1>2, <2>1 DEF CommandsSound, Logged
<1>9. ~({"projections", "saga"} \subseteq deployed)
  BY DeploymentsAssumption
<1> QED BY <1>2, <1>5, <1>6, <1>7, <1>8, <1>9 DEF BankingInv

LEMMA BankingStands ==
  ASSUME BankingInv, UNCHANGED <<deployed, bankingVars>>
  PROVE  BankingInv'
<1>1. /\ deployed' = deployed /\ bank' = bank /\ requests' = requests /\ ckpt' = ckpt
      /\ delivered' = delivered /\ commands' = commands
  BY DEF bankingVars, projecting, orchestrating
<1>2. \A p \in Projections : CaughtUp(p)' <=> CaughtUp(p)
  BY <1>1 DEF CaughtUp
<1> QED BY <1>1, <1>2 DEF BankingInv

LEMMA BankingAlways == Spec => []BankingInv
<1>1. Init => BankingInv
  BY BankingStarts DEF Init
<1>2. BankingInv /\ [Next]_vars => BankingInv'
  <2> SUFFICES ASSUME BankingInv, [Next]_vars PROVE BankingInv'
    OBVIOUS
  <2>1. CASE BankingNext /\ UNCHANGED deployed
    BY <2>1, BankingKeeps
  <2>2. CASE UNCHANGED <<deployed, bankingVars>>
    BY <2>2, BankingStands
  <2> QED BY <2>1, <2>2 DEF Next, vars
<1> QED BY <1>1, <1>2, PTL DEF Spec

(* Whatever requests, transfers and the chain that is deployed do in       *)
(* between, no account is overdrawn, and a closed one is empty.            *)
THEOREM NoAccountIsOverdrawn == Spec => []AccountsSound
<1>1. BankingInv => AccountsSound
  <2> SUFFICES ASSUME BankingInv, NEW a \in Accounts
               PROVE  bank.accounts[a].balance >= 0 /\ (bank.accounts[a].closed => bank.accounts[a].balance = 0)
    BY DEF AccountsSound
  <2>1. bank.accounts[a].balance \in Nat
    BY TermTypes DEF BankingInv, Sound
  <2>2. AccountSound(bank.accounts[a])
    BY DEF BankingInv, Sound
  <2> QED BY <2>1, <2>2 DEF AccountSound
<1> QED BY <1>1, BankingAlways, PTL

(* Money is neither made nor lost: however many accounts, transfers and    *)
(* clients there are, what the accounts hold and what is on its way is     *)
(* what was paid in less what was paid out.                                *)
THEOREM MoneyIsConserved == Spec => []MoneyConserved
<1>1. BankingInv => MoneyConserved
  <2> SUFFICES ASSUME BankingInv PROVE MoneyConserved
    OBVIOUS
  <2>1. Total("deposit") = TotalOf(requests, "deposit") /\ Total("withdraw") = TotalOf(requests, "withdraw")
    BY DEF Total, TotalOf, Paid, PaidOf
  <2>2. /\ Balances(bank) \in Int /\ Travelling(bank) \in Int /\ PaidIn(bank) \in Int
        /\ TotalOf(requests, "deposit") \in Int /\ TotalOf(requests, "withdraw") \in Int
    BY HeldTypes, TotalType DEF BankingInv, Sound, RequestsSound
  <2>3. Balances(bank) + Travelling(bank) - PaidIn(bank) = TotalOf(requests, "deposit") - TotalOf(requests, "withdraw")
    BY DEF BankingInv, Held
  <2> QED BY <2>1, <2>2, <2>3 DEF MoneyConserved
<1> QED BY <1>1, BankingAlways, PTL

-----------------------------------------------------------------------------
(* Transfers, as the abstract bank sees them.                              *)

StatusOf(b, t) == b.transactions[t].status
Taken(b) == {t \in Transfers : Logged(b, "WithdrawalCompleted", t)}
Given(b) == {t \in Transfers : Logged(b, "DepositCompleted", t)}

\* Phase, of any bank.
PhaseOf(b, t) ==
  IF t \in Given(b) THEN IF StatusOf(b, t) = "completed" THEN "completed" ELSE "given"
  ELSE IF t \in Taken(b) THEN IF StatusOf(b, t) = "failed" THEN "lost" ELSE "taken"
  ELSE CASE StatusOf(b, t) = "failed"  -> "refused"
         [] StatusOf(b, t) = "started" -> "requested"
         [] OTHER                      -> "none"

\* The status of a transfer says what has become of it.
StatusSound(b) ==
  \A t \in Transfers :
    /\ StatusOf(b, t) = "pending" <=> ~Ordered(b, t)
    /\ StatusOf(b, t) = "completed" => t \in Given(b)

SameOrder(b, c, t) ==
  /\ c.transactions[t].from = b.transactions[t].from /\ c.transactions[t].to = b.transactions[t].to
  /\ c.transactions[t].amount = b.transactions[t].amount

\* A piece of work for t leaves the orders, and gives t the status s.
Restated(b, c, t, s) ==
  \A u \in Transfers : SameOrder(b, c, u) /\ StatusOf(c, u) = IF u = t THEN s ELSE StatusOf(b, u)

\* It moves no money, or takes it from an account, or gives it to one.
MovesNothing(b, c) ==
  /\ Taken(c) = Taken(b) /\ Given(c) = Given(b)
  /\ \A a \in Accounts : c.accounts[a].balance = b.accounts[a].balance
TakesOut(b, c, t) ==
  /\ t \notin Taken(b) /\ Taken(c) = Taken(b) \cup {t} /\ Given(c) = Given(b)
  /\ \A a \in Accounts : c.accounts[a].balance =
       b.accounts[a].balance - IF a = b.transactions[t].from THEN b.transactions[t].amount ELSE 0
GivesTo(b, c, t) ==
  /\ t \notin Given(b) /\ Given(c) = Given(b) \cup {t} /\ Taken(c) = Taken(b)
  /\ \A a \in Accounts : c.accounts[a].balance =
       b.accounts[a].balance + IF a = b.transactions[t].to THEN b.transactions[t].amount ELSE 0

LEMMA StatusType ==
  ASSUME NEW b \in BankRecord, NEW t \in Transfers
  PROVE  StatusOf(b, t) \in {"pending", "started", "completed", "failed"}
<1>1. b.transactions[t] \in TransactionRecord
  BY BankFields
<1> QED BY <1>1, TransactionFields DEF StatusOf

LEMMA StatusSetIs ==
  ASSUME NEW b \in BankRecord, NEW t \in Transfers, NEW s \in {"completed", "failed"},
         NEW c, c = [b EXCEPT !.transactions[t].status = s]
  PROVE  /\ Restated(b, c, t, s) /\ c.log = b.log /\ c.accounts = b.accounts /\ c \in BankRecord
<1>1. b.transactions \in [Transfers -> TransactionRecord]
  BY BankFields
<1> DEFINE o == [b.transactions[t] EXCEPT !.status = s]
<1>2. /\ o.from = b.transactions[t].from /\ o.to = b.transactions[t].to
      /\ o.amount = b.transactions[t].amount /\ o.status = s /\ o \in TransactionRecord
  BY <1>1 DEF TransactionRecord
<1>3. c = [b EXCEPT !.transactions = [b.transactions EXCEPT ![t] = o]]
  BY DEF BankRecord
<1> HIDE DEF o
<1>4. c.accounts = b.accounts /\ c.log = b.log /\ c.transactions = [b.transactions EXCEPT ![t] = o]
  BY <1>3 DEF BankRecord
<1>5. c.transactions[t] = o /\ \A u \in Transfers \ {t} : c.transactions[u] = b.transactions[u]
  BY <1>1, <1>4
<1>6. c \in BankRecord
  BY <1>1, <1>2, <1>3 DEF BankRecord
<1> QED BY <1>2, <1>4, <1>5, <1>6 DEF Restated, SameOrder, StatusOf

LEMMA CompleteDoes ==
  ASSUME NEW b \in BankRecord, NEW t \in Transfers, NEW c \in Complete(b, t)
  PROVE  /\ StatusOf(b, t) \in {"pending", "started"}
         /\ Restated(b, c, t, "completed") /\ MovesNothing(b, c)
<1>1. StatusOf(b, t) \in {"pending", "started"} /\ c = [b EXCEPT !.transactions[t].status = "completed"]
  BY DEF Complete, StatusOf
<1>2. Restated(b, c, t, "completed") /\ c.log = b.log /\ c.accounts = b.accounts
  BY <1>1, StatusSetIs
<1> QED BY <1>1, <1>2 DEF MovesNothing, Taken, Given, Logged

LEMMA FailDoes ==
  ASSUME NEW b \in BankRecord, NEW t \in Transfers, NEW c \in Fail(b, t)
  PROVE  /\ StatusOf(b, t) \in {"pending", "started"}
         /\ Restated(b, c, t, "failed") /\ MovesNothing(b, c)
<1>1. PICK d : d = [b EXCEPT !.transactions[t].status = "failed"]
  OBVIOUS
<1>2. StatusOf(b, t) \in {"pending", "started"} /\ c = Emit(d, "TransactionFailed", t)
  BY <1>1 DEF Fail, StatusOf
<1>3. Restated(b, d, t, "failed") /\ d.log = b.log /\ d.accounts = b.accounts /\ d \in BankRecord
  BY <1>1, StatusSetIs
<1>4. PICK e : e = Entered("TransactionFailed", t)
  OBVIOUS
<1>5. /\ c \in BankRecord /\ e \in Entry /\ c.accounts = d.accounts /\ c.transactions = d.transactions
      /\ c.log = Append(d.log, e)
  BY <1>2, <1>3, <1>4, EmitIs
<1>6. \A type, u : Logged(c, type, u) <=> Logged(d, type, u) \/ Is(e, type, u)
  BY <1>3, <1>5, LogGrows
<1>7. e.type = "TransactionFailed"
  BY <1>4 DEF Entered
<1>8. \A type \in {"WithdrawalCompleted", "DepositCompleted"} : \A u : Logged(c, type, u) <=> Logged(b, type, u)
  <2>1. \A type, u : Logged(d, type, u) <=> Logged(b, type, u)
    BY <1>3 DEF Logged
  <2>2. \A type \in {"WithdrawalCompleted", "DepositCompleted"} : \A u : ~Is(e, type, u)
    BY <1>7 DEF Is
  <2> QED BY <1>6, <2>1, <2>2
<1>9. Restated(b, c, t, "failed")
  BY <1>3, <1>5 DEF Restated, SameOrder, StatusOf
<1>10. Taken(c) = Taken(b) /\ Given(c) = Given(b)
  BY <1>8 DEF Taken, Given
<1>11. \A a \in Accounts : c.accounts[a].balance = b.accounts[a].balance
  BY <1>3, <1>5
<1> QED BY <1>2, <1>9, <1>10, <1>11 DEF MovesNothing

\* Money leaves or reaches an account, and the log says so.
LEMMA MoveIs ==
  ASSUME NEW b \in BankRecord, NEW t \in Transfers, NEW type \in {"WithdrawalCompleted", "DepositCompleted"},
         NEW x \in Accounts, NEW n \in Int, b.accounts[x].balance + n >= 0,
         NEW c, c = Emit(Put(b, x, n, 2), type, t)
  PROVE  /\ c.transactions = b.transactions
         /\ c.accounts[x].balance = b.accounts[x].balance + n
         /\ \A a \in Accounts \ {x} : c.accounts[a].balance = b.accounts[a].balance
         /\ \A y, u : Logged(c, y, u) <=> Logged(b, y, u) \/ (y = type /\ u = t)
<1>1. PICK d : d = Put(b, x, n, 2)
  OBVIOUS
<1>2. PICK e : e = Entered(type, t)
  OBVIOUS
<1>3. /\ d \in BankRecord /\ d.transactions = b.transactions /\ d.log = b.log
      /\ d.accounts[x].balance = b.accounts[x].balance + n
      /\ \A a \in Accounts \ {x} : d.accounts[a] = b.accounts[a]
  BY <1>1, PutIs
<1>4. /\ c \in BankRecord /\ e \in Entry /\ c.accounts = d.accounts /\ c.transactions = d.transactions
      /\ c.log = Append(d.log, e)
  <2>1. c = Emit(d, type, t) /\ type \in {"WithdrawalCompleted", "DepositCompleted", "TransactionFailed"}
    BY <1>1
  <2>2. d \in BankRecord
    BY <1>3
  <2> QED BY ONLY <1>2, <2>1, <2>2, EmitIs, t \in Transfers
<1>5. e.type = type /\ e.transfer = t
  BY <1>2 DEF Entered
<1>6. \A y, u : Logged(c, y, u) <=> Logged(b, y, u) \/ Is(e, y, u)
  <2>1. c.log = Append(b.log, e) /\ c \in BankRecord /\ e \in Entry
    BY <1>3, <1>4
  <2> QED BY <2>1, LogGrows
<1>7. \A y, u : Is(e, y, u) <=> (y = type /\ u = t)
  BY <1>5 DEF Is
<1> QED BY <1>3, <1>4, <1>6, <1>7

LEMMA WithdrawDoes ==
  ASSUME NEW b \in BankRecord, NEW t \in Transfers, Ordered(b, t), t \notin Taken(b), NEW c \in Withdraw(b, t)
  PROVE  \/ /\ StatusOf(b, t) \in {"pending", "started"}
            /\ Restated(b, c, t, "failed") /\ MovesNothing(b, c)
         \/ Restated(b, c, t, StatusOf(b, t)) /\ TakesOut(b, c, t)
<1> DEFINE o == b.transactions[t]
           from == b.accounts[o.from]
<1>1. CASE from.balance < o.amount
  <2>1. c \in Fail(b, t)
    BY <1>1 DEF Withdraw
  <2> QED BY <2>1, FailDoes
<1>2. CASE ~(from.balance < o.amount)
  <2>1. c = Emit([b EXCEPT !.accounts[o.from] = Moved(@, 0 - o.amount, 2)], "WithdrawalCompleted", t)
    BY <1>2 DEF Withdraw
  <2>2. o.from \in Accounts /\ o.amount \in Nat /\ from.balance \in Nat
    BY TermTypes DEF Ordered
  <2>3. from.balance + (0 - o.amount) >= 0 /\ 0 - o.amount \in Int
    BY <1>2, <2>2
  <2>4. c = Emit(Put(b, o.from, 0 - o.amount, 2), "WithdrawalCompleted", t)
    BY <2>1 DEF Put
  <2>5. /\ c.transactions = b.transactions
        /\ c.accounts[o.from].balance = from.balance + (0 - o.amount)
        /\ \A a \in Accounts \ {o.from} : c.accounts[a].balance = b.accounts[a].balance
        /\ \A y, u : Logged(c, y, u) <=> Logged(b, y, u) \/ (y = "WithdrawalCompleted" /\ u = t)
    BY <2>2, <2>3, <2>4, MoveIs
  <2>6. Restated(b, c, t, StatusOf(b, t))
    BY <2>5 DEF Restated, SameOrder, StatusOf
  <2>7. Taken(c) = Taken(b) \cup {t} /\ Given(c) = Given(b)
    BY <2>5 DEF Taken, Given
  <2>8. ASSUME NEW a \in Accounts
        PROVE  c.accounts[a].balance = b.accounts[a].balance - IF a = o.from THEN o.amount ELSE 0
    <3>1. b.accounts[a].balance \in Nat
      BY TermTypes
    <3> QED BY <2>2, <2>5, <3>1
  <2> QED BY <2>6, <2>7, <2>8 DEF TakesOut
<1> QED BY <1>1, <1>2

LEMMA DepositDoes ==
  ASSUME NEW b \in BankRecord, NEW t \in Transfers, Ordered(b, t), t \notin Given(b), NEW c \in Deposit(b, t)
  PROVE  Restated(b, c, t, StatusOf(b, t)) /\ GivesTo(b, c, t)
<1> DEFINE o == b.transactions[t]
           to == b.accounts[o.to]
<1>1. c = Emit([b EXCEPT !.accounts[o.to] = Moved(@, o.amount, 2)], "DepositCompleted", t)
  BY DEF Deposit
<1>2. o.to \in Accounts /\ o.amount \in Nat /\ to.balance \in Nat
  BY TermTypes DEF Ordered
<1>3. to.balance + o.amount >= 0 /\ o.amount \in Int
  BY <1>2
<1>4. c = Emit(Put(b, o.to, o.amount, 2), "DepositCompleted", t)
  BY <1>1 DEF Put
<1>5. /\ c.transactions = b.transactions
      /\ c.accounts[o.to].balance = to.balance + o.amount
      /\ \A a \in Accounts \ {o.to} : c.accounts[a].balance = b.accounts[a].balance
      /\ \A y, u : Logged(c, y, u) <=> Logged(b, y, u) \/ (y = "DepositCompleted" /\ u = t)
  BY <1>2, <1>3, <1>4, MoveIs
<1>6. Restated(b, c, t, StatusOf(b, t))
  BY <1>5 DEF Restated, SameOrder, StatusOf
<1>7. Given(c) = Given(b) \cup {t} /\ Taken(c) = Taken(b)
  BY <1>5 DEF Taken, Given
<1>8. ASSUME NEW a \in Accounts
      PROVE  c.accounts[a].balance = b.accounts[a].balance + IF a = o.to THEN o.amount ELSE 0
  <2>1. b.accounts[a].balance \in Nat
    BY TermTypes
  <2> QED BY <1>2, <1>5, <2>1
<1> QED BY <1>6, <1>7, <1>8 DEF GivesTo

\* What transfers move, by their orders in b.
AmountsOf(b, T) == SumOf([t \in T |-> b.transactions[t].amount])
Out(b, m, a) == {t \in Taken(m) \ Taken(b) : b.transactions[t].from = a}
In(b, m, a) == {t \in Given(m) \ Given(b) : b.transactions[t].to = a}

\* From b to m the balances differ by what was taken and given.
Balanced(b, m) ==
  /\ Taken(b) \subseteq Taken(m) /\ Given(b) \subseteq Given(m)
  /\ \A t \in Transfers : SameOrder(b, m, t)
  /\ \A a \in Accounts : m.accounts[a].balance =
       b.accounts[a].balance - AmountsOf(b, Out(b, m, a)) + AmountsOf(b, In(b, m, a))

LEMMA AmountsAre ==
  ASSUME NEW b \in BankRecord, NEW T \in SUBSET Transfers
  PROVE  AmountsOf(b, T) \in Int /\ (T = {} => AmountsOf(b, T) = 0)
<1>1. IsFiniteSet(T)
  BY BankingAssumption, FS_Subset
<1>2. [t \in T |-> b.transactions[t].amount] \in [T -> Int]
  BY TermTypes
<1> QED BY <1>1, <1>2, SumType, SumEmpty DEF AmountsOf

LEMMA AmountsGain ==
  ASSUME NEW b \in BankRecord, NEW S, S \subseteq Transfers, NEW t \in Transfers, t \notin S
  PROVE  AmountsOf(b, S \cup {t}) = AmountsOf(b, S) + b.transactions[t].amount
<1>1. PICK R : R = S \cup {t}
  OBVIOUS
<1>2. PICK f : f = [u \in S |-> b.transactions[u].amount]
  OBVIOUS
<1>3. PICK g : g = [u \in R |-> b.transactions[u].amount]
  OBVIOUS
<1>4. IsFiniteSet(R)
  BY <1>1, BankingAssumption, FS_Subset
<1>5. f \in [S -> Int] /\ g \in [R -> Int]
  BY <1>1, <1>2, <1>3, TermTypes
<1>6. \A u \in S : g[u] = f[u]
  BY <1>1, <1>2, <1>3
<1>7. SumOf(g) = SumOf(f) + g[t]
  <2>1. t \in R /\ S = R \ {t}
    BY <1>1
  <2> QED BY ONLY <1>4, <1>5, <1>6, <2>1, SumAdd
<1>8. AmountsOf(b, S) = SumOf(f) /\ AmountsOf(b, R) = SumOf(g) /\ g[t] = b.transactions[t].amount
  BY <1>1, <1>2, <1>3 DEF AmountsOf
<1> QED BY <1>1, <1>7, <1>8

LEMMA BalancedItself ==
  ASSUME NEW b \in BankRecord
  PROVE  Balanced(b, b)
<1>1. \A a \in Accounts : Out(b, b, a) = {} /\ In(b, b, a) = {}
  BY DEF Out, In
<1>2. AmountsOf(b, {}) = 0
  BY AmountsAre
<1>3. \A a \in Accounts : b.accounts[a].balance \in Nat
  BY TermTypes
<1>4. ASSUME NEW a \in Accounts
      PROVE  b.accounts[a].balance = b.accounts[a].balance - AmountsOf(b, Out(b, b, a)) + AmountsOf(b, In(b, b, a))
  <2>1. PICK n : n = b.accounts[a].balance
    OBVIOUS
  <2>2. n = n - 0 + 0
    BY <1>3, <2>1
  <2> QED BY <1>1, <1>2, <2>1, <2>2
<1>5. \A t \in Transfers : SameOrder(b, b, t)
  BY DEF SameOrder
<1> QED BY <1>4, <1>5 DEF Balanced

\* One piece of work more.
LEMMA BalancedOn ==
  ASSUME NEW b \in BankRecord, NEW m \in BankRecord, Balanced(b, m), NEW t \in Transfers, NEW s, NEW c,
         Restated(m, c, t, s), MovesNothing(m, c) \/ TakesOut(m, c, t) \/ GivesTo(m, c, t)
  PROVE  Balanced(b, c)
<1>1. \A u \in Transfers : SameOrder(b, m, u) /\ SameOrder(b, c, u)
  BY DEF Balanced, Restated, SameOrder
<1>2. Taken(b) \subseteq Taken(m) /\ Given(b) \subseteq Given(m)
  BY DEF Balanced
<1>3. /\ m.transactions[t].from = b.transactions[t].from /\ m.transactions[t].to = b.transactions[t].to
      /\ m.transactions[t].amount = b.transactions[t].amount
  BY <1>1 DEF SameOrder
<1> SUFFICES ASSUME NEW a \in Accounts
             PROVE  /\ Taken(b) \subseteq Taken(c) /\ Given(b) \subseteq Given(c)
                    /\ c.accounts[a].balance =
                         b.accounts[a].balance - AmountsOf(b, Out(b, c, a)) + AmountsOf(b, In(b, c, a))
  <2>1. Taken(b) \subseteq Taken(c) /\ Given(b) \subseteq Given(c)
    BY <1>2 DEF MovesNothing, TakesOut, GivesTo
  <2> QED BY <1>1, <2>1 DEF Balanced
<1>4. Out(b, m, a) \in SUBSET Transfers /\ In(b, m, a) \in SUBSET Transfers
  BY DEF Out, In, Taken, Given
<1>5. /\ AmountsOf(b, Out(b, m, a)) \in Int /\ AmountsOf(b, In(b, m, a)) \in Int
      /\ b.accounts[a].balance \in Nat /\ m.accounts[a].balance \in Nat /\ b.transactions[t].amount \in Nat
  BY <1>4, AmountsAre, TermTypes
<1>6. m.accounts[a].balance = b.accounts[a].balance - AmountsOf(b, Out(b, m, a)) + AmountsOf(b, In(b, m, a))
  BY DEF Balanced
<1>7. CASE MovesNothing(m, c)
  <2>1. Out(b, c, a) = Out(b, m, a) /\ In(b, c, a) = In(b, m, a)
    BY <1>7 DEF MovesNothing, Out, In
  <2> QED BY <1>2, <1>6, <1>7, <2>1 DEF MovesNothing
<1>8. CASE TakesOut(m, c, t)
  <2>1. Taken(c) = Taken(m) \cup {t} /\ t \notin Taken(m) /\ Given(c) = Given(m)
    BY <1>8 DEF TakesOut
  <2>2. In(b, c, a) = In(b, m, a)
    BY <2>1 DEF In
  <2>3. CASE b.transactions[t].from = a
    <3>1. Out(b, c, a) = Out(b, m, a) \cup {t} /\ t \notin Out(b, m, a)
      BY <1>2, <2>1, <2>3 DEF Out
    <3>2. AmountsOf(b, Out(b, c, a)) = AmountsOf(b, Out(b, m, a)) + b.transactions[t].amount
      BY <1>4, <3>1, AmountsGain
    <3>3. c.accounts[a].balance = m.accounts[a].balance - b.transactions[t].amount
      BY <1>3, <1>8, <2>3 DEF TakesOut
    <3>4. c.accounts[a].balance = b.accounts[a].balance - AmountsOf(b, Out(b, c, a)) + AmountsOf(b, In(b, m, a))
      BY ONLY <1>5, <1>6, <3>2, <3>3
    <3> QED BY <1>2, <2>1, <2>2, <3>4
  <2>4. CASE b.transactions[t].from # a
    <3>1. Out(b, c, a) = Out(b, m, a)
      BY <1>2, <2>1, <2>4 DEF Out
    <3>2. c.accounts[a].balance = m.accounts[a].balance
      BY <1>3, <1>5, <1>8, <2>4 DEF TakesOut
    <3> QED BY <1>2, <1>6, <2>1, <2>2, <3>1, <3>2
  <2> QED BY <2>3, <2>4
<1>9. CASE GivesTo(m, c, t)
  <2>1. Given(c) = Given(m) \cup {t} /\ t \notin Given(m) /\ Taken(c) = Taken(m)
    BY <1>9 DEF GivesTo
  <2>2. Out(b, c, a) = Out(b, m, a)
    BY <2>1 DEF Out
  <2>3. CASE b.transactions[t].to = a
    <3>1. In(b, c, a) = In(b, m, a) \cup {t} /\ t \notin In(b, m, a)
      BY <1>2, <2>1, <2>3 DEF In
    <3>2. AmountsOf(b, In(b, c, a)) = AmountsOf(b, In(b, m, a)) + b.transactions[t].amount
      BY <1>4, <3>1, AmountsGain
    <3>3. c.accounts[a].balance = m.accounts[a].balance + b.transactions[t].amount
      BY <1>3, <1>9, <2>3 DEF GivesTo
    <3>4. c.accounts[a].balance = b.accounts[a].balance - AmountsOf(b, Out(b, m, a)) + AmountsOf(b, In(b, c, a))
      BY ONLY <1>5, <1>6, <3>2, <3>3
    <3> QED BY <1>2, <2>1, <2>2, <3>4
  <2>4. CASE b.transactions[t].to # a
    <3>1. In(b, c, a) = In(b, m, a)
      BY <1>2, <2>1, <2>4 DEF In
    <3>2. c.accounts[a].balance = m.accounts[a].balance
      BY <1>3, <1>5, <1>9, <2>4 DEF GivesTo
    <3> QED BY <1>2, <1>6, <2>1, <2>2, <3>1, <3>2
  <2> QED BY <2>3, <2>4
<1> QED BY <1>7, <1>8, <1>9

\* Nothing has become of t between b and c.
Alike(b, c, t) ==
  /\ SameOrder(b, c, t) /\ StatusOf(c, t) = StatusOf(b, t)
  /\ t \in Taken(c) <=> t \in Taken(b)
  /\ t \in Given(c) <=> t \in Given(b)

Further(b, c, t) == <<PhaseOf(b, t), PhaseOf(c, t)>> \in Money!Moves
GivesUp(b, c, t) == <<PhaseOf(b, t), PhaseOf(c, t)>> \in Money!GivingUp

\* A piece of work for t.
Work(b, c, t) ==
  /\ Restated(b, c, t, StatusOf(c, t))
  /\ MovesNothing(b, c) \/ TakesOut(b, c, t) \/ GivesTo(b, c, t)

LEMMA AlikeIs ==
  ASSUME NEW b, NEW c, NEW t, Alike(b, c, t)
  PROVE  PhaseOf(c, t) = PhaseOf(b, t) /\ (Ordered(c, t) <=> Ordered(b, t))
<1>1. PhaseOf(c, t) = PhaseOf(b, t)
  BY DEF Alike, PhaseOf
<1>2. Ordered(c, t) <=> Ordered(b, t)
  BY DEF Alike, SameOrder, Ordered
<1> QED BY <1>1, <1>2

LEMMA AlikeOn ==
  ASSUME NEW b, NEW c, NEW d, NEW t, Alike(b, c, t), Alike(c, d, t)
  PROVE  Alike(b, d, t)
BY DEF Alike, SameOrder

LEMMA WorkedFor ==
  ASSUME NEW b, NEW c, NEW t \in Transfers, NEW s, Restated(b, c, t, s)
  PROVE  s = StatusOf(c, t) /\ Restated(b, c, t, StatusOf(c, t)) /\ SameOrder(b, c, t)
BY DEF Restated

LEMMA OthersAlike ==
  ASSUME NEW b, NEW c, NEW t \in Transfers, Work(b, c, t), NEW u \in Transfers \ {t}
  PROVE  Alike(b, c, u)
<1>1. SameOrder(b, c, u) /\ StatusOf(c, u) = StatusOf(b, u)
  BY DEF Work, Restated
<1>2. (u \in Taken(c) <=> u \in Taken(b)) /\ (u \in Given(c) <=> u \in Given(b))
  BY DEF Work, MovesNothing, TakesOut, GivesTo
<1> QED BY <1>1, <1>2 DEF Alike

LEMMA StatusStaysSound ==
  ASSUME NEW b, StatusSound(b), NEW t \in Transfers, NEW c, Work(b, c, t), Ordered(b, t), StatusOf(c, t) # "pending",
         StatusOf(c, t) = "completed" => t \in Given(c)
  PROVE  StatusSound(c)
<1> SUFFICES ASSUME NEW u \in Transfers
             PROVE  /\ StatusOf(c, u) = "pending" <=> ~Ordered(c, u)
                    /\ StatusOf(c, u) = "completed" => u \in Given(c)
  BY DEF StatusSound
<1>1. CASE u = t
  <2>1. Ordered(c, t)
    BY DEF Work, Restated, SameOrder, Ordered
  <2> QED BY <1>1, <2>1
<1>2. CASE u # t
  <2>1. Alike(b, c, u)
    BY <1>2, OthersAlike
  <2>2. (Ordered(c, u) <=> Ordered(b, u)) /\ StatusOf(c, u) = StatusOf(b, u) /\ (u \in Given(c) <=> u \in Given(b))
    BY <2>1, AlikeIs DEF Alike
  <2> QED BY <2>2 DEF StatusSound
<1> QED BY <1>1, <1>2

\* A transfer that was posted and not failed.
LEMMA StatusIs ==
  ASSUME NEW b, b \in BankRecord, StatusSound(b), NEW t \in Transfers, Ordered(b, t)
  PROVE  /\ StatusOf(b, t) \in {"started", "completed", "failed"}
         /\ t \notin Given(b) => StatusOf(b, t) \in {"started", "failed"}
BY StatusType DEF StatusSound

LEMMA WithdrawGoesOn ==
  ASSUME NEW b, Sound(b), StatusSound(b), NEW t \in Transfers, Ordered(b, t), t \notin Taken(b),
         NEW c \in Withdraw(b, t)
  PROVE  /\ Work(b, c, t) /\ StatusSound(c)
         /\ StatusOf(b, t) = "started" => Further(b, c, t) /\ (StatusOf(c, t) = "failed" => t \notin Taken(c))
         /\ StatusOf(b, t) # "started" => StatusOf(b, t) = "failed" /\ GivesUp(b, c, t)
<1>1. b \in BankRecord
  BY DEF Sound
<1>2. t \notin Given(b)
  BY NotGivenYet DEF Taken, Given
<1>3. StatusOf(b, t) \in {"started", "failed"}
  BY <1>1, <1>2, StatusIs
<1>4. \/ StatusOf(b, t) = "started" /\ Restated(b, c, t, "failed") /\ MovesNothing(b, c)
      \/ Restated(b, c, t, StatusOf(b, t)) /\ TakesOut(b, c, t)
  <2>1. \/ /\ StatusOf(b, t) \in {"pending", "started"}
           /\ Restated(b, c, t, "failed") /\ MovesNothing(b, c)
        \/ Restated(b, c, t, StatusOf(b, t)) /\ TakesOut(b, c, t)
    BY <1>1, WithdrawDoes
  <2> QED BY <1>3, <2>1
<1>5. CASE StatusOf(b, t) = "started" /\ Restated(b, c, t, "failed") /\ MovesNothing(b, c)
  <2>1. Work(b, c, t) /\ StatusOf(c, t) = "failed"
    BY <1>5, WorkedFor DEF Work
  <2>2. StatusSound(c)
    BY <2>1, StatusStaysSound
  <2>3. t \notin Taken(c) /\ t \notin Given(c)
    BY <1>2, <1>5 DEF MovesNothing
  <2>4. PhaseOf(b, t) = "requested" /\ PhaseOf(c, t) = "refused"
    BY <1>2, <1>5, <2>1, <2>3 DEF PhaseOf
  <2> QED BY <1>5, <2>1, <2>2, <2>3, <2>4 DEF Further, Money!Moves
<1>6. CASE Restated(b, c, t, StatusOf(b, t)) /\ TakesOut(b, c, t)
  <2>1. Work(b, c, t) /\ StatusOf(c, t) = StatusOf(b, t)
    BY <1>6, WorkedFor DEF Work
  <2>2. StatusSound(c)
    BY <1>3, <2>1, StatusStaysSound
  <2>3. t \in Taken(c) /\ t \notin Given(c)
    BY <1>2, <1>6 DEF TakesOut
  <2>4. CASE StatusOf(b, t) = "started"
    <3>1. PhaseOf(b, t) = "requested" /\ PhaseOf(c, t) = "taken"
      BY <1>2, <2>1, <2>3, <2>4 DEF PhaseOf
    <3> QED BY <2>1, <2>2, <2>4, <3>1 DEF Further, Money!Moves
  <2>5. CASE StatusOf(b, t) = "failed"
    <3>1. PhaseOf(b, t) = "refused" /\ PhaseOf(c, t) = "lost"
      BY <1>2, <2>1, <2>3, <2>5 DEF PhaseOf
    <3> QED BY <2>1, <2>2, <2>5, <3>1 DEF GivesUp, Money!GivingUp
  <2> QED BY <1>3, <2>4, <2>5
<1> QED BY <1>4, <1>5, <1>6

LEMMA DepositGoesOn ==
  ASSUME NEW b, Sound(b), StatusSound(b), NEW t \in Transfers, t \in Taken(b), t \notin Given(b),
         StatusOf(b, t) # "failed", NEW c \in Deposit(b, t)
  PROVE  Work(b, c, t) /\ StatusSound(c) /\ Further(b, c, t) /\ StatusOf(c, t) # "failed"
<1>1. b \in BankRecord
  BY DEF Sound
<1>2. Ordered(b, t)
  BY DEF Sound, LogSound, Taken, Logged, Is, Moving
<1>3. StatusOf(b, t) = "started"
  BY <1>1, <1>2, StatusIs
<1>4. Restated(b, c, t, StatusOf(b, t)) /\ GivesTo(b, c, t)
  BY <1>1, <1>2, DepositDoes
<1>5. Work(b, c, t) /\ StatusOf(c, t) = StatusOf(b, t)
  BY <1>4, WorkedFor DEF Work
<1>6. StatusSound(c)
  BY <1>2, <1>3, <1>5, StatusStaysSound
<1>7. t \in Given(c)
  BY <1>4 DEF GivesTo
<1>8. PhaseOf(b, t) = "taken" /\ PhaseOf(c, t) = "given"
  BY <1>3, <1>5, <1>7 DEF PhaseOf
<1> QED BY <1>3, <1>5, <1>6, <1>8 DEF Further, Money!Moves

LEMMA CompleteGoesOn ==
  ASSUME NEW b, Sound(b), StatusSound(b), NEW t \in Transfers, t \in Given(b), NEW c \in Complete(b, t)
  PROVE  Work(b, c, t) /\ StatusSound(c) /\ Further(b, c, t) /\ StatusOf(c, t) # "failed"
<1>1. b \in BankRecord
  BY DEF Sound
<1>2. Ordered(b, t)
  BY DEF Sound, LogSound, Given, Logged, Is, Moving
<1>3. StatusOf(b, t) \in {"pending", "started"} /\ Restated(b, c, t, "completed") /\ MovesNothing(b, c)
  BY <1>1, CompleteDoes
<1>4. Work(b, c, t) /\ StatusOf(c, t) = "completed"
  BY <1>3, WorkedFor DEF Work
<1>5. t \in Given(c)
  BY <1>3 DEF MovesNothing
<1>6. StatusSound(c)
  BY <1>2, <1>4, <1>5, StatusStaysSound
<1>7. PhaseOf(b, t) = "given" /\ PhaseOf(c, t) = "completed"
  BY <1>3, <1>4, <1>5 DEF PhaseOf
<1> QED BY <1>4, <1>6, <1>7 DEF Further, Money!Moves

LEMMA FailGoesOn ==
  ASSUME NEW b, Sound(b), StatusSound(b), NEW t \in Transfers, Ordered(b, t), NEW c \in Fail(b, t)
  PROVE  /\ Work(b, c, t) /\ StatusSound(c)
         /\ PhaseOf(c, t) = PhaseOf(b, t) \/ Further(b, c, t) \/ GivesUp(b, c, t)
<1>1. b \in BankRecord
  BY DEF Sound
<1>2. StatusOf(b, t) \in {"pending", "started"} /\ Restated(b, c, t, "failed") /\ MovesNothing(b, c)
  BY <1>1, FailDoes
<1>3. StatusOf(b, t) = "started"
  BY <1>1, <1>2, StatusIs
<1>4. Work(b, c, t) /\ StatusOf(c, t) = "failed"
  BY <1>2, WorkedFor DEF Work
<1>5. StatusSound(c)
  BY <1>4, StatusStaysSound
<1>6. Taken(c) = Taken(b) /\ Given(c) = Given(b)
  BY <1>2 DEF MovesNothing
<1>7. CASE t \in Given(b)
  BY <1>3, <1>4, <1>5, <1>6, <1>7 DEF PhaseOf
<1>8. CASE t \notin Given(b) /\ t \in Taken(b)
  <2>1. PhaseOf(b, t) = "taken" /\ PhaseOf(c, t) = "lost"
    BY <1>3, <1>4, <1>6, <1>8 DEF PhaseOf
  <2> QED BY <1>4, <1>5, <2>1 DEF GivesUp, Money!GivingUp
<1>9. CASE t \notin Given(b) /\ t \notin Taken(b)
  <2>1. PhaseOf(b, t) = "requested" /\ PhaseOf(c, t) = "refused"
    BY <1>3, <1>4, <1>6, <1>9 DEF PhaseOf
  <2> QED BY <1>4, <1>5, <2>1 DEF Further, Money!Moves
<1> QED BY <1>7, <1>8, <1>9

\* In the batch of p, the event of t is at position n or before.
Touched(p, n, t) == \E j \in Window(p) : j <= n /\ Is(bank.log[j], Takes(p), t)

\* A refused transfer was not taken, and its order was handled.
RefusedSound ==
  \A t \in Transfers : StatusOf(bank, t) = "failed" =>
    /\ t \notin Taken(bank)
    /\ \E i \in DOMAIN bank.log : i <= ckpt["withdrawal-handler"] /\ Is(bank.log[i], "TransactionStarted", t)

\* A bank on the way through a batch, and the transfers in it.
Along(p, b, n) ==
  /\ Midway(p, b, n) /\ StatusSound(b) /\ Balanced(bank, b)
  /\ \A t \in Transfers :
       /\ ~Touched(p, n, t) => Alike(bank, b, t)
       /\ Touched(p, n, t) =>
            /\ Further(bank, b, t)
            /\ StatusOf(b, t) = "failed" => p = "withdrawal-handler" /\ t \notin Taken(b)

LEMMA HandleGoesOn ==
  ASSUME NEW b, Sound(b), StatusSound(b), NEW p \in Projections, NEW e, NEW t \in Transfers, e.transfer = t,
         NEW c \in Handle(p, b, e), e.type = Takes(p), Logged(b, Takes(p), t), ~Logged(b, Makes(p), t),
         p # "transaction-completion-handler" => StatusOf(b, t) # "failed"
  PROVE  /\ Work(b, c, t) /\ StatusSound(c) /\ Further(b, c, t)
         /\ StatusOf(c, t) = "failed" => p = "withdrawal-handler" /\ t \notin Taken(c)
<1>1. b \in BankRecord
  BY DEF Sound
<1>2. Ordered(b, t)
  BY DEF Sound, LogSound, Logged, Is, Moving, Projections, Takes
<1>3. CASE p = "withdrawal-handler"
  <2>1. c \in Withdraw(b, t) /\ t \notin Taken(b)
    BY <1>3 DEF Handle, WithdrawalHandler, Takes, Makes, Taken
  <2>2. StatusOf(b, t) = "started"
    <3>1. StatusOf(b, t) \in {"started", "failed"}
      BY <1>1, <1>2, <2>1, NotGivenYet, StatusIs DEF Taken, Given
    <3> QED BY <1>3, <3>1
  <2> QED BY <1>2, <1>3, <2>1, <2>2, WithdrawGoesOn
<1>4. CASE p = "deposit-handler"
  <2>1. c \in Deposit(b, t) /\ t \in Taken(b) /\ t \notin Given(b)
    BY <1>4 DEF Handle, DepositHandler, Takes, Makes, Taken, Given
  <2> QED BY <1>4, <2>1, DepositGoesOn
<1>5. CASE p = "transaction-completion-handler"
  <2>1. c \in Complete(b, t) /\ t \in Given(b)
    BY <1>5 DEF Handle, TransactionCompletionHandler, Takes, Given
  <2> QED BY <2>1, CompleteGoesOn
<1> QED BY <1>3, <1>4, <1>5 DEF Projections

LEMMA AlongStarts ==
  ASSUME NEW p \in Projections, Sound(bank), StatusSound(bank)
  PROVE  Along(p, bank, 0)
<1>1. bank \in BankRecord
  BY DEF Sound
<1>2. Midway(p, bank, 0) /\ Balanced(bank, bank)
  BY <1>1, MidwayStarts, BalancedItself
<1>3. ASSUME NEW t \in Transfers PROVE ~Touched(p, 0, t) /\ Alike(bank, bank, t)
  <2>1. \A j \in Window(p) : j \in 1 .. Len(bank.log) /\ Len(bank.log) \in Nat
    BY <1>1, WindowIs, BankFields
  <2>2. \A j \in Window(p) : ~(j <= 0)
    BY <2>1
  <2> QED BY <2>2 DEF Touched, Alike, SameOrder
<1> QED BY <1>2, <1>3 DEF Along

\* A position at which nothing changes.
LEMMA AlongWaits ==
  ASSUME NEW p \in Projections, NEW b, NEW n \in Nat, Along(p, b, n), bank \in BankRecord,
         n + 1 \in Window(p) => bank.log[n + 1].type # Takes(p)
  PROVE  Along(p, b, n + 1)
<1>1. Midway(p, b, n + 1)
  BY MidwayWaits DEF Along
<1>2. ASSUME NEW t \in Transfers PROVE Touched(p, n + 1, t) <=> Touched(p, n, t)
  <2>1. \A j \in Window(p) : j \in Nat
    BY WindowIs
  <2>2. \A j \in Window(p) : j <= n + 1 <=> j <= n \/ j = n + 1
    BY <2>1
  <2> QED BY <2>2 DEF Touched, Is
<1> QED BY <1>1, <1>2 DEF Along

LEMMA AlongOn ==
  ASSUME NEW p \in Projections, Sound(bank), ckpt \in [Projections -> Nat], CaughtUp(p), RefusedSound,
         NEW b, NEW n \in Nat, Along(p, b, n),
         n + 1 \in Window(p), NEW c \in Handle(p, b, bank.log[n + 1])
  PROVE  Along(p, c, n + 1)
<1> DEFINE e == bank.log[n + 1]
           t == e.transfer
<1>1. bank \in BankRecord /\ b \in BankRecord /\ Sound(b) /\ Midway(p, b, n) /\ ckpt[p] \in Nat
  BY DEF Sound, Midway, Along
<1>2. n + 1 \in DOMAIN bank.log /\ n + 1 > ckpt[p] /\ e \in Entry /\ t \in Transfers
  BY <1>1, WindowIs, BankFields, EntryFields
<1>3. CASE e.type # Takes(p)
  <2>1. c = b
    BY <1>3 DEF Projections, Takes, Handle, WithdrawalHandler, DepositHandler, TransactionCompletionHandler
  <2> QED BY <1>1, <1>3, <2>1, AlongWaits
<1>4. CASE e.type = Takes(p)
  <2>1. Midway(p, c, n + 1)
    BY <1>1, MidwayOn
  <2>2. ~Logged(b, Makes(p), t)
    BY <1>1, <1>4, NotMadeYet
  <2>3. Logged(bank, Takes(p), t) /\ Logged(b, Takes(p), t)
    <3>1. Logged(bank, Takes(p), t)
      BY <1>2, <1>4 DEF Logged, Is
    <3> QED BY <1>1, <3>1, LoggedStays DEF Midway
  <2>4. ASSUME NEW j \in DOMAIN bank.log, Is(bank.log[j], Takes(p), t) PROVE j = n + 1
    BY <1>2, <1>4, <2>4 DEF Sound, LogSound, Moving, Projections, Takes
  <2>5. ~Touched(p, n, t)
    <3>1. Window(p) \subseteq DOMAIN bank.log
      BY <1>1, WindowIs
    <3> QED BY <2>4, <3>1 DEF Touched
  <2>6. Alike(bank, b, t)
    BY <1>2, <2>5 DEF Along
  <2>7. p # "transaction-completion-handler" => StatusOf(b, t) # "failed"
    <3> SUFFICES ASSUME p # "transaction-completion-handler", StatusOf(b, t) = "failed" PROVE FALSE
      OBVIOUS
    <3>1. StatusOf(bank, t) = "failed"
      BY <2>6 DEF Alike
    <3>2. t \notin Taken(bank)
      BY <1>2, <3>1 DEF RefusedSound
    <3>3. PICK i \in DOMAIN bank.log : i <= ckpt["withdrawal-handler"] /\ Is(bank.log[i], "TransactionStarted", t)
      BY <1>2, <3>1 DEF RefusedSound
    <3>4. CASE p = "withdrawal-handler"
      <4>1. i = n + 1
        BY <2>4, <3>3, <3>4 DEF Takes
      <4>2. ckpt[p] \in Nat
        BY <1>1
      <4> QED BY <1>2, <3>3, <3>4, <4>1, <4>2
    <3>5. CASE p = "deposit-handler"
      BY <1>2, <2>3, <3>2, <3>5 DEF Takes, Taken
    <3> QED BY <3>4, <3>5 DEF Projections
  <2>8. /\ Work(b, c, t) /\ StatusSound(c) /\ Further(b, c, t)
        /\ StatusOf(c, t) = "failed" => p = "withdrawal-handler" /\ t \notin Taken(c)
    <3>1. StatusSound(b)
      BY DEF Along
    <3> HIDE DEF e, t
    <3>2. e.transfer = t /\ c \in Handle(p, b, e)
      BY DEF e, t
    <3> QED BY <1>1, <1>2, <1>4, <2>2, <2>3, <2>7, <3>1, <3>2, HandleGoesOn
  <2>9. Balanced(bank, c)
    <3>1. Balanced(bank, b) /\ Restated(b, c, t, StatusOf(c, t))
      BY <2>8 DEF Along, Work
    <3>2. MovesNothing(b, c) \/ TakesOut(b, c, t) \/ GivesTo(b, c, t)
      BY <2>8 DEF Work
    <3> QED BY <1>1, <1>2, <3>1, <3>2, BalancedOn
  <2>10. Touched(p, n + 1, t) /\ \A u \in Transfers \ {t} : Touched(p, n + 1, u) <=> Touched(p, n, u)
    <3>1. \A j \in Window(p) : j \in Nat
      BY <1>1, WindowIs
    <3>2. \A j \in Window(p) : j <= n + 1 <=> j <= n \/ j = n + 1
      BY <3>1
    <3>3. n + 1 <= n + 1
      OBVIOUS
    <3> QED BY <1>4, <3>2, <3>3 DEF Touched, Is
  <2>11. Further(bank, c, t)
    <3>1. PhaseOf(b, t) = PhaseOf(bank, t)
      BY <2>6, AlikeIs
    <3> QED BY <2>8, <3>1 DEF Further
  <2>12. ASSUME NEW u \in Transfers \ {t}
         PROVE  /\ ~Touched(p, n + 1, u) => Alike(bank, c, u)
                /\ Touched(p, n + 1, u) =>
                     /\ Further(bank, c, u)
                     /\ StatusOf(c, u) = "failed" => p = "withdrawal-handler" /\ u \notin Taken(c)
    <3>1. Alike(b, c, u)
      BY <1>2, <2>8, OthersAlike
    <3>2. PhaseOf(c, u) = PhaseOf(b, u) /\ StatusOf(c, u) = StatusOf(b, u) /\ (u \in Taken(c) <=> u \in Taken(b))
      BY <3>1, AlikeIs DEF Alike
    <3>3. ~Touched(p, n, u) => Alike(bank, c, u)
      BY <3>1, AlikeOn DEF Along
    <3>4. Touched(p, n, u) => /\ Further(bank, c, u)
                              /\ StatusOf(c, u) = "failed" => p = "withdrawal-handler" /\ u \notin Taken(c)
      BY <3>2 DEF Along, Further
    <3> QED BY <2>10, <3>3, <3>4
  <2> HIDE DEF t
  <2>13. \A u \in Transfers :
           /\ ~Touched(p, n + 1, u) => Alike(bank, c, u)
           /\ Touched(p, n + 1, u) =>
                /\ Further(bank, c, u)
                /\ StatusOf(c, u) = "failed" => p = "withdrawal-handler" /\ u \notin Taken(c)
    BY <2>8, <2>10, <2>11, <2>12
  <2> QED BY <2>1, <2>8, <2>9, <2>13 DEF Along
<1> QED BY <1>3, <1>4

LEMMA OutcomesGoOn ==
  ASSUME NEW p \in Projections, Sound(bank), StatusSound(bank), ckpt \in [Projections -> Nat], CaughtUp(p),
         RefusedSound, NEW b \in Outcomes(p)
  PROVE  Along(p, b, Len(bank.log))
<1>1. bank \in BankRecord
  BY DEF Sound
<1>2. PICK R : R = {x \in BankRecord \X Nat : Along(p, x[1], x[2])}
  OBVIOUS
<1>3. ASSUME NEW c, NEW n PROVE <<c, n>> \in R <=> n \in Nat /\ Along(p, c, n)
  BY <1>2 DEF Along, Midway, Sound
<1>4. <<bank, 0>> \in R
  BY <1>3, AlongStarts
<1>5. ASSUME NEW n \in Nat, NEW c, <<c, n>> \in R, n + 1 \notin Window(p) PROVE <<c, n + 1>> \in R
  BY <1>1, <1>3, <1>5, AlongWaits
<1>6. ASSUME NEW n \in Nat, NEW c, <<c, n>> \in R, n + 1 \in Window(p), NEW d \in Handle(p, c, bank.log[n + 1])
      PROVE  <<d, n + 1>> \in R
  BY <1>3, <1>6, AlongOn
<1>7. <<b, Len(bank.log)>> \in R
  BY <1>1, <1>4, <1>5, <1>6, BatchGoesOn
<1> QED BY <1>3, <1>7

-----------------------------------------------------------------------------
(* Steps of the abstract bank.                                             *)

LEMMA PhaseTells ==
  ASSUME NEW b, Sound(b), NEW t \in Transfers
  PROVE  /\ t \in Given(b) <=> PhaseOf(b, t) \in {"given", "completed"}
         /\ t \in Taken(b) <=> PhaseOf(b, t) \in {"taken", "lost", "given", "completed"}
<1>1. t \in Given(b) => t \in Taken(b)
  BY DEF Sound, LogSound, Taken, Given
<1> QED BY <1>1 DEF PhaseOf

LEMMA EventsTell ==
  ASSUME NEW b, Sound(b), NEW t \in Transfers
  PROVE  (Debited(b, t) <=> t \in Taken(b)) /\ (Credited(b, t) <=> t \in Given(b))
BY DEF Sound, LogSound, Debited, Credited, Happened, Taken, Given, Logged, Is

LEMMA PhaseIs ==
  ASSUME Sound(bank), NEW t \in Transfers
  PROVE  Phase(t) = PhaseOf(bank, t)
BY EventsTell DEF Phase, PhaseOf, StatusOf

LEMMA NextPhaseIs ==
  ASSUME Sound(bank'), NEW t \in Transfers
  PROVE  Phase(t)' = PhaseOf(bank', t)
<1>1. (Debited(bank', t) <=> t \in Taken(bank')) /\ (Credited(bank', t) <=> t \in Given(bank'))
  BY EventsTell
<1> QED BY <1>1 DEF Phase, PhaseOf, StatusOf

LEMMA TotalIs ==
  ASSUME NEW T, T \subseteq Transfers
  PROVE  Money!Total(T) = AmountsOf(bank, T)
<1>1. PICK f : f = [t \in T |-> bank.transactions[t].amount]
  OBVIOUS
<1>2. AmountsOf(bank, T) = (CHOOSE g : Folds(f, g))[DOMAIN f]
  BY <1>1, SumIs DEF AmountsOf
<1>3. f = [t \in T |-> [u \in Transfers |-> LET o == bank.transactions[u] IN
                          [from |-> o.from, to |-> o.to, amount |-> o.amount]][t].amount]
  BY <1>1
<1>4. Money!Total(T) = (CHOOSE g : Folds(f, g))[DOMAIN f]
  BY <1>3 DEF Money!Total, Money!FoldFunction, Money!FoldFunctionOnSet, Money!MapThenFoldSet, Folds
<1> QED BY <1>2, <1>4

Impatient == \E t \in Transfers : timers[t] = "fired"

\* From b to c every transfer stays where it is or comes one phase further.
Advances(b, c) ==
  /\ \A t \in Transfers :
       PhaseOf(c, t) = PhaseOf(b, t) \/ Further(b, c, t) \/ (Impatient /\ GivesUp(b, c, t))
  /\ \A t \in Transfers : PhaseOf(b, t) # "none" => SameOrder(b, c, t)
  /\ \A a \in Accounts : c.accounts[a].balance =
       b.accounts[a].balance - AmountsOf(b, Out(b, c, a)) + AmountsOf(b, In(b, c, a))

LEMMA TakenAndGiven ==
  ASSUME NEW b, NEW c, Sound(b), Sound(c), Advances(b, c), NEW t \in Transfers
  PROVE  /\ t \in Taken(c) \ Taken(b) <=> \/ PhaseOf(b, t) = "requested" /\ PhaseOf(c, t) = "taken"
                                          \/ PhaseOf(b, t) = "refused" /\ PhaseOf(c, t) = "lost"
         /\ t \in Given(c) \ Given(b) <=> PhaseOf(b, t) # "given" /\ PhaseOf(c, t) = "given"
<1>1. PhaseOf(c, t) = PhaseOf(b, t) \/ Further(b, c, t) \/ GivesUp(b, c, t)
  BY DEF Advances
<1>2. <<PhaseOf(b, t), PhaseOf(c, t)>> \in
        {<<"none", "requested">>, <<"requested", "refused">>, <<"requested", "taken">>, <<"taken", "given">>,
         <<"given", "completed">>, <<"taken", "lost">>, <<"refused", "lost">>} \/ PhaseOf(c, t) = PhaseOf(b, t)
  BY <1>1 DEF Further, GivesUp, Money!Moves, Money!GivingUp
<1>3. /\ t \in Given(b) <=> PhaseOf(b, t) \in {"given", "completed"}
      /\ t \in Given(c) <=> PhaseOf(c, t) \in {"given", "completed"}
      /\ t \in Taken(b) <=> PhaseOf(b, t) \in {"taken", "lost", "given", "completed"}
      /\ t \in Taken(c) <=> PhaseOf(c, t) \in {"taken", "lost", "given", "completed"}
  BY PhaseTells
<1> QED BY <1>2, <1>3

LEMMA BankProgresses ==
  ASSUME Sound(bank), Sound(bank'), Advances(bank, bank'), UNCHANGED timers
  PROVE  Money!Next
<1>1. \A t \in Transfers : Phase(t) = PhaseOf(bank, t) /\ Phase(t)' = PhaseOf(bank', t)
  BY PhaseIs, NextPhaseIs
<1>2. PICK f : f = [t \in Transfers |-> PhaseOf(bank, t)]
  OBVIOUS
<1>3. PICK g : g = [t \in Transfers |-> PhaseOf(bank', t)]
  OBVIOUS
<1>4. [t \in Transfers |-> Phase(t)] = f /\ [t \in Transfers |-> Phase(t)]' = g
  BY <1>1, <1>2, <1>3
<1>5. ASSUME NEW t \in Transfers
      PROVE  g[t] = f[t] \/ <<f[t], g[t]>> \in Money!Moves \/ (Impatient /\ <<f[t], g[t]>> \in Money!GivingUp)
  BY <1>2, <1>3 DEF Advances, Further, GivesUp
<1> DEFINE order == [t \in Transfers |-> LET o == bank.transactions[t] IN [from |-> o.from, to |-> o.to, amount |-> o.amount]]
<1>6. \A t \in Transfers : order[t].from = bank.transactions[t].from /\ order[t].to = bank.transactions[t].to
  OBVIOUS
<1>7. \A t \in Transfers : f[t] # "none" => order'[t] = order[t]
  BY <1>2 DEF Advances, SameOrder
<1> DEFINE balance == [a \in Accounts |-> bank.accounts[a].balance]
           out(a) == {t \in Transfers : order[t].from = a /\ f[t] = "requested" /\ g[t] = "taken"}
           late1(a) == {t \in Transfers : order[t].from = a /\ f[t] = "refused" /\ g[t] = "lost"}
           in(a) == {t \in Transfers : order[t].to = a /\ f[t] # "given" /\ g[t] = "given"}
<1>8. ASSUME NEW a \in Accounts
      PROVE  balance'[a] = balance[a] - Money!Total(out(a) \cup late1(a)) + Money!Total(in(a)) /\ balance'[a] >= 0
  <2>1. out(a) \cup late1(a) = Out(bank, bank', a)
    <3> SUFFICES ASSUME NEW t \in Transfers
                 PROVE  t \in out(a) \cup late1(a) <=> t \in Out(bank, bank', a)
      BY DEF Out, Taken
    <3>1. t \in Taken(bank') \ Taken(bank) <=> (f[t] = "requested" /\ g[t] = "taken") \/ (f[t] = "refused" /\ g[t] = "lost")
      BY <1>2, <1>3, TakenAndGiven
    <3> QED BY <1>6, <3>1 DEF Out
  <2>2. in(a) = In(bank, bank', a)
    <3> SUFFICES ASSUME NEW t \in Transfers
                 PROVE  t \in in(a) <=> t \in In(bank, bank', a)
      BY DEF In, Given
    <3>1. t \in Given(bank') \ Given(bank) <=> f[t] # "given" /\ g[t] = "given"
      BY <1>2, <1>3, TakenAndGiven
    <3> QED BY <1>6, <3>1 DEF In
  <2>3. Out(bank, bank', a) \subseteq Transfers /\ In(bank, bank', a) \subseteq Transfers
    BY DEF Out, In, Taken, Given
  <2>4. /\ Money!Total(out(a) \cup late1(a)) = AmountsOf(bank, Out(bank, bank', a))
        /\ Money!Total(in(a)) = AmountsOf(bank, In(bank, bank', a))
    BY <2>1, <2>2, <2>3, TotalIs
  <2>5. balance[a] = bank.accounts[a].balance /\ balance'[a] = bank'.accounts[a].balance
    OBVIOUS
  <2>6. bank'.accounts[a].balance \in Nat
    BY TermTypes DEF Sound
  <2>7. bank'.accounts[a].balance = bank.accounts[a].balance - AmountsOf(bank, Out(bank, bank', a)) + AmountsOf(bank, In(bank, bank', a))
    BY DEF Advances
  <2> HIDE DEF balance, out, late1, in
  <2> QED BY <2>4, <2>5, <2>6, <2>7
<1> DEFINE phase == [t \in Transfers |-> Phase(t)]
           impatient == \E t \in Transfers : timers[t] = "fired"
<1>9. Money!Progress
  <2>1. phase = f /\ phase' = g
    BY <1>4
  <2> HIDE DEF balance, order, phase
  <2>2. \A t \in Transfers :
          \/ phase'[t] = phase[t]
          \/ <<phase[t], phase'[t]>> \in Money!Moves
          \/ impatient /\ <<phase[t], phase'[t]>> \in Money!GivingUp
    BY <1>5, <2>1 DEF Impatient
  <2>3. \A t \in Transfers : phase[t] # "none" => order'[t] = order[t]
    BY <1>7, <2>1
  <2>4. \A a \in Accounts :
          LET outs  == {t \in Transfers : order[t].from = a /\ phase[t] = "requested" /\ phase'[t] = "taken"}
              lates == {t \in Transfers : order[t].from = a /\ phase[t] = "refused" /\ phase'[t] = "lost"}
              ins   == {t \in Transfers : order[t].to = a /\ phase[t] # "given" /\ phase'[t] = "given"} IN
          /\ balance'[a] = balance[a] - Money!Total(outs \cup lates) + Money!Total(ins)
          /\ balance'[a] >= 0
    BY <1>8, <2>1
  <2> QED BY <2>2, <2>3, <2>4 DEF Money!Progress, Money!Becomes, balance, order, phase
<1> QED BY <1>9 DEF Money!Next

\* Nothing that the abstract bank sees changes.
Standstill ==
  /\ \A a \in Accounts : bank'.accounts[a].balance = bank.accounts[a].balance
  /\ \A t \in Transfers : SameOrder(bank, bank', t) /\ PhaseOf(bank', t) = PhaseOf(bank, t)

Step == Money!Next \/ Standstill

\* Of the saga: an instance that runs has its timer set, and has fired when it ended by itself;
\* who has lost patience, or a command that was tried, is behind every failure.
SagaSound ==
  /\ DOMAIN sagas = Transfers /\ DOMAIN timers = Transfers
  /\ \A t \in Transfers :
       /\ sagas[t].status \in {"none", "active", "ended"}
       /\ sagas[t].status = "none" => timers[t] = "none"
       /\ sagas[t].status = "active" => timers[t] = "pending" /\ Ordered(bank, t)
       /\ StatusOf(bank, t) = "failed" =>
            Impatient \/ \E c \in commands : Withdraws(c) /\ c.transfer = t /\ c.status # "pending"
  /\ \A c \in commands : Ordered(bank, c.transfer) /\ (Withdraws(c) \/ Impatient)

MoneyInv ==
  /\ StatusSound(bank)
  /\ "projections" \in deployed => RefusedSound
  /\ "saga" \in deployed => SagaSound

LEMMA SameEvents ==
  ASSUME NEW b, NEW c, c.log = b.log
  PROVE  Taken(c) = Taken(b) /\ Given(c) = Given(b)
BY DEF Taken, Given, Logged

\* The transfers stay where they are.
LEMMA TransfersStand ==
  ASSUME NEW b, NEW c, c.transactions = b.transactions, Taken(c) = Taken(b), Given(c) = Given(b)
  PROVE  /\ \A t \in Transfers : SameOrder(b, c, t) /\ PhaseOf(c, t) = PhaseOf(b, t) /\ StatusOf(c, t) = StatusOf(b, t)
         /\ \A t \in Transfers : Ordered(c, t) <=> Ordered(b, t)
         /\ StatusSound(b) => StatusSound(c)
<1>1. \A t \in Transfers : SameOrder(b, c, t) /\ StatusOf(c, t) = StatusOf(b, t) /\ (Ordered(c, t) <=> Ordered(b, t))
  BY DEF SameOrder, StatusOf, Ordered
<1>2. \A t \in Transfers : PhaseOf(c, t) = PhaseOf(b, t)
  BY <1>1 DEF PhaseOf
<1>3. StatusSound(b) => StatusSound(c)
  BY <1>1 DEF StatusSound
<1> QED BY <1>1, <1>2, <1>3

LEMMA CounterOpens ==
  ASSUME Sound(bank), Sound(bank'), bank'.transactions = bank.transactions,
         Taken(bank') = Taken(bank), Given(bank') = Given(bank), UNCHANGED timers,
         NEW x \in Accounts, \A a \in Accounts \ {x} : bank'.accounts[a].balance = bank.accounts[a].balance
  PROVE  Money!Next
<1>1. \A t \in Transfers : Phase(t)' = Phase(t)
  BY PhaseIs, NextPhaseIs, TransfersStand
<1>2. \A a \in Accounts : bank'.accounts[a].balance >= 0
  BY TermTypes DEF Sound
<1>3. Money!Counter
  BY <1>1, <1>2 DEF Money!Counter
<1> QED BY <1>3 DEF Money!Next

\* The log of c begins with that of b.
Remembers(b, c) ==
  \A i \in DOMAIN b.log : i \in DOMAIN c.log /\ c.log[i].type = b.log[i].type /\ c.log[i].transfer = b.log[i].transfer

\* A step that is not the chain's.
LEMMA RoutesKeepTransfers ==
  ASSUME MoneyInv, StatusSound(bank'), Remembers(bank, bank'), Taken(bank') = Taken(bank),
         \A t \in Transfers : Ordered(bank, t) => Ordered(bank', t),
         \A t \in Transfers : StatusOf(bank', t) = "failed" => StatusOf(bank, t) = "failed",
         "saga" \in deployed => \A c \in commands : c.transfer \in Transfers,
         UNCHANGED <<deployed, ckpt, sagas, timers, commands>>
  PROVE  MoneyInv'
<1>1. "projections" \in deployed => RefusedSound'
  <2> SUFFICES ASSUME "projections" \in deployed, NEW t \in Transfers, StatusOf(bank', t) = "failed"
               PROVE  /\ t \notin Taken(bank')
                      /\ \E i \in DOMAIN bank'.log : i <= ckpt["withdrawal-handler"] /\ Is(bank'.log[i], "TransactionStarted", t)
    BY DEF RefusedSound
  <2>1. RefusedSound /\ StatusOf(bank, t) = "failed"
    BY DEF MoneyInv
  <2>2. t \notin Taken(bank)
    BY <2>1 DEF RefusedSound
  <2>3. PICK i \in DOMAIN bank.log : i <= ckpt["withdrawal-handler"] /\ Is(bank.log[i], "TransactionStarted", t)
    BY <2>1 DEF RefusedSound
  <2> QED BY <2>2, <2>3 DEF Remembers, Is
<1>2. "saga" \in deployed => SagaSound'
  <2> SUFFICES ASSUME "saga" \in deployed PROVE SagaSound'
    OBVIOUS
  <2>1. SagaSound /\ \A c \in commands : c.transfer \in Transfers
    BY DEF MoneyInv
  <2>2. Impatient' <=> Impatient
    BY DEF Impatient
  <2> QED BY <2>1, <2>2 DEF SagaSound
<1> QED BY <1>1, <1>2 DEF MoneyInv

\* The commands are for transfers.
LEMMA CommandsForTransfers ==
  ASSUME BankingInv, "saga" \in deployed
  PROVE  \A c \in commands : c.transfer \in Transfers /\ c \in CommandRecord
BY DEF BankingInv, CommandsSound, CommandRecord

LEMMA StartCounts ==
  ASSUME BankingInv, BankingInv', MoneyInv, NEW x \in Accounts, NEW m,
         bank' = [bank EXCEPT !.accounts[x] = m], UNCHANGED <<deployed, ckpt, sagas, timers, commands>>
  PROVE  MoneyInv' /\ Step
<1>1. Sound(bank) /\ Sound(bank') /\ bank \in BankRecord
  BY DEF BankingInv, Sound
<1>2. /\ bank'.transactions = bank.transactions /\ bank'.log = bank.log
      /\ \A a \in Accounts \ {x} : bank'.accounts[a] = bank.accounts[a]
  BY <1>1 DEF BankRecord
<1>3. Taken(bank') = Taken(bank) /\ Given(bank') = Given(bank)
  BY <1>2, SameEvents
<1>4. Money!Next
  BY <1>1, <1>2, <1>3, CounterOpens
<1>5. /\ StatusSound(bank')
      /\ \A t \in Transfers : (Ordered(bank', t) <=> Ordered(bank, t)) /\ StatusOf(bank', t) = StatusOf(bank, t)
  BY <1>2, <1>3, TransfersStand DEF MoneyInv
<1>7. Remembers(bank, bank')
  BY <1>2 DEF Remembers
<1>6. MoneyInv'
  BY <1>3, <1>5, <1>7, CommandsForTransfers, RoutesKeepTransfers
<1> QED BY <1>4, <1>6 DEF Step

LEMMA BankStands ==
  ASSUME BankingInv, BankingInv', MoneyInv, UNCHANGED <<deployed, bank, ckpt, sagas, timers, commands>>
  PROVE  MoneyInv' /\ Step
<1>1. Standstill
  BY DEF Standstill, SameOrder
<1>2. MoneyInv'
  BY DEF MoneyInv, RefusedSound, SagaSound, Impatient
<1> QED BY <1>1, <1>2 DEF Step

LEMMA PostRequests ==
  ASSUME BankingInv, BankingInv', MoneyInv, NEW r \in Orders, PostTransfer(r),
         UNCHANGED <<deployed, ckpt, sagas, timers, commands>>
  PROVE  MoneyInv' /\ Step
<1>1. Sound(bank) /\ Sound(bank') /\ bank \in BankRecord /\ StatusSound(bank)
  BY DEF BankingInv, Sound, MoneyInv
<1>2. PICK t \in Transfers, o \in TransactionRecord, e \in Entry :
           /\ bank.transactions[t] = NoTransaction
           /\ o.status = "started" /\ o.from \in Accounts /\ o.to \in Accounts /\ o.amount > 0
           /\ e.type = "TransactionStarted" /\ e.transfer = t
           /\ bank' \in BankRecord /\ bank'.accounts = bank.accounts /\ bank'.log = Append(bank.log, e)
           /\ bank'.transactions[t] = o /\ \A u \in Transfers \ {t} : bank'.transactions[u] = bank.transactions[u]
  BY <1>1, PostIs
<1>3. Taken(bank') = Taken(bank) /\ Given(bank') = Given(bank)
  <2>1. \A type, u : Logged(bank', type, u) <=> Logged(bank, type, u) \/ Is(e, type, u)
    BY <1>1, <1>2, LogGrows
  <2>2. \A type \in {"WithdrawalCompleted", "DepositCompleted"} : \A u : ~Is(e, type, u)
    BY <1>2 DEF Is
  <2> QED BY <2>1, <2>2 DEF Taken, Given
<1>4. StatusOf(bank, t) = "pending" /\ ~Ordered(bank, t) /\ StatusOf(bank', t) = "started" /\ Ordered(bank', t)
  BY <1>1, <1>2 DEF NoTransaction, StatusOf, Ordered, StatusSound
<1>5. t \notin Taken(bank) /\ t \notin Given(bank)
  BY <1>1, <1>4 DEF Sound, LogSound, Taken, Given, Logged, Is, Moving
<1>6. ASSUME NEW u \in Transfers \ {t}
      PROVE  /\ SameOrder(bank, bank', u) /\ StatusOf(bank', u) = StatusOf(bank, u)
             /\ (Ordered(bank', u) <=> Ordered(bank, u)) /\ PhaseOf(bank', u) = PhaseOf(bank, u)
  <2>1. SameOrder(bank, bank', u) /\ StatusOf(bank', u) = StatusOf(bank, u)
    BY <1>2 DEF SameOrder, StatusOf
  <2>2. Alike(bank, bank', u)
    BY <1>3, <2>1 DEF Alike
  <2> QED BY <2>1, <2>2, AlikeIs
<1>7. PhaseOf(bank, t) = "none" /\ PhaseOf(bank', t) = "requested"
  BY <1>3, <1>4, <1>5 DEF PhaseOf
<1>8. \A a \in Accounts : bank'.accounts[a].balance =
        bank.accounts[a].balance - AmountsOf(bank, Out(bank, bank', a)) + AmountsOf(bank, In(bank, bank', a))
  <2> SUFFICES ASSUME NEW a \in Accounts
               PROVE  bank'.accounts[a].balance = bank.accounts[a].balance
                        - AmountsOf(bank, Out(bank, bank', a)) + AmountsOf(bank, In(bank, bank', a))
    OBVIOUS
  <2>1. Out(bank, bank', a) = {} /\ In(bank, bank', a) = {}
    BY <1>3 DEF Out, In
  <2>2. AmountsOf(bank, {}) = 0 /\ bank.accounts[a].balance \in Nat
    BY <1>1, AmountsAre, TermTypes
  <2>3. PICK n : n = bank.accounts[a].balance
    OBVIOUS
  <2>4. n = n - 0 + 0
    BY <2>2, <2>3
  <2> QED BY <1>2, <2>1, <2>2, <2>3, <2>4
<1>9. Advances(bank, bank')
  <2>1. Further(bank, bank', t)
    BY <1>7 DEF Further, Money!Moves
  <2> QED BY <1>6, <1>7, <1>8, <2>1 DEF Advances
<1>10. Money!Next
  BY <1>1, <1>9, BankProgresses
<1>11. StatusSound(bank')
  BY <1>1, <1>3, <1>4, <1>6 DEF StatusSound
<1>12. /\ \A u \in Transfers : Ordered(bank, u) => Ordered(bank', u)
       /\ \A u \in Transfers : StatusOf(bank', u) = "failed" => StatusOf(bank, u) = "failed"
  BY <1>4, <1>6
<1>14. Remembers(bank, bank')
  BY <1>1, <1>2, LogGrows DEF Remembers
<1>13. MoneyInv'
  BY <1>3, <1>11, <1>12, <1>14, CommandsForTransfers, RoutesKeepTransfers
<1> QED BY <1>10, <1>13 DEF Step

LEMMA CommitStands ==
  ASSUME BankingInv, BankingInv', MoneyInv, NEW i \in DOMAIN bank.log, CommitTransfer(i),
         UNCHANGED <<deployed, ckpt, sagas, timers, commands>>
  PROVE  MoneyInv' /\ Step
<1>1. Sound(bank) /\ Sound(bank') /\ bank \in BankRecord
  BY DEF BankingInv, Sound
<1>2. bank' = [bank EXCEPT !.log[i].visible = TRUE]
  BY DEF CommitTransfer
<1>3. bank.log \in Seq(Entry) /\ bank.log[i] \in Entry
  BY <1>1, BankFields
<1>4. bank'.transactions = bank.transactions /\ bank'.accounts = bank.accounts
      /\ DOMAIN bank'.log = DOMAIN bank.log
      /\ \A j \in DOMAIN bank.log : bank'.log[j].type = bank.log[j].type /\ bank'.log[j].transfer = bank.log[j].transfer
  <2>1. PICK e : e = [bank.log[i] EXCEPT !.visible = TRUE]
    OBVIOUS
  <2>2. bank' = [bank EXCEPT !.log = [bank.log EXCEPT ![i] = e]]
    BY <1>2, <2>1 DEF BankRecord
  <2>3. e.type = bank.log[i].type /\ e.transfer = bank.log[i].transfer
    BY <1>3, <2>1 DEF Entry
  <2>4. bank'.transactions = bank.transactions /\ bank'.accounts = bank.accounts /\ bank'.log = [bank.log EXCEPT ![i] = e]
    BY <1>1, <2>2 DEF BankRecord
  <2> QED BY <2>3, <2>4
<1>5. Taken(bank') = Taken(bank) /\ Given(bank') = Given(bank)
  BY <1>4 DEF Taken, Given, Logged, Is
<1>6. /\ \A t \in Transfers : SameOrder(bank, bank', t) /\ PhaseOf(bank', t) = PhaseOf(bank, t)
                              /\ StatusOf(bank', t) = StatusOf(bank, t)
      /\ \A t \in Transfers : Ordered(bank', t) <=> Ordered(bank, t)
      /\ StatusSound(bank')
  BY <1>4, <1>5, TransfersStand DEF MoneyInv
<1>7. Standstill
  BY <1>4, <1>6 DEF Standstill
<1>9. Remembers(bank, bank')
  BY <1>4 DEF Remembers
<1>8. MoneyInv'
  BY <1>5, <1>6, <1>9, CommandsForTransfers, RoutesKeepTransfers
<1> QED BY <1>7, <1>8 DEF Step

LEMMA CatchUpProgresses ==
  ASSUME BankingInv, BankingInv', MoneyInv, "projections" \in deployed, NEW p \in Projections, CatchUp(p),
         UNCHANGED <<deployed, timers>>
  PROVE  MoneyInv' /\ Step
<1>1. /\ Sound(bank) /\ Sound(bank') /\ bank \in BankRecord /\ bank' \in BankRecord
      /\ ckpt \in [Projections -> Nat] /\ CaughtUp(p) /\ "saga" \notin deployed
      /\ StatusSound(bank) /\ RefusedSound
  BY DEF BankingInv, MoneyInv, Sound
<1>2. PICK m : m = Max(Window(p))
  OBVIOUS
<1>3. Window(p) # {} /\ bank' \in Outcomes(p) /\ ckpt' = [ckpt EXCEPT ![p] = m]
  BY <1>2 DEF CatchUp
<1>4. (\A i \in Window(p) : i <= m) /\ m \in Nat /\ m > ckpt[p] /\ Window(p) \subseteq DOMAIN bank.log
  BY <1>1, <1>2, <1>3, WindowIs
<1>5. Along(p, bank', Len(bank.log))
  BY <1>1, <1>3, OutcomesGoOn
<1>6. /\ StatusSound(bank') /\ Balanced(bank, bank') /\ Follows(bank, bank')
      /\ \A t \in Transfers :
           \/ Alike(bank, bank', t)
           \/ /\ Touched(p, Len(bank.log), t) /\ Further(bank, bank', t)
              /\ StatusOf(bank', t) = "failed" => p = "withdrawal-handler" /\ t \notin Taken(bank')
  BY <1>5 DEF Along, Midway
<1>7. Advances(bank, bank')
  BY <1>6, AlikeIs DEF Advances, Balanced
<1>8. Money!Next
  BY <1>1, <1>7, BankProgresses
<1>9. Grown(bank, bank')
  BY <1>1, <1>6, FollowsIsGrown
<1>10. /\ p = "withdrawal-handler" => ckpt'["withdrawal-handler"] = m
       /\ p # "withdrawal-handler" => ckpt'["withdrawal-handler"] = ckpt["withdrawal-handler"]
       /\ "withdrawal-handler" \in Projections /\ ckpt["withdrawal-handler"] \in Nat
  BY <1>1, <1>3 DEF Projections
<1>11. RefusedSound'
  <2> SUFFICES ASSUME NEW t \in Transfers, StatusOf(bank', t) = "failed"
               PROVE  /\ t \notin Taken(bank')
                      /\ \E i \in DOMAIN bank'.log : i <= ckpt'["withdrawal-handler"] /\ Is(bank'.log[i], "TransactionStarted", t)
    BY DEF RefusedSound
  <2>1. CASE Alike(bank, bank', t)
    <3>1. t \notin Taken(bank) /\ t \notin Taken(bank')
      BY <1>1, <2>1 DEF Alike, RefusedSound
    <3>2. PICK i \in DOMAIN bank.log : i <= ckpt["withdrawal-handler"] /\ Is(bank.log[i], "TransactionStarted", t)
      BY <1>1, <2>1 DEF Alike, RefusedSound
    <3>3. i \in Nat
      BY <1>1, BankFields
    <3>4. i <= ckpt'["withdrawal-handler"]
      <4>1. CASE p = "withdrawal-handler"
        BY <1>4, <1>10, <3>2, <3>3, <4>1
      <4>2. CASE p # "withdrawal-handler"
        BY <1>10, <3>2, <4>2
      <4> QED BY <4>1, <4>2
    <3> QED BY <1>9, <3>1, <3>2, <3>4 DEF Grown, Is
  <2>2. CASE ~Alike(bank, bank', t)
    <3>1. Touched(p, Len(bank.log), t) /\ p = "withdrawal-handler" /\ t \notin Taken(bank')
      BY <1>6, <2>2
    <3>2. PICK j \in Window(p) : Is(bank.log[j], "TransactionStarted", t)
      BY <3>1 DEF Touched, Takes
    <3>3. j \in DOMAIN bank.log /\ j <= ckpt'["withdrawal-handler"]
      BY <1>4, <1>10, <3>1
    <3> QED BY <1>9, <3>1, <3>2, <3>3 DEF Grown, Is
  <2> QED BY <2>1, <2>2
<1>12. MoneyInv'
  BY <1>1, <1>6, <1>11 DEF MoneyInv
<1> QED BY <1>8, <1>12 DEF Step

\* A step of the saga: what becomes of the bank is a step of the abstract one.
LEMMA SagaSteps ==
  ASSUME BankingInv, MoneyInv, "saga" \in deployed, UNCHANGED deployed, StatusSound(bank'), SagaSound', Step
  PROVE  MoneyInv' /\ Step
<1>1. "projections" \notin deployed
  BY DEF BankingInv
<1> QED BY <1>1 DEF MoneyInv

LEMMA BankRests ==
  ASSUME UNCHANGED bank
  PROVE  Step /\ (StatusSound(bank) => StatusSound(bank'))
<1>1. Standstill
  BY DEF Standstill, SameOrder
<1> QED BY <1>1 DEF Step

\* One instance moves on: s and w are what becomes of it and of its timer.
LEMMA InstanceMoves ==
  ASSUME SagaSound, UNCHANGED bank, NEW t \in Transfers, NEW s, NEW w, Ordered(bank, t),
         sagas' = [sagas EXCEPT ![t] = s], timers' = [timers EXCEPT ![t] = w],
         \/ s.status = "active" /\ w = "pending"
         \/ s.status = "ended" /\ w = "fired",
         timers[t] # "fired", commands \subseteq commands',
         \A c \in commands' \ commands : c.transfer = t /\ (Withdraws(c) \/ Impatient')
  PROVE  SagaSound'
<1>1. /\ DOMAIN sagas' = Transfers /\ DOMAIN timers' = Transfers
      /\ sagas'[t] = s /\ timers'[t] = w
      /\ \A u \in Transfers \ {t} : sagas'[u] = sagas[u] /\ timers'[u] = timers[u]
  BY DEF SagaSound
<1>2. Impatient => Impatient'
  BY <1>1 DEF Impatient
<1>3. ASSUME NEW u \in Transfers
      PROVE  /\ sagas'[u].status \in {"none", "active", "ended"}
             /\ sagas'[u].status = "none" => timers'[u] = "none"
             /\ sagas'[u].status = "active" => timers'[u] = "pending" /\ Ordered(bank', u)
  <2>1. CASE u = t
    BY <1>1, <2>1
  <2>2. CASE u # t
    BY <1>1, <2>2 DEF SagaSound
  <2> QED BY <2>1, <2>2
<1>4. ASSUME NEW u \in Transfers, StatusOf(bank', u) = "failed"
      PROVE  Impatient' \/ \E c \in commands' : Withdraws(c) /\ c.transfer = u /\ c.status # "pending"
  BY <1>2, <1>4 DEF SagaSound
<1>5. ASSUME NEW c \in commands' PROVE Ordered(bank', c.transfer) /\ (Withdraws(c) \/ Impatient')
  <2>1. CASE c \in commands
    BY <1>2, <2>1 DEF SagaSound
  <2>2. CASE c \notin commands
    BY <2>2
  <2> QED BY <2>1, <2>2
<1> QED BY <1>1, <1>3, <1>4, <1>5 DEF SagaSound

LEMMA DeliverStands ==
  ASSUME BankingInv, MoneyInv, "saga" \in deployed, NEW i \in DOMAIN bank.log, Deliver(i), UNCHANGED deployed
  PROVE  MoneyInv' /\ Step
<1>1. PICK e : e = bank.log[i]
  OBVIOUS
<1>2. PICK t : t = e.transfer
  OBVIOUS
<1>3. Sound(bank) /\ bank \in BankRecord /\ SagaSound /\ StatusSound(bank)
  BY DEF BankingInv, MoneyInv, Sound
<1>4. e \in Entry /\ t \in Transfers
  BY <1>1, <1>2, <1>3, BankFields, EntryFields
<1>5. e.enqueued /\ bank' = bank
  BY <1>1 DEF Deliver
<1>6. e.type = "TransactionStarted"
  BY <1>1, <1>3, <1>5 DEF Sound, LogSound
<1>7. Ordered(bank, t)
  BY <1>1, <1>2, <1>3, <1>6 DEF Sound, LogSound, Moving
<1>8. PICK instance : instance = InstanceFor(t, "TransactionStarted")
  OBVIOUS
<1>9. PICK reaction : reaction = ReactToEvent("TransactionStarted", instance.step, timers[t])
  OBVIOUS
<1>10. \/ instance.status = "active" /\ Applied(t, instance, reaction, i)
       \/ UNCHANGED <<sagas, timers, commands>>
  BY <1>1, <1>2, <1>6, <1>8, <1>9 DEF Deliver
<1>11. SagaSound'
  <2>1. CASE UNCHANGED <<sagas, timers, commands>>
    BY <1>3, <1>5, <2>1 DEF SagaSound, Impatient
  <2>2. CASE instance.status = "active" /\ Applied(t, instance, reaction, i)
    <3>1. reaction.emits = {"WithdrawFromAccount"} /\ reaction.timer = "pending" /\ ~reaction.end
      BY <1>9 DEF ReactToEvent, Reaction
    <3>2. PICK s : s = [status |-> "active", step |-> reaction.step, lastPos |-> i]
      OBVIOUS
    <3>3. /\ sagas' = [sagas EXCEPT ![t] = s] /\ timers' = [timers EXCEPT ![t] = "pending"]
          /\ commands' = commands \cup
               {[type |-> c, transfer |-> t, attempts |-> 0, status |-> "pending"] : c \in {"WithdrawFromAccount"}}
      BY <2>2, <3>1, <3>2 DEF Applied
    <3>4. timers[t] # "fired"
      <4>1. sagas[t].status \in {"none", "active"}
        BY <1>8, <2>2 DEF InstanceFor
      <4> QED BY <1>3, <1>4, <4>1 DEF SagaSound
    <3>5. \A c \in commands' \ commands : c.transfer = t /\ Withdraws(c)
      BY <3>3 DEF Withdraws
    <3>6. s.status = "active" /\ commands \subseteq commands'
      BY <3>2, <3>3
    <3> QED BY <1>3, <1>4, <1>5, <1>7, <3>3, <3>4, <3>5, <3>6, InstanceMoves
  <2> QED BY <1>10, <2>1, <2>2
<1> QED BY <1>3, <1>5, <1>11, BankRests, SagaSteps

LEMMA FireStands ==
  ASSUME BankingInv, MoneyInv, "saga" \in deployed, NEW t \in Transfers, Fire(t), UNCHANGED deployed
  PROVE  MoneyInv' /\ Step
<1>1. SagaSound /\ StatusSound(bank) /\ bank' = bank /\ timers[t] = "pending"
  BY DEF MoneyInv, Fire
<1>2. sagas[t].status \in {"active", "ended"}
  BY <1>1 DEF SagaSound
<1>3. DOMAIN timers' = Transfers /\ timers'[t] = "fired"
  <2>1. timers' = [timers EXCEPT ![t] = "fired"]
    BY DEF Fire, Applied, ReactToTimer, Reaction
  <2> QED BY <1>1, <2>1 DEF SagaSound
<1>4. Impatient'
  BY <1>3 DEF Impatient
<1>5. SagaSound'
  <2>1. CASE sagas[t].status = "active"
    <3>1. PICK reaction : reaction = ReactToTimer(sagas[t].step)
      OBVIOUS
    <3>2. Applied(t, sagas[t], reaction, sagas[t].lastPos)
      BY <2>1, <3>1 DEF Fire
    <3>3. reaction.emits = {"FailTransaction"} /\ reaction.timer = "fired" /\ reaction.end
      BY <3>1 DEF ReactToTimer, Reaction
    <3>4. PICK s : s = [status |-> "ended", step |-> reaction.step, lastPos |-> sagas[t].lastPos]
      OBVIOUS
    <3>5. /\ sagas' = [sagas EXCEPT ![t] = s] /\ timers' = [timers EXCEPT ![t] = "fired"]
          /\ commands' = commands \cup
               {[type |-> c, transfer |-> t, attempts |-> 0, status |-> "pending"] : c \in {"FailTransaction"}}
      BY <3>2, <3>3, <3>4 DEF Applied
    <3>6. Ordered(bank, t) /\ timers[t] # "fired" /\ s.status = "ended" /\ commands \subseteq commands'
      BY <1>1, <2>1, <3>4, <3>5 DEF SagaSound
    <3>7. \A c \in commands' \ commands : c.transfer = t
      BY <3>5
    <3> QED BY <1>1, <1>4, <3>5, <3>6, <3>7, InstanceMoves
  <2>2. CASE sagas[t].status = "ended"
    <3>1. timers' = [timers EXCEPT ![t] = "fired"] /\ sagas' = sagas /\ commands' = commands
      BY <2>2 DEF Fire
    <3>2. \A u \in Transfers \ {t} : timers'[u] = timers[u]
      BY <1>1, <3>1 DEF SagaSound
    <3> QED BY <1>1, <1>3, <1>4, <2>2, <3>1, <3>2 DEF SagaSound
  <2> QED BY <1>2, <2>1, <2>2
<1> QED BY <1>1, <1>5, BankRests, SagaSteps

\* A command that was tried takes its own place.
LEMMA CommandTried ==
  ASSUME SagaSound, NEW c \in commands, c.status = "pending", NEW d, d.type = c.type, d.transfer = c.transfer,
         commands' = (commands \ {c}) \cup {d}, UNCHANGED <<sagas, timers>>,
         c.transfer \in Transfers, \A u \in Transfers : Ordered(bank, u) => Ordered(bank', u),
         \A e \in commands : e.transfer \in Transfers,
         \A u \in Transfers : StatusOf(bank', u) = "failed" =>
           StatusOf(bank, u) = "failed" \/ Impatient \/ (u = c.transfer /\ Withdraws(c) /\ d.status # "pending")
  PROVE  SagaSound'
<1>1. Withdraws(d) <=> Withdraws(c)
  BY DEF Withdraws
<1>2. Impatient' <=> Impatient
  BY DEF Impatient
<1>3. \A e \in commands' : Ordered(bank', e.transfer) /\ (Withdraws(e) \/ Impatient')
  BY <1>1, <1>2 DEF SagaSound
<1>4. ASSUME NEW u \in Transfers, StatusOf(bank', u) = "failed"
      PROVE  Impatient' \/ \E e \in commands' : Withdraws(e) /\ e.transfer = u /\ e.status # "pending"
  <2>1. CASE StatusOf(bank, u) = "failed"
    <3>1. Impatient \/ \E e \in commands : Withdraws(e) /\ e.transfer = u /\ e.status # "pending"
      BY <2>1 DEF SagaSound
    <3> QED BY <1>2, <3>1
  <2>2. CASE StatusOf(bank, u) # "failed"
    BY <1>1, <1>2, <1>4, <2>2
  <2> QED BY <2>1, <2>2
<1> QED BY <1>3, <1>4 DEF SagaSound

LEMMA DispatchFailsStands ==
  ASSUME BankingInv, MoneyInv, "saga" \in deployed, NEW c \in commands, DispatchFails(c), UNCHANGED deployed
  PROVE  MoneyInv' /\ Step
<1>1. SagaSound /\ StatusSound(bank) /\ (\A e \in commands : e.transfer \in Transfers) /\ c \in CommandRecord
  BY CommandsForTransfers DEF MoneyInv
<1>2. PICK d : d = [c EXCEPT !.attempts = @ + 1,
                             !.status = IF c.attempts + 1 >= MaxDispatches THEN "failed" ELSE "pending"]
  OBVIOUS
<1>3. d.type = c.type /\ d.transfer = c.transfer
  BY <1>1, <1>2 DEF CommandRecord
<1>4. c.status = "pending" /\ bank' = bank /\ commands' = (commands \ {c}) \cup {d} /\ UNCHANGED <<sagas, timers>>
  BY <1>2 DEF DispatchFails, Becomes
<1>5. SagaSound'
  BY <1>1, <1>3, <1>4, CommandTried
<1> QED BY <1>1, <1>4, <1>5, BankRests, SagaSteps

LEMMA DispatchProgresses ==
  ASSUME BankingInv, BankingInv', MoneyInv, "saga" \in deployed, NEW c \in commands, Dispatch(c), UNCHANGED deployed
  PROVE  MoneyInv' /\ Step
<1>1. /\ Sound(bank) /\ Sound(bank') /\ bank \in BankRecord /\ CommandsSound(bank, delivered, commands)
      /\ SagaSound /\ StatusSound(bank) /\ (\A e \in commands : e.transfer \in Transfers) /\ c \in CommandRecord
  BY CommandsForTransfers DEF BankingInv, MoneyInv, Sound
<1>2. PICK t : t = c.transfer
  OBVIOUS
<1>3. t \in Transfers /\ c.type \in {"WithdrawFromAccount", "FailTransaction"} /\ c.status = "pending"
  BY <1>1, <1>2 DEF CommandRecord, Dispatch
<1>4. PICK d : d = [c EXCEPT !.status = "acked"]
  OBVIOUS
<1>5. d.type = c.type /\ d.transfer = c.transfer /\ d.status # "pending"
  BY <1>1, <1>4 DEF CommandRecord
<1>6. bank' \in HandleCommand(bank, c) /\ commands' = (commands \ {c}) \cup {d} /\ UNCHANGED <<sagas, timers>>
  BY <1>4 DEF Dispatch, Becomes
<1>7. Ordered(bank, t)
  BY <1>1, <1>2 DEF SagaSound
<1>8. /\ Work(bank, bank', t) /\ StatusSound(bank')
      /\ PhaseOf(bank', t) = PhaseOf(bank, t) \/ Further(bank, bank', t) \/ (Impatient /\ GivesUp(bank, bank', t))
      /\ Withdraws(c) \/ Impatient
  <2>1. CASE Withdraws(c)
    <3>1. bank' \in Withdraw(bank, t)
      BY <1>2, <1>6, <2>1 DEF HandleCommand, WithdrawFromAccount, Withdraws
    <3>2. t \notin Taken(bank)
      BY <1>1, <1>2, <1>3, <2>1 DEF CommandsSound, Taken
    <3>3. /\ Work(bank, bank', t) /\ StatusSound(bank')
          /\ StatusOf(bank, t) = "started" => Further(bank, bank', t)
          /\ StatusOf(bank, t) # "started" => StatusOf(bank, t) = "failed" /\ GivesUp(bank, bank', t)
      BY <1>1, <1>3, <1>7, <3>1, <3>2, WithdrawGoesOn
    <3>4. StatusOf(bank, t) = "failed" => Impatient
      <4> SUFFICES ASSUME StatusOf(bank, t) = "failed", ~Impatient PROVE FALSE
        OBVIOUS
      <4>1. PICK e \in commands : Withdraws(e) /\ e.transfer = t /\ e.status # "pending"
        BY <1>1, <1>3 DEF SagaSound
      <4>2. e = c
        BY <1>1, <1>2, <2>1, <4>1 DEF CommandsSound
      <4> QED BY <1>3, <4>1, <4>2
    <3> QED BY <2>1, <3>3, <3>4
  <2>2. CASE ~Withdraws(c)
    <3>1. bank' \in Fail(bank, t)
      BY <1>2, <1>3, <1>6, <2>2 DEF HandleCommand, FailTransaction, Withdraws
    <3>2. Impatient
      BY <1>1, <2>2 DEF SagaSound
    <3> QED BY <1>1, <1>3, <1>7, <3>1, <3>2, FailGoesOn
  <2> QED BY <2>1, <2>2
<1>9. Balanced(bank, bank')
  <2>1. Balanced(bank, bank) /\ Restated(bank, bank', t, StatusOf(bank', t))
        /\ (MovesNothing(bank, bank') \/ TakesOut(bank, bank', t) \/ GivesTo(bank, bank', t))
    BY <1>1, <1>8, BalancedItself DEF Work
  <2> QED BY <1>1, <1>3, <2>1, BalancedOn
<1>10. \A u \in Transfers \ {t} : Alike(bank, bank', u) /\ PhaseOf(bank', u) = PhaseOf(bank, u)
  BY <1>3, <1>8, OthersAlike, AlikeIs
<1>11. Advances(bank, bank')
  BY <1>8, <1>9, <1>10 DEF Advances, Balanced
<1>12. Step
  BY <1>1, <1>6, <1>11, BankProgresses DEF Step
<1>13. \A u \in Transfers : Ordered(bank, u) => Ordered(bank', u)
  BY <1>9 DEF Balanced, SameOrder, Ordered
<1>14. \A u \in Transfers \ {t} : StatusOf(bank', u) = StatusOf(bank, u)
  BY <1>10 DEF Alike
<1>15. SagaSound'
  <2>1. \A u \in Transfers : StatusOf(bank', u) = "failed" =>
          StatusOf(bank, u) = "failed" \/ Impatient \/ (u = c.transfer /\ Withdraws(c) /\ d.status # "pending")
    BY <1>2, <1>5, <1>8, <1>14
  <2> QED BY <1>1, <1>2, <1>3, <1>5, <1>6, <1>13, <2>1, CommandTried
<1> QED BY <1>1, <1>8, <1>12, <1>15, SagaSteps

LEMMA BankingSteps ==
  ASSUME BankingInv, BankingInv', MoneyInv, BankingNext, UNCHANGED deployed
  PROVE  MoneyInv' /\ Step
<1>1. CASE UNCHANGED <<projecting, orchestrating>> /\ ApiStep
  <2>1. UNCHANGED <<deployed, ckpt, sagas, timers, commands>>
    BY <1>1 DEF projecting, orchestrating
  <2>2. ASSUME NEW o \in Openings, Open(o) \/ OpenWithStream(o) PROVE MoneyInv' /\ Step
    <3>1. o.account \in Accounts
      BY BankingAssumption
    <3>2. Start(o.account, 1, o.amount) \/ Start(o.account, 2, o.amount)
      BY <2>2 DEF Open, OpenWithStream
    <3>3. PICK m : bank' = [bank EXCEPT !.accounts[o.account] = m]
      BY <3>2 DEF Start
    <3> QED BY <2>1, <3>1, <3>3, StartCounts
  <2>3. ASSUME NEW o \in Orders, PostTransfer(o) PROVE MoneyInv' /\ Step
    BY <2>1, <2>3, PostRequests
  <2>4. ASSUME NEW x \in Clients, Save(x) PROVE MoneyInv' /\ Step
    <3>1. requests[x].account \in Accounts
      BY <2>4, LoadedRequest DEF Decided, Save
    <3>2. PICK m : bank' = [bank EXCEPT !.accounts[requests[x].account] = m]
      BY <2>4 DEF Save
    <3> QED BY <2>1, <3>1, <3>2, StartCounts
  <2>5. ASSUME NEW x \in Clients, Ask(x) \/ Retry(x) \/ Reject(x) PROVE MoneyInv' /\ Step
    <3>1. UNCHANGED bank
      BY <2>5 DEF Ask, Retry, Reject
    <3> QED BY <2>1, <3>1, BankStands
  <2> QED BY <1>1, <2>2, <2>3, <2>4, <2>5 DEF ApiStep
<1>2. ASSUME UNCHANGED orchestrating, NEW i \in DOMAIN bank.log, CommitTransfer(i), Arrives(i)
      PROVE  MoneyInv' /\ Step
  <2>1. UNCHANGED <<deployed, ckpt, sagas, timers, commands>>
    BY <1>2 DEF orchestrating, Arrives
  <2> QED BY <1>2, <2>1, CommitStands
<1>3. ASSUME "projections" \in deployed, UNCHANGED <<requests, orchestrating>>, NEW p \in Projections, CatchUp(p)
      PROVE  MoneyInv' /\ Step
  <2>1. UNCHANGED timers
    BY <1>3 DEF orchestrating
  <2> QED BY <1>3, <2>1, CatchUpProgresses
<1>4. ASSUME "saga" \in deployed, UNCHANGED <<requests, projecting>>, SagaStep PROVE MoneyInv' /\ Step
  BY <1>4, DeliverStands, FireStands, DispatchProgresses, DispatchFailsStands DEF SagaStep
<1> QED BY <1>1, <1>2, <1>3, <1>4 DEF BankingNext, BankingBackground

LEMMA MoneyStarts ==
  ASSUME BankingInit, Sound(bank)
  PROVE  MoneyInv /\ Money!Init
<1>1. bank = EmptyBank /\ ckpt = [p \in Projections |-> 0] /\ commands = {}
      /\ sagas = [t \in Transfers |-> NoInstance] /\ timers = [t \in Transfers |-> "none"]
  BY DEF BankingInit, ApiInit, ProjectionsInit, SagaInit
<1>2. /\ \A a \in Accounts : bank.accounts[a].balance = 0
      /\ \A t \in Transfers : StatusOf(bank, t) = "pending" /\ ~Ordered(bank, t) /\ t \notin Taken(bank) /\ t \notin Given(bank)
  <2>1. /\ bank.accounts = [a \in Accounts |-> NoAccount] /\ bank.transactions = [t \in Transfers |-> NoTransaction]
        /\ bank.log = <<>>
    BY <1>1 DEF EmptyBank
  <2>2. DOMAIN bank.log = {}
    BY <2>1
  <2> QED BY <2>1, <2>2 DEF StatusOf, Ordered, NoAccount, NoTransaction, Taken, Given, Logged
<1>3. \A t \in Transfers : Phase(t) = "none"
  <2>1. \A t \in Transfers : PhaseOf(bank, t) = "none"
    BY <1>2 DEF PhaseOf
  <2> QED BY <2>1, PhaseIs
<1>4. Money!Init
  BY <1>2, <1>3 DEF Money!Init
<1>5. StatusSound(bank) /\ RefusedSound
  BY <1>2 DEF StatusSound, RefusedSound
<1>6. SagaSound
  BY <1>1, <1>2 DEF SagaSound, NoInstance
<1> QED BY <1>4, <1>5, <1>6 DEF MoneyInv

(* Whichever chain is deployed, and however requests, batches, deliveries, *)
(* timers and commands fall in between: the example implements a bank that *)
(* takes a transfer once, before it gives it once.                         *)
THEOREM ExamplesMoveMoney == Spec => MovesMoney
<1>1. Init => MoneyInv /\ Money!Init
  <2> SUFFICES ASSUME Init PROVE MoneyInv /\ Money!Init
    OBVIOUS
  <2>1. BankingInit /\ BankingInv
    BY BankingStarts DEF Init
  <2> QED BY <2>1, MoneyStarts DEF BankingInv
<1>2. BankingInv /\ BankingInv' /\ MoneyInv /\ [Next]_vars =>
        MoneyInv' /\ [Money!Next]_<<[a \in Accounts |-> bank.accounts[a].balance],
                         [t \in Transfers |-> LET o == bank.transactions[t] IN [from |-> o.from, to |-> o.to, amount |-> o.amount]],
                         [t \in Transfers |-> Phase(t)]>>
  <2> SUFFICES ASSUME BankingInv, BankingInv', MoneyInv, [Next]_vars
               PROVE  MoneyInv' /\ [Money!Next]_<<[a \in Accounts |-> bank.accounts[a].balance],
                         [t \in Transfers |-> LET o == bank.transactions[t] IN [from |-> o.from, to |-> o.to, amount |-> o.amount]],
                         [t \in Transfers |-> Phase(t)]>>
    OBVIOUS
  <2>1. MoneyInv' /\ Step
    <3>1. CASE BankingNext /\ UNCHANGED deployed
      BY <3>1, BankingSteps
    <3>2. CASE UNCHANGED <<deployed, bankingVars>>
      <4>1. UNCHANGED <<deployed, bank, ckpt, sagas, timers, commands>>
        BY <3>2 DEF bankingVars, projecting, orchestrating
      <4> QED BY <4>1, BankStands
    <3> QED BY <3>1, <3>2 DEF Next, vars
  <2>2. CASE Money!Next
    BY <2>1, <2>2
  <2>3. CASE Standstill
    <3>1. \A t \in Transfers : Phase(t)' = Phase(t)
      BY <2>3, PhaseIs, NextPhaseIs DEF BankingInv, Standstill
    <3>2. \A t \in Transfers : SameOrder(bank, bank', t)
      BY <2>3 DEF Standstill
    <3>3. \A a \in Accounts : bank'.accounts[a].balance = bank.accounts[a].balance
      BY <2>3 DEF Standstill
    <3>4. [a \in Accounts |-> bank.accounts[a].balance]' = [a \in Accounts |-> bank.accounts[a].balance]
      BY <3>3
    <3>5. [t \in Transfers |-> Phase(t)]' = [t \in Transfers |-> Phase(t)]
      BY <3>1
    <3>6. [t \in Transfers |-> LET o == bank.transactions[t] IN [from |-> o.from, to |-> o.to, amount |-> o.amount]]'
           = [t \in Transfers |-> LET o == bank.transactions[t] IN [from |-> o.from, to |-> o.to, amount |-> o.amount]]
      BY <3>2 DEF SameOrder
    <3> QED BY <2>1, <3>4, <3>5, <3>6
  <2> QED BY <2>1, <2>2, <2>3 DEF Step
<1> QED BY <1>1, <1>2, BankingAlways, PTL DEF Spec, MovesMoney, Money!Spec
=============================================================================
