------------------------------- MODULE Startup -------------------------------
(***************************************************************************)
(* Starting processes: each runs migrate() on its databases, in parallel,  *)
(* before it serves, while other processes do the same or are serving      *)
(* already; and PgPartitionManager, which migrate() and an operator call.  *)
(***************************************************************************)
EXTENDS Integers, Sequences, FiniteSets, SequencesExt

CONSTANTS
  Processes, Databases,
  Served,          \* the databases of each process: its tenant resolver's pools
  PlanOf,          \* the numbers of the migrations each process applies, in order
  Partitioning,    \* the processes with partitioning.enabled
  PartitionSize,
  Ranges,          \* [from, to] an operator may create a partition for
  Histories,       \* what a database may look like at first: [ran, top]
  MaxTop,          \* bound: the last position written
  MaxCrashes       \* bound: processes killed while they start

ASSUME StartupAssumption ==
  /\ Served \in [Processes -> SUBSET Databases] /\ \A p \in Processes : Served[p] # {}
  /\ \A p \in Processes : PlanOf[p] \in Seq(Nat) /\ IsInjective(PlanOf[p])
  /\ Partitioning \subseteq Processes /\ PartitionSize \in Nat \ {0}
  /\ \A h \in Histories : h.ran \subseteq Nat /\ h.top \in Nat
  /\ Ranges \subseteq [from : Nat, to : Nat] /\ \A r \in Ranges : r.from < r.to

VARIABLES
  database,   \* ran, recorded; partitioned, ranges, made (by createPartition); top: the last position written
  starting,   \* what each process is about to do on each of its databases
  crashes

startupVars == <<database, starting, crashes>>

Off == [at |-> "off", left |-> {}]
Idling == [p \in Processes |-> [d \in Served[p] |-> Off]]

StartupInit ==
  /\ \E h \in Histories :
       database = [d \in Databases |->
         [ran |-> h.ran, recorded |-> h.ran, partitioned |-> FALSE, ranges |-> {}, made |-> {}, top |-> h.top]]
  /\ starting = Idling /\ crashes = 0

At(p, d, label) == starting[p][d].at = label
Up(p) == \A d \in Served[p] : At(p, d, "up")

\* The start fails for one database: Promise.all rejects, and the process exits.
Exit(p) == starting' = [starting EXCEPT ![p] = Idling[p]]

Go(p, d, label, left) == starting' = [starting EXCEPT ![p][d] = [at |-> label, left |-> left]]

-----------------------------------------------------------------------------
(* migrate.                                                                *)

\* Mistake: what counts is the highest number applied.
WrongList(p, d) ==
  /\ At(p, d, "off")
  /\ Go(p, d, "next", {name \in ToSet(PlanOf[p]) : \A done \in database[d].recorded : name > done})
  /\ UNCHANGED <<database, crashes>>

\* What is left to apply, by the one look at schema_migrations.
List(p, d) ==
  /\ At(p, d, "off")
  /\ Go(p, d, "next", ToSet(PlanOf[p]) \ database[d].recorded)
  /\ UNCHANGED <<database, crashes>>

(* Most scripts may run again.  008 adds a constraint by name; and the     *)
(* ON CONFLICT of 005 names columns that are no key any more after 008.    *)
Breaks(d, name) == name \in {5, 8} /\ 8 \in database[d].ran

\* The plan is gone through in order.
Due(p, left) == PlanOf[p][Min({i \in DOMAIN PlanOf[p] : PlanOf[p][i] \in left})]

Run(p, d) ==
  LET left == starting[p][d].left IN
  /\ At(p, d, "next") /\ left # {} /\ ~Breaks(d, Due(p, left))
  /\ database' = [database EXCEPT ![d].ran = @ \cup {Due(p, left)}]
  /\ Go(p, d, "ran", left)
  /\ UNCHANGED crashes

RunFails(p, d) ==
  LET left == starting[p][d].left IN
  /\ At(p, d, "next") /\ left # {} /\ Breaks(d, Due(p, left))
  /\ Exit(p)
  /\ UNCHANGED <<database, crashes>>

\* A statement of its own; without the source column, in the second attempt.
Record(p, d) ==
  LET left == starting[p][d].left IN
  /\ At(p, d, "ran")
  /\ database' = [database EXCEPT ![d].recorded = @ \cup {Due(p, left)}]
  /\ Go(p, d, "next", left \ {Due(p, left)})
  /\ UNCHANGED crashes

\* enablePartitioning looks before it locks.
Finish(p, d) ==
  /\ At(p, d, "next") /\ starting[p][d].left = {}
  /\ Go(p, d, IF p \in Partitioning /\ ~database[d].partitioned THEN "convert" ELSE "up", {})
  /\ UNCHANGED <<database, crashes>>

-----------------------------------------------------------------------------
(* enablePartitioning.                                                     *)

\* Mistake: the boundary is rounded down.
WrongBoundary(d) == (database[d].top \div PartitionSize) * PartitionSize

Boundary(d) ==
  IF database[d].top = 0 THEN PartitionSize ELSE ((database[d].top \div PartitionSize) + 1) * PartitionSize

(* Under ACCESS EXCLUSIVE: the table becomes events_p0, all its rows below *)
(* the boundary.  Whoever has converted it meanwhile has left an events_p0.*)
Convertible(d) == ~database[d].partitioned /\ database[d].top < Boundary(d)

Partitioned(d) ==
  [database EXCEPT ![d].partitioned = TRUE,
     ![d].ranges = {[from |-> 0, to |-> Boundary(d)],
                    [from |-> Boundary(d), to |-> Boundary(d) + PartitionSize]}]

Convert(p, d) ==
  /\ At(p, d, "convert") /\ Convertible(d)
  /\ database' = Partitioned(d)
  /\ Go(p, d, "up", {})
  /\ UNCHANGED crashes

ConvertFails(p, d) ==
  /\ At(p, d, "convert") /\ ~Convertible(d)
  /\ Exit(p)
  /\ UNCHANGED <<database, crashes>>

-----------------------------------------------------------------------------
(* The others: processes that serve, the operator, and whoever kills one.  *)

Fits(d, pos) == ~database[d].partitioned \/ \E r \in database[d].ranges : r.from <= pos /\ pos < r.to

\* An append; positions in between were rolled back.
Write(p, d) ==
  /\ Up(p)
  /\ \E pos \in database[d].top + 1 .. MaxTop :
       Fits(d, pos) /\ database' = [database EXCEPT ![d].top = pos]
  /\ UNCHANGED <<starting, crashes>>

\* POST /ops/partitions/enable, on a process that serves.
EnablePartitioning(d) ==
  /\ \E p \in Processes : d \in Served[p] /\ Up(p)
  /\ Convertible(d)
  /\ database' = Partitioned(d)
  /\ UNCHANGED <<starting, crashes>>

\* PostgreSQL refuses a range that overlaps; a table made before, and detached
\* since, is there and stays detached.
CreatePartition(d) ==
  /\ database[d].partitioned
  /\ \E new \in Ranges \ database[d].made :
       /\ \A r \in database[d].ranges : new.to <= r.from \/ r.to <= new.from
       /\ database' = [database EXCEPT ![d].ranges = @ \cup {new}, ![d].made = @ \cup {new}]
  /\ UNCHANGED <<starting, crashes>>

DetachPartition(d) ==
  /\ \E r \in database[d].ranges : database' = [database EXCEPT ![d].ranges = @ \ {r}]
  /\ UNCHANGED <<starting, crashes>>

Kill(p) ==
  /\ crashes < MaxCrashes /\ ~Up(p) /\ starting[p] # Idling[p]
  /\ crashes' = crashes + 1
  /\ Exit(p)
  /\ UNCHANGED database

-----------------------------------------------------------------------------
StartStep(p, d) ==
  \/ List(p, d) \/ Run(p, d) \/ RunFails(p, d) \/ Record(p, d)
  \/ Finish(p, d) \/ Convert(p, d) \/ ConvertFails(p, d)

StartupNext ==
  \/ \E p \in Processes : Kill(p) \/ \E d \in Served[p] : StartStep(p, d) \/ Write(p, d)
  \/ \E d \in Databases : EnablePartitioning(d) \/ CreatePartition(d) \/ DetachPartition(d)
=============================================================================
