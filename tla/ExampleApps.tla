----------------------------- MODULE ExampleApps -----------------------------
(***************************************************************************)
(* The programs of src/examples, and how processes like them start.  They  *)
(* share no state: a behaviour is about the one that is deployed.          *)
(***************************************************************************)
EXTENDS BankingProperties, InsuranceProperties, Startup

CONSTANT Deployments   \* the values of deployed considered

ASSUME DeploymentsAssumption ==
  \A d \in Deployments :
    /\ d \subseteq Clients \cup Transfers \cup {"projections", "saga", "insurance", "startup"}
    /\ ~({"projections", "saga"} \subseteq d)   \* two examples, two databases

Banking == deployed \cap {"projections", "saga"} # {}
Insuring == "insurance" \in deployed
StartingUp == "startup" \in deployed

vars == <<deployed, bankingVars, insuranceVars, startupVars>>

Init ==
  /\ deployed \in Deployments
  /\ BankingInit
  /\ InsuranceInit /\ (~Insuring => inbox = {})
  /\ StartupInit /\ (~StartingUp => \A d \in Databases : database[d].ran = {} /\ database[d].top = 0)

\* What the processes do by themselves.
Background ==
  \/ Banking  /\ BankingBackground   /\ UNCHANGED <<deployed, insuranceVars, startupVars>>
  \/ Insuring /\ InsuranceBackground /\ UNCHANGED <<deployed, bankingVars, startupVars>>

StartupStep(p) ==
  /\ StartingUp /\ \E d \in Served[p] : StartStep(p, d)
  /\ UNCHANGED <<deployed, bankingVars, insuranceVars>>

Next ==
  \/ Banking    /\ BankingNext   /\ UNCHANGED <<deployed, insuranceVars, startupVars>>
  \/ Insuring   /\ InsuranceNext /\ UNCHANGED <<deployed, bankingVars, startupVars>>
  \/ StartingUp /\ StartupNext   /\ UNCHANGED <<deployed, bankingVars, insuranceVars>>

Spec == Init /\ [][Next]_vars

(* Transactions that are open end, and the loops of projectors, runners,   *)
(* schedulers and dispatchers do not stop while there is something to do;  *)
(* a process that exited is started again, and one that starts goes on.    *)
(* Nobody has to send a request.                                           *)
FairSpec == Spec /\ WF_vars(Background) /\ \A p \in Processes : WF_vars(StartupStep(p))

-----------------------------------------------------------------------------
(* What is claimed of processes that start.                                *)

(* A process that serves has what it needs in each of its databases: every *)
(* migration of its plan was run, whoever recorded it, and the table is    *)
(* partitioned if it asked for that.                                       *)
ServesMigrated ==
  /\ \A p \in Processes, d \in Databases :
       d \in Served[p] /\ At(p, d, "up") =>
         /\ ToSet(PlanOf[p]) \subseteq database[d].ran
         /\ p \in Partitioning => database[d].partitioned
  /\ \A d \in Databases : database[d].recorded \subseteq database[d].ran

(* Every process comes up in the end, however the others and the kills     *)
(* fall in between, unless 008 was run and not recorded: that is for ever. *)
StartsSucceed ==
  StartingUp =>
    <>[](\A p \in Processes :
           Up(p) \/ \E d \in Served[p] : 8 \in database[d].ran \ database[d].recorded)
=============================================================================
