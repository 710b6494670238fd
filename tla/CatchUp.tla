------------------------------- MODULE CatchUp -------------------------------
(***************************************************************************)
(* CatchUpProjector.catchUpProjection: projectors that read the log of     *)
(* every tenant forward from a checkpoint, a batch in a transaction.       *)
(*                                                                         *)
(* One projection is modelled; catchUpAll runs several one after another,  *)
(* each with checkpoints of its own.  The handlers of a batch write in its *)
(* transaction only, so that they are one step with the load.              *)
(***************************************************************************)
EXTENDS EventLog

CONSTANTS
  Projectors,
  BatchSize, MaxBatches,      \* options of a round ...
  Unlimited,                  \* ... maxBatches undefined
  IncludeDismissed,
  Poison,                     \* positions whose handler throws every time
  Faults, MaxFaults           \* failures that may happen, and how many

ASSUME CatchUpAssumption ==
  /\ BatchSize \in Nat \ {0} /\ MaxFaults \in Nat /\ IncludeDismissed \in BOOLEAN
  /\ Unlimited \notin Nat /\ MaxBatches \in Nat \cup {Unlimited}
  /\ Poison \subseteq Positions

VARIABLES
  ckpt,       \* projection_checkpoints.last_global_position per tenant (NoRow: none)
  phase,      \* where a projector is
  active,     \* pending: tenants that are not drained
  turn,       \* tenants still to visit in this pass, the one at work included
  passes,     \* passes begun in this round
  tenant,     \* the tenant at work
  from,       \* the checkpoint it read
  batch,      \* positions handled in the open transaction
  wrote,      \* the checkpoint row the transaction wrote and locks (NoRow: none)
  effects,    \* history: committed handler runs per projector and position
  faults      \* failures left

NoRow == -1
roundVars == <<active, turn, passes>>
txVars == <<tenant, from, batch, wrote>>
catchUpVars == <<ckpt, phase, roundVars, txVars, effects, faults>>

CatchUpTypeOK ==
  /\ ckpt \in [Tenants -> Nat \cup {NoRow}]
  /\ phase \in [Projectors -> {"idle", "pass", "insert", "load", "set", "commit"}]
  /\ active \in [Projectors -> SUBSET Tenants] /\ turn \in [Projectors -> SUBSET Tenants]
  /\ passes \in [Projectors -> Nat] /\ tenant \in [Projectors -> SUBSET Tenants]
  /\ from \in [Projectors -> Nat] /\ batch \in [Projectors -> SUBSET Positions]
  /\ wrote \in [Projectors -> Nat \cup {NoRow}]
  /\ effects \in [Projectors -> [Positions -> Nat]] /\ faults \in Nat

CatchUpInit ==
  /\ ckpt = [t \in Tenants |-> NoRow]
  /\ phase = [p \in Projectors |-> "idle"]
  /\ active = [p \in Projectors |-> {}] /\ turn = [p \in Projectors |-> {}]
  /\ passes = [p \in Projectors |-> 0] /\ tenant = [p \in Projectors |-> {}]
  /\ from = [p \in Projectors |-> 0] /\ batch = [p \in Projectors |-> {}]
  /\ wrote = [p \in Projectors |-> NoRow]
  /\ effects = [p \in Projectors |-> [pos \in Positions |-> 0]]
  /\ faults = MaxFaults

GoTo(p, label) == phase' = [phase EXCEPT ![p] = label]

-----------------------------------------------------------------------------
(* The rounds of a projector.                                              *)

ReachedLimit(p) == MaxBatches # Unlimited /\ passes[p] >= MaxBatches

Discovered == {TenantOf[r.stream] : r \in rows}

\* discoverTenants, in a transaction of its own; the first pass begins.
Discover(p) ==
  /\ p \in deployed /\ phase[p] = "idle" /\ Discovered # {} /\ MaxBatches # 0
  /\ active' = [active EXCEPT ![p] = Discovered]
  /\ turn' = [turn EXCEPT ![p] = Discovered]
  /\ passes' = [passes EXCEPT ![p] = 1]
  /\ GoTo(p, "pass")
  /\ UNCHANGED <<ckpt, txVars, effects, faults>>

\* Mistake: a pass ends when one tenant has nothing left.
WrongNextTurn(p, left, rest) == IF left # active[p] THEN {} ELSE rest

\* The tenants still to visit: when a pass is over, all that are left begin another.
NextTurn(p, left, rest) ==
  IF rest # {} THEN rest ELSE IF ReachedLimit(p) THEN {} ELSE left

-----------------------------------------------------------------------------
(* processTenantBatch: one transaction.                                    *)

\* A projection that has no row begins at 0.
Position(t) == IF ckpt[t] = NoRow THEN 0 ELSE ckpt[t]

\* Whichever order the set of tenants is visited in.
ReadCheckpoint(p, t) ==
  /\ phase[p] = "pass" /\ t \in turn[p]
  /\ tenant' = [tenant EXCEPT ![p] = {t}]
  /\ from' = [from EXCEPT ![p] = Position(t)]
  /\ GoTo(p, IF ckpt[t] = NoRow THEN "insert" ELSE "load")
  /\ UNCHANGED <<ckpt, roundVars, batch, wrote, effects, faults>>

RowFree(p, t) == \A q \in Projectors \ {p} : t \in tenant[q] => wrote[q] = NoRow

\* INSERT ... ON CONFLICT DO NOTHING waits for another inserter; the position
\* returned is 0 in any case.
InsertCheckpoint(p, t) ==
  /\ phase[p] = "insert" /\ t \in tenant[p] /\ RowFree(p, t)
  /\ wrote' = [wrote EXCEPT ![p] = IF ckpt[t] = NoRow THEN 0 ELSE NoRow]
  /\ GoTo(p, "load")
  /\ UNCHANGED <<ckpt, roundVars, tenant, from, batch, effects, faults>>

Ahead(t, after) == {r.pos : r \in {q \in TenantRows(t) : q.pos > after}}

\* Mistake: the window starts at the checkpoint.
WrongWindow(t, after) ==
  {pos \in Ahead(t, after - 1) : Cardinality({q \in Ahead(t, after - 1) : q <= pos}) <= BatchSize}

\* Mistake: no ORDER BY, and the newest rows come first.
WrongOrderWindow(t, after) ==
  {pos \in Ahead(t, after) : Cardinality({q \in Ahead(t, after) : q >= pos}) <= BatchSize}

\* ORDER BY global_position LIMIT batchSize.
Window(t, after) ==
  {pos \in Ahead(t, after) : Cardinality({q \in Ahead(t, after) : q <= pos}) <= BatchSize}

\* loadGlobal: dismissed events are filtered after the LIMIT.
Loaded(t, after) == IF IncludeDismissed THEN Window(t, after) ELSE Window(t, after) \ dismissed

\* Nothing there: false is returned, which drains the tenant.
LoadBatch(p, t) ==
  LET envs == Loaded(t, from[p])
  IN /\ phase[p] = "load" /\ t \in tenant[p]
     /\ envs \cap Poison = {}
     /\ batch' = [batch EXCEPT ![p] = envs]
     /\ GoTo(p, IF envs = {} THEN "commit" ELSE "set")
     /\ UNCHANGED <<ckpt, roundVars, tenant, from, wrote, effects, faults>>

Visible(p, t) == IF wrote[p] = NoRow THEN ckpt[t] ELSE wrote[p]

\* DO UPDATE ... WHERE last_global_position <= EXCLUDED: else the row is only locked.
Upserted(p, t, last) == IF Visible(p, t) <= last THEN last ELSE Visible(p, t)

SetCheckpoint(p, t) ==
  /\ phase[p] = "set" /\ t \in tenant[p] /\ RowFree(p, t)
  /\ \E last \in batch[p] :
       /\ \A pos \in batch[p] : pos <= last
       /\ wrote' = [wrote EXCEPT ![p] = Upserted(p, t, last)]
  /\ GoTo(p, "commit")
  /\ UNCHANGED <<ckpt, roundVars, tenant, from, batch, effects, faults>>

\* The transaction is over; a drained tenant leaves the round.
Leave(p, t, drained) ==
  LET left == IF drained THEN active[p] \ {t} ELSE active[p]
      next == NextTurn(p, left, turn[p] \ {t})
  IN /\ turn' = [turn EXCEPT ![p] = next]
     /\ active' = [active EXCEPT ![p] = IF next = {} THEN {} ELSE left]
     /\ passes' = [passes EXCEPT ![p] =
          IF next = {} THEN 0 ELSE IF turn[p] = {t} THEN @ + 1 ELSE @]
     /\ tenant' = [tenant EXCEPT ![p] = {}]
     /\ from' = [from EXCEPT ![p] = 0]
     /\ batch' = [batch EXCEPT ![p] = {}]
     /\ wrote' = [wrote EXCEPT ![p] = NoRow]
     /\ GoTo(p, IF next = {} THEN "idle" ELSE "pass")

Publish(p, t) ==
  /\ phase[p] = "commit" /\ t \in tenant[p]
  /\ ckpt' = [ckpt EXCEPT ![t] = Visible(p, t)]
  /\ effects' = [effects EXCEPT ![p] = [pos \in Positions |-> @[pos] + (IF pos \in batch[p] THEN 1 ELSE 0)]]

Commit(p, t) ==
  /\ Publish(p, t)
  /\ Leave(p, t, batch[p] = {})
  /\ UNCHANGED faults

\* An error drops the tenant from this round, not the others.
Failed(p, t) ==
  /\ Leave(p, t, TRUE)
  /\ UNCHANGED <<ckpt, effects>>

\* A handler throws on an event it can never process.
PoisonThrows(p, t) ==
  /\ phase[p] = "load" /\ t \in tenant[p]
  /\ Loaded(t, from[p]) \cap Poison # {}
  /\ Failed(p, t)
  /\ UNCHANGED faults

Fault(kind) ==
  /\ kind \in Faults /\ faults > 0
  /\ faults' = faults - 1

\* A handler, a statement or the commit fails.
DbError(p, t) == t \in tenant[p] /\ Fault("dbError") /\ Failed(p, t)

CommitUnknown(p, t) ==
  /\ Fault("commitUnknown")
  /\ Publish(p, t)
  /\ Leave(p, t, TRUE)

\* The process dies and is started again.
Crash(p) ==
  /\ phase[p] # "idle" /\ Fault("crash")
  /\ GoTo(p, "idle")
  /\ active' = [active EXCEPT ![p] = {}] /\ turn' = [turn EXCEPT ![p] = {}]
  /\ passes' = [passes EXCEPT ![p] = 0]
  /\ tenant' = [tenant EXCEPT ![p] = {}] /\ from' = [from EXCEPT ![p] = 0]
  /\ batch' = [batch EXCEPT ![p] = {}] /\ wrote' = [wrote EXCEPT ![p] = NoRow]
  /\ UNCHANGED <<ckpt, effects>>

RoundStep(p) ==
  \/ Discover(p)
  \/ \E t \in Tenants :
       \/ ReadCheckpoint(p, t) \/ InsertCheckpoint(p, t) \/ LoadBatch(p, t)
       \/ SetCheckpoint(p, t) \/ Commit(p, t) \/ PoisonThrows(p, t)

ProjectorFault(p) == Crash(p) \/ \E t \in Tenants : DbError(p, t) \/ CommitUnknown(p, t)

ProjectorStep(p) == RoundStep(p) \/ ProjectorFault(p)

\* Whether its transaction has read the events table, and so locks it.
ReadsEvents(p) == phase[p] \in {"set", "commit"}
=============================================================================
