------------------------ MODULE AsyncRunnerProperties ------------------------
(* What is claimed of AsyncRunner, and the custody promise it implements.  *)
EXTENDS AsyncRunner

Queued     == PositionsOf(outbox)
DeadLetter == PositionsOf(dlq)

(* A row a worker still has in its claimed array is gone or locked by that *)
(* worker, so that no two workers process one row: claimBatch, commit and  *)
(* a release that unlocks by id without looking at locked_by keep it so.   *)
RowExclusive ==
  \A w \in Workers : \A id \in claimed[w] :
    id \in outbox => lockedBy[id] = w /\ \A v \in Workers \ {w} : id \notin claimed[v]

(* A projection's writes for an event commit at most once, over retries,   *)
(* crashes, ambiguous commits, a racing worker and requeues.               *)
EffectAtMostOnce == \A pair \in Pairs : effects[pair] <= 1

(* An event that is queued or dead-lettered has left no trace: effects     *)
(* commit only with the ack, and a dead letter never follows them.         *)
NoPartialEffect ==
  \A pair \in Pairs : effects[pair] > 0 => pair[2] \notin Queued \cup DeadLetter

(* The checkpoint of a projection and tenant is never behind an event it   *)
(* has processed, although workers upsert it out of order.                 *)
CheckpointCoversEffects ==
  \A pair \in Pairs :
    effects[pair] > 0 => ckpt[<<pair[1], TenantOf[pair[2]]>>] >= pair[2]

\* No commit moves a checkpoint back (the WHERE of the upsert).
CheckpointMonotone == [][\A key \in Keys : ckpt'[key] >= ckpt[key]]_vars

(* One outbox row costs each projection at most MaxAttempts invocations,   *)
(* and a row whose event exists is dead-lettered only after MaxAttempts.   *)
AttemptBudget ==
  /\ \A call \in Projections \X Ids : calls[call] <= MaxAttempts
  /\ \A id \in dlq : rowPos[id] \in Loadable => attempts[id] > MaxAttempts

(* An event that is no longer queued, and was not set aside by an operator *)
(* or the DLQ, has been processed by every projection that wants its topic *)
(* (src/README.md: "The runner guarantees at-least-once"), as long as one  *)
(* worker runs.                                                            *)
Settled == events \ (Queued \cup DeadLetter \cup purged \cup dismissed)
AtLeastOnce ==
  Cardinality({w \in Workers : pc[w] # "stopped"}) <= 1 =>
    \A gp \in Settled, p \in Projections : Matches(p, gp) => effects[<<p, gp>>] > 0

\* The projection has processed a later event of the tenant.
Overtaken(p, gp) ==
  \E late \in Positions : gp < late /\ TenantOf[late] = TenantOf[gp] /\ effects[<<p, late>>] > 0

\* The worker's transaction ran no earlier event of the tenant for the projection.
RanFirst(w, p, gp) ==
  \A pair \in handled[w] : pair[1] = p /\ TenantOf[pair[2]] = TenantOf[gp] => gp <= pair[2]

(* Effects commit in the order of the log, for each projection and tenant, *)
(* but for one gap.  The read of a checkpoint locks nothing, its first     *)
(* write locks the row until the transaction ends.  So no run starts that  *)
(* is overtaken already, and of the runs that commit only the first of a   *)
(* transaction can have been overtaken, by another worker, in between.     *)
EffectsInOrder ==
  [][/\ \A w \in Workers : pc[w] = "work" /\ pc'[w] \in {"insert", "handle"} =>
          \A row \in todo[w] : IsCurrent(w, row) => ~Overtaken(step[w], rowPos[row])
     /\ \A pair \in Pairs : effects'[pair] > effects[pair] /\ Overtaken(pair[1], pair[2]) =>
          \E w \in Workers : pair \in handled[w] /\ RanFirst(w, pair[1], pair[2])]_vars

(* Every published event eventually leaves the outbox, through checkpoint  *)
(* deadlocks, failing handlers and failing transactions, unless a row was  *)
(* left locked: by a lost claim or release, or a worker that went away.    *)
Stranded(gp) == \E id \in outbox :
  rowPos[id] = gp /\ lockedBy[id] # NoWorker /\ id \notin claimed[lockedBy[id]]
EventuallyResolved ==
  \A gp \in Positions : gp \in Queued ~> gp \notin Queued \/ Stranded(gp)

-----------------------------------------------------------------------------
(* The inductive invariant behind the theorems of AsyncRunnerProofs.       *)

(* A position has at most one row, in one of the two tables, and only once *)
(* its event is committed; ids are used in the order they are handed out.  *)
RowInv ==
  /\ \A id \in Ids : rowPos[id] # 0 => id < nextId
  /\ outbox \cap dlq = {}
  /\ \A id \in outbox \cup dlq : rowPos[id] \in events \ purged
  /\ \A a, b \in outbox \cup dlq : rowPos[a] = rowPos[b] => a = b
  /\ pending \cap events = {} /\ purged \subseteq events
  /\ \A gp \in pending \cup events : gp < nextPos

\* The rows in a worker's hands are locked by it, or gone.
ClaimInv ==
  \A w \in Workers :
    /\ unit[w] \subseteq claimed[w]
    /\ \A id \in claimed[w] : rowPos[id] \in events
    /\ \A id \in claimed[w] \cap outbox : lockedBy[id] = w

(* Until its transaction ends, the rows in a worker's hands stay in the    *)
(* outbox, and every run of a handler belongs to a row acked or to do.     *)
TxOK(w) ==
  /\ pc[w] \in {"insert", "handle", "set"} => step[w] <= NumProjections
  /\ InTx(w) \/ pc[w] = "begin" => claimed[w] \subseteq outbox
  /\ pc[w] \in {"poll", "begin", "stopped"} => unit[w] = {}
  /\ todo[w] \cup acked[w] \cup dead[w] \subseteq unit[w]
  /\ dead[w] \cap (todo[w] \cup acked[w]) = {}
  /\ \A pair \in handled[w] : pair[2] \in PositionsOf(acked[w] \cup todo[w])
  /\ ~InTx(w) => /\ todo[w] = {} /\ acked[w] = {} /\ dead[w] = {}
                 /\ handled[w] = {} /\ wrote[w] = NoWrites

TxInv == \A w \in Workers : TxOK(w)

(* Checkpoint rows are written by one transaction at a time, upwards, and  *)
(* past every event the transaction has run a handler for.                 *)
CkptInv ==
  /\ \A w \in Workers, key \in Keys : wrote[w][key] # NoRow =>
       LockFree(w, key) /\ ckpt[key] <= wrote[w][key]
  /\ \A w \in Workers : \A pair \in handled[w] :
       \/ wrote[w][<<pair[1], TenantOf[pair[2]]>>] >= pair[2]
       \/ pc[w] = "set" /\ \E row \in todo[w] :
            IsCurrent(w, row) /\ pair = <<step[w], rowPos[row]>>

EffectInv ==
  \A pair \in Pairs : effects[pair] > 0 => effects[pair] = 1 /\ pair[2] \in events

IInv ==
  /\ TypeOK /\ RowInv /\ ClaimInv /\ TxInv /\ CkptInv
  /\ EffectInv /\ NoPartialEffect /\ CheckpointCoversEffects

\* The projections a claim of the row has still to invoke.
ToInvoke(w, id) ==
  {p \in Projections : IsCurrent(w, id) => p > step[w] \/ (p = step[w] /\ pc[w] # "set")}

(* Each claim of a row is worth one invocation of each projection, and the *)
(* claims of a row in hand leave those still to come unspent.              *)
BudgetInv ==
  /\ \A p \in Projections, id \in Ids :
       calls[<<p, id>>] <= attempts[id] /\ calls[<<p, id>>] <= MaxAttempts
  /\ \A w \in Workers : pc[w] = "begin" \/ InTx(w) =>
       \A id \in claimed[w] \ unit[w], p \in Projections : calls[<<p, id>>] < attempts[id]
  /\ \A w \in Workers : \A id \in todo[w] :
       /\ attempts[id] <= MaxAttempts
       /\ \A p \in ToInvoke(w, id) : calls[<<p, id>>] < attempts[id]
  /\ \A id \in dlq \cup UNION {dead[w] : w \in Workers} :
       attempts[id] > MaxAttempts \/ rowPos[id] \in archived

(* When a runner delivers everything: it runs alone and in batches, writers *)
(* take turns, and nothing is requeued.                                     *)
OneAtATime ==
  /\ MaxOpenTx <= 1 /\ "requeue" \notin Disruptions
  /\ \A d \in Deployments : \A w \in d.started :
       Mode[w] = "batch" /\ \A v \in d.started : v = w

\* Then the batch is all the runner holds, and it deals out all of it.
AloneInv ==
  \A w \in Workers :
    IF pc[w] = "stopped" THEN claimed[w] = {}
    ELSE /\ Mode[w] = "batch" /\ \A v \in Workers : pc[v] # "stopped" => v = w
         /\ InTx(w) => claimed[w] = unit[w] /\
              \A id \in unit[w] \ (todo[w] \cup acked[w] \cup dead[w]) : rowPos[id] \in archived

\* Positions are committed in the order of their rows, and a checkpoint is one
\* of those committed.
LineInv ==
  /\ \A gp \in pending : gp = nextPos - 1
  /\ \A b \in Ids : rowPos[b] < nextPos /\ \A a \in Ids : a < b /\ rowPos[b] # 0 => rowPos[a] < rowPos[b]
  /\ \A key \in Keys : \A n \in {ckpt[key]} \cup {wrote[w][key] : w \in Workers} :
       n \in events \cup {0, NoRow}

\* What the runner has in hand, and may claim, lies ahead of its checkpoints.
OpenRows(w) == {id \in outbox : rowPos[id] \notin archived /\ id \in claimed[w] \cup Claimable(ClaimTopic[w])}

AheadInv ==
  \A w \in Workers : pc[w] # "stopped" =>
    /\ \A id \in OpenRows(w), p \in Projections : ckpt[<<p, TenantOf[rowPos[id]]>>] < rowPos[id]
    /\ \A id \in Claimable(ClaimTopic[w]) :
         (\A c \in claimed[w] : c < id) /\ \A key \in Keys : wrote[w][key] < rowPos[id]
    /\ \A id \in todo[w], p \in Projections :
         (IsCurrent(w, id) => p >= step[w]) => Visible(w, <<p, TenantOf[rowPos[id]]>>) < rowPos[id]

\* So every row it acks was handled by every projection, or dismissed.
Ran(w, id, p) == Matches(p, rowPos[id]) => <<p, rowPos[id]>> \in handled[w]
DoneInv ==
  /\ \A w \in Workers :
       /\ ~InTx(w) => step[w] = 1
       /\ \A id \in acked[w] : rowPos[id] \in dismissed \/ \A p \in Projections : Ran(w, id, p)
       /\ \A id \in todo[w], p \in Projections :
            IsCurrent(w, id) /\ (p < step[w] \/ (p = step[w] /\ pc[w] = "set")) => Ran(w, id, p)
  /\ \A gp \in Settled, p \in Projections : Matches(p, gp) => effects[<<p, gp>>] > 0

OrderInv == AloneInv /\ LineInv /\ AheadInv /\ DoneInv

\* What a worker is about to run lies ahead of its lock, and only the first run
\* of a transaction can be overtaken.
TurnOK(w) ==
  /\ pc[w] \in {"insert", "handle"} =>
       \A row \in todo[w] : IsCurrent(w, row) => wrote[w][KeyOf(w, row)] < rowPos[row]
  /\ \A pair \in handled[w] : Overtaken(pair[1], pair[2]) => RanFirst(w, pair[1], pair[2])

TurnInv == \A w \in Workers : TurnOK(w)

-----------------------------------------------------------------------------
StatusOf(gp) ==
  IF gp \in Queued THEN "queued"
  ELSE IF gp \in DeadLetter THEN "dead"
  ELSE IF gp \in purged THEN "purged"
  ELSE IF gp \in events THEN "settled" ELSE "absent"

C == INSTANCE Custody WITH
       Messages <- Positions, Consumers <- Projections,
       status <- [gp \in Positions |-> StatusOf(gp)], deliveries <- effects

(* The runners, writers and operators together implement Custody: what     *)
(* many steps of several transactions do looks like its atomic moves.      *)
CustodySpec == C!Spec
=============================================================================
