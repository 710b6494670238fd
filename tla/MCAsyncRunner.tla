---------------------------- MODULE MCAsyncRunner ----------------------------
(* Small instances of AsyncRunner for TLC.                                 *)
EXTENDS AsyncRunnerProperties, TLC

CONSTANTS w1, w2, w3, w4, t1, t2, topicA, topicB

\* w1 and w2 work in batches, w3 and w4 row by row.
ModeOf == [w \in Workers |-> IF w \in {w1, w2} THEN "batch" ELSE "perRow"]
Interchangeable == Permutations({w1, w2}) \cup Permutations({w3, w4})

D(started, disruptions, first) == [started |-> started, disruptions |-> disruptions, first |-> first]
\* Four events, three and a disruption, or two and more of them.
PairsOfWorkers ==
  {D({w1, w2}, 0, 1),
   D({w1, w2}, 1, 2), D({w3, w4}, 1, 2), D({w1, w3}, 1, 2),
   D({w1, w2}, 3, 3), D({w3, w4}, 3, 3), D({w1, w3}, 2, 3)}
AloneOrUndisturbed == {D({w1}, 2, 1), D({w1, w2}, 0, 1)}
Alone == {D({w1}, 0, 1)}

OneTenant == [gp \in Positions |-> t1]
TwoTenants == [gp \in Positions |-> IF gp \in {1, 4} THEN t1 ELSE t2]
OneTopic == [gp \in Positions |-> topicA]
MixedTopics == [gp \in Positions |-> IF gp = 2 THEN NoTopic ELSE topicA]
LateMixedTopics == [gp \in Positions |-> IF gp = 3 THEN NoTopic ELSE topicA]

All == [mode |-> "all", topics |-> {}]
OnlyA == [mode |-> "include", topics |-> {topicA}]
NotA == [mode |-> "exclude", topics |-> {topicA}]
NotB == [mode |-> "exclude", topics |-> {topicB}]
AllOnce == <<All>>
AllAndNotA == <<All, NotA>>
\* Two projections for topicA and one for no topic: batches may wait for each other's checkpoints.
Crossing == <<OnlyA, NotB>>

ClaimAny == [w \in Workers |-> AnyTopic]
ClaimA == [w \in Workers |-> topicA]
=============================================================================
