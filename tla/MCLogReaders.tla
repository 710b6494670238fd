---------------------------- MODULE MCLogReaders ----------------------------
(* Small instances of LogReaders for TLC.                                  *)
EXTENDS LogReadersProperties

CONSTANTS w1, w2, w3, p1, p2, z1, z2, v1, a, b, c, t1, t2

TwoTenants == [s \in Streams |-> IF s = c THEN t2 ELSE t1]

\* w1 chains; w2 appends to one of w1's streams from a service that does not.
Chaining == [w \in Writers |-> IF w = w1 THEN {a, b} ELSE {}]
Appending == [w \in Writers |-> CASE w = w1 -> {a, b} [] w = w2 -> {a} [] w = w3 -> {b, c}]

\* Who takes part, and which operator scripts run.
OnlyProjectors == {{w3, p1, p2}, {w2, w3, p1, "dismiss"}}
OnlyDetach == {{w3, p1, "detach"}, {w1, w2, v1, "detach"}, {w1, v1, "dismiss"}}
OnlySealers == {{w1, w2, z1, z2, "detach"}}
Both == OnlyProjectors \cup OnlyDetach \cup OnlySealers
=============================================================================
