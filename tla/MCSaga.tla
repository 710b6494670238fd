------------------------------- MODULE MCSaga -------------------------------
(* Small instances of Saga for TLC.                                        *)
EXTENDS SagaProperties

CONSTANTS i1, a, w1, w2, s1, s2

OneInstance == [e \in Events |-> i1]

Reaction(c, s, e) == [cancel |-> c, schedule |-> s, end |-> e]
Timeouts ==
  {Reaction({}, {}, FALSE), Reaction({}, {a}, FALSE), Reaction({a}, {}, FALSE), Reaction({a}, {}, TRUE)}
Renewals == {Reaction({}, {}, FALSE), Reaction({}, {a}, FALSE)}
=============================================================================
