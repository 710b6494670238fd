---------------------------- MODULE MCCommandBus ----------------------------
(* Small instances of CommandBus for TLC.                                  *)
EXTENDS CommandBus

CONSTANTS s1, s2, s3, k1

AllShare == [s \in Senders |-> k1]

\* A commit that fails leaves an in-memory slot completed: known, see README.
BothExposed == [pg |-> FaultKinds, memory |-> {"commitUnknown", "crash"}]
=============================================================================
