------------------------------ MODULE MCSession ------------------------------
(* Small instances of Session for TLC.                                     *)
EXTENDS SessionProperties

CONSTANTS c1, c2, s1, s2

Loads == {"startStream", "load", "dismiss"}
LoadsAndSnapshots == Loads \cup {"loadSnapshot"}
\* One of the two clients also works on bare snapshots, or through a repository.
OneBareSnapshots == [c \in Clients |-> IF c = c1 THEN Loads ELSE LoadsAndSnapshots \cup {"repository"}]
OneLoadsOneAppends ==
  [c \in Clients |-> IF c = c1 THEN {"startStream", "load"}
                     ELSE {"startStream", "append", "appendUnsafe"}]
=============================================================================
