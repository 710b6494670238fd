--------------------------- MODULE MCSagaCommands ---------------------------
(* Small instances of SagaCommands for TLC.                                *)
EXTENDS SagaCommands, TLC

CONSTANTS r1, d1, d2

OneTenant == r1 :> "acme"
=============================================================================
