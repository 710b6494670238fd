----------------------------- MODULE LogReaders -----------------------------
(***************************************************************************)
(* The log with its readers: writers, operators, catch-up projectors,      *)
(* sealers and verifiers, all on the same tables.                          *)
(***************************************************************************)
EXTENDS CatchUp, ChainAudit

vars == <<logVars, catchUpVars, auditVars>>

TypeOK == LogTypeOK /\ CatchUpTypeOK /\ AuditTypeOK

Init == LogInit /\ CatchUpInit /\ AuditInit

\* DETACH PARTITION waits for every transaction that has read the table.
Unread ==
  /\ \A p \in Projectors : ~ReadsEvents(p)
  /\ \A v \in Verifiers : reading[v] = {}

LogStep ==
  /\ \/ \E w \in Writers : WriterStep(w)
     \/ \E pos \in Positions : Dismiss(pos)
     \/ Unread /\ \E last \in PartitionEnds : Detach(last)
  /\ UNCHANGED <<catchUpVars, auditVars>>

ProjectorMove(p) == ProjectorStep(p) /\ UNCHANGED <<logVars, auditVars>>

Next ==
  \/ LogStep
  \/ \E p \in Projectors : ProjectorMove(p)
  \/ AuditStep /\ UNCHANGED <<logVars, catchUpVars>>

Spec == Init /\ [][Next]_vars

\* Projectors and sealers are polling loops: they run on.
FairSpec ==
  /\ Spec
  /\ \A p \in Projectors : WF_vars(RoundStep(p) /\ UNCHANGED <<logVars, auditVars>>)
  /\ \A z \in Sealers : WF_vars(SealerStep(z) /\ UNCHANGED <<logVars, catchUpVars>>)
=============================================================================
