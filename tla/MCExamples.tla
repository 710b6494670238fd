----------------------------- MODULE MCExamples -----------------------------
(* Small instances of ExampleApps for TLC.                                 *)
EXTENDS ExampleApps

\* Banking: accounts, transfers and clients.
CONSTANTS a, b, t1, t2, c1, c2

\* t1 empties a, t2 may empty b; and bodies the route refuses.
SmallOrders ==
  {[transfer |-> t1, from |-> a, to |-> b, amount |-> 2],
   [transfer |-> t2, from |-> b, to |-> a, amount |-> 1],
   [transfer |-> t1, from |-> a, to |-> a, amount |-> 1],
   [transfer |-> t1, from |-> a, to |-> b, amount |-> 0]}

\* Each account is opened on its own route.
SmallOpenings ==
  {[route |-> "open", account |-> a, amount |-> 2], [route |-> "open-with-stream", account |-> b, amount |-> 1]}

-----------------------------------------------------------------------------
\* Insurance: tenants, a holder and a policy in each, claims and clerks.
CONSTANTS acme, contoso, holder, policy, m1, m2, d1, d2

L(op, t, id, on, n) == [op |-> op, tenant |-> t, id |-> id, on |-> on, n |-> n]

Onboard(t) == {L("register", t, holder, {}, 0), L("verify", t, holder, {}, 0), L("issue", t, policy, holder, 2)}
Underwriting ==
  Onboard(acme) \cup {L("register", contoso, holder, {}, 0)} \cup
  {L("contact", acme, holder, {}, 0), L("suspend", acme, holder, {}, 0), L("expire", acme, policy, {}, 0),
   L("renew", acme, policy, {}, 2), L("cancel", acme, policy, {}, 1), L("cancel", acme, policy, {}, 2),
   L("premium", acme, policy, {}, 1), L("premium", acme, policy, {}, 2)}
Life1(t, c) == {L("submit", t, c, policy, 2), L("assign", t, c, {}, 0), L("approve", t, c, {}, 1)}
OneTenant ==
  Onboard(acme) \cup Life1(acme, m1) \cup Life1(acme, m2) \cup
  {L("approve", acme, m1, {}, 2), L("deny", acme, m1, {}, 0), L("cancel", acme, policy, {}, 0)}
TwoTenants ==
  UNION {Onboard(t) \cup Life1(t, m1) : t \in {acme, contoso}}

AllLetters == Underwriting \cup OneTenant \cup TwoTenants
AllInboxes == {{}, Underwriting, OneTenant, TwoTenants}

-----------------------------------------------------------------------------
\* Startup: processes and databases.
CONSTANTS q1, q2, e1, e2

\* A process with one database, and one of the saga example with a database per tenant.
Plans == [q \in Processes |-> IF q = q1 THEN <<5, 8>> ELSE <<5, 8, 7>>]
Serves == [q \in Processes |-> IF q = q1 THEN {e1} ELSE {e1, e2}]
\* A new database; one of this version; one from before the tenants.
Olds == {[ran |-> {}, top |-> 0], [ran |-> {5, 8}, top |-> 2], [ran |-> {5}, top |-> 3]}
\* It follows, or overlaps, what enablePartitioning creates.
Spare == {[from |-> 4, to |-> 6]}

-----------------------------------------------------------------------------
\* Both chains: a request against two transfers, two requests against one.
All ==
  {{c1, t1, t2, "projections"}, {c1, c2, t1, "projections"}, {c1, c2, t1, "saga"},
   {t1, t2, "saga"}, {"insurance"}, {"startup"}}

SagaAlone == {{c1, t1, "saga"}}
=============================================================================
