------------------------------ MODULE Settlement -----------------------------
(***************************************************************************)
(* The claim-settlement projection of the insurance example, run by the    *)
(* catch-up projector: it reads the approvals of each tenant in the order  *)
(* of their positions and pays the claims, in the transaction that moves   *)
(* the tenant's checkpoint.                                                *)
(***************************************************************************)
EXTENDS Insurance, Sequences

CONSTANT PageSize   \* batchSize of catchUpAll

VARIABLES
  settledTo,   \* the checkpoint of claim-settlement, per tenant
  overtaken    \* history: positions that became visible behind it

SettlementInit == settledTo = [t \in Tenants |-> 0] /\ overtaken = {}

Waiting(t) ==
  {i \in DOMAIN approvals : approvals[i].tenant = t /\ approvals[i].visible /\ i > settledTo[t]}

\* The next PageSize of them.
Page(t) == {i \in Waiting(t) : Cardinality({j \in Waiting(t) : j < i}) < PageSize}

\* Mistake: the claim is looked up without the tenant of its event.
WrongPayable(t) ==
  {k \in Tenants \X Claims :
     claims[k].status = "approved" /\ \E i \in Page(t) : k[2] = approvals[i].claim /\ k[1] # t}

\* The claims of the page that are not paid yet.
Payable(t) ==
  {k \in {t} \X Claims :
     claims[k].status = "approved" /\ \E i \in Page(t) : k[2] = approvals[i].claim}

Settle(t) ==
  /\ Waiting(t) # {}
  /\ claims' = [k \in Tenants \X Claims |-> IF k \in Payable(t) THEN ClaimAfter(claims[k], "pay", 0) ELSE claims[k]]
  /\ settledTo' = [settledTo EXCEPT ![t] = CHOOSE i \in Page(t) : \A j \in Page(t) : j <= i]
  /\ UNCHANGED <<holders, policies, approvals, overtaken>>

\* The approval at a position becomes visible.
Noticed(i) ==
  /\ overtaken' = overtaken \cup {j \in {i} : j <= settledTo[approvals[i].tenant]}
  /\ UNCHANGED settledTo
=============================================================================
