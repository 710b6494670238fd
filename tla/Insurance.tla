------------------------------ MODULE Insurance -----------------------------
(***************************************************************************)
(* The domain of the insurance example: policyholders, policies and claims *)
(* of several tenants, one stream each.  A record is what loading the      *)
(* stream yields; version 0 means that there is no stream.                 *)
(***************************************************************************)
EXTENDS Integers, FiniteSets

CONSTANTS Tenants, Holders, Policies, Claims   \* ids, reused by the tenants

VARIABLES
  holders, policies, claims,   \* the streams, by tenant and id
  approvals   \* ClaimApproved events by position: [claim, tenant, visible]

book == <<holders, policies, claims, approvals>>

NoHolder == [version |-> 0, verified |-> FALSE, suspended |-> FALSE]
NoPolicy == [version |-> 0, holder |-> {}, status |-> "none", coverage |-> 0,
             totalPaid |-> 0, expiry |-> 0, refund |-> 0]
NoClaim  == [version |-> 0, policy |-> {}, status |-> "none", requested |-> 0, approved |-> 0]

BookInit ==
  /\ holders  = [k \in Tenants \X Holders |-> NoHolder]
  /\ policies = [k \in Tenants \X Policies |-> NoPolicy]
  /\ claims   = [k \in Tenants \X Claims |-> NoClaim]
  /\ approvals = <<>>

-----------------------------------------------------------------------------
(* What the domain allows, and the record after the event it raises.       *)

HolderAllows(h, op) ==
  \/ op = "verify"  /\ ~h.verified /\ ~h.suspended
  \/ op = "contact"
  \/ op = "suspend" /\ ~h.suspended

HolderAfter(h, op) ==
  LET next == [h EXCEPT !.version = @ + 1] IN
  CASE op = "verify"  -> [next EXCEPT !.verified = TRUE]
    [] op = "contact" -> next
    [] op = "suspend" -> [next EXCEPT !.suspended = TRUE]

PolicyAllows(p, op, n) ==
  /\ p.status = "active"
  /\ \/ op = "premium" /\ n > 0
     \/ op = "renew"   /\ n > p.expiry
     \/ op = "cancel"  /\ 0 <= n /\ n <= p.totalPaid
     \/ op = "expire"

PolicyAfter(p, op, n) ==
  LET next == [p EXCEPT !.version = @ + 1] IN
  CASE op = "premium" -> [next EXCEPT !.totalPaid = @ + n]
    [] op = "renew"   -> [next EXCEPT !.expiry = n]
    [] op = "cancel"  -> [next EXCEPT !.status = "cancelled", !.refund = n]
    [] op = "expire"  -> [next EXCEPT !.status = "expired"]

ClaimAllows(c, op, n) ==
  \/ op = "assign"  /\ c.status = "submitted"
  \/ op = "approve" /\ c.status = "under_review" /\ 0 < n /\ n <= c.requested
  \/ op = "deny"    /\ c.status = "under_review"

ClaimAfter(c, op, n) ==
  LET next == [c EXCEPT !.version = @ + 1] IN
  CASE op = "assign"  -> [next EXCEPT !.status = "under_review"]
    [] op = "approve" -> [next EXCEPT !.status = "approved", !.approved = n]
    [] op = "deny"    -> [next EXCEPT !.status = "denied"]
    [] op = "pay"     -> [next EXCEPT !.status = "paid"]

-----------------------------------------------------------------------------
(* The first events, which the routes build themselves.                    *)
Registered == [NoHolder EXCEPT !.version = 1]

Issued(holder, coverage) ==
  [NoPolicy EXCEPT !.version = 1, !.holder = holder, !.coverage = coverage,
                   !.status = "active", !.expiry = 1]

Submitted(policy, requested) ==
  [NoClaim EXCEPT !.version = 1, !.policy = policy, !.requested = requested, !.status = "submitted"]

MayHold(h) == h.version > 0 /\ h.verified /\ ~h.suspended
Covers(p, n) == p.version > 0 /\ p.status = "active" /\ n <= p.coverage
=============================================================================
