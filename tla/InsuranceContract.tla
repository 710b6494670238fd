-------------------------- MODULE InsuranceContract -------------------------
(***************************************************************************)
(* What an insurer promises: premiums are received while a policy is in    *)
(* force, it ends once and refunds no more than was received, and a claim  *)
(* is made against a policy, for no more than it covers, is granted or     *)
(* refused once, and paid once, if and only if it was granted.             *)
(***************************************************************************)
EXTENDS Integers

CONSTANTS Policies, Claims, Amounts

VARIABLES
  cover,   \* per policy: [status, limit, received, refund]
  claim    \* per claim: [phase, asked, granted]

Init ==
  /\ cover = [p \in Policies |-> [status |-> "none", limit |-> 0, received |-> 0, refund |-> 0]]
  /\ claim = [c \in Claims |-> [phase |-> "none", asked |-> 0, granted |-> 0]]

Sell(p, limit) ==
  /\ cover[p].status = "none"
  /\ cover' = [cover EXCEPT ![p].status = "active", ![p].limit = limit]
  /\ UNCHANGED claim

Receive(p, n) ==
  /\ cover[p].status = "active" /\ n > 0
  /\ cover' = [cover EXCEPT ![p].received = @ + n]
  /\ UNCHANGED claim

End(p, n) ==
  /\ cover[p].status = "active"
  /\ 0 <= n /\ n <= cover[p].received
  /\ cover' = [cover EXCEPT ![p].status = "ended", ![p].refund = n]
  /\ UNCHANGED claim

\* The policy may have ended meanwhile.
Report(c, p, n) ==
  /\ claim[c].phase = "none"
  /\ cover[p].status # "none" /\ n <= cover[p].limit
  /\ claim' = [claim EXCEPT ![c] = [phase |-> "open", asked |-> n, granted |-> 0]]
  /\ UNCHANGED cover

Grant(c, n) ==
  /\ claim[c].phase = "open"
  /\ 0 < n /\ n <= claim[c].asked
  /\ claim' = [claim EXCEPT ![c].phase = "granted", ![c].granted = n]
  /\ UNCHANGED cover

Refuse(c) ==
  /\ claim[c].phase = "open"
  /\ claim' = [claim EXCEPT ![c].phase = "refused"]
  /\ UNCHANGED cover

\* Any number of claims at a time.
PayOut ==
  /\ UNCHANGED cover
  /\ DOMAIN claim' = Claims
  /\ \A c \in Claims :
       \/ claim'[c] = claim[c]
       \/ claim[c].phase = "granted" /\ claim'[c] = [claim[c] EXCEPT !.phase = "paid"]

Next ==
  \/ PayOut
  \/ \E p \in Policies, n \in Amounts : Sell(p, n) \/ Receive(p, n) \/ End(p, n)
  \/ \E c \in Claims, p \in Policies, n \in Amounts : Report(c, p, n)
  \/ \E c \in Claims, n \in Amounts : Grant(c, n)
  \/ \E c \in Claims : Refuse(c)

Spec == Init /\ [][Next]_<<cover, claim>>
=============================================================================
