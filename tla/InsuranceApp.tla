---------------------------- MODULE InsuranceApp ----------------------------
(***************************************************************************)
(* The insurance example: the routes and the settlement of claims, over    *)
(* the streams of all tenants.                                             *)
(***************************************************************************)
EXTENDS InsuranceApi, Settlement

CONSTANT Inboxes   \* the values of inbox considered

ASSUME InsuranceAssumption ==
  /\ Tenants # {} /\ PageSize \in Nat \ {0} /\ RetryAttempts \in Nat \ {0}
  /\ \A l \in Letters :
       /\ l.op \in HolderOps \cup PolicyOps \cup ClaimOps \cup {"register", "issue", "submit"}
       /\ l.tenant \in Tenants /\ l.n \in Int
       /\ l.id \in CASE l.op \in HolderOps \cup {"register"} -> Holders
                     [] l.op \in PolicyOps \cup {"issue"}    -> Policies
                     [] OTHER                                -> Claims
       /\ l.op = "issue" => l.on \in Holders /\ l.n > 0
       /\ l.op = "submit" => l.on \in Policies /\ l.n > 0
  /\ \A box \in Inboxes : box \subseteq Letters

insuranceVars == <<book, desk, inbox, settledTo, overtaken>>

InsuranceInit ==
  /\ BookInit /\ DeskInit /\ SettlementInit
  /\ inbox \in Inboxes

\* What goes on when no letter comes in.
InsuranceBackground ==
  \/ \E d \in Clerks : CommitApproval(d) /\ Noticed(desk[d].at)
  \/ /\ UNCHANGED <<desk, inbox>>
     /\ \E t \in Tenants : Settle(t)

InsuranceNext ==
  \/ UNCHANGED <<settledTo, overtaken>> /\ DeskStep
  \/ InsuranceBackground

InsuranceSpec == InsuranceInit /\ [][InsuranceNext]_insuranceVars
=============================================================================
