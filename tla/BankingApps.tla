---------------------------- MODULE BankingApps -----------------------------
(***************************************************************************)
(* The two banking examples: the routes, and behind them the transfer      *)
(* chain as catch-up projections or as a saga, whichever is deployed.      *)
(***************************************************************************)
EXTENDS BankApi, TransferProjections, TransferSaga

ASSUME BankingAssumption ==
  /\ IsFiniteSet(Accounts) /\ IsFiniteSet(Transfers) /\ IsFiniteSet(Clients)
  /\ \A o \in Openings : o.account \in Accounts /\ o.amount \in Nat
  /\ \A n \in Amounts : n \in Int
  /\ \A o \in Orders : o.transfer \in Transfers /\ {o.from, o.to} \subseteq Accounts /\ o.amount \in Int
  /\ MaxAttempts \in Nat \ {0} /\ BatchSize \in Nat \ {0} /\ MaxDispatches \in Nat \ {0}

projecting == <<ckpt, late>>
orchestrating == <<delivered, sagas, timers, commands>>
bankingVars == <<bank, requests, projecting, orchestrating>>

BankingInit == ApiInit /\ ProjectionsInit /\ SagaInit

\* What goes on when no request comes in.
BankingBackground ==
  \/ /\ UNCHANGED orchestrating
     /\ \E i \in DOMAIN bank.log : CommitTransfer(i) /\ Arrives(i)
  \/ /\ "projections" \in deployed
     /\ UNCHANGED <<requests, orchestrating>>
     /\ \E p \in Projections : CatchUp(p)
  \/ /\ "saga" \in deployed
     /\ UNCHANGED <<requests, projecting>>
     /\ SagaStep

BankingNext ==
  \/ UNCHANGED <<projecting, orchestrating>> /\ ApiStep
  \/ BankingBackground
=============================================================================
