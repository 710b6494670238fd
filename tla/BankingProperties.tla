------------------------- MODULE BankingProperties --------------------------
(* What is claimed of the banking examples.                                *)
EXTENDS BankingApps, Functions

Happened(b, type, t) ==
  \E i \in DOMAIN b.log : b.log[i].type = type /\ b.log[i].transfer = t /\ b.log[i].visible
Debited(b, t) == Happened(b, "WithdrawalCompleted", t)
Credited(b, t) == Happened(b, "DepositCompleted", t)

SumOf(f) == FoldFunction(+, 0, f)

\* Of a bank: what the accounts hold, what they were opened with, and what
\* transfers have taken and not yet given.
Balances(b) == SumOf([a \in Accounts |-> b.accounts[a].balance])
PaidIn(b) == SumOf([a \in Accounts |-> b.accounts[a].opening])

InTransit(b) == {t \in Transfers : Debited(b, t) /\ ~Credited(b, t)}
Travelling(b) == SumOf([t \in InTransit(b) |-> b.transactions[t].amount])

Paid(op) == {c \in Clients : requests[c].status = "done" /\ requests[c].op = op}
Total(op) == SumOf([c \in Paid(op) |-> requests[c].amount])

(* Money is neither made nor lost: what the accounts hold, and what        *)
(* transfers have taken and not yet given, is what was paid in less what   *)
(* was paid out in requests that were answered with success.               *)
MoneyConserved ==
  Balances(bank) + Travelling(bank) = PaidIn(bank) + Total("deposit") - Total("withdraw")

(* No account is overdrawn, and a closed one is empty, although a request  *)
(* decides on a balance that a transfer may change before it is saved.     *)
AccountsSound ==
  \A a \in Accounts :
    /\ bank.accounts[a].balance >= 0
    /\ bank.accounts[a].closed => bank.accounts[a].balance = 0

(* Each chain implements a bank that moves money: a transfer is taken      *)
(* once, before it is given once, and a refused one moves nothing.  Once   *)
(* any timer of the saga has fired that is less: a transfer whose money is *)
(* taken may be failed, and a failed one taken from; it is never given.    *)
Phase(t) ==
  LET status == bank.transactions[t].status IN
  IF Credited(bank, t) THEN IF status = "completed" THEN "completed" ELSE "given"
  ELSE IF Debited(bank, t) THEN IF status = "failed" THEN "lost" ELSE "taken"
  ELSE CASE status = "failed"  -> "refused"
         [] status = "started" -> "requested"
         [] OTHER              -> "none"

Money == INSTANCE MoneyTransfer WITH
  balance   <- [a \in Accounts |-> bank.accounts[a].balance],
  order     <- [t \in Transfers |-> LET o == bank.transactions[t] IN
                  [from |-> o.from, to |-> o.to, amount |-> o.amount]],
  phase     <- [t \in Transfers |-> Phase(t)],
  impatient <- \E t \in Transfers : timers[t] = "fired"
MovesMoney == Money!Spec

(* Every transfer comes to an end, completed or failed, unless its event   *)
(* committed behind the checkpoint, it was paid to an account that has     *)
(* been closed or is held up by one, or a command ran out of attempts.     *)
Started(t) == Happened(bank, "TransactionStarted", t)
Ended(t) == bank.transactions[t].status \in {"completed", "failed"}
HeldUp(t) ==
  /\ "projections" \in deployed
  /\ Debited(bank, t) /\ ~Credited(bank, t)
  /\ \E i \in Window("deposit-handler") :
       /\ bank.log[i].type = "WithdrawalCompleted"
       /\ bank.accounts[bank.transactions[bank.log[i].transfer].to].closed
GivenUp(t) == \E c \in commands : c.transfer = t /\ c.status = "failed"

TransfersEnd ==
  <>[](\A t \in Transfers :
         Started(t) => Ended(t) \/ t \in late \/ HeldUp(t) \/ GivenUp(t))

(* The saga gets to see every event it correlates, at the latest when      *)
(* nothing else is left to do (banking-api-saga/src/app.ts: the handlers   *)
(* "emit follow-up events" and "the saga reacts to each follow-up").       *)
SagaSeesFollowUps ==
  <>[](\A i \in DOMAIN bank.log : bank.log[i].visible => i \in delivered)
=============================================================================
