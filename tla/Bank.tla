-------------------------------- MODULE Bank --------------------------------
(***************************************************************************)
(* The domain the two banking examples share: accounts and transactions,   *)
(* as their aggregates see the committed streams, and the four pieces of   *)
(* work a transfer is made of.  The catch-up projections of one example    *)
(* and the command handlers of the other perform the same four.            *)
(*                                                                         *)
(* All are operators on a bank.  A piece of work returns the set of banks  *)
(* it may leave, which is empty when the code throws.                      *)
(***************************************************************************)
EXTENDS Integers, Sequences

CONSTANTS Accounts, Transfers

VARIABLE bank   \* the committed streams, as their aggregates see them

\* An aggregate without a stream: version 0, and the state its constructor gives it.
NoAccount == [version |-> 0, opening |-> 0, balance |-> 0, closed |-> FALSE]
NoTransaction == [status |-> "pending", from |-> {}, to |-> {}, amount |-> 0]

EmptyBank ==
  [accounts |-> [a \in Accounts |-> NoAccount],
   transactions |-> [t \in Transfers |-> NoTransaction],
   log |-> <<>>]

\* Mistake: a closed account takes deposits.
WrongCanDeposit(account, n) == n > 0

\* What account.deposit, withdraw and close insist on.
CanDeposit(account, n) == ~account.closed /\ n > 0
CanWithdraw(account, n) == ~account.closed /\ n > 0 /\ account.balance >= n
CanClose(account) == ~account.closed /\ account.balance = 0

\* Every event of an account carries the balance it leads to.
Moved(account, n, events) ==
  [account EXCEPT !.balance = @ + n, !.version = @ + events]

\* eventStore.append, as the chain calls it: nothing is put in the outbox.
Emit(b, type, t) ==
  [b EXCEPT !.log = Append(@, [type |-> type, transfer |-> t, visible |-> TRUE, enqueued |-> FALSE])]

Complete(b, t) ==
  IF b.transactions[t].status \in {"pending", "started"}
  THEN {[b EXCEPT !.transactions[t].status = "completed"]} ELSE {}

Fail(b, t) ==
  IF b.transactions[t].status \in {"pending", "started"}
  THEN {Emit([b EXCEPT !.transactions[t].status = "failed"], "TransactionFailed", t)} ELSE {}

\* A closed account has balance 0: it is an insufficient one.
Withdraw(b, t) ==
  LET o == b.transactions[t]
      from == b.accounts[o.from] IN
  IF from.balance < o.amount THEN Fail(b, t)
  ELSE IF CanWithdraw(from, o.amount)
       THEN {Emit([b EXCEPT !.accounts[o.from] = Moved(@, 0 - o.amount, 2)], "WithdrawalCompleted", t)}
       ELSE {}

\* The account need not have been opened: its stream then starts here.
Deposit(b, t) ==
  LET o == b.transactions[t] IN
  IF CanDeposit(b.accounts[o.to], o.amount)
  THEN {Emit([b EXCEPT !.accounts[o.to] = Moved(@, o.amount, 2)], "DepositCompleted", t)}
  ELSE {}

=============================================================================
