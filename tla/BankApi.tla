------------------------------- MODULE BankApi ------------------------------
(***************************************************************************)
(* The HTTP routes of the banking examples that write.  A request loads an *)
(* aggregate in a session of its own, decides on what it loaded, and saves *)
(* under the version it loaded; other requests, projections and command    *)
(* handlers run in between.                                                *)
(***************************************************************************)
EXTENDS Bank

CONSTANTS
  Clients,      \* each makes at most one request for an account
  Openings,     \* requests that open accounts: [route, account, amount]
  Amounts,      \* what requests deposit and withdraw
  Orders,       \* bodies of POST /transfers: [transfer, from, to, amount]
  MaxAttempts   \* of withConcurrencyRetry, in the deposit route

VARIABLES
  requests,   \* the request of each client
  deployed    \* who takes part: clients, transfers, and one of the two chains

Idle == [status |-> "idle", op |-> "none", account |-> {}, amount |-> 0, seen |-> NoAccount, tries |-> 0]

ApiInit == bank = EmptyBank /\ requests = [c \in Clients |-> Idle]

-----------------------------------------------------------------------------
(* Routes that start a stream: they load nothing, and expect version 0.    *)
Start(a, version, n) ==
  /\ bank.accounts[a].version = 0
  /\ bank' = [bank EXCEPT !.accounts[a] = [NoAccount EXCEPT !.version = version, !.opening = n, !.balance = n]]
  /\ UNCHANGED requests

Open(o) == o.route = "open" /\ Start(o.account, 1, o.amount)

\* AccountOpened and AccountDeposited, each with the whole sum and the same balance.
OpenWithStream(o) == o.route = "open-with-stream" /\ Start(o.account, 2, o.amount)

\* The insert takes the position at once; others see the rows from the commit
\* on.  The session puts TransactionStarted in the outbox.
PostTransfer(o) ==
  /\ bank.transactions[o.transfer] = NoTransaction
  /\ o.amount > 0 /\ o.from # o.to
  /\ bank' = [bank EXCEPT
       !.transactions[o.transfer] = [status |-> "started", from |-> o.from, to |-> o.to, amount |-> o.amount],
       !.log = Append(@, [type |-> "TransactionStarted", transfer |-> o.transfer,
                       visible |-> FALSE, enqueued |-> TRUE])]
  /\ UNCHANGED requests

CommitTransfer(i) ==
  /\ ~bank.log[i].visible
  /\ bank' = [bank EXCEPT !.log[i].visible = TRUE]
  /\ UNCHANGED requests

-----------------------------------------------------------------------------
(* Routes that load an account: deposit, withdraw and close.               *)
Allows(op, account, n) ==
  CASE op = "deposit"  -> CanDeposit(account, n)
    [] op = "withdraw" -> CanWithdraw(account, n)
    [] op = "close"    -> CanClose(account)

After(op, account, n) ==
  CASE op = "deposit"  -> Moved(account, n, 1)
    [] op = "withdraw" -> Moved(account, 0 - n, 1)
    [] op = "close"    -> [account EXCEPT !.closed = TRUE, !.version = @ + 1]

\* loadAggregateAsync throws when there is no stream; the domain may refuse.
Ask(c) ==
  /\ requests[c].status = "idle"
  /\ \E op \in {"deposit", "withdraw", "close"}, a \in Accounts, n \in Amounts :
       /\ bank.accounts[a].version > 0 /\ Allows(op, bank.accounts[a], n)
       /\ requests' = [requests EXCEPT ![c] =
            [status |-> "loaded", op |-> op, account |-> a, amount |-> IF op = "close" THEN 0 ELSE n,
             seen |-> bank.accounts[a], tries |-> 1]]
  /\ UNCHANGED bank

\* Mistake: saving without the version check.
WrongUnchanged(r) == TRUE

Unchanged(r) == bank.accounts[r.account].version = r.seen.version

Answer(c, status) == requests' = [requests EXCEPT ![c] = [@ EXCEPT !.status = status, !.seen = NoAccount]]

Save(c) ==
  LET r == requests[c] IN
  /\ r.status = "loaded" /\ Unchanged(r)
  /\ bank' = [bank EXCEPT !.accounts[r.account] = After(r.op, r.seen, r.amount)]
  /\ Answer(c, "done")

\* ConcurrencyError: only the deposit route is wrapped in withConcurrencyRetry,
\* which loads and decides again on a fresh session.
Retry(c) ==
  LET r == requests[c] IN
  /\ r.status = "loaded" /\ ~Unchanged(r)
  /\ r.op = "deposit" /\ r.tries < MaxAttempts
  /\ Allows(r.op, bank.accounts[r.account], r.amount)
  /\ requests' = [requests EXCEPT ![c].seen = bank.accounts[r.account], ![c].tries = @ + 1]
  /\ UNCHANGED bank

Reject(c) ==
  LET r == requests[c] IN
  /\ r.status = "loaded" /\ ~Unchanged(r)
  /\ r.op = "deposit" /\ r.tries < MaxAttempts => ~Allows(r.op, bank.accounts[r.account], r.amount)
  /\ Answer(c, "rejected")
  /\ UNCHANGED bank

ApiStep ==
  \/ \E o \in Openings : Open(o) \/ OpenWithStream(o)
  \/ \E o \in Orders : o.transfer \in deployed /\ PostTransfer(o)
  \/ \E c \in Clients \cap deployed : Ask(c) \/ Save(c) \/ Retry(c) \/ Reject(c)
=============================================================================
