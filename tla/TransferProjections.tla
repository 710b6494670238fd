------------------------ MODULE TransferProjections -------------------------
(***************************************************************************)
(* The transfer chain of examples/banking-api: three catch-up projections  *)
(* that read the log of the bank from their checkpoints on, one batch and  *)
(* one transaction at a time, in one process.  What a batch appends is     *)
(* guarded by the versions it loaded: a batch that raced a request rolls   *)
(* back and is tried again, so a batch that commits is one step.           *)
(***************************************************************************)
EXTENDS Bank, FiniteSetsExt

CONSTANT BatchSize

Projections == {"withdrawal-handler", "deposit-handler", "transaction-completion-handler"}

VARIABLES
  ckpt,   \* the checkpoint of each projection
  late    \* transfers posted at a position their projection had passed

ProjectionsInit == ckpt = [p \in Projections |-> 0] /\ late = {}

WithdrawalHandler(b, e) ==
  IF e.type = "TransactionStarted" THEN Withdraw(b, e.transfer) ELSE {b}

\* transaction.state.toAccountId is there: the transaction was started.
DepositHandler(b, e) ==
  IF e.type = "WithdrawalCompleted" THEN Deposit(b, e.transfer) ELSE {b}

\* Mistake: completed as soon as the money has left.
WrongTransactionCompletionHandler(b, e) ==
  IF e.type = "WithdrawalCompleted" THEN Complete(b, e.transfer) ELSE {b}

TransactionCompletionHandler(b, e) ==
  IF e.type = "DepositCompleted" THEN Complete(b, e.transfer) ELSE {b}

Handle(p, b, e) ==
  CASE p = "withdrawal-handler"             -> WithdrawalHandler(b, e)
    [] p = "deposit-handler"                -> DepositHandler(b, e)
    [] p = "transaction-completion-handler" -> TransactionCompletionHandler(b, e)

Ahead(p) == {i \in DOMAIN bank.log : i > ckpt[p] /\ bank.log[i].visible}

\* The positions of the next batch.
Window(p) == {i \in Ahead(p) : Cardinality({j \in Ahead(p) : j < i}) < BatchSize}

Handled(p, banks, i) ==
  IF i \in Window(p) THEN UNION {Handle(p, b, bank.log[i]) : b \in banks} ELSE banks

\* In order; a handler that throws takes the whole batch with it.
Outcomes(p) ==
  LET after[i \in 0 .. Len(bank.log)] == IF i = 0 THEN {bank} ELSE Handled(p, after[i - 1], i) IN
  after[Len(bank.log)]

CatchUp(p) ==
  /\ Window(p) # {}
  /\ bank' \in Outcomes(p)
  /\ ckpt' = [ckpt EXCEPT ![p] = Max(Window(p))]
  /\ UNCHANGED late

\* What a commit at position i means to the readers.
Arrives(i) ==
  /\ late' = IF ckpt["withdrawal-handler"] >= i THEN late \cup {bank.log[i].transfer} ELSE late
  /\ UNCHANGED ckpt
=============================================================================
