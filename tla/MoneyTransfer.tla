--------------------------- MODULE MoneyTransfer ----------------------------
(***************************************************************************)
(* What a bank that moves money between accounts promises: a transfer      *)
(* takes its amount from one account, once, if it is there, and later      *)
(* gives it to the other, once.  A refused transfer moves nothing.  A bank *)
(* that has become impatient may give up a transfer whose money it has     *)
(* taken, or take the money of one it has refused: either is then lost.    *)
(***************************************************************************)
EXTENDS Integers, Functions

CONSTANTS Accounts, Transfers

VARIABLES
  balance,    \* of each account
  order,      \* from, to and amount of each transfer
  phase,      \* how far each transfer has come
  impatient

Moves ==
  {<<"none", "requested">>, <<"requested", "refused">>, <<"requested", "taken">>,
   <<"taken", "given">>, <<"given", "completed">>}

GivingUp == {<<"taken", "lost">>, <<"refused", "lost">>}

Init ==
  /\ balance = [a \in Accounts |-> 0]
  /\ phase = [t \in Transfers |-> "none"]

Total(T) == FoldFunction(+, 0, [t \in T |-> order[t].amount])
Becomes(t, p) == phase[t] # p /\ phase'[t] = p

(* Some transfers each come one phase further.                             *)
Progress ==
  /\ \A t \in Transfers :
       \/ phase'[t] = phase[t]
       \/ <<phase[t], phase'[t]>> \in Moves
       \/ impatient /\ <<phase[t], phase'[t]>> \in GivingUp
  /\ \A a \in Accounts :
       LET out == {t \in Transfers : order[t].from = a /\ phase[t] = "requested" /\ phase'[t] = "taken"}
           late == {t \in Transfers : order[t].from = a /\ phase[t] = "refused" /\ phase'[t] = "lost"}
           in  == {t \in Transfers : order[t].to = a /\ Becomes(t, "given")} IN
       /\ balance'[a] = balance[a] - Total(out \cup late) + Total(in)
       /\ balance'[a] >= 0
  /\ \A t \in Transfers : phase[t] # "none" => order'[t] = order[t]

(* Somebody pays in or out of one account, or opens one.                   *)
Counter ==
  /\ \E a \in Accounts : \A b \in Accounts \ {a} : balance'[b] = balance[b]
  /\ \A a \in Accounts : balance'[a] >= 0
  /\ UNCHANGED <<order, phase>>

Next == (Progress \/ Counter) /\ UNCHANGED impatient

Spec == Init /\ [][Next]_<<balance, order, phase>>
=============================================================================
