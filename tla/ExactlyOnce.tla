----------------------------- MODULE ExactlyOnce -----------------------------
(***************************************************************************)
(* What the command bus promises of an idempotency key: at most one of the *)
(* requests that carry the key is applied, all of them are answered with   *)
(* that one, a refused request was not applied, and one whose outcome is   *)
(* lost may or may not have been.  The promise ends when the key is        *)
(* forgotten.                                                              *)
(***************************************************************************)
EXTENDS Naturals

CONSTANTS Keys, NoKey, Requests

None == 0

VARIABLES
  asked,     \* the key of a request
  applied,   \* the request applied for a key, or None
  verdict,   \* what became of a request
  answer     \* the request whose result it was answered with

Verdicts == {"unsent", "open", "answered", "failed", "unsure"}

Init ==
  /\ asked = [r \in Requests |-> NoKey]
  /\ applied = [k \in Keys |-> None]
  /\ verdict = [r \in Requests |-> "unsent"]
  /\ answer = [r \in Requests |-> None]

Ask(r, k) ==
  /\ verdict[r] = "unsent"
  /\ asked' = [asked EXCEPT ![r] = k]
  /\ verdict' = [verdict EXCEPT ![r] = "open"]
  /\ UNCHANGED <<applied, answer>>

\* What is applied for the key of r once r has had its turn.
Winner(r) == IF applied[asked[r]] = None THEN r ELSE applied[asked[r]]

Run(r) ==
  /\ verdict[r] = "open"
  /\ applied' = [applied EXCEPT ![asked[r]] = Winner(r)]
  /\ UNCHANGED <<asked, verdict, answer>>

Serve(r) ==
  /\ verdict[r] = "open"
  /\ applied' = [applied EXCEPT ![asked[r]] = Winner(r)]
  /\ verdict' = [verdict EXCEPT ![r] = "answered"]
  /\ answer' = [answer EXCEPT ![r] = Winner(r)]
  /\ UNCHANGED asked

Refuse(r) ==
  /\ verdict[r] = "open"
  /\ applied[asked[r]] # r
  /\ verdict' = [verdict EXCEPT ![r] = "failed"]
  /\ UNCHANGED <<asked, applied, answer>>

Lose(r) ==
  /\ verdict[r] = "open"
  /\ applied' \in {applied, [applied EXCEPT ![asked[r]] = Winner(r)]}
  /\ verdict' = [verdict EXCEPT ![r] = "unsure"]
  /\ UNCHANGED <<asked, answer>>

Forget(k) ==
  /\ applied' = [applied EXCEPT ![k] = None]
  /\ UNCHANGED <<asked, verdict, answer>>

\* Everything kept in memory is gone, the requests under way included.
Restart ==
  /\ applied' = [k \in Keys |-> None]
  /\ verdict' = [r \in Requests |-> IF verdict[r] = "open" THEN "unsure" ELSE verdict[r]]
  /\ UNCHANGED <<asked, answer>>

Next ==
  \/ \E r \in Requests : Run(r) \/ Serve(r) \/ Refuse(r) \/ Lose(r)
  \/ \E r \in Requests, k \in Keys : Ask(r, k)
  \/ \E k \in Keys : Forget(k)
  \/ Restart

Spec == Init /\ [][Next]_<<asked, applied, verdict, answer>>
=============================================================================
