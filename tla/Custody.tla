------------------------------- MODULE Custody -------------------------------
(***************************************************************************)
(* What the outbox, its dead-letter table and the runners promise about an *)
(* event, with claims, batches, transactions, checkpoints and failures     *)
(* left out: a published message is queued until it is settled or put in   *)
(* the DLQ, several at a time; deliveries happen only as a message is      *)
(* settled, and a projection gets a message at most once, whatever the     *)
(* operators requeue.                                                      *)
(***************************************************************************)
EXTENDS Naturals

CONSTANTS Messages, Consumers

VARIABLES status, deliveries

Statuses == {"absent", "queued", "dead", "purged", "settled"}

CustodyTypeOK ==
  /\ status \in [Messages -> Statuses]
  /\ deliveries \in [Consumers \X Messages -> {0, 1}]

Init ==
  /\ status = [m \in Messages |-> "absent"]
  /\ deliveries = [d \in Consumers \X Messages |-> 0]

With(s) == {m \in Messages : status[m] = s}

Move(ms, s) == status' = [m \in Messages |-> IF m \in ms THEN s ELSE status[m]]

Publish(m) ==
  /\ m \in With("absent")
  /\ Move({m}, "queued")
  /\ UNCHANGED deliveries

\* Some queued messages leave for good, others to the DLQ, and the settled
\* ones are delivered to some consumers that never had them.
Settle(done, failed, delivered) ==
  /\ done \subseteq With("queued") /\ failed \subseteq With("queued") \ done
  /\ \A d \in delivered : d[2] \in done /\ deliveries[d] = 0
  /\ status' = [m \in Messages |-> IF m \in done THEN "settled"
                                   ELSE IF m \in failed THEN "dead" ELSE status[m]]
  /\ deliveries' = [d \in Consumers \X Messages |->
                      IF d \in delivered THEN 1 ELSE deliveries[d]]

Requeue(ms) ==
  /\ ms \subseteq With("dead")
  /\ Move(ms, "queued")
  /\ UNCHANGED deliveries

Purge(ms) ==
  /\ ms \subseteq With("dead")
  /\ Move(ms, "purged")
  /\ UNCHANGED deliveries

Next ==
  \/ \E m \in Messages : Publish(m)
  \/ \E ms \in SUBSET With("dead") : Requeue(ms) \/ Purge(ms)
  \/ \E done \in SUBSET With("queued") :
       \E failed \in SUBSET (With("queued") \ done), delivered \in SUBSET (Consumers \X done) :
         Settle(done, failed, delivered)

Spec == Init /\ [][Next]_<<status, deliveries>>
=============================================================================
