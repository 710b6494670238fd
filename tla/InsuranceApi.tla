---------------------------- MODULE InsuranceApi ----------------------------
(***************************************************************************)
(* The routes of the insurance example that write.  A clerk is a request   *)
(* in progress: it loads what the letter is about, decides, and saves      *)
(* under the version it expects.  Only the stream it writes is checked:    *)
(* the holder of a new policy, or the policy of a new claim, may change    *)
(* between the load and the save.                                          *)
(***************************************************************************)
EXTENDS Insurance, Sequences

CONSTANTS
  Clerks,        \* requests in progress at a time
  Letters,       \* requests that may come: [op, tenant, id, on, n]
  Allowed,       \* allowedTenants of the tenant plugin
  RetryAttempts  \* maxAttempts of withConcurrencyRetry

VARIABLES
  desk,   \* what each clerk has before it
  inbox   \* the letters that are still to come, each once

NoLetter == [op |-> "none", tenant |-> {}, id |-> {}, on |-> {}, n |-> 0]
Free == [status |-> "idle", letter |-> NoLetter, seen |-> NoClaim, tries |-> 0, at |-> 0]

HolderOps == {"verify", "contact", "suspend"}
PolicyOps == {"premium", "renew", "cancel", "expire"}
ClaimOps  == {"assign", "approve", "deny"}
Retried   == {"premium", "verify"}

Key(l) == <<l.tenant, l.id>>
On(l)  == <<l.tenant, l.on>>

DeskInit == desk = [d \in Clerks |-> Free]

-----------------------------------------------------------------------------
\* The stream the letter will write, as it is.
Current(l) ==
  CASE l.op \in HolderOps \cup {"register"} -> holders[Key(l)]
    [] l.op \in PolicyOps \cup {"issue"}    -> policies[Key(l)]
    [] l.op \in ClaimOps \cup {"submit"}    -> claims[Key(l)]

\* startStream expects no stream; the others load one, and the domain allows.
Acceptable(l) ==
  \/ l.op = "register"
  \/ l.op = "issue" /\ MayHold(holders[On(l)])
  \/ l.op = "submit" /\ Covers(policies[On(l)], l.n)
  \/ l.op \in HolderOps /\ Current(l).version > 0 /\ HolderAllows(Current(l), l.op)
  \/ l.op \in PolicyOps /\ Current(l).version > 0 /\ PolicyAllows(Current(l), l.op, l.n)
  \/ l.op \in ClaimOps  /\ Current(l).version > 0 /\ ClaimAllows(Current(l), l.op, l.n)

Expected(l) ==
  CASE l.op = "register" -> NoHolder
    [] l.op = "issue"    -> NoPolicy
    [] l.op = "submit"   -> NoClaim
    [] OTHER             -> Current(l)

Take(d) ==
  /\ desk[d].status = "idle"
  /\ \E l \in inbox :
       /\ l.tenant \in Allowed
       /\ Acceptable(l)
       /\ inbox' = inbox \ {l}
       /\ desk' = [desk EXCEPT ![d] = [status |-> "loaded", letter |-> l, seen |-> Expected(l), tries |-> 1, at |-> 0]]
  /\ UNCHANGED book

\* An insert that is not committed keeps other writers of the stream waiting.
Unlocked(l) ==
  l.op \in ClaimOps =>
    \A d \in Clerks : desk[d].status = "inserted" => Key(desk[d].letter) # Key(l)

\* Mistake: appending whatever version the stream has.
WrongUpToDate(d) == TRUE

UpToDate(d) == Current(desk[d].letter).version = desk[d].seen.version

Ready(d) == desk[d].status = "loaded" /\ Unlocked(desk[d].letter)
Done(d)  == desk' = [desk EXCEPT ![d] = Free] /\ UNCHANGED inbox

SaveHolder(d) ==
  LET l == desk[d].letter IN
  /\ Ready(d) /\ l.op \in HolderOps \cup {"register"} /\ UpToDate(d)
  /\ holders' = [holders EXCEPT ![Key(l)] =
       IF l.op = "register" THEN Registered ELSE HolderAfter(desk[d].seen, l.op)]
  /\ Done(d)
  /\ UNCHANGED <<policies, claims, approvals>>

SavePolicy(d) ==
  LET l == desk[d].letter IN
  /\ Ready(d) /\ l.op \in PolicyOps \cup {"issue"} /\ UpToDate(d)
  /\ policies' = [policies EXCEPT ![Key(l)] =
       IF l.op = "issue" THEN Issued(l.on, l.n) ELSE PolicyAfter(desk[d].seen, l.op, l.n)]
  /\ Done(d)
  /\ UNCHANGED <<holders, claims, approvals>>

SaveClaim(d) ==
  LET l == desk[d].letter IN
  /\ Ready(d) /\ l.op \in {"submit", "assign", "deny"} /\ UpToDate(d)
  /\ claims' = [claims EXCEPT ![Key(l)] =
       IF l.op = "submit" THEN Submitted(l.on, l.n) ELSE ClaimAfter(desk[d].seen, l.op, l.n)]
  /\ Done(d)
  /\ UNCHANGED <<holders, policies, approvals>>

(* An approval takes its global position when it is inserted, and others   *)
(* see it from the commit on.  (The commits of other events move the       *)
(* checkpoint of the settlement too, and nothing else.)                    *)
InsertApproval(d) ==
  LET l == desk[d].letter IN
  /\ Ready(d) /\ l.op = "approve" /\ UpToDate(d)
  /\ approvals' = Append(approvals, [tenant |-> l.tenant, claim |-> l.id, visible |-> FALSE])
  /\ desk' = [desk EXCEPT ![d].status = "inserted", ![d].at = Len(approvals) + 1]
  /\ UNCHANGED <<inbox, holders, policies, claims>>

CommitApproval(d) ==
  LET l == desk[d].letter IN
  /\ desk[d].status = "inserted"
  /\ claims' = [claims EXCEPT ![Key(l)] = ClaimAfter(desk[d].seen, "approve", l.n)]
  /\ approvals' = [approvals EXCEPT ![desk[d].at].visible = TRUE]
  /\ Done(d)
  /\ UNCHANGED <<holders, policies>>

\* The transaction fails; the position stays a gap.
RollBack(d) == desk[d].status = "inserted" /\ Done(d) /\ UNCHANGED book

\* Mistake: the retry takes the new version and keeps the old state.
WrongAgain(d) ==
  LET l == desk[d].letter IN
  /\ Ready(d) /\ ~UpToDate(d)
  /\ l.op \in Retried /\ desk[d].tries < RetryAttempts /\ Acceptable(l)
  /\ desk' = [desk EXCEPT ![d].seen.version = Current(l).version, ![d].tries = @ + 1]
  /\ UNCHANGED <<inbox, book>>

\* ConcurrencyError: verify and premium load and decide again; others answer 400.
Again(d) ==
  LET l == desk[d].letter IN
  /\ Ready(d) /\ ~UpToDate(d)
  /\ l.op \in Retried /\ desk[d].tries < RetryAttempts /\ Acceptable(l)
  /\ desk' = [desk EXCEPT ![d].seen = Current(l), ![d].tries = @ + 1]
  /\ UNCHANGED <<inbox, book>>

Refuse(d) ==
  LET l == desk[d].letter IN
  /\ Ready(d) /\ ~UpToDate(d)
  /\ \/ l.op \notin Retried \/ desk[d].tries >= RetryAttempts \/ ~Acceptable(l)
  /\ Done(d)
  /\ UNCHANGED book

DeskStep ==
  \E d \in Clerks :
    Take(d) \/ SaveHolder(d) \/ SavePolicy(d) \/ SaveClaim(d)
      \/ InsertApproval(d) \/ RollBack(d) \/ Again(d) \/ Refuse(d)
=============================================================================
