------------------------ MODULE InsuranceProperties -------------------------
(* What is claimed of the insurance example.                               *)
EXTENDS InsuranceApp

(* The books are sound whatever requests cross: a refund is covered by     *)
(* premiums; a policy was sold to a holder of the same tenant who was      *)
(* verified; a claim is for no more than its policy covers, and its stream *)
(* holds each event of its life once, so that it is decided and paid once. *)
Life == [submitted |-> 1, under_review |-> 2, denied |-> 3, approved |-> 3, paid |-> 4]

PolicySound(t, id) ==
  LET p == policies[<<t, id>>] IN
  p.version > 0 => /\ 0 <= p.refund /\ p.refund <= p.totalPaid
                   /\ p.status # "cancelled" => p.refund = 0
                   /\ holders[<<t, p.holder>>].verified

ClaimSound(t, id) ==
  LET c == claims[<<t, id>>] IN
  c.version > 0 => /\ policies[<<t, c.policy>>].version > 0
                   /\ c.requested <= policies[<<t, c.policy>>].coverage
                   /\ c.version = Life[c.status]
                   /\ c.status \in {"approved", "paid"} => 0 < c.approved /\ c.approved <= c.requested

BooksSound ==
  \A t \in Tenants :
    /\ \A id \in Policies : PolicySound(t, id)
    /\ \A id \in Claims : ClaimSound(t, id)

(* The routes and the settlement implement the insurer's contract.         *)
ClaimPhase(c) ==
  CASE c.status \in {"submitted", "under_review"} -> "open"
    [] c.status = "approved" -> "granted"
    [] c.status = "denied"   -> "refused"
    [] OTHER                 -> c.status

PolicyView(p) ==
  [status |-> IF p.status \in {"cancelled", "expired"} THEN "ended" ELSE p.status,
   limit |-> p.coverage, received |-> p.totalPaid, refund |-> p.refund]
ClaimView(c) == [phase |-> ClaimPhase(c), asked |-> c.requested, granted |-> c.approved]
CoverOf == [k \in Tenants \X Policies |-> PolicyView(policies[k])]
ClaimOf == [k \in Tenants \X Claims |-> ClaimView(claims[k])]

Contract == INSTANCE InsuranceContract WITH
  Policies <- Tenants \X Policies, Claims <- Tenants \X Claims, Amounts <- {0} \cup {l.n : l \in Letters},
  cover <- CoverOf, claim <- ClaimOf
HonoursContract == Contract!Spec

(* Every approved claim is paid in the end, whichever tenant it belongs    *)
(* to, unless its approval committed behind the checkpoint.                *)
ClaimsSettled ==
  <>[](\A k \in Tenants \X Claims : claims[k].status = "approved" =>
         \E i \in overtaken : <<approvals[i].tenant, approvals[i].claim>> = k)

-----------------------------------------------------------------------------
(* The inductive invariant behind the theorems of InsuranceProofs.         *)

HolderRecord == [version : Nat, verified : BOOLEAN, suspended : BOOLEAN]
PolicyRecord ==
  [version : Nat, holder : Holders, status : {"active", "cancelled", "expired"},
   coverage : Int, totalPaid : Int, expiry : Int, refund : Int]
ClaimRecord ==
  [version : Nat, policy : Policies, status : DOMAIN Life, requested : Int, approved : Int]

BookTyped ==
  /\ holders \in [Tenants \X Holders -> HolderRecord]
  /\ policies \in [Tenants \X Policies -> PolicyRecord \cup {NoPolicy}]
  /\ claims \in [Tenants \X Claims -> ClaimRecord \cup {NoClaim}]
  /\ \A k \in Tenants \X Holders : holders[k] # NoHolder => holders[k].version > 0
  /\ \A k \in Tenants \X Policies : policies[k] # NoPolicy => policies[k].version > 0
  /\ \A k \in Tenants \X Claims : claims[k] # NoClaim => claims[k].version > 0
  /\ approvals \in Seq([tenant : Tenants, claim : Claims, visible : BOOLEAN])

Opening == {"register", "issue", "submit"}

(* What a clerk has decided still holds when it is saved, if the version   *)
(* of the one stream it writes has not moved.                              *)
DeskOK(d) ==
  LET l == desk[d].letter
      seen == desk[d].seen IN
  desk[d].status # "idle" =>
    /\ l \in Letters
    /\ l.op \in Opening => seen.version = 0
    /\ l.op \notin Opening =>
         /\ 0 < seen.version /\ seen.version <= Current(l).version
         /\ seen.version = Current(l).version => seen = Current(l)
    /\ l.op \in PolicyOps => PolicyAllows(seen, l.op, l.n)
    /\ l.op \in ClaimOps => ClaimAllows(seen, l.op, l.n)
    /\ l.op = "issue" => holders[On(l)].verified
    /\ l.op = "submit" => policies[On(l)].version > 0 /\ l.n <= policies[On(l)].coverage

(* The stream of an approval that is not committed stays as it was seen.   *)
ApprovalOK(d) ==
  LET l == desk[d].letter IN
  desk[d].status = "inserted" =>
    /\ l.op = "approve" /\ desk[d].seen = claims[Key(l)]
    /\ \A e \in Clerks \ {d} : desk[e].status = "inserted" => Key(desk[e].letter) # Key(l)

DeskInv ==
  /\ desk \in [Clerks -> [status : {"idle", "loaded", "inserted"}, letter : Letters \cup {NoLetter},
                          seen : HolderRecord \cup PolicyRecord \cup ClaimRecord \cup {NoPolicy, NoClaim},
                          tries : Nat, at : Nat]]
  /\ inbox \subseteq Letters
  /\ \A d \in Clerks : DeskOK(d) /\ ApprovalOK(d)

InsuranceInv == BookTyped /\ DeskInv /\ BooksSound
=============================================================================
