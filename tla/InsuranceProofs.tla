--------------------------- MODULE InsuranceProofs ---------------------------
(* Proofs about the insurance example, for every set of tenants, holders,  *)
(* policies, claims and clerks and any letters.                            *)
EXTENDS InsuranceProperties, TLAPS

-----------------------------------------------------------------------------
(* Letters and records.                                                    *)

\* A letter is about ids of the sets it should be about.
LEMMA LetterIds ==
  ASSUME NEW l \in Letters
  PROVE  /\ l.n \in Int
         /\ l.op \in HolderOps \cup PolicyOps \cup ClaimOps \cup Opening
         /\ l.op \in HolderOps \cup {"register"} => Key(l) \in Tenants \X Holders
         /\ l.op \in PolicyOps \cup {"issue"} => Key(l) \in Tenants \X Policies
         /\ l.op \in ClaimOps \cup {"submit"} => Key(l) \in Tenants \X Claims
         /\ l.op = "issue" => On(l) \in Tenants \X Holders /\ l.on \in Holders /\ l.n > 0
         /\ l.op = "submit" => On(l) \in Tenants \X Policies /\ l.on \in Policies /\ l.n > 0
BY InsuranceAssumption DEF Key, On, HolderOps, PolicyOps, ClaimOps, Opening

\* What the three kinds of letters are about.
LEMMA CurrentIs ==
  ASSUME NEW l \in Letters
  PROVE  /\ l.op \in HolderOps \cup {"register"} => Current(l) = holders[Key(l)]
         /\ l.op \in PolicyOps \cup {"issue"} => Current(l) = policies[Key(l)]
         /\ l.op \in ClaimOps \cup {"submit"} => Current(l) = claims[Key(l)]
BY DEF Current, HolderOps, PolicyOps, ClaimOps

\* An empty record has no version, and a stream's record has one.
LEMMA Versions ==
  ASSUME BookTyped
  PROVE  /\ \A k \in Tenants \X Holders : holders[k].version \in Nat
         /\ \A k \in Tenants \X Policies :
              /\ policies[k].version \in Nat
              /\ policies[k].version > 0 => policies[k] \in PolicyRecord
              /\ policies[k].version = 0 => policies[k] = NoPolicy
         /\ \A k \in Tenants \X Claims :
              /\ claims[k].version \in Nat
              /\ claims[k].version > 0 => claims[k] \in ClaimRecord
              /\ claims[k].version = 0 => claims[k] = NoClaim
BY DEF BookTyped, HolderRecord, PolicyRecord, ClaimRecord, NoPolicy, NoClaim

-----------------------------------------------------------------------------
(* Streams only grow.                                                      *)

HolderGrows(k) ==
  \/ holders'[k] = holders[k]
  \/ holders'[k].version > holders[k].version /\ (holders[k].verified => holders'[k].verified)
PolicyGrows(k) ==
  \/ policies'[k] = policies[k]
  \/ /\ policies'[k].version > policies[k].version
     /\ policies[k].version > 0 => policies'[k].coverage = policies[k].coverage
ClaimGrows(k) == claims'[k] = claims[k] \/ claims'[k].version > claims[k].version

Grows ==
  /\ \A k \in Tenants \X Holders : HolderGrows(k)
  /\ \A k \in Tenants \X Policies : PolicyGrows(k)
  /\ \A k \in Tenants \X Claims : ClaimGrows(k)

\* What is before a clerk stays right while others save.
LEMMA DeskKeeps ==
  ASSUME BookTyped, BookTyped', Grows, NEW d \in Clerks, DeskOK(d),
         desk[d].seen.version \in Nat, desk'[d] = desk[d]
  PROVE  DeskOK(d)'
<1> DEFINE l == desk[d].letter
           seen == desk[d].seen
<1> SUFFICES ASSUME desk[d].status # "idle"
             PROVE  DeskOK(d)'
  BY DEF DeskOK
<1>1. l \in Letters /\ l' = l /\ seen' = seen
  BY DEF DeskOK
<1>2. l.op \notin Opening =>
        /\ 0 < seen.version /\ seen.version <= Current(l)'.version
        /\ seen.version = Current(l)'.version => seen = Current(l)'
  <2> SUFFICES ASSUME l.op \notin Opening
               PROVE  /\ 0 < seen.version /\ seen.version <= Current(l)'.version
                      /\ seen.version = Current(l)'.version => seen = Current(l)'
    OBVIOUS
  <2>0. /\ 0 < seen.version /\ seen.version <= Current(l).version
        /\ seen.version = Current(l).version => seen = Current(l)
    BY DEF DeskOK
  <2>1. CASE l.op \in HolderOps
    <3>1. Key(l) \in Tenants \X Holders
      BY <1>1, <2>1, LetterIds
    <3>2. Current(l) = holders[Key(l)] /\ Current(l)' = holders'[Key(l)]
      BY <2>1 DEF Current, HolderOps, PolicyOps, ClaimOps, Key
    <3>3. holders[Key(l)].version \in Nat /\ holders'[Key(l)].version \in Nat
      BY <3>1 DEF BookTyped, HolderRecord
    <3>4. HolderGrows(Key(l))
      BY <3>1 DEF Grows
    <3> QED BY <2>0, <3>2, <3>3, <3>4 DEF HolderGrows
  <2>2. CASE l.op \in PolicyOps
    <3>1. Key(l) \in Tenants \X Policies
      BY <1>1, <2>2, LetterIds
    <3>2. Current(l) = policies[Key(l)] /\ Current(l)' = policies'[Key(l)]
      BY <2>2 DEF Current, HolderOps, PolicyOps, ClaimOps, Key
    <3>3. policies[Key(l)].version \in Nat /\ policies'[Key(l)].version \in Nat
      BY <3>1 DEF BookTyped, PolicyRecord, NoPolicy
    <3>4. PolicyGrows(Key(l))
      BY <3>1 DEF Grows
    <3> QED BY <2>0, <3>2, <3>3, <3>4 DEF PolicyGrows
  <2>3. CASE l.op \in ClaimOps
    <3>1. Key(l) \in Tenants \X Claims
      BY <1>1, <2>3, LetterIds
    <3>2. Current(l) = claims[Key(l)] /\ Current(l)' = claims'[Key(l)]
      BY <2>3 DEF Current, HolderOps, PolicyOps, ClaimOps, Key
    <3>3. claims[Key(l)].version \in Nat /\ claims'[Key(l)].version \in Nat
      BY <3>1 DEF BookTyped, ClaimRecord, NoClaim
    <3>4. ClaimGrows(Key(l))
      BY <3>1 DEF Grows
    <3> QED BY <2>0, <3>2, <3>3, <3>4 DEF ClaimGrows
  <2> QED BY <1>1, <2>1, <2>2, <2>3, LetterIds
<1>3. l.op = "issue" => holders'[On(l)].verified
  BY <1>1, LetterIds DEF DeskOK, Grows, HolderGrows
<1>4. l.op = "submit" => policies'[On(l)].version > 0 /\ l.n <= policies'[On(l)].coverage
  <2> SUFFICES ASSUME l.op = "submit"
               PROVE  policies'[On(l)].version > 0 /\ l.n <= policies'[On(l)].coverage
    OBVIOUS
  <2>1. On(l) \in Tenants \X Policies
    BY <1>1, LetterIds
  <2>2. policies[On(l)].version > 0 /\ l.n <= policies[On(l)].coverage
    BY DEF DeskOK
  <2> QED BY <2>1, <2>2 DEF Grows, PolicyGrows, BookTyped, PolicyRecord, NoPolicy
<1> QED BY <1>1, <1>2, <1>3, <1>4 DEF DeskOK, On

\* Sound policies and claims stay sound while other streams grow.
LEMMA PolicyKeeps ==
  ASSUME BookTyped, BookTyped', Grows, NEW t \in Tenants, NEW id \in Policies,
         PolicySound(t, id), policies'[<<t, id>>] = policies[<<t, id>>]
  PROVE  PolicySound(t, id)'
<1> SUFFICES ASSUME policies[<<t, id>>].version > 0 PROVE PolicySound(t, id)'
  BY DEF PolicySound
<1>1. policies[<<t, id>>].holder \in Holders
  BY Versions DEF PolicyRecord
<1>2. holders'[<<t, policies[<<t, id>>].holder>>].verified
  BY <1>1 DEF PolicySound, Grows, HolderGrows
<1> QED BY <1>2 DEF PolicySound

LEMMA ClaimKeeps ==
  ASSUME BookTyped, BookTyped', Grows, NEW t \in Tenants, NEW id \in Claims,
         ClaimSound(t, id), claims'[<<t, id>>] = claims[<<t, id>>]
  PROVE  ClaimSound(t, id)'
<1> SUFFICES ASSUME claims[<<t, id>>].version > 0 PROVE ClaimSound(t, id)'
  BY DEF ClaimSound
<1> DEFINE k == <<t, claims[<<t, id>>].policy>>
<1>1. k \in Tenants \X Policies
  BY Versions DEF ClaimRecord
<1>2. policies[k].version > 0 /\ claims[<<t, id>>].requested <= policies[k].coverage
  BY DEF ClaimSound
<1>3. policies[k].version \in Nat /\ policies'[k].version \in Nat /\ PolicyGrows(k)
  BY <1>1 DEF Grows, BookTyped, PolicyRecord, NoPolicy
<1>4. policies'[k].version > 0 /\ claims[<<t, id>>].requested <= policies'[k].coverage
  BY <1>2, <1>3 DEF PolicyGrows
<1> QED BY <1>4 DEF ClaimSound

\* What a clerk other than the one who acts has before it stays right.
LEMMA OthersKeep ==
  ASSUME InsuranceInv, BookTyped', Grows, NEW d \in Clerks, desk'[d] = desk[d],
         desk[d].status = "inserted" => claims'[Key(desk[d].letter)] = claims[Key(desk[d].letter)],
         \A e \in Clerks : desk'[e] = desk[e] \/ desk'[e].status # "inserted"
  PROVE  DeskOK(d)' /\ ApprovalOK(d)'
<1>1. desk[d].seen.version \in Nat
  BY DEF InsuranceInv, DeskInv, HolderRecord, PolicyRecord, ClaimRecord, NoPolicy, NoClaim
<1>2. DeskOK(d)'
  BY <1>1, DeskKeeps DEF InsuranceInv, DeskInv
<1>3. ApprovalOK(d)'
  BY DEF InsuranceInv, DeskInv, ApprovalOK, Key
<1> QED BY <1>2, <1>3

-----------------------------------------------------------------------------
(* The routes.                                                             *)

\* The desk when a clerk is done and the streams have grown.
LEMMA DoneKeeps ==
  ASSUME InsuranceInv, BookTyped', Grows, NEW d \in Clerks, Done(d),
         \A e \in Clerks \ {d} : desk[e].status = "inserted" =>
           claims'[Key(desk[e].letter)] = claims[Key(desk[e].letter)]
  PROVE  DeskInv'
<1>1. /\ desk' \in [Clerks -> [status : {"idle", "loaded", "inserted"}, letter : Letters \cup {NoLetter},
                  seen : HolderRecord \cup PolicyRecord \cup ClaimRecord \cup {NoPolicy, NoClaim},
                  tries : Nat, at : Nat]]
      /\ inbox' \subseteq Letters
  BY DEF InsuranceInv, DeskInv, Done, Free
<1>2. DeskOK(d)' /\ ApprovalOK(d)'
  BY DEF InsuranceInv, DeskInv, Done, Free, DeskOK, ApprovalOK
<1>3. ASSUME NEW e \in Clerks \ {d} PROVE DeskOK(e)' /\ ApprovalOK(e)'
  <2>1. desk'[e] = desk[e] /\ \A f \in Clerks : desk'[f] = desk[f] \/ desk'[f].status # "inserted"
    BY DEF InsuranceInv, DeskInv, Done, Free
  <2> QED BY <2>1, OthersKeep
<1> QED BY <1>1, <1>2, <1>3 DEF DeskInv

\* What a clerk that may save has seen is the stream as it is.
LEMMA SeenIsCurrent ==
  ASSUME InsuranceInv, NEW d \in Clerks, Ready(d), UpToDate(d)
  PROVE  LET l == desk[d].letter IN
         /\ l \in Letters
         /\ l.op \in Opening => Current(l).version = 0
         /\ l.op \notin Opening => desk[d].seen = Current(l)
         /\ l.op \in PolicyOps => PolicyAllows(desk[d].seen, l.op, l.n)
         /\ l.op \in ClaimOps => ClaimAllows(desk[d].seen, l.op, l.n)
         /\ l.op = "issue" => holders[On(l)].verified
         /\ l.op = "submit" => policies[On(l)].version > 0 /\ l.n <= policies[On(l)].coverage
BY DEF InsuranceInv, DeskInv, DeskOK, Ready, UpToDate

\* A clerk is only given a letter: the streams stay.
LEMMA TakeKeeps == ASSUME InsuranceInv, NEW d \in Clerks, Take(d) PROVE InsuranceInv'
<1>1. PICK l \in inbox :
        /\ l.tenant \in Allowed /\ Acceptable(l) /\ inbox' = inbox \ {l}
        /\ desk' = [desk EXCEPT ![d] = [status |-> "loaded", letter |-> l, seen |-> Expected(l),
                                      tries |-> 1, at |-> 0]]
  BY DEF Take
<1>2. l \in Letters /\ UNCHANGED book
  BY <1>1 DEF Take, InsuranceInv, DeskInv
<1>3. BookTyped' /\ BooksSound' /\ Grows
  BY <1>2 DEF InsuranceInv, book, BookTyped, BooksSound, PolicySound, ClaimSound,
              Grows, HolderGrows, PolicyGrows, ClaimGrows
<1>4. Current(l)' = Current(l)
  BY <1>2 DEF Current, book, Key
<1>5. /\ l.op \in Opening => Expected(l).version = 0
      /\ l.op \notin Opening => Expected(l) = Current(l)
  BY <1>2, LetterIds DEF Expected, Opening, HolderOps, PolicyOps, ClaimOps, NoHolder, NoPolicy, NoClaim
<1>6. /\ Expected(l) \in HolderRecord \cup PolicyRecord \cup ClaimRecord \cup {NoPolicy, NoClaim}
      /\ l.op \notin Opening => Current(l).version \in Nat /\ Current(l).version > 0
  <2>1. CASE l.op \in HolderOps
    <3>1. Current(l) = holders[Key(l)] /\ Key(l) \in Tenants \X Holders /\ l.op \notin Opening
      BY <1>2, <2>1, CurrentIs, LetterIds DEF HolderOps, Opening
    <3>2. Current(l).version > 0
      BY <1>1, <2>1 DEF Acceptable, HolderOps, PolicyOps, ClaimOps
    <3> QED BY <1>5, <3>1, <3>2 DEF InsuranceInv, BookTyped, HolderRecord
  <2>2. CASE l.op \in PolicyOps
    <3>1. Current(l) = policies[Key(l)] /\ Key(l) \in Tenants \X Policies /\ l.op \notin Opening
      BY <1>2, <2>2, CurrentIs, LetterIds DEF PolicyOps, Opening
    <3>2. Current(l).version > 0
      BY <1>1, <2>2 DEF Acceptable, HolderOps, PolicyOps, ClaimOps
    <3> QED BY <1>5, <3>1, <3>2, Versions DEF InsuranceInv
  <2>3. CASE l.op \in ClaimOps
    <3>1. Current(l) = claims[Key(l)] /\ Key(l) \in Tenants \X Claims /\ l.op \notin Opening
      BY <1>2, <2>3, CurrentIs, LetterIds DEF ClaimOps, Opening
    <3>2. Current(l).version > 0
      BY <1>1, <2>3 DEF Acceptable, HolderOps, PolicyOps, ClaimOps
    <3> QED BY <1>5, <3>1, <3>2, Versions DEF InsuranceInv
  <2>4. CASE l.op \in Opening
    BY <2>4 DEF Expected, Opening, NoHolder, HolderRecord
  <2> QED BY <1>2, <2>1, <2>2, <2>3, <2>4, LetterIds
<1>7. /\ l.op \in PolicyOps => PolicyAllows(Current(l), l.op, l.n)
      /\ l.op \in ClaimOps => ClaimAllows(Current(l), l.op, l.n)
      /\ l.op = "issue" => holders[On(l)].verified
      /\ l.op = "submit" => policies[On(l)].version > 0 /\ l.n <= policies[On(l)].coverage
  BY <1>1 DEF Acceptable, MayHold, Covers, HolderOps, PolicyOps, ClaimOps
<1>8. /\ desk'[d].status = "loaded" /\ desk'[d].letter = l /\ desk'[d].seen = Expected(l)
      /\ \A e \in Clerks \ {d} : desk'[e] = desk[e]
  BY <1>1 DEF InsuranceInv, DeskInv
<1>9. PolicyOps \cap Opening = {} /\ ClaimOps \cap Opening = {}
  BY DEF PolicyOps, ClaimOps, Opening
<1>10. DeskOK(d)'
  BY <1>2, <1>4, <1>5, <1>6, <1>7, <1>8, <1>9 DEF DeskOK, On, book
<1>11. ApprovalOK(d)'
  BY <1>8 DEF ApprovalOK
<1>12. ASSUME NEW e \in Clerks \ {d} PROVE DeskOK(e)' /\ ApprovalOK(e)'
  BY <1>2, <1>3, <1>8, OthersKeep DEF book
<1>13. desk' \in [Clerks -> [status : {"idle", "loaded", "inserted"}, letter : Letters \cup {NoLetter},
                  seen : HolderRecord \cup PolicyRecord \cup ClaimRecord \cup {NoPolicy, NoClaim},
                  tries : Nat, at : Nat]]
  BY <1>1, <1>2, <1>6 DEF InsuranceInv, DeskInv
<1> QED BY <1>1, <1>3, <1>10, <1>11, <1>12, <1>13 DEF InsuranceInv, DeskInv

\* A holder who is verified stays so.
LEMMA HolderLives ==
  ASSUME NEW h \in HolderRecord, NEW op \in HolderOps
  PROVE  LET r == HolderAfter(h, op) IN
         r \in HolderRecord /\ r.version > h.version /\ (h.verified => r.verified)
<1>1. PICK next : next = [h EXCEPT !.version = @ + 1]
  OBVIOUS
<1>2. /\ next \in HolderRecord /\ next.version = h.version + 1
      /\ next.verified = h.verified /\ next.suspended = h.suspended
  BY <1>1 DEF HolderRecord
<1>3. CASE op = "verify"
  <2>1. HolderAfter(h, op) = [next EXCEPT !.verified = TRUE]
    BY <1>1, <1>3 DEF HolderAfter
  <2>2. [next EXCEPT !.verified = TRUE] \in HolderRecord
    BY <1>2 DEF HolderRecord
  <2>3. HolderAfter(h, op).version = next.version
    BY <1>2, <2>1 DEF HolderRecord
  <2>4. h.verified => HolderAfter(h, op).verified
    BY <1>2, <2>1 DEF HolderRecord
  <2> QED BY <1>2, <2>1, <2>2, <2>3, <2>4 DEF HolderRecord
<1>4. CASE op = "contact"
  <2>1. HolderAfter(h, op) = next
    BY <1>1, <1>4 DEF HolderAfter
  <2> QED BY <1>2, <1>4, <2>1 DEF HolderRecord
<1>5. CASE op = "suspend"
  <2>1. HolderAfter(h, op) = [next EXCEPT !.suspended = TRUE]
    BY <1>1, <1>5 DEF HolderAfter
  <2>2. [next EXCEPT !.suspended = TRUE] \in HolderRecord
    BY <1>2 DEF HolderRecord
  <2>3. HolderAfter(h, op).version = next.version
    BY <1>2, <2>1 DEF HolderRecord
  <2>4. h.verified => HolderAfter(h, op).verified
    BY <1>2, <2>1 DEF HolderRecord
  <2> QED BY <1>2, <2>1, <2>2, <2>3, <2>4 DEF HolderRecord
<1> QED BY <1>3, <1>4, <1>5 DEF HolderOps

\* Holders: the policies of a verified holder keep one.
LEMMA SaveHolderKeeps == ASSUME InsuranceInv, NEW d \in Clerks, SaveHolder(d) PROVE InsuranceInv'
<1> DEFINE l == desk[d].letter
           k == Key(l)
           r == IF l.op = "register" THEN Registered ELSE HolderAfter(desk[d].seen, l.op)
<1> BookTyped /\ BooksSound
  BY DEF InsuranceInv
<1>1. l \in Letters /\ k \in Tenants \X Holders /\ Current(l) = holders[k]
  BY SeenIsCurrent, LetterIds, CurrentIs DEF SaveHolder
<1>2. r \in HolderRecord /\ r.version > holders[k].version /\ (holders[k].verified => r.verified)
  <2>1. CASE l.op = "register"
    <3>1. holders[k] = NoHolder
      BY <1>1, <2>1, SeenIsCurrent DEF SaveHolder, Opening, BookTyped
    <3>2. r = [version |-> 1, verified |-> FALSE, suspended |-> FALSE]
      BY <2>1 DEF NoHolder, Registered
    <3> HIDE DEF r
    <3> QED BY <3>1, <3>2 DEF NoHolder, HolderRecord
  <2>2. CASE l.op \in HolderOps
    <3>1. desk[d].seen = holders[k] /\ l.op # "register"
      BY <1>1, <2>2, SeenIsCurrent DEF SaveHolder, Opening, HolderOps
    <3>2. holders[k] \in HolderRecord /\ r = HolderAfter(holders[k], l.op)
      BY <1>1, <3>1 DEF BookTyped
    <3> QED BY <2>2, <3>2, HolderLives
  <2> QED BY <2>1, <2>2 DEF SaveHolder
<1>3. /\ holders' = [holders EXCEPT ![k] = r]
      /\ UNCHANGED <<policies, claims, approvals>> /\ Done(d)
  BY DEF SaveHolder
<1>4. BookTyped'
  BY <1>1, <1>2, <1>3 DEF BookTyped, HolderRecord
<1>5. Grows
  BY <1>1, <1>2, <1>3 DEF Grows, HolderGrows, PolicyGrows, ClaimGrows, BookTyped
<1>6. BooksSound'
  BY <1>3, <1>4, <1>5, PolicyKeeps, ClaimKeeps DEF BooksSound
<1>7. DeskInv'
  BY <1>3, <1>4, <1>5, DoneKeeps
<1> QED BY <1>4, <1>6, <1>7 DEF InsuranceInv

\* What the events of a policy in force do to it.
LEMMA PolicyLives ==
  ASSUME NEW p \in PolicyRecord, NEW op \in PolicyOps, NEW n \in Int, PolicyAllows(p, op, n),
         0 <= p.totalPaid, p.refund = 0
  PROVE  LET r == PolicyAfter(p, op, n) IN
         /\ r \in PolicyRecord /\ r.version = p.version + 1
         /\ r.coverage = p.coverage /\ r.holder = p.holder
         /\ 0 <= r.refund /\ r.refund <= r.totalPaid /\ (r.status # "cancelled" => r.refund = 0)
<1>1. PICK next : next = [p EXCEPT !.version = @ + 1]
  OBVIOUS
<1>2. /\ next \in PolicyRecord /\ next.version = p.version + 1
      /\ next.holder = p.holder /\ next.status = p.status /\ next.coverage = p.coverage
      /\ next.totalPaid = p.totalPaid /\ next.expiry = p.expiry /\ next.refund = p.refund
  BY <1>1 DEF PolicyRecord
<1>3. CASE op = "premium"
  <2>1. PolicyAfter(p, op, n) = [next EXCEPT !.totalPaid = @ + n]
    BY <1>1, <1>3 DEF PolicyAfter
  <2>2. [next EXCEPT !.totalPaid = @ + n] \in PolicyRecord
    BY <1>2 DEF PolicyRecord
  <2> QED BY <1>2, <1>3, <2>1, <2>2 DEF PolicyRecord, PolicyAllows
<1>4. CASE op = "renew"
  <2>1. PolicyAfter(p, op, n) = [next EXCEPT !.expiry = n]
    BY <1>1, <1>4 DEF PolicyAfter
  <2> QED BY <1>2, <1>4, <2>1 DEF PolicyRecord, PolicyAllows
<1>5. CASE op = "cancel"
  <2>1. PICK mid : mid = [next EXCEPT !.status = "cancelled"]
    OBVIOUS
  <2>2. mid \in PolicyRecord
    BY <1>2, <2>1 DEF PolicyRecord
  <2>3. PolicyAfter(p, op, n) = [mid EXCEPT !.refund = n]
    BY <1>1, <1>5, <2>1 DEF PolicyAfter
  <2> QED BY <1>2, <1>5, <2>2, <2>1, <2>3 DEF PolicyRecord, PolicyAllows
<1>6. CASE op = "expire"
  <2>1. PolicyAfter(p, op, n) = [next EXCEPT !.status = "expired"]
    BY <1>1, <1>6 DEF PolicyAfter
  <2> QED BY <1>2, <1>6, <2>1 DEF PolicyRecord, PolicyAllows
<1> QED BY <1>3, <1>4, <1>5, <1>6 DEF PolicyOps

\* Policies: a refund is covered when it is saved.
LEMMA SavePolicyKeeps == ASSUME InsuranceInv, NEW d \in Clerks, SavePolicy(d) PROVE InsuranceInv'
<1> DEFINE l == desk[d].letter
           k == Key(l)
           r == IF l.op = "issue" THEN Issued(l.on, l.n) ELSE PolicyAfter(desk[d].seen, l.op, l.n)
<1> BookTyped /\ BooksSound
  BY DEF InsuranceInv
<1>1. l \in Letters /\ k \in Tenants \X Policies /\ Current(l) = policies[k] /\ l.n \in Int
  BY SeenIsCurrent, LetterIds, CurrentIs DEF SavePolicy
<1>2. /\ r \in PolicyRecord /\ r.version > policies[k].version
      /\ policies[k].version > 0 => r.coverage = policies[k].coverage
      /\ 0 <= r.refund /\ r.refund <= r.totalPaid /\ (r.status # "cancelled" => r.refund = 0)
      /\ holders[<<l.tenant, r.holder>>].verified
  <2>1. CASE l.op = "issue"
    <3>1. policies[k].version = 0 /\ l.on \in Holders /\ holders[On(l)].verified
      BY <1>1, <2>1, SeenIsCurrent, LetterIds DEF SavePolicy, Opening
    <3>2. r = [version |-> 1, holder |-> l.on, status |-> "active", coverage |-> l.n,
               totalPaid |-> 0, expiry |-> 1, refund |-> 0]
      BY <2>1 DEF NoPolicy, Issued
    <3> HIDE DEF r
    <3> QED BY <1>1, <3>1, <3>2 DEF PolicyRecord, On
  <2>2. CASE l.op \in PolicyOps
    <3>1. desk[d].seen = policies[k] /\ l.op # "issue" /\ PolicyAllows(policies[k], l.op, l.n)
      BY <1>1, <2>2, SeenIsCurrent DEF SavePolicy, Opening, PolicyOps
    <3>2. policies[k].version > 0 /\ policies[k] \in PolicyRecord
      BY <1>1, <3>1 DEF BookTyped, PolicyAllows, NoPolicy
    <3>3. PolicySound(l.tenant, l.id)
      BY <1>1 DEF BooksSound, Key
    <3>4. r = PolicyAfter(policies[k], l.op, l.n)
      BY <3>1
    <3>5. /\ r \in PolicyRecord /\ r.version = policies[k].version + 1
          /\ r.coverage = policies[k].coverage /\ r.holder = policies[k].holder
          /\ 0 <= r.refund /\ r.refund <= r.totalPaid /\ (r.status # "cancelled" => r.refund = 0)
      <4>1. 0 <= policies[k].totalPaid /\ policies[k].refund = 0
        BY <3>1, <3>2, <3>3 DEF PolicySound, Key, PolicyAllows
      <4> QED BY <1>1, <2>2, <3>1, <3>2, <3>4, <4>1, PolicyLives
    <3> QED BY <3>2, <3>3, <3>5 DEF PolicySound, PolicyRecord, Key
  <2> QED BY <2>1, <2>2 DEF SavePolicy
<1>3. /\ policies' = [policies EXCEPT ![k] = r]
      /\ UNCHANGED <<holders, claims, approvals>> /\ Done(d)
  BY DEF SavePolicy
<1>4. BookTyped'
  <2>1. policies' \in [Tenants \X Policies -> PolicyRecord \cup {NoPolicy}]
    BY <1>1, <1>2, <1>3 DEF BookTyped
  <2>2. \A j \in Tenants \X Policies : policies'[j] # NoPolicy => policies'[j].version > 0
    BY <1>1, <1>2, <1>3, Versions DEF BookTyped, PolicyRecord
  <2> QED BY <1>3, <2>1, <2>2 DEF BookTyped
<1>5. Grows
  BY <1>1, <1>2, <1>3 DEF Grows, HolderGrows, PolicyGrows, ClaimGrows, BookTyped
<1>6. ASSUME NEW t \in Tenants, NEW id \in Policies PROVE PolicySound(t, id)'
  <2>1. CASE <<t, id>> = k
    BY <1>1, <1>2, <1>3, <2>1 DEF PolicySound, BookTyped, Key
  <2>2. CASE <<t, id>> # k
    BY <1>3, <1>4, <1>5, <2>2, PolicyKeeps DEF BooksSound, BookTyped
  <2> QED BY <2>1, <2>2
<1>7. BooksSound'
  BY <1>3, <1>4, <1>5, <1>6, ClaimKeeps DEF BooksSound
<1>8. DeskInv'
  BY <1>3, <1>4, <1>5, DoneKeeps
<1> QED BY <1>4, <1>7, <1>8 DEF InsuranceInv

\* One claim changes to a sound record with a later version.
LEMMA ClaimChanges ==
  ASSUME InsuranceInv, NEW k \in Tenants \X Claims, NEW r \in ClaimRecord,
         r.version > claims[k].version, claims' = [claims EXCEPT ![k] = r],
         UNCHANGED <<holders, policies>>,
         approvals' \in Seq([tenant : Tenants, claim : Claims, visible : BOOLEAN]),
         ClaimSound(k[1], k[2])'
  PROVE  BookTyped' /\ Grows /\ BooksSound'
<1> BookTyped /\ BooksSound
  BY DEF InsuranceInv
<1>1. BookTyped'
  <2>1. claims' \in [Tenants \X Claims -> ClaimRecord \cup {NoClaim}]
    BY DEF BookTyped
  <2>2. \A j \in Tenants \X Claims : claims'[j] # NoClaim => claims'[j].version > 0
    BY Versions DEF BookTyped, ClaimRecord
  <2> QED BY <2>1, <2>2 DEF BookTyped
<1>2. Grows
  BY DEF Grows, HolderGrows, PolicyGrows, ClaimGrows, BookTyped
<1>3. ASSUME NEW t \in Tenants, NEW id \in Claims PROVE ClaimSound(t, id)'
  <2>1. CASE <<t, id>> = k
    BY <2>1
  <2>2. CASE <<t, id>> # k
    BY <1>1, <1>2, <2>2, ClaimKeeps DEF BooksSound, BookTyped
  <2> QED BY <2>1, <2>2
<1> QED BY <1>1, <1>2, <1>3, PolicyKeeps DEF BooksSound

\* An event of a claim's life makes a sound claim of a sound one.
LEMMA ClaimLives ==
  ASSUME NEW c \in ClaimRecord, NEW op \in ClaimOps, NEW n \in Int, ClaimAllows(c, op, n),
         c.version = Life[c.status]
  PROVE  LET r == ClaimAfter(c, op, n) IN
         /\ r \in ClaimRecord /\ r.version = c.version + 1 /\ r.version = Life[r.status]
         /\ r.policy = c.policy /\ r.requested = c.requested
         /\ r.status \in {"approved", "paid"} => 0 < r.approved /\ r.approved <= r.requested
<1>1. PICK next : next = [c EXCEPT !.version = @ + 1]
  OBVIOUS
<1>2. /\ next \in ClaimRecord /\ next.version = c.version + 1
      /\ next.policy = c.policy /\ next.status = c.status /\ next.requested = c.requested
      /\ next.approved = c.approved
  BY <1>1 DEF ClaimRecord, Life
<1>3. CASE op = "assign"
  <2>1. ClaimAfter(c, op, n) = [next EXCEPT !.status = "under_review"]
    BY <1>1, <1>3 DEF ClaimAfter
  <2>2. [next EXCEPT !.status = "under_review"] \in ClaimRecord
    BY <1>2 DEF ClaimRecord, Life
  <2> QED BY <1>2, <1>3, <2>1, <2>2 DEF ClaimRecord, ClaimAllows, Life
<1>4. CASE op = "approve"
  <2>1. PICK mid : mid = [next EXCEPT !.status = "approved"]
    OBVIOUS
  <2>2. mid \in ClaimRecord
    BY <1>2, <2>1 DEF ClaimRecord, Life
  <2>3. ClaimAfter(c, op, n) = [mid EXCEPT !.approved = n]
    BY <1>1, <1>4, <2>1 DEF ClaimAfter
  <2>4. [mid EXCEPT !.approved = n] \in ClaimRecord
    BY <2>2 DEF ClaimRecord
  <2>5. /\ ClaimAfter(c, op, n).approved = n /\ ClaimAfter(c, op, n).status = "approved"
        /\ ClaimAfter(c, op, n).version = next.version /\ ClaimAfter(c, op, n).policy = next.policy
        /\ ClaimAfter(c, op, n).requested = next.requested
    BY <1>2, <2>1, <2>2, <2>3 DEF ClaimRecord
  <2>6. c.version = 2 /\ 0 < n /\ n <= c.requested
    BY <1>4 DEF ClaimAllows, Life
  <2> QED BY <1>2, <2>3, <2>4, <2>5, <2>6 DEF Life
<1>5. CASE op = "deny"
  <2>1. ClaimAfter(c, op, n) = [next EXCEPT !.status = "denied"]
    BY <1>1, <1>5 DEF ClaimAfter
  <2>2. [next EXCEPT !.status = "denied"] \in ClaimRecord
    BY <1>2 DEF ClaimRecord, Life
  <2> QED BY <1>2, <1>5, <2>1, <2>2 DEF ClaimRecord, ClaimAllows, Life
<1> QED BY <1>3, <1>4, <1>5 DEF ClaimOps

\* An approval that is not committed is of a claim under review.
LEMMA Approving ==
  ASSUME InsuranceInv, NEW d \in Clerks, desk[d].status = "inserted"
  PROVE  LET l == desk[d].letter IN
         /\ l \in Letters /\ l.op = "approve" /\ Key(l) \in Tenants \X Claims /\ l.n \in Int
         /\ desk[d].seen = claims[Key(l)] /\ ClaimAllows(claims[Key(l)], "approve", l.n)
         /\ claims[Key(l)] \in ClaimRecord /\ claims[Key(l)].version > 0
<1> DEFINE l == desk[d].letter
<1>1. l \in Letters /\ l.op = "approve" /\ desk[d].seen = claims[Key(l)]
  BY DEF InsuranceInv, DeskInv, DeskOK, ApprovalOK
<1>2. l.op \notin Opening /\ l.op \in ClaimOps
  BY <1>1 DEF Opening, ClaimOps
<1>3. 0 < desk[d].seen.version /\ ClaimAllows(desk[d].seen, l.op, l.n)
  BY <1>2 DEF InsuranceInv, DeskInv, DeskOK
<1>4. Key(l) \in Tenants \X Claims /\ l.n \in Int
  BY <1>1, <1>2, LetterIds
<1> QED BY <1>1, <1>3, <1>4, Versions DEF InsuranceInv

\* Showing an approval keeps the log of approvals well formed.
LEMMA Shown ==
  ASSUME NEW S, \A x \in S : [x EXCEPT !.visible = TRUE] \in S, NEW s \in Seq(S), NEW i
  PROVE  [s EXCEPT ![i].visible = TRUE] \in Seq(S)
<1>1. CASE i \in 1 .. Len(s)
  <2>1. s[i] \in S
    BY <1>1
  <2>2. PICK a : a = [s[i] EXCEPT !.visible = TRUE]
    OBVIOUS
  <2>3. a \in S
    BY <2>1, <2>2
  <2>4. [s EXCEPT ![i] = a] \in Seq(S)
    BY <1>1, <2>3
  <2> QED BY <2>2, <2>4
<1>2. CASE i \notin 1 .. Len(s)
  <2>1. [s EXCEPT ![i].visible = TRUE] = s
    BY <1>2
  <2> QED BY <2>1
<1> QED BY <1>1, <1>2

\* Claims: a submitted, assigned or denied claim is sound.
LEMMA SaveClaimKeeps == ASSUME InsuranceInv, NEW d \in Clerks, SaveClaim(d) PROVE InsuranceInv'
<1>0. PICK l : l = desk[d].letter
  OBVIOUS
<1> USE <1>0
<1> DEFINE k == Key(l)
           r == IF l.op = "submit" THEN Submitted(l.on, l.n) ELSE ClaimAfter(desk[d].seen, l.op, l.n)
<1> BookTyped /\ BooksSound
  BY DEF InsuranceInv
<1>1. /\ l \in Letters /\ k \in Tenants \X Claims /\ Current(l) = claims[k] /\ l.n \in Int
      /\ k = <<l.tenant, l.id>> /\ k[1] = l.tenant /\ k[2] = l.id /\ l.tenant \in Tenants /\ l.id \in Claims
  <2>1. l \in Letters /\ l.op \in ClaimOps \cup {"submit"}
    BY SeenIsCurrent DEF SaveClaim, ClaimOps
  <2>2. k \in Tenants \X Claims /\ Current(l) = claims[k] /\ l.n \in Int
    BY <2>1, LetterIds, CurrentIs
  <2> QED BY <2>1, <2>2 DEF Key
<1>2. /\ claims' = [claims EXCEPT ![k] = r]
      /\ UNCHANGED <<holders, policies, approvals>> /\ Done(d)
      /\ l.op \in {"submit", "assign", "deny"} /\ Ready(d) /\ UpToDate(d)
  BY DEF SaveClaim
<1>3. claims'[k] = r
  BY <1>1, <1>2 DEF BookTyped
<1>4. /\ r \in ClaimRecord /\ r.version > claims[k].version
      /\ ClaimSound(l.tenant, l.id)'
  <2>1. CASE l.op = "submit"
    <3>1. /\ claims[k].version = 0 /\ On(l) \in Tenants \X Policies /\ l.on \in Policies
          /\ policies[On(l)].version > 0 /\ l.n <= policies[On(l)].coverage
      BY <1>1, <1>2, <2>1, SeenIsCurrent, LetterIds DEF Opening
    <3>2. r = [version |-> 1, policy |-> l.on, status |-> "submitted", requested |-> l.n, approved |-> 0]
      BY <2>1 DEF NoClaim, Submitted
    <3> HIDE DEF r
    <3>3. r \in ClaimRecord /\ r.version > claims[k].version
      BY <1>1, <3>1, <3>2 DEF ClaimRecord, Life
    <3>4. claims'[<<l.tenant, l.id>>] = r /\ policies' = policies
      BY <1>1, <1>2, <1>3
    <3>5. policies[<<l.tenant, l.on>>].version > 0 /\ l.n <= policies[<<l.tenant, l.on>>].coverage
      BY <3>1 DEF On
    <3>6. ClaimSound(l.tenant, l.id)'
      BY <3>2, <3>4, <3>5 DEF ClaimSound, Life
    <3> QED BY <3>3, <3>6
  <2>2. CASE l.op \in {"assign", "deny"}
    <3>1. /\ desk[d].seen = claims[k] /\ l.op # "submit" /\ l.op \in ClaimOps
          /\ ClaimAllows(claims[k], l.op, l.n)
      BY <1>1, <1>2, <2>2, SeenIsCurrent DEF Opening, ClaimOps
    <3>2. claims[k].version > 0 /\ claims[k] \in ClaimRecord
      BY <1>1, <2>2, <3>1, Versions DEF ClaimAllows, NoClaim
    <3>3. ClaimSound(l.tenant, l.id)
      BY <1>1 DEF BooksSound
    <3>4. /\ claims[k].version = Life[claims[k].status]
          /\ policies[<<l.tenant, claims[k].policy>>].version > 0
          /\ claims[k].requested <= policies[<<l.tenant, claims[k].policy>>].coverage
      BY <1>1, <3>2, <3>3 DEF ClaimSound
    <3>5. r = ClaimAfter(claims[k], l.op, l.n)
      BY <3>1
    <3> HIDE DEF r
    <3>6. /\ r \in ClaimRecord /\ r.version = claims[k].version + 1 /\ r.version = Life[r.status]
          /\ r.policy = claims[k].policy /\ r.requested = claims[k].requested
          /\ r.status \in {"approved", "paid"} => 0 < r.approved /\ r.approved <= r.requested
      BY <1>1, <3>1, <3>2, <3>4, <3>5, ClaimLives
    <3>7. claims'[<<l.tenant, l.id>>] = r /\ policies' = policies
      BY <1>1, <1>2, <1>3
    <3>8. ClaimSound(l.tenant, l.id)'
      BY <3>4, <3>6, <3>7 DEF ClaimSound
    <3>9. r.version > claims[k].version
      BY <1>1, <3>6, Versions
    <3> QED BY <3>6, <3>8, <3>9
  <2> QED BY <1>2, <2>1, <2>2
<1>5. BookTyped' /\ Grows /\ BooksSound'
  BY <1>1, <1>2, <1>4, ClaimChanges DEF BookTyped
<1>6. ASSUME NEW e \in Clerks \ {d}, desk[e].status = "inserted"
      PROVE  claims'[Key(desk[e].letter)] = claims[Key(desk[e].letter)]
  <2> DEFINE j == Key(desk[e].letter)
  <2>1. j \in Tenants \X Claims /\ claims[j].version > 0
    BY <1>6, Approving
  <2>2. j # k
    <3>1. CASE l.op = "submit"
      BY <1>1, <1>2, <2>1, <3>1, SeenIsCurrent DEF Opening
    <3>2. CASE l.op \in ClaimOps
      BY <1>2, <1>6, <3>2 DEF Ready, Unlocked
    <3> QED BY <1>2, <3>1, <3>2 DEF ClaimOps
  <2> QED BY <1>2, <2>1, <2>2 DEF BookTyped
<1>7. DeskInv'
  BY <1>2, <1>5, <1>6, DoneKeeps
<1> QED BY <1>5, <1>7 DEF InsuranceInv

\* Inserting an approval takes a claim for the clerk that no other has.
LEMMA InsertApprovalKeeps == ASSUME InsuranceInv, NEW d \in Clerks, InsertApproval(d) PROVE InsuranceInv'
<1>0. PICK l : l = desk[d].letter
  OBVIOUS
<1> USE <1>0
<1> BookTyped /\ BooksSound
  BY DEF InsuranceInv
<1>1. /\ Ready(d) /\ l.op = "approve" /\ UpToDate(d)
      /\ approvals' = Append(approvals, [tenant |-> l.tenant, claim |-> l.id, visible |-> FALSE])
      /\ desk' = [desk EXCEPT ![d].status = "inserted", ![d].at = Len(approvals) + 1]
      /\ UNCHANGED <<inbox, holders, policies, claims>>
  BY DEF InsertApproval
<1>2. l \in Letters /\ Key(l) \in Tenants \X Claims /\ l.tenant \in Tenants /\ l.id \in Claims
  BY <1>1, SeenIsCurrent, LetterIds DEF ClaimOps, Key
<1>3. Current(l) = claims[Key(l)] /\ desk[d].seen = Current(l)
  BY <1>1, <1>2, SeenIsCurrent, CurrentIs DEF ClaimOps, Opening
<1>4. BookTyped'
  <2>1. approvals' \in Seq([tenant : Tenants, claim : Claims, visible : BOOLEAN])
    BY <1>1, <1>2 DEF BookTyped
  <2> QED BY <1>1, <2>1 DEF BookTyped
<1>5. Grows /\ BooksSound'
  BY <1>1 DEF Grows, HolderGrows, PolicyGrows, ClaimGrows, BooksSound, PolicySound, ClaimSound
<1>6. /\ desk'[d].status = "inserted" /\ desk'[d].letter = l /\ desk'[d].seen = desk[d].seen
      /\ \A e \in Clerks \ {d} : desk'[e] = desk[e]
      /\ desk' \in [Clerks -> [status : {"idle", "loaded", "inserted"}, letter : Letters \cup {NoLetter},
                      seen : HolderRecord \cup PolicyRecord \cup ClaimRecord \cup {NoPolicy, NoClaim},
                      tries : Nat, at : Nat]]
  <2>1. Len(approvals) + 1 \in Nat
    BY DEF BookTyped
  <2> QED BY <1>1, <2>1 DEF InsuranceInv, DeskInv
<1>7. Current(l)' = Current(l)
  BY <1>1 DEF Current, Key
<1>8. DeskOK(d)'
  <2>1. desk[d].status # "idle" /\ DeskOK(d)
    BY <1>1 DEF Ready, InsuranceInv, DeskInv
  <2> QED BY <1>1, <1>2, <1>6, <1>7, <2>1 DEF DeskOK, On
<1>9. \A e \in Clerks \ {d} : desk[e].status = "inserted" => Key(desk[e].letter) # Key(l)
  BY <1>1 DEF Ready, Unlocked, ClaimOps
<1>10. ApprovalOK(d)'
  BY <1>1, <1>3, <1>6, <1>9 DEF ApprovalOK, Key
<1>11. ASSUME NEW e \in Clerks \ {d} PROVE DeskOK(e)' /\ ApprovalOK(e)'
  <2>1. desk[e].seen.version \in Nat
    BY DEF InsuranceInv, DeskInv, HolderRecord, PolicyRecord, ClaimRecord, NoPolicy, NoClaim
  <2>2. DeskOK(e)'
    BY <1>4, <1>5, <1>6, <2>1, DeskKeeps DEF InsuranceInv, DeskInv
  <2>3. ApprovalOK(e)'
    <3> SUFFICES ASSUME desk[e].status = "inserted" PROVE ApprovalOK(e)'
      BY <1>6 DEF ApprovalOK
    <3>1. /\ desk[e].letter.op = "approve" /\ desk[e].seen = claims[Key(desk[e].letter)]
          /\ \A f \in Clerks \ {e} : desk[f].status = "inserted" => Key(desk[f].letter) # Key(desk[e].letter)
      BY DEF ApprovalOK, InsuranceInv, DeskInv
    <3>2. \A f \in Clerks \ {e} : desk'[f].status = "inserted" => Key(desk'[f].letter) # Key(desk[e].letter)
      BY <1>6, <1>9, <3>1
    <3> QED BY <1>1, <1>6, <3>1, <3>2 DEF ApprovalOK, Key
  <2> QED BY <2>2, <2>3
<1>12. DeskInv'
  BY <1>1, <1>6, <1>8, <1>10, <1>11 DEF DeskInv, InsuranceInv
<1> QED BY <1>4, <1>5, <1>12 DEF InsuranceInv

\* The claim of a committed approval is as it was when it was inserted.
LEMMA CommitApprovalKeeps == ASSUME InsuranceInv, NEW d \in Clerks, CommitApproval(d) PROVE InsuranceInv'
<1>0. PICK l : l = desk[d].letter
  OBVIOUS
<1> USE <1>0
<1> DEFINE k == Key(l)
           r == ClaimAfter(claims[k], "approve", l.n)
<1> BookTyped /\ BooksSound
  BY DEF InsuranceInv
<1>1. /\ l \in Letters /\ k \in Tenants \X Claims /\ l.n \in Int /\ desk[d].seen = claims[k]
      /\ ClaimAllows(claims[k], "approve", l.n) /\ claims[k] \in ClaimRecord /\ claims[k].version > 0
  BY Approving DEF CommitApproval
<1>2. /\ k = <<l.tenant, l.id>> /\ k[1] = l.tenant /\ k[2] = l.id /\ l.tenant \in Tenants /\ l.id \in Claims
  BY <1>1 DEF Key
<1>3. /\ claims' = [claims EXCEPT ![k] = r]
      /\ approvals' = [approvals EXCEPT ![desk[d].at].visible = TRUE]
      /\ Done(d) /\ UNCHANGED <<holders, policies>> /\ desk[d].status = "inserted"
  BY <1>1 DEF CommitApproval
<1>4. /\ claims[k].version = Life[claims[k].status]
      /\ policies[<<l.tenant, claims[k].policy>>].version > 0
      /\ claims[k].requested <= policies[<<l.tenant, claims[k].policy>>].coverage
  BY <1>1, <1>2 DEF BooksSound, ClaimSound
<1>5. claims'[<<l.tenant, l.id>>] = r /\ policies' = policies
  BY <1>1, <1>2, <1>3 DEF BookTyped
<1> HIDE DEF r
<1>6. /\ r \in ClaimRecord /\ r.version = claims[k].version + 1 /\ r.version = Life[r.status]
      /\ r.policy = claims[k].policy /\ r.requested = claims[k].requested
      /\ r.status \in {"approved", "paid"} => 0 < r.approved /\ r.approved <= r.requested
  BY <1>1, <1>4, ClaimLives DEF r, ClaimOps
<1>7. ClaimSound(l.tenant, l.id)'
  BY <1>4, <1>5, <1>6 DEF ClaimSound
<1>8. r.version > claims[k].version
  BY <1>1, <1>6, Versions
<1>9. approvals' \in Seq([tenant : Tenants, claim : Claims, visible : BOOLEAN])
  <2> DEFINE S == [tenant : Tenants, claim : Claims, visible : BOOLEAN]
  <2>1. \A x \in S : [x EXCEPT !.visible = TRUE] \in S
    OBVIOUS
  <2>2. approvals \in Seq(S)
    BY DEF BookTyped
  <2> HIDE DEF S
  <2>3. approvals' \in Seq(S)
    BY <1>3, <2>1, <2>2, Shown
  <2> QED BY <2>3 DEF S
<1>10. BookTyped' /\ Grows /\ BooksSound'
  BY <1>1, <1>2, <1>3, <1>6, <1>7, <1>8, <1>9, ClaimChanges
<1>11. ASSUME NEW e \in Clerks \ {d}, desk[e].status = "inserted"
       PROVE  claims'[Key(desk[e].letter)] = claims[Key(desk[e].letter)]
  <2>1. Key(desk[e].letter) \in Tenants \X Claims
    BY <1>11, Approving
  <2>2. Key(desk[e].letter) # k
    BY <1>3, <1>11 DEF InsuranceInv, DeskInv, ApprovalOK
  <2> QED BY <1>3, <2>1, <2>2 DEF BookTyped
<1>12. DeskInv'
  BY <1>3, <1>10, <1>11, DoneKeeps
<1> QED BY <1>10, <1>12 DEF InsuranceInv

\* Paying an approved claim makes a sound claim of a sound one.
LEMMA Paid ==
  ASSUME NEW c \in ClaimRecord, c.status = "approved", c.version = Life[c.status]
  PROVE  LET r == ClaimAfter(c, "pay", 0) IN
         /\ r \in ClaimRecord /\ r.version = c.version + 1 /\ r.version = Life[r.status]
         /\ r.policy = c.policy /\ r.requested = c.requested
         /\ r.status = "paid" /\ r.approved = c.approved
<1>1. PICK next : next = [c EXCEPT !.version = @ + 1]
  OBVIOUS
<1>2. /\ next \in ClaimRecord /\ next.version = c.version + 1
      /\ next.policy = c.policy /\ next.requested = c.requested /\ next.approved = c.approved
  BY <1>1 DEF ClaimRecord, Life
<1>3. ClaimAfter(c, "pay", 0) = [next EXCEPT !.status = "paid"]
  BY <1>1 DEF ClaimAfter
<1>4. [next EXCEPT !.status = "paid"] \in ClaimRecord
  BY <1>2 DEF ClaimRecord, Life
<1>5. c.version = 3
  BY DEF Life
<1>6. /\ ClaimAfter(c, "pay", 0).status = "paid" /\ ClaimAfter(c, "pay", 0).version = next.version
      /\ ClaimAfter(c, "pay", 0).policy = next.policy /\ ClaimAfter(c, "pay", 0).requested = next.requested
      /\ ClaimAfter(c, "pay", 0).approved = next.approved
  BY <1>2, <1>3 DEF ClaimRecord
<1> QED BY <1>2, <1>3, <1>4, <1>5, <1>6 DEF Life

\* The settlement pays sound claims, and none that a clerk is approving.
LEMMA SettleKeeps ==
  ASSUME InsuranceInv, NEW t \in Tenants, Settle(t), UNCHANGED <<desk, inbox>>
  PROVE  InsuranceInv'
<1> BookTyped /\ BooksSound
  BY DEF InsuranceInv
<1>1. /\ claims' = [k \in Tenants \X Claims |-> IF k \in Payable(t) THEN ClaimAfter(claims[k], "pay", 0) ELSE claims[k]]
      /\ UNCHANGED <<holders, policies, approvals>>
  BY DEF Settle
<1>2. ASSUME NEW k \in Tenants \X Claims, claims'[k] # claims[k]
      PROVE  /\ claims[k].status = "approved" /\ claims[k] \in ClaimRecord
             /\ claims'[k] = ClaimAfter(claims[k], "pay", 0) /\ claims[k].version = Life[claims[k].status]
             /\ ClaimSound(k[1], k[2]) /\ k = <<k[1], k[2]>>
  <2>1. k \in Payable(t) /\ claims'[k] = ClaimAfter(claims[k], "pay", 0)
    BY <1>1, <1>2
  <2>2. claims[k].status = "approved"
    BY <2>1 DEF Payable
  <2>3. claims[k] \in ClaimRecord /\ claims[k].version > 0
    BY <2>2, Versions DEF NoClaim
  <2>4. ClaimSound(k[1], k[2]) /\ k = <<k[1], k[2]>>
    BY DEF BooksSound
  <2>5. claims[k].version = Life[claims[k].status]
    BY <2>3, <2>4 DEF ClaimSound
  <2> QED BY <2>1, <2>2, <2>3, <2>4, <2>5
<1>3. ASSUME NEW k \in Tenants \X Claims, claims'[k] # claims[k]
      PROVE  /\ claims'[k] \in ClaimRecord /\ claims'[k].version = claims[k].version + 1
             /\ claims'[k].version > claims[k].version /\ claims'[k].version > 0
             /\ claims'[k].version = Life[claims'[k].status]
             /\ claims'[k].policy = claims[k].policy /\ claims'[k].requested = claims[k].requested
             /\ claims'[k].approved = claims[k].approved
  BY <1>2, <1>3, Paid, Versions
<1>4. BookTyped'
  <2>1. claims' \in [Tenants \X Claims -> ClaimRecord \cup {NoClaim}]
    BY <1>1, <1>3 DEF BookTyped
  <2>2. \A k \in Tenants \X Claims : claims'[k] # NoClaim => claims'[k].version > 0
    BY <1>3 DEF BookTyped
  <2> QED BY <1>1, <2>1, <2>2 DEF BookTyped
<1>5. Grows
  BY <1>1, <1>3 DEF Grows, HolderGrows, PolicyGrows, ClaimGrows
<1>6. ASSUME NEW u \in Tenants, NEW id \in Claims PROVE ClaimSound(u, id)'
  <2>1. CASE claims'[<<u, id>>] = claims[<<u, id>>]
    BY <1>4, <1>5, <2>1, ClaimKeeps DEF BooksSound
  <2>2. CASE claims'[<<u, id>>] # claims[<<u, id>>]
    <3> DEFINE k == <<u, id>>
    <3>1. /\ claims'[k].version = Life[claims'[k].status]
          /\ claims'[k].policy = claims[k].policy /\ claims'[k].requested = claims[k].requested
          /\ claims'[k].approved = claims[k].approved
          /\ claims[k].status = "approved" /\ claims[k].version = 3 /\ ClaimSound(u, id)
      BY <1>2, <1>3, <2>2 DEF Life
    <3> QED BY <1>1, <3>1 DEF ClaimSound
  <2> QED BY <2>1, <2>2
<1>7. BooksSound'
  BY <1>1, <1>4, <1>5, <1>6, PolicyKeeps DEF BooksSound
<1>8. ASSUME NEW d \in Clerks PROVE DeskOK(d)' /\ ApprovalOK(d)'
  <2>1. ASSUME desk[d].status = "inserted"
        PROVE  claims'[Key(desk[d].letter)] = claims[Key(desk[d].letter)]
    <3>1. /\ Key(desk[d].letter) \in Tenants \X Claims
          /\ claims[Key(desk[d].letter)].status = "under_review"
      BY <2>1, Approving DEF ClaimAllows
    <3> QED BY <1>2, <3>1
  <2> QED BY <1>4, <1>5, <2>1, OthersKeep
<1>9. DeskInv'
  BY <1>8 DEF DeskInv, InsuranceInv
<1> QED BY <1>4, <1>7, <1>9 DEF InsuranceInv

\* A retry decides again on the stream as it is.
LEMMA AgainKeeps == ASSUME InsuranceInv, NEW d \in Clerks, Again(d) PROVE InsuranceInv'
<1>0. PICK l : l = desk[d].letter
  OBVIOUS
<1> USE <1>0
<1> BookTyped /\ BooksSound
  BY DEF InsuranceInv
<1>1. /\ desk' = [desk EXCEPT ![d].seen = Current(l), ![d].tries = @ + 1]
      /\ desk[d].status = "loaded" /\ l.op \in Retried /\ Acceptable(l)
      /\ UNCHANGED <<inbox, holders, policies, claims, approvals>>
  BY DEF Again, Ready, book
<1>2. l \in Letters
  BY <1>1 DEF InsuranceInv, DeskInv, DeskOK
<1>3. /\ Current(l) \in HolderRecord \cup PolicyRecord /\ Current(l).version \in Nat
      /\ Current(l).version > 0 /\ Current(l)' = Current(l)
      /\ l.op \notin Opening \cup ClaimOps
      /\ l.op \in PolicyOps => PolicyAllows(Current(l), l.op, l.n)
  <2>1. CASE l.op = "premium"
    <3>1. Current(l) = policies[Key(l)] /\ Key(l) \in Tenants \X Policies
      BY <1>2, <2>1, CurrentIs, LetterIds DEF PolicyOps
    <3>2. Current(l).version > 0 /\ PolicyAllows(Current(l), l.op, l.n)
      BY <1>1, <2>1 DEF Acceptable, HolderOps, ClaimOps
    <3>3. Current(l)' = Current(l)
      BY <1>1 DEF Current, Key
    <3> QED BY <2>1, <3>1, <3>2, <3>3, Versions DEF Opening, ClaimOps
  <2>2. CASE l.op = "verify"
    <3>1. Current(l) = holders[Key(l)] /\ Key(l) \in Tenants \X Holders
      BY <1>2, <2>2, CurrentIs, LetterIds DEF HolderOps
    <3>2. Current(l).version > 0
      BY <1>1, <2>2 DEF Acceptable, PolicyOps, ClaimOps
    <3>3. Current(l)' = Current(l)
      BY <1>1 DEF Current, Key
    <3> QED BY <2>2, <3>1, <3>2, <3>3, Versions DEF Opening, ClaimOps, PolicyOps, BookTyped
  <2> QED BY <1>1, <2>1, <2>2 DEF Retried
<1>4. BookTyped' /\ Grows /\ BooksSound'
  BY <1>1 DEF BookTyped, Grows, HolderGrows, PolicyGrows, ClaimGrows, BooksSound, PolicySound, ClaimSound
<1>5. /\ desk'[d].status = "loaded" /\ desk'[d].letter = l /\ desk'[d].seen = Current(l)
      /\ \A e \in Clerks \ {d} : desk'[e] = desk[e]
      /\ desk' \in [Clerks -> [status : {"idle", "loaded", "inserted"}, letter : Letters \cup {NoLetter},
                      seen : HolderRecord \cup PolicyRecord \cup ClaimRecord \cup {NoPolicy, NoClaim},
                      tries : Nat, at : Nat]]
  BY <1>1, <1>3 DEF InsuranceInv, DeskInv
<1>6. DeskOK(d)'
  <2>1. l.op # "issue" /\ l.op # "submit"
    BY <1>3 DEF Opening
  <2> QED BY <1>2, <1>3, <1>5, <2>1 DEF DeskOK
<1>7. ApprovalOK(d)'
  BY <1>5 DEF ApprovalOK
<1>8. ASSUME NEW e \in Clerks \ {d} PROVE DeskOK(e)' /\ ApprovalOK(e)'
  BY <1>1, <1>4, <1>5, OthersKeep
<1>9. DeskInv'
  BY <1>1, <1>5, <1>6, <1>7, <1>8 DEF DeskInv, InsuranceInv
<1> QED BY <1>4, <1>9 DEF InsuranceInv

\* A request that ends without an event leaves the streams.
LEMMA EndKeeps ==
  ASSUME InsuranceInv, NEW d \in Clerks, Done(d), UNCHANGED book
  PROVE  InsuranceInv'
<1>1. BookTyped' /\ Grows /\ BooksSound'
  BY DEF InsuranceInv, book, BookTyped, Grows, HolderGrows, PolicyGrows, ClaimGrows,
         BooksSound, PolicySound, ClaimSound
<1>2. DeskInv'
  BY <1>1, DoneKeeps DEF book
<1> QED BY <1>1, <1>2 DEF InsuranceInv

\* Nothing happened yet.
LEMMA InitHolds == InsuranceInit => InsuranceInv
<1> SUFFICES ASSUME InsuranceInit PROVE InsuranceInv
  OBVIOUS
<1>1. BookTyped
  BY DEF InsuranceInit, BookInit, BookTyped, HolderRecord, NoHolder
<1>2. BooksSound
  BY DEF InsuranceInit, BookInit, BooksSound, PolicySound, ClaimSound, NoPolicy, NoClaim
<1>3. DeskInv
  BY InsuranceAssumption DEF InsuranceInit, DeskInit, DeskInv, DeskOK, ApprovalOK, Free
<1> QED BY <1>1, <1>2, <1>3 DEF InsuranceInv

\* Every step keeps the invariant.
LEMMA StepKeeps == InsuranceInv /\ [InsuranceNext]_insuranceVars => InsuranceInv'
<1> SUFFICES ASSUME InsuranceInv, [InsuranceNext]_insuranceVars PROVE InsuranceInv'
  OBVIOUS
<1>1. ASSUME NEW d \in Clerks, RollBack(d) \/ Refuse(d) PROVE InsuranceInv'
  BY <1>1, EndKeeps DEF RollBack, Refuse
<1>2. CASE UNCHANGED insuranceVars
  <2>1. UNCHANGED <<book, desk, inbox>>
    BY <1>2 DEF insuranceVars
  <2>2. BookTyped' /\ Grows /\ BooksSound'
    BY <2>1 DEF InsuranceInv, book, BookTyped, Grows, HolderGrows, PolicyGrows, ClaimGrows,
                BooksSound, PolicySound, ClaimSound
  <2>3. ASSUME NEW d \in Clerks PROVE DeskOK(d)' /\ ApprovalOK(d)'
    BY <2>1, <2>2, OthersKeep DEF book
  <2> QED BY <2>1, <2>2, <2>3 DEF InsuranceInv, DeskInv
<1> QED BY <1>1, <1>2, TakeKeeps, SaveHolderKeeps, SavePolicyKeeps, SaveClaimKeeps, InsertApprovalKeeps,
           CommitApprovalKeeps, AgainKeeps, SettleKeeps
        DEF InsuranceNext, DeskStep, InsuranceBackground

(* Whatever requests cross, the books of the insurance example are sound:  *)
(* a refund is covered by premiums, a policy belongs to a holder who was   *)
(* verified, and a claim is covered, decided once and paid once.           *)
THEOREM BooksHold == InsuranceSpec => []BooksSound
<1>1. InsuranceInv => BooksSound
  BY DEF InsuranceInv
<1> QED BY <1>1, InitHolds, StepKeeps, PTL DEF InsuranceSpec

-----------------------------------------------------------------------------
(* The refinement: every step is a move of the contract, or none of it.    *)

ContractStep == [Contract!Next]_<<CoverOf, ClaimOf>>

\* Changing two fields of one policy.
LEMMA EndedBoth ==
  ASSUME NEW k \in Tenants \X Policies, NEW n
  PROVE  [CoverOf EXCEPT ![k].status = "ended", ![k].refund = n]
         = [CoverOf EXCEPT ![k] = [CoverOf[k] EXCEPT !.status = "ended", !.refund = n]]
<1>1. PICK once : once = [CoverOf EXCEPT ![k].status = "ended"]
  OBVIOUS
<1>2. /\ once[k] = [CoverOf[k] EXCEPT !.status = "ended"]
      /\ once = [j \in Tenants \X Policies |-> once[j]]
      /\ \A j \in Tenants \X Policies : j # k => once[j] = CoverOf[j]
  BY <1>1 DEF CoverOf
<1>3. PICK both : both = [once EXCEPT ![k].refund = n]
  OBVIOUS
<1>4. /\ both[k] = [once[k] EXCEPT !.refund = n]
      /\ both = [j \in Tenants \X Policies |-> both[j]]
      /\ \A j \in Tenants \X Policies : j # k => both[j] = CoverOf[j]
  BY <1>2, <1>3
<1>5. both[k] = [CoverOf[k] EXCEPT !.status = "ended", !.refund = n]
  BY <1>2, <1>4, Zenon
<1>6. both = [CoverOf EXCEPT ![k] = both[k]]
  BY <1>4 DEF CoverOf
<1>7. both = [CoverOf EXCEPT ![k].status = "ended", ![k].refund = n]
  BY <1>1, <1>3, Zenon
<1> QED BY <1>5, <1>6, <1>7, Zenon

\* What the contract sees of a policy when one event is saved.
LEMMA PolicySeen ==
  ASSUME NEW p \in PolicyRecord, NEW op \in PolicyOps, NEW n \in Int, PolicyAllows(p, op, n), p.refund = 0
  PROVE  LET v == PolicyView(p)
             w == PolicyView(PolicyAfter(p, op, n)) IN
         /\ op = "premium" => n > 0 /\ w = [v EXCEPT !.received = @ + n]
         /\ op = "renew"   => w = v
         /\ op = "cancel"  => 0 <= n /\ n <= v.received /\ w = [v EXCEPT !.status = "ended", !.refund = n]
         /\ op = "expire"  => w = [v EXCEPT !.status = "ended", !.refund = 0]
         /\ v.status = "active"
<1>1. /\ p.status = "active" /\ p.refund = 0
      /\ PolicyView(p) = [status |-> "active", limit |-> p.coverage, received |-> p.totalPaid, refund |-> 0]
  BY DEF PolicyAllows, PolicyView
<1>2. PICK next : next = [p EXCEPT !.version = @ + 1]
  OBVIOUS
<1>3. /\ next \in PolicyRecord /\ next.status = "active" /\ next.refund = 0
      /\ next.coverage = p.coverage /\ next.totalPaid = p.totalPaid
  BY <1>1, <1>2 DEF PolicyRecord
<1> DEFINE r == PolicyAfter(p, op, n)
<1>4. CASE op = "premium"
  <2>1. r = [next EXCEPT !.totalPaid = @ + n]
    BY <1>2, <1>4 DEF PolicyAfter
  <2>2. r.status = "active" /\ r.coverage = p.coverage /\ r.totalPaid = p.totalPaid + n /\ r.refund = 0
    BY <1>3, <2>1 DEF PolicyRecord
  <2>3. PolicyView(r) = [status |-> "active", limit |-> p.coverage, received |-> p.totalPaid + n, refund |-> 0]
    BY <2>2 DEF PolicyView
  <2>4. n > 0
    BY <1>4 DEF PolicyAllows
  <2> QED BY <1>1, <1>4, <2>3, <2>4
<1>5. CASE op = "renew"
  <2>1. r = [next EXCEPT !.expiry = n]
    BY <1>2, <1>5 DEF PolicyAfter
  <2>2. r.status = "active" /\ r.coverage = p.coverage /\ r.totalPaid = p.totalPaid /\ r.refund = 0
    BY <1>3, <2>1 DEF PolicyRecord
  <2>3. PolicyView(r) = PolicyView(p)
    BY <1>1, <2>2 DEF PolicyView
  <2> QED BY <1>1, <1>5, <2>3
<1>6. CASE op = "cancel"
  <2>1. PICK mid : mid = [next EXCEPT !.status = "cancelled"]
    OBVIOUS
  <2>2. mid \in PolicyRecord
    BY <1>3, <2>1 DEF PolicyRecord
  <2>3. r = [mid EXCEPT !.refund = n]
    BY <1>2, <1>6, <2>1 DEF PolicyAfter
  <2>4. r.status = "cancelled" /\ r.coverage = p.coverage /\ r.totalPaid = p.totalPaid /\ r.refund = n
    BY <1>3, <2>1, <2>2, <2>3 DEF PolicyRecord
  <2>5. PolicyView(r) = [status |-> "ended", limit |-> p.coverage, received |-> p.totalPaid, refund |-> n]
    BY <2>4 DEF PolicyView
  <2>6. 0 <= n /\ n <= p.totalPaid
    BY <1>6 DEF PolicyAllows
  <2>7. PICK v : v = [PolicyView(p) EXCEPT !.status = "ended"]
    OBVIOUS
  <2>8. PolicyView(r) = [v EXCEPT !.refund = n]
    <3>1. v = [status |-> "ended", limit |-> p.coverage, received |-> p.totalPaid, refund |-> 0]
      BY <1>1, <2>7
    <3> QED BY <2>5, <3>1
  <2>9. PolicyView(r) = [PolicyView(p) EXCEPT !.status = "ended", !.refund = n]
    BY <2>7, <2>8, Zenon
  <2> QED BY <1>1, <1>6, <2>6, <2>9
<1>7. CASE op = "expire"
  <2>1. r = [next EXCEPT !.status = "expired"]
    BY <1>2, <1>7 DEF PolicyAfter
  <2>2. r.status = "expired" /\ r.coverage = p.coverage /\ r.totalPaid = p.totalPaid /\ r.refund = 0
    BY <1>3, <2>1 DEF PolicyRecord
  <2>3. PolicyView(r) = [status |-> "ended", limit |-> p.coverage, received |-> p.totalPaid, refund |-> 0]
    BY <2>2 DEF PolicyView
  <2>4. PICK v : v = [PolicyView(p) EXCEPT !.status = "ended"]
    OBVIOUS
  <2>5. PolicyView(r) = [v EXCEPT !.refund = 0]
    <3>1. v = [status |-> "ended", limit |-> p.coverage, received |-> p.totalPaid, refund |-> 0]
      BY <1>1, <2>4
    <3> QED BY <2>3, <3>1
  <2>6. PolicyView(r) = [PolicyView(p) EXCEPT !.status = "ended", !.refund = 0]
    BY <2>4, <2>5, Zenon
  <2> QED BY <1>1, <1>7, <2>6
<1> QED BY <1>4, <1>5, <1>6, <1>7 DEF PolicyOps

\* Selling, receiving premiums and ending; a renewal is not in the contract.
LEMMA SavePolicyContract == ASSUME InsuranceInv, NEW d \in Clerks, SavePolicy(d) PROVE ContractStep
<1>0. PICK l : l = desk[d].letter
  OBVIOUS
<1> USE <1>0
<1> DEFINE k == Key(l)
           r == IF l.op = "issue" THEN Issued(l.on, l.n) ELSE PolicyAfter(desk[d].seen, l.op, l.n)
<1> BookTyped /\ BooksSound
  BY DEF InsuranceInv
<1>1. /\ l \in Letters /\ k \in Tenants \X Policies /\ Current(l) = policies[k] /\ l.n \in Int
      /\ l.n \in {0} \cup {m.n : m \in Letters} /\ 0 \in {0} \cup {m.n : m \in Letters}
  BY SeenIsCurrent, LetterIds, CurrentIs DEF SavePolicy
<1>2. /\ policies' = [policies EXCEPT ![k] = r] /\ UNCHANGED claims
      /\ Ready(d) /\ UpToDate(d) /\ l.op \in PolicyOps \cup {"issue"}
  BY DEF SavePolicy
<1> HIDE DEF r
<1>3. /\ CoverOf' = [CoverOf EXCEPT ![k] = PolicyView(r)] /\ UNCHANGED ClaimOf
      /\ CoverOf[k] = PolicyView(policies[k])
  BY <1>1, <1>2 DEF CoverOf, ClaimOf, BookTyped
<1>4. CASE l.op = "issue"
  <2>1. policies[k] = NoPolicy
    BY <1>1, <1>2, <1>4, SeenIsCurrent, Versions DEF Opening
  <2>2. /\ PolicyView(r) = [status |-> "active", limit |-> l.n, received |-> 0, refund |-> 0]
        /\ CoverOf[k] = [status |-> "none", limit |-> 0, received |-> 0, refund |-> 0]
    BY <1>3, <1>4, <2>1 DEF PolicyView, r, Issued, NoPolicy
  <2>3. [CoverOf EXCEPT ![k].status = "active", ![k].limit = l.n] = [CoverOf EXCEPT ![k] = PolicyView(r)]
    <3>1. PICK v : v = [CoverOf EXCEPT ![k].status = "active"]
      OBVIOUS
    <3>2. /\ v[k] = [status |-> "active", limit |-> 0, received |-> 0, refund |-> 0]
          /\ v = [j \in Tenants \X Policies |-> v[j]]
          /\ \A j \in Tenants \X Policies : j # k => v[j] = CoverOf[j]
      <4>1. /\ v[k] = [CoverOf[k] EXCEPT !.status = "active"]
            /\ v = [j \in Tenants \X Policies |-> v[j]]
            /\ \A j \in Tenants \X Policies : j # k => v[j] = CoverOf[j]
        BY <1>1, <3>1 DEF CoverOf
      <4>2. v[k] = [status |-> "active", limit |-> 0, received |-> 0, refund |-> 0]
        BY <2>2, <4>1
      <4> QED BY <4>1, <4>2
    <3>3. [v EXCEPT ![k].limit = l.n] = [CoverOf EXCEPT ![k] = PolicyView(r)]
      <4>1. [v[k] EXCEPT !.limit = l.n] = PolicyView(r)
        BY <2>2, <3>2
      <4> QED BY <1>1, <3>2, <4>1 DEF CoverOf
    <3> QED BY <3>1, <3>3, Zenon
  <2>4. Contract!Sell(k, l.n)
    BY <1>3, <2>2, <2>3 DEF Contract!Sell
  <2> QED BY <1>1, <2>4 DEF Contract!Next, ContractStep
<1>5. CASE l.op \in PolicyOps
  <2>1. /\ desk[d].seen = policies[k] /\ l.op # "issue" /\ PolicyAllows(policies[k], l.op, l.n)
    BY <1>1, <1>2, <1>5, SeenIsCurrent DEF Opening, PolicyOps
  <2>2. policies[k] \in PolicyRecord /\ policies[k].version > 0
    BY <1>1, <2>1, Versions DEF PolicyAllows, NoPolicy
  <2>3. policies[k].refund = 0
    BY <1>1, <2>1, <2>2 DEF BooksSound, PolicySound, PolicyAllows, Key
  <2>4. r = PolicyAfter(policies[k], l.op, l.n)
    BY <2>1 DEF r
  <2>5. /\ l.op = "premium" => l.n > 0 /\ PolicyView(r) = [CoverOf[k] EXCEPT !.received = @ + l.n]
        /\ l.op = "renew"   => PolicyView(r) = CoverOf[k]
        /\ l.op = "cancel"  => /\ 0 <= l.n /\ l.n <= CoverOf[k].received
                               /\ PolicyView(r) = [CoverOf[k] EXCEPT !.status = "ended", !.refund = l.n]
        /\ l.op = "expire"  => PolicyView(r) = [CoverOf[k] EXCEPT !.status = "ended", !.refund = 0]
        /\ CoverOf[k].status = "active" /\ CoverOf[k].received = policies[k].totalPaid
    <3>1. CoverOf[k].received = policies[k].totalPaid
      BY <1>3 DEF PolicyView
    <3>2. LET v == PolicyView(policies[k])
              w == PolicyView(PolicyAfter(policies[k], l.op, l.n)) IN
          /\ l.op = "premium" => l.n > 0 /\ w = [v EXCEPT !.received = @ + l.n]
          /\ l.op = "renew"   => w = v
          /\ l.op = "cancel"  => 0 <= l.n /\ l.n <= v.received /\ w = [v EXCEPT !.status = "ended", !.refund = l.n]
          /\ l.op = "expire"  => w = [v EXCEPT !.status = "ended", !.refund = 0]
          /\ v.status = "active"
      <4>1. PICK p \in PolicyRecord, op \in PolicyOps, n \in Int : p = policies[k] /\ op = l.op /\ n = l.n
        BY <1>1, <1>5, <2>2
      <4>2. PolicyAllows(p, op, n) /\ p.refund = 0
        BY <2>1, <2>3, <4>1
      <4>3. LET v == PolicyView(p)
                w == PolicyView(PolicyAfter(p, op, n)) IN
            /\ op = "premium" => n > 0 /\ w = [v EXCEPT !.received = @ + n]
            /\ op = "renew"   => w = v
            /\ op = "cancel"  => 0 <= n /\ n <= v.received /\ w = [v EXCEPT !.status = "ended", !.refund = n]
            /\ op = "expire"  => w = [v EXCEPT !.status = "ended", !.refund = 0]
            /\ v.status = "active"
        BY <4>2, PolicySeen
      <4> QED BY <4>1, <4>3, Zenon
    <3> QED BY <1>3, <2>4, <3>1, <3>2, Zenon
  <2>6. CASE l.op = "premium"
    <3>1. Contract!Receive(k, l.n)
      BY <1>3, <2>5, <2>6 DEF Contract!Receive
    <3> QED BY <1>1, <3>1 DEF Contract!Next, ContractStep
  <2>7. CASE l.op = "renew"
    <3>1. [CoverOf EXCEPT ![k] = CoverOf[k]] = CoverOf
      BY <1>1 DEF CoverOf
    <3> QED BY <1>3, <2>5, <2>7, <3>1 DEF ContractStep
  <2>8. CASE l.op = "cancel"
    <3>1. CoverOf' = [CoverOf EXCEPT ![k].status = "ended", ![k].refund = l.n]
      BY <1>1, <1>3, <2>5, <2>8, EndedBoth
    <3>2. Contract!End(k, l.n)
      BY <1>3, <2>5, <2>8, <3>1 DEF Contract!End
    <3> QED BY <1>1, <3>2 DEF Contract!Next, ContractStep
  <2>9. CASE l.op = "expire"
    <3>1. CoverOf' = [CoverOf EXCEPT ![k].status = "ended", ![k].refund = 0]
      BY <1>1, <1>3, <2>5, <2>9, EndedBoth
    <3>2. 0 <= CoverOf[k].received
      BY <1>1, <2>2, <2>3, <2>5 DEF BooksSound, PolicySound, Key
    <3>3. Contract!End(k, 0)
      <4>1. 0 <= 0
        OBVIOUS
      <4> QED BY <1>3, <2>5, <3>1, <3>2, <4>1, Zenon DEF Contract!End
    <3> QED BY <1>1, <3>3 DEF Contract!Next, ContractStep
  <2> QED BY <1>5, <2>6, <2>7, <2>8, <2>9 DEF PolicyOps
<1> QED BY <1>2, <1>4, <1>5

\* What the contract sees of a claim when one event is saved.
ClaimMoves(c, op, n) ==
  LET v == ClaimView(c)
      w == ClaimView(ClaimAfter(c, op, n)) IN
  /\ v.phase = "open"
  /\ op = "assign"  => w = v
  /\ op = "approve" => 0 < n /\ n <= v.asked /\ w = [v EXCEPT !.phase = "granted", !.granted = n]
  /\ op = "deny"    => w = [v EXCEPT !.phase = "refused"]

LEMMA ClaimSeen ==
  ASSUME NEW c \in ClaimRecord, NEW op \in ClaimOps, NEW n \in Int, ClaimAllows(c, op, n)
  PROVE  ClaimMoves(c, op, n)
<1>1. ClaimView(c) = [phase |-> "open", asked |-> c.requested, granted |-> c.approved]
  BY DEF ClaimAllows, ClaimOps, ClaimView, ClaimPhase
<1>2. PICK next : next = [c EXCEPT !.version = @ + 1]
  OBVIOUS
<1>3. next \in ClaimRecord /\ next.requested = c.requested /\ next.approved = c.approved
  BY <1>2 DEF ClaimRecord, Life
<1> DEFINE r == ClaimAfter(c, op, n)
<1>4. CASE op = "assign"
  <2>1. r = [next EXCEPT !.status = "under_review"]
    BY <1>2, <1>4 DEF ClaimAfter
  <2>2. r.status = "under_review" /\ r.requested = c.requested /\ r.approved = c.approved
    BY <1>3, <2>1 DEF ClaimRecord
  <2>3. ClaimView(r) = ClaimView(c)
    BY <1>1, <2>2 DEF ClaimView, ClaimPhase
  <2> QED BY <1>1, <1>4, <2>3 DEF ClaimMoves
<1>5. CASE op = "approve"
  <2>1. PICK mid : mid = [next EXCEPT !.status = "approved"]
    OBVIOUS
  <2>2. mid \in ClaimRecord
    BY <1>3, <2>1 DEF ClaimRecord, Life
  <2>3. r = [mid EXCEPT !.approved = n]
    BY <1>2, <1>5, <2>1 DEF ClaimAfter
  <2>4. r.status = "approved" /\ r.requested = c.requested /\ r.approved = n
    BY <1>3, <2>1, <2>2, <2>3 DEF ClaimRecord
  <2>5. ClaimView(r) = [phase |-> "granted", asked |-> c.requested, granted |-> n]
    BY <2>4 DEF ClaimView, ClaimPhase
  <2>6. 0 < n /\ n <= c.requested
    BY <1>5 DEF ClaimAllows
  <2>7. PICK v : v = [ClaimView(c) EXCEPT !.phase = "granted"]
    OBVIOUS
  <2>8. ClaimView(r) = [v EXCEPT !.granted = n]
    <3>1. v = [phase |-> "granted", asked |-> c.requested, granted |-> c.approved]
      BY <1>1, <2>7
    <3> QED BY <2>5, <3>1
  <2>9. ClaimView(r) = [ClaimView(c) EXCEPT !.phase = "granted", !.granted = n]
    BY <2>7, <2>8, Zenon
  <2> QED BY <1>1, <1>5, <2>6, <2>9 DEF ClaimMoves
<1>6. CASE op = "deny"
  <2>1. r = [next EXCEPT !.status = "denied"]
    BY <1>2, <1>6 DEF ClaimAfter
  <2>2. r.status = "denied" /\ r.requested = c.requested /\ r.approved = c.approved
    BY <1>3, <2>1 DEF ClaimRecord
  <2>3. ClaimView(r) = [phase |-> "refused", asked |-> c.requested, granted |-> c.approved]
    BY <2>2 DEF ClaimView, ClaimPhase
  <2> QED BY <1>1, <1>6, <2>3 DEF ClaimMoves
<1> QED BY <1>4, <1>5, <1>6 DEF ClaimOps

\* Changing two fields of one claim.
LEMMA GrantedBoth ==
  ASSUME NEW k \in Tenants \X Claims, NEW n
  PROVE  [ClaimOf EXCEPT ![k].phase = "granted", ![k].granted = n]
         = [ClaimOf EXCEPT ![k] = [ClaimOf[k] EXCEPT !.phase = "granted", !.granted = n]]
<1>1. PICK once : once = [ClaimOf EXCEPT ![k].phase = "granted"]
  OBVIOUS
<1>2. /\ once[k] = [ClaimOf[k] EXCEPT !.phase = "granted"]
      /\ once = [j \in Tenants \X Claims |-> once[j]]
      /\ \A j \in Tenants \X Claims : j # k => once[j] = ClaimOf[j]
  BY <1>1 DEF ClaimOf
<1>3. PICK both : both = [once EXCEPT ![k].granted = n]
  OBVIOUS
<1>4. /\ both[k] = [once[k] EXCEPT !.granted = n]
      /\ both = [j \in Tenants \X Claims |-> both[j]]
      /\ \A j \in Tenants \X Claims : j # k => both[j] = ClaimOf[j]
  BY <1>2, <1>3
<1>5. both[k] = [ClaimOf[k] EXCEPT !.phase = "granted", !.granted = n]
  BY <1>2, <1>4, Zenon
<1>6. both = [ClaimOf EXCEPT ![k] = both[k]]
  BY <1>4 DEF ClaimOf
<1>7. both = [ClaimOf EXCEPT ![k].phase = "granted", ![k].granted = n]
  BY <1>1, <1>3, Zenon
<1> QED BY <1>5, <1>6, <1>7, Zenon

\* Reporting, granting and refusing; an assignment is not in the contract.
LEMMA ClaimContract ==
  ASSUME NEW k \in Tenants \X Claims, NEW c \in ClaimRecord, BookTyped, claims[k] = c,
         NEW op \in ClaimOps, NEW n \in Int, n \in {l.n : l \in Letters}, ClaimAllows(c, op, n),
         claims' = [claims EXCEPT ![k] = ClaimAfter(c, op, n)], UNCHANGED policies
  PROVE  ContractStep
<1> DEFINE r == ClaimAfter(c, op, n)
<1>1. /\ ClaimOf' = [ClaimOf EXCEPT ![k] = ClaimView(r)] /\ UNCHANGED CoverOf
      /\ ClaimOf[k] = ClaimView(c)
  BY DEF CoverOf, ClaimOf, BookTyped
<1>2. ClaimMoves(c, op, n)
  BY ClaimSeen
<1>3. CASE op = "assign"
  <2>1. [ClaimOf EXCEPT ![k] = ClaimOf[k]] = ClaimOf
    BY DEF ClaimOf
  <2> QED BY <1>1, <1>2, <1>3, <2>1 DEF ContractStep, ClaimMoves
<1>4. CASE op = "approve"
  <2>1. ClaimView(r) = [ClaimOf[k] EXCEPT !.phase = "granted", !.granted = n]
    BY <1>1, <1>2, <1>4, Zenon DEF ClaimMoves
  <2>2. ClaimOf' = [ClaimOf EXCEPT ![k].phase = "granted", ![k].granted = n]
    BY <1>1, <2>1, GrantedBoth, Zenon
  <2>3. Contract!Grant(k, n)
    BY <1>1, <1>2, <1>4, <2>2 DEF Contract!Grant, ClaimMoves
  <2> QED BY <2>3 DEF Contract!Next, ContractStep
<1>5. CASE op = "deny"
  <2>1. ClaimOf' = [ClaimOf EXCEPT ![k].phase = "refused"]
    BY <1>1, <1>2, <1>5 DEF ClaimOf, ClaimMoves
  <2>2. Contract!Refuse(k)
    BY <1>1, <1>2, <2>1 DEF Contract!Refuse, ClaimMoves
  <2> QED BY <2>2 DEF Contract!Next, ContractStep
<1> QED BY <1>3, <1>4, <1>5 DEF ClaimOps

LEMMA SaveClaimContract == ASSUME InsuranceInv, NEW d \in Clerks, SaveClaim(d) PROVE ContractStep
<1>0. PICK l : l = desk[d].letter
  OBVIOUS
<1> USE <1>0
<1> DEFINE k == Key(l)
           r == IF l.op = "submit" THEN Submitted(l.on, l.n) ELSE ClaimAfter(desk[d].seen, l.op, l.n)
<1> BookTyped /\ BooksSound
  BY DEF InsuranceInv
<1>1. l \in Letters /\ k \in Tenants \X Claims /\ Current(l) = claims[k] /\ l.n \in Int
  BY SeenIsCurrent, LetterIds, CurrentIs DEF SaveClaim, ClaimOps
<1>2. /\ claims' = [claims EXCEPT ![k] = r] /\ UNCHANGED policies
      /\ l.op \in {"submit", "assign", "deny"} /\ Ready(d) /\ UpToDate(d)
  BY DEF SaveClaim
<1>3. CASE l.op = "submit"
  <2>1. /\ claims[k] = NoClaim /\ On(l) \in Tenants \X Policies /\ l.on \in Policies
        /\ policies[On(l)].version > 0 /\ l.n <= policies[On(l)].coverage
    BY <1>1, <1>2, <1>3, SeenIsCurrent, LetterIds, Versions DEF Opening
  <2>2. ClaimView(r) = [phase |-> "open", asked |-> l.n, granted |-> 0]
    BY <1>3 DEF ClaimView, ClaimPhase, Submitted, NoClaim
  <2> HIDE DEF r
  <2>3. /\ ClaimOf' = [ClaimOf EXCEPT ![k] = ClaimView(r)] /\ UNCHANGED CoverOf
        /\ ClaimOf[k] = ClaimView(NoClaim)
    BY <1>1, <1>2, <2>1 DEF CoverOf, ClaimOf, BookTyped
  <2>4. ClaimView(NoClaim).phase = "none"
    BY DEF ClaimView, ClaimPhase, NoClaim
  <2>5. CoverOf[On(l)].status # "none" /\ CoverOf[On(l)].limit = policies[On(l)].coverage
    BY <2>1, Versions DEF CoverOf, PolicyView, PolicyRecord
  <2>6. Contract!Report(k, On(l), l.n)
    BY <2>1, <2>2, <2>3, <2>4, <2>5 DEF Contract!Report
  <2> QED BY <1>1, <2>1, <2>6 DEF Contract!Next, ContractStep
<1>4. CASE l.op \in {"assign", "deny"}
  <2>1. /\ desk[d].seen = claims[k] /\ l.op \in ClaimOps /\ r = ClaimAfter(claims[k], l.op, l.n)
        /\ ClaimAllows(claims[k], l.op, l.n)
    BY <1>1, <1>2, <1>4, SeenIsCurrent DEF Opening, ClaimOps
  <2>2. claims[k] \in ClaimRecord
    BY <1>1, <1>4, <2>1, Versions DEF ClaimAllows, NoClaim
  <2> HIDE DEF r
  <2>3. PICK c \in ClaimRecord, op \in ClaimOps, n \in Int : c = claims[k] /\ op = l.op /\ n = l.n
    BY <1>1, <2>1, <2>2
  <2>4. n \in {m.n : m \in Letters} /\ ClaimAllows(c, op, n) /\ r = ClaimAfter(c, op, n)
    BY <1>1, <2>1, <2>3
  <2>5. claims' = [claims EXCEPT ![k] = ClaimAfter(c, op, n)]
    BY <1>2, <2>4
  <2> QED BY <1>1, <1>2, <2>3, <2>4, <2>5, ClaimContract
<1> QED BY <1>2, <1>3, <1>4

LEMMA CommitApprovalContract == ASSUME InsuranceInv, NEW d \in Clerks, CommitApproval(d) PROVE ContractStep
<1>1. desk[d].status = "inserted" /\ UNCHANGED policies
  BY DEF CommitApproval
<1>2. /\ desk[d].letter \in Letters /\ Key(desk[d].letter) \in Tenants \X Claims /\ desk[d].letter.n \in Int
      /\ desk[d].seen = claims[Key(desk[d].letter)] /\ claims[Key(desk[d].letter)] \in ClaimRecord
      /\ ClaimAllows(claims[Key(desk[d].letter)], "approve", desk[d].letter.n)
  BY <1>1, Approving
<1>3. claims' = [claims EXCEPT ![Key(desk[d].letter)] =
                   ClaimAfter(claims[Key(desk[d].letter)], "approve", desk[d].letter.n)]
  BY <1>2 DEF CommitApproval
<1> QED BY <1>1, <1>2, <1>3, ClaimContract DEF ClaimOps, InsuranceInv

\* The settlement pays out.
LEMMA SettleContract == ASSUME InsuranceInv, NEW t \in Tenants, Settle(t) PROVE ContractStep
<1> BookTyped /\ BooksSound
  BY DEF InsuranceInv
<1>1. /\ claims' = [k \in Tenants \X Claims |-> IF k \in Payable(t) THEN ClaimAfter(claims[k], "pay", 0) ELSE claims[k]]
      /\ UNCHANGED policies
  BY DEF Settle
<1>2. UNCHANGED CoverOf /\ DOMAIN ClaimOf' = Tenants \X Claims
  BY <1>1 DEF CoverOf, ClaimOf
<1>3. ASSUME NEW k \in Tenants \X Claims
      PROVE  \/ ClaimOf'[k] = ClaimOf[k]
             \/ ClaimOf[k].phase = "granted" /\ ClaimOf'[k] = [ClaimOf[k] EXCEPT !.phase = "paid"]
  <2>1. CASE k \notin Payable(t)
    BY <1>1, <2>1 DEF ClaimOf
  <2>2. CASE k \in Payable(t)
    <3>1. claims[k].status = "approved" /\ claims'[k] = ClaimAfter(claims[k], "pay", 0)
      BY <1>1, <2>2 DEF Payable
    <3>2. claims[k] \in ClaimRecord /\ claims[k].version > 0
      BY <3>1, Versions DEF NoClaim
    <3>3. claims[k].version = Life[claims[k].status]
      <4>1. ClaimSound(k[1], k[2]) /\ k = <<k[1], k[2]>>
        BY DEF BooksSound
      <4> QED BY <3>2, <4>1 DEF ClaimSound
    <3>4. /\ claims'[k].status = "paid" /\ claims'[k].requested = claims[k].requested
          /\ claims'[k].approved = claims[k].approved
      BY <3>1, <3>2, <3>3, Paid
    <3>5. /\ ClaimOf[k] = [phase |-> "granted", asked |-> claims[k].requested, granted |-> claims[k].approved]
          /\ ClaimOf'[k] = [phase |-> "paid", asked |-> claims[k].requested, granted |-> claims[k].approved]
      BY <3>1, <3>4 DEF ClaimOf, ClaimView, ClaimPhase
    <3> QED BY <3>5
  <2> QED BY <2>1, <2>2
<1>4. Contract!PayOut
  BY <1>2, <1>3 DEF Contract!PayOut
<1> QED BY <1>4 DEF Contract!Next, ContractStep

\* Every step is one of the contract, or leaves what the contract sees.
LEMMA StepHonours == InsuranceInv /\ [InsuranceNext]_insuranceVars => ContractStep
<1> SUFFICES ASSUME InsuranceInv, [InsuranceNext]_insuranceVars PROVE ContractStep
  OBVIOUS
<1>1. ASSUME UNCHANGED <<policies, claims>> PROVE ContractStep
  BY <1>1 DEF CoverOf, ClaimOf, ContractStep
<1>2. ASSUME NEW d \in Clerks,
             Take(d) \/ SaveHolder(d) \/ InsertApproval(d) \/ RollBack(d) \/ Again(d) \/ Refuse(d)
      PROVE  UNCHANGED <<policies, claims>>
  BY <1>2 DEF Take, SaveHolder, InsertApproval, RollBack, Again, Refuse, book
<1>3. UNCHANGED insuranceVars => UNCHANGED <<policies, claims>>
  BY DEF insuranceVars, book
<1> QED BY <1>1, <1>2, <1>3, SavePolicyContract, SaveClaimContract, CommitApprovalContract, SettleContract
        DEF InsuranceNext, DeskStep, InsuranceBackground

(* The routes and the settlement of the insurance example, with requests   *)
(* that cross, implement the insurer's contract.                           *)
THEOREM ContractHeld == InsuranceSpec => HonoursContract
<1>1. InsuranceInit => Contract!Init
  BY DEF InsuranceInit, BookInit, Contract!Init, CoverOf, ClaimOf, PolicyView, ClaimView, ClaimPhase,
         NoPolicy, NoClaim
<1>2. InsuranceInv /\ [InsuranceNext]_insuranceVars => [Contract!Next]_<<CoverOf, ClaimOf>>
  BY StepHonours DEF ContractStep
<1> QED BY <1>1, <1>2, InitHolds, StepKeeps, PTL DEF InsuranceSpec, HonoursContract, Contract!Spec
=============================================================================
