-------------------------- MODULE LogReadersProofs --------------------------
(* Proofs about LogReaders, for any number of writers, streams, tenants,   *)
(* projectors, sealers, verifiers, batches and faults.                     *)
EXTENDS LogReadersProperties, FiniteSetTheorems, SequenceTheorems, TLAPS

-----------------------------------------------------------------------------
(* The hashes an append computes.                                          *)

Events(first, n) == [i \in 1 .. n |-> first + i - 1]
Chain(s, first, n, i) == ChainBatch(PrevHash(s), Events(first, n), i)
RowAt(s, chained, first, n, i) ==
  [pos |-> first + i - 1, stream |-> s, version |-> version[s] + i,
   hash |-> IF chained THEN Chain(s, first, n, i) ELSE NoHash]

\* A missing hash is not the hash of anything.
LEMMA NoHashApart == NoHash \notin Seq(Positions)
<1>1. NoHash[1] = 0 /\ Len(NoHash) = 1
  BY DEF NoHash
<1>2. 0 \notin Positions
  BY DEF Positions
<1> SUFFICES ASSUME NoHash \in Seq(Positions) PROVE FALSE
  OBVIOUS
<1>3. NoHash[1] \in Positions
  BY <1>1, ElementOfSeq, SMTT(30)
<1> QED BY <1>1, <1>2, <1>3

\* What an append leaves, row by row.
LEMMA AppendedIs ==
  ASSUME NEW s, NEW chained, NEW first \in Nat, NEW n \in Nat
  PROVE  Appended(s, chained, first, n) =
           [stream |-> s, version |-> version[s] + n, head |-> HeadAfter(s, chained, Events(first, n)),
            rows |-> {RowAt(s, chained, first, n, i) : i \in 1 .. n}]
<1>1. \A i \in 1 .. n : Events(first, n)[i] = first + i - 1
  BY DEF Events
<1>2. {[pos |-> Events(first, n)[i], stream |-> s, version |-> version[s] + i,
        hash |-> IF chained THEN ChainBatch(PrevHash(s), Events(first, n), i) ELSE NoHash] : i \in 1 .. n}
      = {RowAt(s, chained, first, n, i) : i \in 1 .. n}
  BY <1>1 DEF RowAt, Chain
<1> QED BY <1>2 DEF Appended, Events

LEMMA EventsType ==
  ASSUME NEW first \in Positions, NEW n \in Positions, first + n <= MaxPos + 1
  PROVE  /\ Events(first, n) \in Seq(Positions) /\ Len(Events(first, n)) = n
         /\ \A i \in 1 .. n : Events(first, n)[i] = first + i - 1 /\ first + i - 1 \in Positions
<1>1. \A i \in 1 .. n : first + i - 1 \in Positions
  BY LogAssumption DEF Positions
<1>2. Events(first, n) \in [1 .. n -> Positions] /\ n \in Nat
  BY <1>1 DEF Events, Positions
<1>3. Events(first, n) \in Seq(Positions)
  BY <1>2, SeqDef
<1> QED BY <1>1, <1>2, <1>3, LenProperties DEF Events

\* A chained hash is its predecessor's with the event appended.
LEMMA ChainFacts ==
  ASSUME LogTypeOK, NEW s \in Streams, NEW first \in Positions, NEW n \in Positions, first + n <= MaxPos + 1
  PROVE  /\ PrevHash(s) \in Seq(Positions)
         /\ \A i \in 1 .. n : Chain(s, first, n, i) \in Seq(Positions)
                              /\ Len(Chain(s, first, n, i)) = Len(PrevHash(s)) + i
         /\ Chain(s, first, n, 1) = Append(PrevHash(s), first)
         /\ \A i \in 2 .. n : Chain(s, first, n, i) = Append(Chain(s, first, n, i - 1), first + i - 1)
         /\ Chain(s, first, n, n) = PrevHash(s) \o Events(first, n)
<1> DEFINE p == PrevHash(s)
           e == Events(first, n)
<1>1. p \in Seq(Positions)
  BY EmptySeq DEF LogTypeOK, PrevHash, Hashes, Genesis
<1>2. e \in Seq(Positions) /\ Len(e) = n /\ n \in Nat /\ \A i \in 1 .. n : e[i] = first + i - 1 /\ e[i] \in Positions
  BY EventsType DEF Positions
<1> HIDE DEF p, e
<1>3. \A i \in 1 .. n : SubSeq(e, 1, i) \in Seq(Positions) /\ Len(SubSeq(e, 1, i)) = i
  <2> TAKE i \in 1 .. n
  <2>1. \A j \in 1 .. i : e[j] \in Positions
    BY <1>2
  <2> QED BY <1>2, <2>1, SubSeqProperties
<1>4. \A i \in 1 .. n : p \o SubSeq(e, 1, i) \in Seq(Positions) /\ Len(p \o SubSeq(e, 1, i)) = Len(p) + i
  BY <1>1, <1>3, ConcatProperties
<1>5. \A i \in 1 .. n : p \o SubSeq(e, 1, i) = Append(p \o SubSeq(e, 1, i - 1), e[i])
  <2> TAKE i \in 1 .. n
  <2>1. SubSeq(e, 1, i) = SubSeq(e, 1, i - 1) \o <<e[i]>>
    BY <1>2, SubSeqRecursiveSecond
  <2>2. SubSeq(e, 1, i - 1) \in Seq(Positions) /\ <<e[i]>> \in Seq(Positions)
    <3>1. \A j \in 1 .. i - 1 : e[j] \in Positions
      BY <1>2
    <3> QED BY <1>2, <3>1, SubSeqProperties
  <2>3. p \o SubSeq(e, 1, i - 1) \in Seq(Positions)
    BY <1>1, <2>2, ConcatProperties
  <2>4. (p \o SubSeq(e, 1, i - 1)) \o <<e[i]>> = p \o (SubSeq(e, 1, i - 1) \o <<e[i]>>)
    <3>1. PICK t \in Seq(Positions), u \in Seq(Positions) : t = SubSeq(e, 1, i - 1) /\ u = <<e[i]>>
      BY <2>2
    <3>2. (p \o t) \o u = p \o (t \o u)
      BY <1>1, ConcatAssociative
    <3> QED BY <3>1, <3>2
  <2>5. Append(p \o SubSeq(e, 1, i - 1), e[i]) = (p \o SubSeq(e, 1, i - 1)) \o <<e[i]>>
    BY <1>2, <2>3, AppendIsConcat
  <2> QED BY <2>1, <2>4, <2>5
<1>6. p \o SubSeq(e, 1, 0) = p
  <2>1. SubSeq(e, 1, 0) = << >>
    BY SubSeqEmpty
  <2> QED BY <1>1, <2>1, ConcatEmptySeq
<1>7. 1 \in 1 .. n
  BY DEF Positions
<1>8. SubSeq(e, 1, n) = e
  BY <1>2, SubSeqFull
<1>9. \A i : Chain(s, first, n, i) = p \o SubSeq(e, 1, i)
  BY DEF Chain, ChainBatch, p, e
<1>10. Chain(s, first, n, 1) = Append(p, first)
  <2>1. p \o SubSeq(e, 1, 1) = Append(p \o SubSeq(e, 1, 1 - 1), e[1])
    BY <1>5, <1>7
  <2>2. 1 - 1 = 0 /\ e[1] = first
    BY <1>2, <1>7 DEF Positions
  <2> QED BY <1>6, <1>9, <2>1, <2>2
<1>11. \A i \in 2 .. n : Chain(s, first, n, i) = Append(Chain(s, first, n, i - 1), first + i - 1)
  <2>1. \A i \in 2 .. n : i \in 1 .. n
    BY <1>2
  <2> QED BY <1>2, <1>5, <1>9, <2>1
<1> QED BY <1>1, <1>4, <1>8, <1>9, <1>10, <1>11 DEF p, e

\* Whether the rows of a transaction o carry no hash, or continue their stream's chain.
Unchained(o) == o.head = head[o.stream] /\ \A r \in o.rows : r.hash = NoHash
Continues(o) ==
  /\ \A r \in o.rows :
       /\ r.hash \in Seq(Positions) /\ Len(r.hash) = Len(PrevHash(o.stream)) + (r.version - version[o.stream])
       /\ r.version = version[o.stream] + 1 => r.hash = Append(PrevHash(o.stream), r.pos)
  /\ \A q, r \in o.rows : r.version = q.version + 1 => r.hash = Append(q.hash, r.pos)
  /\ \E last \in o.rows : last.version = o.version /\ last.hash = o.head

\* What is known of the transaction an append opens.
LEMMA AppendedFacts ==
  ASSUME LogTypeOK, NEW s \in Streams, NEW chained \in BOOLEAN, NEW first \in Positions, NEW n \in Positions,
         first + n <= MaxPos + 1, NEW o, o = Appended(s, chained, first, n)
  PROVE  /\ o \in Transactions /\ o.stream = s /\ o.version = version[s] + n
         /\ \A r \in o.rows :
              /\ r \in Rows /\ r.stream = s /\ r.pos \in first .. first + n - 1
              /\ r.pos - first = r.version - version[s] - 1
              /\ version[s] < r.version /\ r.version <= o.version
         /\ \A k \in version[s] + 1 .. o.version : \E r \in o.rows : r.version = k
         /\ \A q, r \in o.rows : q.pos = r.pos => q = r
         /\ Unchained(o) \/ Continues(o)
<1> DEFINE row(i) == RowAt(s, chained, first, n, i)
<1>1. n \in Nat /\ first \in Nat /\ n > 0 /\ version[s] \in Nat /\ MaxPos \in Nat
  BY LogAssumption DEF LogTypeOK, Positions
<1>2. o = [stream |-> s, version |-> version[s] + n, head |-> HeadAfter(s, chained, Events(first, n)),
           rows |-> {row(i) : i \in 1 .. n}]
  BY <1>1, AppendedIs
<1>3. \A i \in 1 .. n :
        /\ row(i).pos = first + i - 1 /\ row(i).stream = s /\ row(i).version = version[s] + i
        /\ row(i).hash = IF chained THEN Chain(s, first, n, i) ELSE NoHash
  BY DEF RowAt
<1>4. HeadAfter(s, chained, Events(first, n)) = IF chained THEN Chain(s, first, n, n) ELSE head[s]
  BY ChainFacts DEF HeadAfter
<1>5. \A i \in 1 .. n : row(i) \in Rows
  <2> TAKE i \in 1 .. n
  <2>1. first + i - 1 \in Positions
    BY EventsType
  <2>2. version[s] + i \in Nat \ {0}
    BY <1>1
  <2>3. (IF chained THEN Chain(s, first, n, i) ELSE NoHash) \in Hashes
    BY ChainFacts DEF Hashes
  <2> QED BY <2>1, <2>2, <2>3 DEF RowAt, Rows
<1>6. HeadAfter(s, chained, Events(first, n)) \in Hashes
  <2>1. n \in 1 .. n
    BY <1>1
  <2>2. Chain(s, first, n, n) \in Hashes
    BY <2>1, ChainFacts DEF Hashes
  <2> QED BY <1>4, <2>2 DEF LogTypeOK
<1> HIDE DEF row
<1>7. o.rows = {row(i) : i \in 1 .. n} /\ o.stream = s /\ o.version = version[s] + n
      /\ o.head = HeadAfter(s, chained, Events(first, n))
  BY <1>2
<1>8. o \in Transactions
  <2>1. {row(i) : i \in 1 .. n} \in SUBSET Rows
    BY <1>5
  <2>2. version[s] + n \in Nat
    BY <1>1
  <2> QED BY <1>2, <1>6, <2>1, <2>2 DEF Transactions
<1>9. ASSUME NEW r \in o.rows
      PROVE  \E i \in 1 .. n : r = row(i) /\ i = r.version - version[s] /\ r.pos = first + i - 1
  <2>1. PICK i \in 1 .. n : r = row(i)
    BY <1>7
  <2>2. r.version = version[s] + i /\ r.pos = first + i - 1
    BY <2>1, <1>3
  <2> QED BY <1>1, <2>1, <2>2
<1>10. ASSUME NEW r \in o.rows
       PROVE  /\ r \in Rows /\ r.stream = s /\ r.pos \in first .. first + n - 1
              /\ r.pos - first = r.version - version[s] - 1
              /\ version[s] < r.version /\ r.version <= o.version
  <2>1. PICK i \in 1 .. n : r = row(i) /\ i = r.version - version[s] /\ r.pos = first + i - 1
    BY <1>9
  <2>2. r.version = version[s] + i /\ r.stream = s /\ r \in Rows
    BY <2>1, <1>3, <1>5
  <2> QED BY <1>1, <1>7, <2>1, <2>2
<1>11. \A k \in version[s] + 1 .. o.version : \E r \in o.rows : r.version = k
  <2> TAKE k \in version[s] + 1 .. o.version
  <2>1. k - version[s] \in 1 .. n
    BY <1>1, <1>7
  <2>2. row(k - version[s]).version = version[s] + (k - version[s])
    BY <2>1, <1>3
  <2>3. version[s] + (k - version[s]) = k
    BY <1>1, <1>7
  <2> QED BY <1>7, <2>1, <2>2, <2>3
<1>12. \A q, r \in o.rows : q.pos = r.pos => q = r
  <2> SUFFICES ASSUME NEW q \in o.rows, NEW r \in o.rows, q.pos = r.pos PROVE q = r
    OBVIOUS
  <2>1. PICK i \in 1 .. n : q = row(i) /\ q.pos = first + i - 1
    BY <1>9
  <2>2. PICK j \in 1 .. n : r = row(j) /\ r.pos = first + j - 1
    BY <1>9
  <2>3. i = j
    BY <1>1, <2>1, <2>2
  <2> QED BY <2>1, <2>2, <2>3
<1>13. CASE ~chained
  <2>1. Unchained(o)
    BY <1>13, <1>3, <1>4, <1>7 DEF Unchained
  <2> QED BY <1>8, <1>7, <1>10, <1>11, <1>12, <2>1
<1>14. CASE chained
  <2>0. \A i \in 1 .. n : Chain(s, first, n, i) \in Seq(Positions)
                            /\ Len(Chain(s, first, n, i)) = Len(PrevHash(s)) + i
    BY ChainFacts
  <2>1. ASSUME NEW r \in o.rows
        PROVE  /\ r.hash \in Seq(Positions) /\ Len(r.hash) = Len(PrevHash(s)) + (r.version - version[s])
               /\ r.version = version[s] + 1 => r.hash = Append(PrevHash(s), r.pos)
    <3>1. PICK i \in 1 .. n : r = row(i) /\ i = r.version - version[s] /\ r.pos = first + i - 1
      BY <1>9
    <3>2. r.hash = Chain(s, first, n, i)
      BY <1>3, <1>14, <3>1
    <3>3. ASSUME r.version = version[s] + 1 PROVE r.hash = Append(PrevHash(s), r.pos)
      <4>1. i = 1 /\ r.pos = first
        BY <1>1, <3>1, <3>3
      <4>2. Chain(s, first, n, 1) = Append(PrevHash(s), first)
        BY ChainFacts
      <4> QED BY <3>2, <4>1, <4>2
    <3>4. r.hash \in Seq(Positions) /\ Len(r.hash) = Len(PrevHash(s)) + (r.version - version[s])
      BY <2>0, <3>1, <3>2
    <3> QED BY <3>3, <3>4
  <2>2. ASSUME NEW q \in o.rows, NEW r \in o.rows, r.version = q.version + 1
        PROVE  r.hash = Append(q.hash, r.pos)
    <3>1. PICK i \in 1 .. n : r = row(i) /\ i = r.version - version[s] /\ r.pos = first + i - 1
      BY <1>9
    <3>2. PICK j \in 1 .. n : q = row(j) /\ j = q.version - version[s] /\ q.pos = first + j - 1
      BY <1>9
    <3>3. r.version \in Nat /\ q.version \in Nat
      BY <1>10 DEF Rows
    <3>4. i = j + 1 /\ i \in 2 .. n /\ i - 1 = j
      <4>1. i = r.version - version[s] /\ j = q.version - version[s]
        BY <3>1, <3>2
      <4>2. r.version = q.version + 1
        BY <2>2
      <4> QED BY <1>1, <3>3, <4>1, <4>2
    <3>5. Chain(s, first, n, i) = Append(Chain(s, first, n, i - 1), first + i - 1)
      BY <3>4, ChainFacts
    <3>6. r.hash = Chain(s, first, n, i) /\ q.hash = Chain(s, first, n, j)
      BY <1>3, <1>14, <3>1, <3>2
    <3>7. Chain(s, first, n, i - 1) = q.hash /\ first + i - 1 = r.pos
      BY <3>1, <3>4, <3>6
    <3> QED BY <3>5, <3>6, <3>7
  <2>3. \E last \in o.rows : last.version = o.version /\ last.hash = o.head
    <3>1. n \in 1 .. n
      BY <1>1
    <3>2. row(n) \in o.rows /\ row(n).version = o.version /\ row(n).hash = o.head
      BY <1>3, <1>4, <1>7, <1>14, <3>1
    <3> QED BY <3>2
  <2>4. Continues(o)
    BY <1>7, <2>1, <2>2, <2>3 DEF Continues
  <2> QED BY <1>8, <1>7, <1>10, <1>11, <1>12, <2>4
<1> QED BY <1>13, <1>14

-----------------------------------------------------------------------------
(* The log: writers, dismissals and detached partitions keep LogInv.       *)

\* What is known of a transaction that is open.
LEMMA OpenFacts ==
  ASSUME LogInv, NEW w \in Writers, NEW open \in tx[w]
  PROVE  /\ open \in Transactions /\ version[open.stream] < open.version
         /\ \A r \in open.rows :
              /\ r \in Rows /\ r.stream = open.stream /\ r.pos < nextPos
              /\ version[open.stream] < r.version /\ r.version <= open.version
              /\ \A q \in Committed(open.stream) \cup detached : q.pos < r.pos
         /\ \A k \in version[open.stream] + 1 .. open.version : \E r \in open.rows : r.version = k
         /\ \A q, r \in open.rows : (q.version < r.version <=> q.pos < r.pos) /\ (q.pos = r.pos => q = r)
         /\ Unchained(open) \/ Continues(open)
<1> DEFINE s == open.stream
<1>1. LogTypeOK /\ s \in Streams /\ version[s] \in Nat /\ nextPos \in Nat /\ nextPos <= MaxPos + 1 /\ MaxPos \in Nat
  BY LogAssumption DEF LogInv, LogTypeOK, Transactions
<1>2. PICK first \in Positions, n \in Positions, chained \in BOOLEAN :
        /\ open = Appended(s, chained, first, n)
        /\ first + n <= nextPos
        /\ \A r \in Committed(s) \cup detached : r.pos < first
  BY DEF LogInv, TxInv
<1>3. first + n <= MaxPos + 1 /\ first \in Nat /\ n \in Nat /\ n > 0
  BY <1>1, <1>2 DEF Positions
<1>4. /\ open \in Transactions /\ open.version = version[s] + n
      /\ \A r \in open.rows :
              /\ r \in Rows /\ r.stream = s /\ r.pos \in first .. first + n - 1
              /\ r.pos - first = r.version - version[s] - 1
              /\ version[s] < r.version /\ r.version <= open.version
      /\ \A k \in version[s] + 1 .. open.version : \E r \in open.rows : r.version = k
      /\ \A q, r \in open.rows : q.pos = r.pos => q = r
      /\ Unchained(open) \/ Continues(open)
  BY <1>1, <1>2, <1>3, AppendedFacts
<1>5. ASSUME NEW r \in open.rows, NEW q \in Committed(s) \cup detached PROVE q.pos < r.pos
  <2>1. q.pos \in Nat /\ r.pos \in Nat
    BY <1>1, <1>4 DEF LogTypeOK, Rows, Committed, Positions
  <2>2. q.pos < first /\ first <= r.pos
    BY <1>2, <1>4
  <2> QED BY <1>3, <2>1, <2>2
<1>6. ASSUME NEW q \in open.rows, NEW r \in open.rows PROVE q.version < r.version <=> q.pos < r.pos
  <2>1. q.pos \in Nat /\ r.pos \in Nat /\ q.version \in Nat /\ r.version \in Nat
    BY <1>4 DEF Rows, Positions
  <2>2. q.pos - first = q.version - version[s] - 1 /\ r.pos - first = r.version - version[s] - 1
    BY <1>4
  <2> QED BY <1>1, <1>3, <2>1, <2>2
<1>7. \A r \in open.rows : r.pos < nextPos
  <2> TAKE r \in open.rows
  <2>1. r.pos \in first .. first + n - 1
    BY <1>4
  <2> QED BY <1>1, <1>2, <1>3, <2>1
<1>8. version[s] < open.version
  BY <1>1, <1>3, <1>4
<1> QED BY <1>4, <1>5, <1>6, <1>7, <1>8

\* An open transaction depends on its stream's row alone.
LEMMA AppendedSame ==
  ASSUME NEW s, version'[s] = version[s], head'[s] = head[s], NEW chained, NEW first, NEW n
  PROVE  Appended(s, chained, first, n)' = Appended(s, chained, first, n)
BY DEF Appended, HeadAfter, PrevHash, ChainBatch

\* A stream whose rows and whose version and head stay keeps its invariants.
LEMMA StreamSame ==
  ASSUME NEW s, StreamInv(s), ChainInv(s), Committed(s)' = Committed(s),
         version'[s] = version[s], head'[s] = head[s]
  PROVE  StreamInv(s)' /\ ChainInv(s)'
<1>1. ChainedRows(s) = {r \in Committed(s) : r.hash # NoHash}
  BY DEF ChainedRows, Committed
<1>2. ChainedRows(s)' = {r \in Committed(s)' : r.hash # NoHash}
  BY DEF ChainedRows, Committed
<1>3. ChainedRows(s)' = ChainedRows(s)
  BY <1>1, <1>2
<1>4. StreamInv(s)'
  BY DEF StreamInv
<1>5. ChainInv(s)'
  BY <1>3 DEF ChainInv
<1> QED BY <1>4, <1>5

\* A transaction stays valid when its stream is left alone and the other rows stay apart.
LEMMA TxSame ==
  ASSUME NEW v \in Writers, TxInv(v), tx'[v] = tx[v], nextPos' >= nextPos, nextPos \in Nat, nextPos' \in Nat,
         \A open \in tx[v] :
           /\ version'[open.stream] = version[open.stream] /\ head'[open.stream] = head[open.stream]
           /\ Committed(open.stream)' \cup detached' \subseteq Committed(open.stream) \cup detached
           /\ \A q \in rows', r \in open.rows : q.pos # r.pos
           /\ \A u \in Writers \ {v} : \A other \in tx'[u] :
                other.stream # open.stream /\ \A q \in other.rows, r \in open.rows : q.pos # r.pos
  PROVE  TxInv(v)'
<1> SUFFICES ASSUME NEW open \in tx[v]
             PROVE  \E first \in Positions, n \in Positions, chained \in BOOLEAN :
                      /\ open = Appended(open.stream, chained, first, n)'
                      /\ first + n <= nextPos'
                      /\ \A r \in Committed(open.stream)' \cup detached' : r.pos < first
  BY DEF TxInv
<1>1. PICK first \in Positions, n \in Positions, chained \in BOOLEAN :
        /\ open = Appended(open.stream, chained, first, n)
        /\ first + n <= nextPos
        /\ \A r \in Committed(open.stream) \cup detached : r.pos < first
  BY DEF TxInv
<1>2. Appended(open.stream, chained, first, n)' = Appended(open.stream, chained, first, n)
  BY AppendedSame
<1>3. first + n <= nextPos'
  <2>1. first \in Nat /\ n \in Nat
    BY DEF Positions
  <2>2. first + n <= nextPos
    BY <1>1
  <2>3. nextPos <= nextPos'
    OBVIOUS
  <2> QED BY <2>1, <2>2, <2>3
<1> QED BY <1>1, <1>2, <1>3

LEMMA AppendKeeps ==
  ASSUME LogInv, NEW w \in Writers, NEW s \in AppendsTo[w], NEW n \in 1 .. MaxBatch, AppendBatch(w, s, n)
  PROVE  LogInv'
<1> DEFINE ch == s \in ChainedBy[w]
           o == Appended(s, ch, nextPos, n)
<1>1. s \in Streams /\ ch \in BOOLEAN /\ LogTypeOK
  BY LogAssumption DEF LogInv
<1>2. nextPos \in Positions /\ n \in Positions /\ nextPos + n <= MaxPos + 1 /\ nextPos \in Nat /\ n \in Nat
      /\ n > 0
  BY LogAssumption DEF LogInv, LogTypeOK, AppendBatch, Positions
<1>3. PICK new : new = o
  OBVIOUS
<1>4. /\ new \in Transactions /\ new.stream = s
      /\ \A r \in new.rows : r \in Rows /\ r.pos \in nextPos .. nextPos + n - 1
  <2>1. PICK first \in Positions, chained \in BOOLEAN : first = nextPos /\ chained = ch
    BY <1>1, <1>2
  <2>2. new = Appended(s, chained, first, n)
    BY <1>3, <2>1
  <2>3. /\ new \in Transactions /\ new.stream = s
        /\ \A r \in new.rows : r \in Rows /\ r.pos \in first .. first + n - 1
    <3>1. first + n <= MaxPos + 1
      BY <1>2, <2>1
    <3> QED BY <1>1, <1>2, <2>2, <3>1, AppendedFacts
  <2> QED BY <2>1, <2>3
<1>5. tx' = [tx EXCEPT ![w] = {new}]
  BY <1>3 DEF AppendBatch
<1>6. nextPos' = nextPos + n /\ UNCHANGED <<rows, version, head, dismissed, detached, late>>
  BY DEF AppendBatch
<1>7. LogTypeOK'
  <2>1. nextPos' \in 1 .. MaxPos + 1
    BY <1>2, <1>6, LogAssumption
  <2>2. tx' \in [Writers -> SUBSET Transactions]
    BY <1>1, <1>4, <1>5 DEF LogTypeOK
  <2> QED BY <1>1, <1>6, <2>1, <2>2 DEF LogTypeOK
<1>8. RowsInv'
  <2>1. \A r \in rows \cup detached : r.pos \in Nat /\ r.pos < nextPos
    BY <1>1 DEF LogInv, RowsInv, LogTypeOK, Rows, Positions
  <2>2. \A r \in rows \cup detached : r.pos < nextPos'
    BY <1>2, <1>6, <2>1
  <2> QED BY <1>6, <2>2 DEF LogInv, RowsInv
<1>9. \A z \in Streams : StreamInv(z)' /\ ChainInv(z)'
  <2> TAKE z \in Streams
  <2>1. Committed(z)' = Committed(z)
    BY <1>6 DEF Committed
  <2> QED BY <1>6, <2>1, StreamSame DEF LogInv
<1>10. \A q \in rows \cup detached, r \in new.rows : q.pos < r.pos /\ q.pos # r.pos
  <2> TAKE q \in rows \cup detached, r \in new.rows
  <2>1. q.pos < nextPos /\ q.pos \in Nat
    BY <1>1 DEF LogInv, RowsInv, LogTypeOK, Rows, Positions
  <2> QED BY <1>2, <1>4, <2>1
<1>11. ASSUME NEW v \in Writers \ {w}, NEW other \in tx[v]
       PROVE  other.stream # s /\ \A q \in other.rows, r \in new.rows : q.pos # r.pos
  <2>1. other.stream # s
    BY DEF AppendBatch, StreamFree
  <2>2. ASSUME NEW q \in other.rows, NEW r \in new.rows PROVE q.pos # r.pos
    <3>1. q.pos < nextPos /\ q.pos \in Nat
      BY OpenFacts DEF Rows, Positions
    <3> QED BY <1>2, <1>4, <3>1
  <2> QED BY <2>1, <2>2
<1>12. TxInv(w)'
  <2>1. tx'[w] = {new}
    BY <1>1, <1>5 DEF LogTypeOK
  <2>2. PICK first : first = nextPos
    OBVIOUS
  <2>3. Appended(s, ch, first, n)' = Appended(s, ch, first, n)
    BY <1>6, AppendedSame
  <2>4. new = Appended(new.stream, ch, first, n)'
    BY <1>3, <1>4, <2>2, <2>3
  <2>5. first + n <= nextPos' /\ first \in Positions
    BY <1>2, <1>6, <2>2
  <2>6. \A r \in Committed(s)' \cup detached' : r.pos < first
    BY <1>6, <2>2 DEF LogInv, RowsInv, Committed
  <2>7. \E k \in Positions, m \in Positions, c \in BOOLEAN :
          /\ new = Appended(new.stream, c, k, m)'
          /\ k + m <= nextPos'
          /\ \A r \in Committed(new.stream)' \cup detached' : r.pos < k
    BY <1>1, <1>2, <1>4, <2>4, <2>5, <2>6
  <2>8. \A v \in Writers \ {w} : tx'[v] = tx[v]
    BY <1>1, <1>5 DEF LogTypeOK
  <2>9. \A v \in Writers \ {w} : \A other \in tx'[v] :
          other.stream # new.stream /\ \A q \in other.rows, r \in new.rows : q.pos # r.pos
    BY <1>4, <1>11, <2>8
  <2>10. \A q \in rows', r \in new.rows : q.pos # r.pos
    BY <1>6, <1>10
  <2> QED BY <2>1, <2>7, <2>9, <2>10 DEF TxInv
<1>13. ASSUME NEW v \in Writers \ {w} PROVE TxInv(v)'
  <2>1. tx'[v] = tx[v] /\ \A u \in Writers \ {w} : tx'[u] = tx[u]
    BY <1>1, <1>5 DEF LogTypeOK
  <2>2. nextPos' \in Nat /\ nextPos' >= nextPos
    BY <1>2, <1>6
  <2>3. ASSUME NEW open \in tx[v]
        PROVE  /\ \A q \in rows', r \in open.rows : q.pos # r.pos
               /\ \A u \in Writers \ {v} : \A other \in tx'[u] :
                     other.stream # open.stream /\ \A q \in other.rows, r \in open.rows : q.pos # r.pos
    <3>1. tx'[w] = {new}
      BY <1>1, <1>5 DEF LogTypeOK
    <3>2. open.stream # s /\ \A q \in new.rows, r \in open.rows : q.pos # r.pos
      BY <1>11
    <3>3. TxInv(v)
      BY DEF LogInv
    <3>4. \A u \in Writers \ {v} : \A other \in tx[u] :
            other.stream # open.stream /\ \A q \in other.rows, r \in open.rows : q.pos # r.pos
      BY <3>3 DEF TxInv
    <3>5. \A q \in rows', r \in open.rows : q.pos # r.pos
      BY <1>6, <3>3 DEF TxInv
    <3> QED BY <1>4, <2>1, <3>1, <3>2, <3>4, <3>5
  <2>4. \A open \in tx[v] :
          /\ version'[open.stream] = version[open.stream] /\ head'[open.stream] = head[open.stream]
          /\ Committed(open.stream)' \cup detached' \subseteq Committed(open.stream) \cup detached
    BY <1>6 DEF Committed
  <2>5. TxInv(v)
    BY DEF LogInv
  <2> QED BY <1>2, <2>1, <2>2, <2>3, <2>4, <2>5, TxSame
<1> QED BY <1>7, <1>8, <1>9, <1>12, <1>13 DEF LogInv

\* The rows of a stream are known by their versions, and chained ones have a hash.
LEMMA CommittedFacts ==
  ASSUME LogInv, NEW s \in Streams
  PROVE  /\ version[s] \in Nat /\ head[s] \in Hashes
         /\ \A r \in Committed(s) :
              r \in Rows /\ r.pos \in Nat /\ r.version \in Nat /\ r.version > 0 /\ r.version <= version[s]
              /\ r.stream = s
         /\ \A q, r \in Committed(s) : q.version = r.version => q = r
         /\ \A r \in ChainedRows(s) : r \in Committed(s) /\ r.hash \in Seq(Positions) /\ Len(r.hash) \in Nat
<1>1. LogTypeOK /\ StreamInv(s) /\ RowsInv
  BY DEF LogInv
<1>2. version[s] \in Nat /\ head[s] \in Hashes
  BY <1>1 DEF LogTypeOK
<1>3. \A r \in Committed(s) : r \in Rows /\ r \in rows \cup detached /\ r.stream = s /\ r.version <= version[s]
  BY <1>1 DEF LogTypeOK, Committed, StreamInv
<1>4. \A r \in Rows : r.pos \in Nat /\ r.version \in Nat /\ r.version > 0 /\ r.hash \in Hashes
  BY DEF Rows, Positions
<1>5. ASSUME NEW q \in Committed(s), NEW r \in Committed(s), q.version = r.version PROVE q = r
  <2>1. ~(q.pos < r.pos) /\ ~(r.pos < q.pos)
    <3>1. ~(q.version < r.version) /\ ~(r.version < q.version)
      BY <1>3, <1>4, <1>5
    <3> QED BY <1>1, <3>1 DEF StreamInv
  <2>2. q.pos = r.pos
    BY <1>3, <1>4, <2>1
  <2> QED BY <1>1, <1>3, <2>2 DEF RowsInv
<1>6. ASSUME NEW r \in ChainedRows(s) PROVE r \in Committed(s) /\ r.hash \in Seq(Positions) /\ Len(r.hash) \in Nat
  <2>1. r \in Committed(s) /\ r.hash # NoHash
    BY DEF ChainedRows, Committed
  <2>2. r.hash \in Seq(Positions)
    BY <1>3, <1>4, <2>1 DEF Hashes
  <2> QED BY <2>1, <2>2, LenProperties
<1> QED BY <1>2, <1>3, <1>4, <1>5, <1>6

\* No chained hash is longer than the one an append continues, which is that
\* of the stream's last row if this is chained.
LEMMA PrevIsLast ==
  ASSUME LogInv, NEW s \in Streams
  PROVE  /\ PrevHash(s) \in Seq(Positions) /\ Len(PrevHash(s)) \in Nat
         /\ \A q \in ChainedRows(s) : Len(q.hash) <= Len(PrevHash(s)) /\ (q.version = version[s] => q.hash = PrevHash(s))
<1>1. PrevHash(s) \in Seq(Positions) /\ Len(PrevHash(s)) \in Nat
  BY EmptySeq, LenProperties, CommittedFacts DEF PrevHash, Hashes, Genesis
<1>2. ChainInv(s)
  BY DEF LogInv
<1>3. ASSUME NEW q \in ChainedRows(s)
      PROVE  Len(q.hash) <= Len(PrevHash(s)) /\ (q.version = version[s] => q.hash = PrevHash(s))
  <2>1. head[s] # NoHash
    BY <1>2, <1>3 DEF ChainInv
  <2>2. PICK last \in ChainedRows(s) : last.hash = head[s] /\ q.version <= last.version
    BY <1>2, <2>1 DEF ChainInv
  <2>3. PrevHash(s) = last.hash
    BY <2>1, <2>2 DEF PrevHash
  <2>4. q.version \in Nat /\ last.version \in Nat /\ last.version <= version[s] /\ version[s] \in Nat
    BY CommittedFacts
  <2>5. q.version = last.version => q = last
    BY CommittedFacts
  <2>6. q.version < last.version => Len(q.hash) < Len(last.hash)
    BY <1>2 DEF ChainInv
  <2>7. Len(q.hash) \in Nat /\ Len(last.hash) \in Nat
    BY CommittedFacts
  <2>8. Len(q.hash) <= Len(last.hash)
    BY <2>2, <2>4, <2>5, <2>6, <2>7
  <2>9. q.version = version[s] => q.version = last.version
    BY <2>2, <2>4
  <2> QED BY <2>3, <2>5, <2>8, <2>9
<1> QED BY <1>1, <1>3

LEMMA CommitChain ==
  ASSUME LogInv, NEW w \in Writers, NEW open \in tx[w], NEW s \in Streams, s = open.stream,
         Committed(s)' = Committed(s) \cup open.rows, head'[s] = open.head
  PROVE  ChainInv(s)'
<1>1. ChainedRows(s) = {r \in Committed(s) : r.hash # NoHash}
      /\ ChainedRows(s)' = {r \in Committed(s)' : r.hash # NoHash}
  BY DEF ChainedRows, Committed
<1>2. ChainInv(s)
  BY DEF LogInv
<1>3. CASE Unchained(open)
  <2>1. ChainedRows(s)' = ChainedRows(s) /\ head'[s] = head[s]
    BY <1>1, <1>3 DEF Unchained
  <2> QED BY <1>2, <2>1 DEF ChainInv
<1>4. CASE Continues(open)
  <2> DEFINE old == ChainedRows(s)
             P == PrevHash(s)
             V == version[s]
  <2>1. /\ \A r \in open.rows :
             /\ r.hash \in Seq(Positions) /\ Len(r.hash) = Len(P) + (r.version - V)
             /\ r.version = V + 1 => r.hash = Append(P, r.pos)
        /\ \A q, r \in open.rows : r.version = q.version + 1 => r.hash = Append(q.hash, r.pos)
        /\ \E last \in open.rows : last.version = open.version /\ last.hash = open.head
    BY <1>4 DEF Continues
  <2>2. ChainedRows(s)' = old \cup open.rows
    BY <1>1, <2>1, NoHashApart
  <2>3. /\ V \in Nat /\ V < open.version /\ open.version \in Nat
        /\ \A r \in open.rows : V < r.version /\ r.version <= open.version /\ r.version \in Nat
        /\ V + 1 \in V + 1 .. open.version
    BY OpenFacts, CommittedFacts DEF Rows, Transactions
  <2>4. /\ P \in Seq(Positions) /\ Len(P) \in Nat
        /\ \A q \in old : Len(q.hash) <= Len(P) /\ (q.version = V => q.hash = P)
    BY PrevIsLast
  <2>5. \A q \in old : q.version \in Nat /\ q.version <= V /\ Len(q.hash) \in Nat
    BY CommittedFacts
  <2>6. ASSUME NEW q \in old \cup open.rows, NEW r \in old \cup open.rows, q.version < r.version
        PROVE  Len(q.hash) < Len(r.hash)
    <3>1. CASE q \in old /\ r \in old
      BY <1>2, <2>6, <3>1 DEF ChainInv
    <3>2. CASE q \in old /\ r \in open.rows
      <4>1. Len(q.hash) <= Len(P) /\ Len(r.hash) = Len(P) + (r.version - V)
        BY <2>1, <2>4, <3>2
      <4>2. V < r.version /\ r.version \in Nat /\ Len(q.hash) \in Nat
        BY <2>3, <2>5, <3>2
      <4> QED BY <2>3, <2>4, <4>1, <4>2
    <3>3. CASE q \in open.rows /\ r \in old
      BY <2>3, <2>5, <2>6, <3>3
    <3>4. CASE q \in open.rows /\ r \in open.rows
      <4>1. Len(q.hash) = Len(P) + (q.version - V) /\ Len(r.hash) = Len(P) + (r.version - V)
        BY <2>1, <3>4
      <4>2. q.version \in Nat /\ r.version \in Nat
        BY <2>3, <3>4
      <4> QED BY <2>3, <2>4, <2>6, <4>1, <4>2
    <3> QED BY <3>1, <3>2, <3>3, <3>4
  <2>7. ASSUME NEW q \in old \cup open.rows, NEW r \in old \cup open.rows, r.version = q.version + 1
        PROVE  r.hash = Append(q.hash, r.pos)
    <3>1. CASE q \in old /\ r \in old
      BY <1>2, <2>7, <3>1 DEF ChainInv, Link
    <3>2. CASE q \in old /\ r \in open.rows
      <4>1. q.version = V /\ r.version = V + 1
        BY <2>3, <2>5, <2>7, <3>2
      <4> QED BY <2>1, <2>4, <3>2, <4>1
    <3>3. CASE q \in open.rows /\ r \in old
      BY <2>3, <2>5, <2>7, <3>3
    <3>4. CASE q \in open.rows /\ r \in open.rows
      BY <2>1, <2>7, <3>4
    <3> QED BY <3>1, <3>2, <3>3, <3>4
  <2>8. PICK last \in open.rows : last.version = open.version /\ last.hash = open.head
    BY <2>1
  <2>9. head'[s] = last.hash /\ head'[s] # NoHash
    BY <2>1, <2>8, NoHashApart
  <2>10. \A r \in old \cup open.rows : r.version <= last.version
    <3> TAKE r \in old \cup open.rows
    <3>1. CASE r \in old
      BY <2>3, <2>5, <2>8, <3>1
    <3>2. CASE r \in open.rows
      BY <2>3, <2>8, <3>2
    <3> QED BY <3>1, <3>2
  <2>11. \E first \in old \cup open.rows :
           first.hash = Append(Genesis, first.pos) /\ \A r \in old \cup open.rows : first.version <= r.version
    <3>1. CASE head[s] = NoHash
      <4>1. old = {} /\ P = Genesis
        BY <1>2, <3>1 DEF ChainInv, PrevHash
      <4>2. PICK first \in open.rows : first.version = V + 1
        BY <2>3, OpenFacts
      <4>3. \A r \in open.rows : first.version <= r.version
        BY <2>3, <4>2
      <4> QED BY <2>1, <4>1, <4>2, <4>3
    <3>2. CASE head[s] # NoHash
      <4>1. PICK first \in old : first.hash = Link(Genesis, first.pos) /\ \A r \in old : first.version <= r.version
        BY <1>2, <3>2 DEF ChainInv
      <4>2. \A r \in open.rows : first.version <= r.version
        BY <2>3, <2>5
      <4> QED BY <4>1, <4>2 DEF Link
    <3> QED BY <3>1, <3>2
  <2>12. PICK first \in old \cup open.rows :
           first.hash = Append(Genesis, first.pos) /\ \A r \in old \cup open.rows : first.version <= r.version
    BY <2>11
  <2> QED BY <2>2, <2>6, <2>7, <2>8, <2>9, <2>10, <2>12 DEF ChainInv, Link
<1> QED BY <1>3, <1>4, OpenFacts

LEMMA CommitStream ==
  ASSUME LogInv, NEW w \in Writers, NEW open \in tx[w], NEW s \in Streams, s = open.stream,
         Committed(s)' = Committed(s) \cup open.rows, version'[s] = open.version
  PROVE  StreamInv(s)'
<1>1. StreamInv(s)
  BY DEF LogInv
<1>2. /\ version[s] \in Nat /\ version[s] < open.version /\ open.version \in Nat
      /\ \A r \in Committed(s) : r.version \in Nat /\ r.version <= version[s]
      /\ \A r \in open.rows :
           /\ version[s] < r.version /\ r.version <= open.version /\ r.version \in Nat
           /\ \A q \in Committed(s) : q.pos < r.pos
  BY OpenFacts, CommittedFacts DEF Rows, Transactions
<1>3. \A r \in Committed(s) \cup open.rows : r.version <= open.version
  BY <1>2
<1>4. ASSUME NEW n \in 1 .. open.version PROVE \E r \in Committed(s) \cup open.rows : r.version = n
  <2>1. CASE n <= version[s]
    BY <1>1, <1>2, <2>1 DEF StreamInv
  <2>2. CASE n > version[s]
    <3>1. n \in version[s] + 1 .. open.version
      BY <1>2, <2>2
    <3> QED BY <3>1, OpenFacts
  <2> QED BY <1>2, <2>1, <2>2
<1>5. ASSUME NEW q \in Committed(s) \cup open.rows, NEW r \in Committed(s) \cup open.rows
      PROVE  q.version < r.version <=> q.pos < r.pos
  <2>1. q.pos \in Nat /\ r.pos \in Nat
    BY OpenFacts, CommittedFacts DEF Rows, Positions
  <2>2. CASE q \in Committed(s) /\ r \in Committed(s)
    BY <1>1, <2>2 DEF StreamInv
  <2>3. CASE q \in Committed(s) /\ r \in open.rows
    BY <1>2, <2>1, <2>3
  <2>4. CASE q \in open.rows /\ r \in Committed(s)
    BY <1>2, <2>1, <2>4
  <2>5. CASE q \in open.rows /\ r \in open.rows
    BY <2>5, OpenFacts
  <2> QED BY <2>2, <2>3, <2>4, <2>5
<1> QED BY <1>3, <1>4, <1>5 DEF StreamInv

LEMMA CommitKeeps ==
  ASSUME LogInv, NEW w \in Writers, CommitAppend(w)
  PROVE  LogInv'
<1>1. LogTypeOK /\ RowsInv
  BY DEF LogInv
<1>2. PICK open \in tx[w] :
        /\ rows' = rows \cup open.rows
        /\ version' = [version EXCEPT ![open.stream] = open.version]
        /\ head' = [head EXCEPT ![open.stream] = open.head]
        /\ late' = late \cup {r.pos : r \in {q \in open.rows : Overtaken(TenantOf[q.stream], q.pos)}}
  BY DEF CommitAppend
<1>3. tx' = [tx EXCEPT ![w] = {}] /\ UNCHANGED <<deployed, nextPos, dismissed, detached>>
  BY DEF CommitAppend
<1>4. PICK s \in Streams : s = open.stream
  BY <1>1 DEF LogTypeOK, Transactions
<1>5. /\ open \in Transactions
      /\ \A r \in open.rows :
           /\ r \in Rows /\ r.stream = s /\ r.pos < nextPos
           /\ \A q \in Committed(s) \cup detached : q.pos < r.pos
      /\ \A q, r \in open.rows : q.pos = r.pos => q = r
  BY <1>4, OpenFacts
<1>6. \A q \in rows, r \in open.rows : q.pos # r.pos
  BY DEF LogInv, TxInv
<1>7. version'[s] = open.version /\ head'[s] = open.head
  BY <1>1, <1>2, <1>4 DEF LogTypeOK
<1>8. \A z \in Streams \ {s} : version'[z] = version[z] /\ head'[z] = head[z]
  BY <1>1, <1>2, <1>4 DEF LogTypeOK
<1>9. Committed(s)' = Committed(s) \cup open.rows
  BY <1>2, <1>3, <1>5 DEF Committed
<1>10. \A z \in Streams \ {s} : Committed(z)' = Committed(z)
  BY <1>2, <1>3, <1>5 DEF Committed
<1>11. LogTypeOK'
  <2>1. rows' \subseteq Rows /\ version' \in [Streams -> Nat] /\ head' \in [Streams -> Hashes]
    BY <1>1, <1>2, <1>5 DEF LogTypeOK, Transactions
  <2>2. late' \subseteq Positions
    BY <1>1, <1>2, <1>5 DEF LogTypeOK, Rows
  <2>3. tx' \in [Writers -> SUBSET Transactions]
    BY <1>1, <1>3 DEF LogTypeOK
  <2> QED BY <1>1, <1>3, <2>1, <2>2, <2>3 DEF LogTypeOK
<1>12. RowsInv'
  <2>1. \A r \in rows' \cup detached' : r.pos < nextPos'
    BY <1>1, <1>2, <1>3, <1>5 DEF RowsInv
  <2>2. \A q \in detached, r \in open.rows : q.pos < r.pos /\ q.pos # r.pos
    <3> TAKE q \in detached, r \in open.rows
    <3>1. q.pos \in Nat /\ r.pos \in Nat
      BY <1>1, <1>5 DEF LogTypeOK, Rows, Positions
    <3> QED BY <1>5, <3>1
  <2>3. \A q, r \in rows' \cup detached' : q.pos = r.pos => q = r
    BY <1>1, <1>2, <1>3, <1>5, <1>6, <2>2 DEF RowsInv
  <2>4. \A r \in rows', d \in detached' : d.pos < r.pos
    BY <1>1, <1>2, <1>3, <2>2 DEF RowsInv
  <2> QED BY <2>1, <2>3, <2>4 DEF RowsInv
<1>13. ASSUME NEW z \in Streams PROVE StreamInv(z)' /\ ChainInv(z)'
  <2>1. CASE z = s
    BY <1>4, <1>7, <1>9, <2>1, CommitStream, CommitChain
  <2>2. CASE z # s
    BY <1>8, <1>10, <2>2, StreamSame DEF LogInv
  <2> QED BY <2>1, <2>2
<1>14. ASSUME NEW v \in Writers PROVE TxInv(v)'
  <2>1. CASE v = w
    <3>1. tx'[v] = {}
      BY <1>1, <1>3, <2>1 DEF LogTypeOK
    <3> QED BY <3>1 DEF TxInv
  <2>2. CASE v # w
    <3>1. tx'[v] = tx[v] /\ (\A u \in Writers : tx'[u] \subseteq tx[u]) /\ TxInv(v)
      BY <1>1, <1>3, <2>2 DEF LogTypeOK, LogInv
    <3>2. nextPos \in Nat /\ nextPos' = nextPos
      BY <1>1, <1>3 DEF LogTypeOK
    <3>3. nextPos' \in Nat /\ nextPos' >= nextPos
      BY <3>2
    <3>4. ASSUME NEW other \in tx[v]
          PROVE  /\ version'[other.stream] = version[other.stream] /\ head'[other.stream] = head[other.stream]
                 /\ Committed(other.stream)' \cup detached' \subseteq Committed(other.stream) \cup detached
                 /\ \A q \in rows', r \in other.rows : q.pos # r.pos
                 /\ \A u \in Writers \ {v} : \A third \in tx'[u] :
                      third.stream # other.stream /\ \A q \in third.rows, r \in other.rows : q.pos # r.pos
      <4>1. other.stream \in Streams
        BY <1>1 DEF LogTypeOK, Transactions
      <4>2. /\ other.stream # s
            /\ \A q \in open.rows, r \in other.rows : q.pos # r.pos
            /\ \A q \in rows, r \in other.rows : q.pos # r.pos
        BY <1>4, <2>2, <3>1 DEF TxInv
      <4>3. \A u \in Writers \ {v} : \A third \in tx'[u] :
              third.stream # other.stream /\ \A q \in third.rows, r \in other.rows : q.pos # r.pos
        BY <3>1 DEF TxInv
      <4>4. \A q \in rows', r \in other.rows : q.pos # r.pos
        BY <1>2, <4>2
      <4> QED BY <1>3, <1>8, <1>10, <4>1, <4>2, <4>3, <4>4
    <3> QED BY <3>1, <3>2, <3>3, <3>4, TxSame
  <2> QED BY <2>1, <2>2
<1> QED BY <1>11, <1>12, <1>13, <1>14 DEF LogInv

\* Steps that append and commit nothing.
LEMMA QuietLog ==
  ASSUME LogInv, LogTypeOK', rows' \cup detached' = rows \cup detached, UNCHANGED <<nextPos, version, head>>,
         rows' \subseteq rows, \A w \in Writers : tx'[w] \subseteq tx[w],
         rows' = rows \/ \A w \in Writers : tx'[w] = {},
         \A r \in rows', d \in detached' : d.pos < r.pos
  PROVE  LogInv'
<1>1. RowsInv'
  BY DEF LogInv, RowsInv
<1>2. \A s \in Streams : Committed(s)' = Committed(s)
  BY DEF Committed
<1>3. \A s \in Streams : StreamInv(s)' /\ ChainInv(s)'
  BY <1>2, StreamSame DEF LogInv
<1>4. ASSUME NEW w \in Writers PROVE TxInv(w)'
  <2> SUFFICES ASSUME NEW open \in tx'[w]
               PROVE  /\ \E first \in Positions, n \in Positions, chained \in BOOLEAN :
                           /\ open = Appended(open.stream, chained, first, n)'
                           /\ first + n <= nextPos'
                           /\ \A r \in Committed(open.stream)' \cup detached' : r.pos < first
                      /\ \A v \in Writers \ {w} : \A other \in tx'[v] :
                           other.stream # open.stream /\ \A q \in other.rows, r \in open.rows : q.pos # r.pos
                      /\ \A q \in rows', r \in open.rows : q.pos # r.pos
    BY DEF TxInv
  <2>1. open \in tx[w] /\ rows' = rows /\ TxInv(w) /\ open.stream \in Streams
    BY DEF LogInv, LogTypeOK, Transactions
  <2>2. detached' = detached
    <3>1. \A d \in rows : d \notin detached /\ d \notin detached'
      <4> TAKE d \in rows
      <4>1. d.pos \in Nat /\ ~(d.pos < d.pos)
        BY DEF LogInv, LogTypeOK, Rows, Positions
      <4> QED BY <2>1, <4>1 DEF LogInv, RowsInv
    <3> QED BY <2>1, <3>1
  <2>3. PICK first \in Positions, n \in Positions, chained \in BOOLEAN :
          /\ open = Appended(open.stream, chained, first, n)
          /\ first + n <= nextPos
          /\ \A r \in Committed(open.stream) \cup detached : r.pos < first
    BY <2>1 DEF TxInv
  <2>4. Appended(open.stream, chained, first, n)' = Appended(open.stream, chained, first, n)
    BY AppendedSame
  <2>5. \A r \in Committed(open.stream)' \cup detached' : r.pos < first
    BY <1>2, <2>1, <2>2, <2>3
  <2>6. \A v \in Writers \ {w} : \A other \in tx'[v] :
          other.stream # open.stream /\ \A q \in other.rows, r \in open.rows : q.pos # r.pos
    BY <2>1 DEF TxInv
  <2>7. \A q \in rows', r \in open.rows : q.pos # r.pos
    BY <2>1 DEF TxInv
  <2> QED BY <2>3, <2>4, <2>5, <2>6, <2>7
<1> QED BY <1>1, <1>3, <1>4 DEF LogInv

LEMMA LogStutterKeeps == ASSUME LogInv, UNCHANGED logVars PROVE LogInv'
<1>1. UNCHANGED <<nextPos, rows, version, head, tx, dismissed, detached, late>>
  BY DEF logVars
<1>2. LogTypeOK'
  BY <1>1 DEF LogInv, LogTypeOK
<1> QED BY <1>1, <1>2, QuietLog DEF LogInv, RowsInv

LEMMA RollbackKeeps == ASSUME LogInv, NEW w \in Writers, RollbackAppend(w) PROVE LogInv'
<1>1. tx' = [tx EXCEPT ![w] = {}] /\ UNCHANGED <<nextPos, rows, version, head, dismissed, detached, late>>
  BY DEF RollbackAppend
<1>2. LogTypeOK' /\ \A v \in Writers : tx'[v] \subseteq tx[v]
  BY <1>1 DEF LogInv, LogTypeOK
<1> QED BY <1>1, <1>2, QuietLog DEF LogInv, RowsInv

LEMMA DismissKeeps == ASSUME LogInv, NEW pos \in Positions, Dismiss(pos) PROVE LogInv'
<1>1. dismissed' = dismissed \cup {pos} /\ UNCHANGED <<nextPos, rows, version, head, tx, detached, late>>
  BY DEF Dismiss
<1>2. LogTypeOK'
  BY <1>1 DEF LogInv, LogTypeOK
<1> QED BY <1>1, <1>2, QuietLog DEF LogInv, RowsInv

LEMMA DetachKeeps == ASSUME LogInv, NEW last \in PartitionEnds, Detach(last) PROVE LogInv'
<1>1. /\ detached' = detached \cup {r \in rows : r.pos <= last} /\ rows' = {r \in rows : r.pos > last}
      /\ UNCHANGED <<nextPos, version, head, tx, dismissed, late>> /\ \A w \in Writers : tx[w] = {}
  BY DEF Detach
<1>2. last \in Nat /\ \A r \in rows \cup detached : r.pos \in Nat
  BY LogAssumption DEF LogInv, LogTypeOK, Rows, Positions
<1>3. rows' \cup detached' = rows \cup detached
  BY <1>1, <1>2
<1>4. \A r \in rows', d \in detached' : d.pos < r.pos
  <2> TAKE r \in rows', d \in detached'
  <2>1. CASE d \in detached
    BY <1>1, <2>1 DEF LogInv, RowsInv
  <2>2. CASE d \in rows
    BY <1>1, <1>2, <2>2 DEF LogInv, RowsInv
  <2> QED BY <1>1, <2>1, <2>2
<1>5. LogTypeOK'
  BY <1>1 DEF LogInv, LogTypeOK
<1> QED BY <1>1, <1>3, <1>4, <1>5, QuietLog

LEMMA LogInitHolds == Init => LogInv
<1> SUFFICES ASSUME Init PROVE LogInv
  OBVIOUS
<1>1. LogInit
  BY DEF Init
<1>2. LogTypeOK
  BY <1>1, LogAssumption DEF LogInit, LogTypeOK, Hashes
<1>3. RowsInv /\ \A w \in Writers : TxInv(w)
  BY <1>1 DEF LogInit, RowsInv, TxInv
<1>4. ASSUME NEW s \in Streams PROVE StreamInv(s) /\ ChainInv(s)
  <2>1. version[s] = 0 /\ head[s] = NoHash /\ Committed(s) = {} /\ ChainedRows(s) = {}
    BY <1>1 DEF LogInit, Committed, ChainedRows
  <2>2. 1 .. 0 = {}
    OBVIOUS
  <2> QED BY <2>1, <2>2 DEF StreamInv, ChainInv
<1> QED BY <1>2, <1>3, <1>4 DEF LogInv

LEMMA LogStepKeeps == ASSUME LogInv, LogStep PROVE LogInv'
BY AppendKeeps, CommitKeeps, RollbackKeeps, DismissKeeps, DetachKeeps DEF LogStep, WriterStep

\* Every step of the log.
LogOrQuiet == LogStep \/ UNCHANGED logVars

\* No event is ever lost, only moved; what was dismissed or late remains so.
LEMMA LogGrows ==
  ASSUME LogInv, LogOrQuiet
  PROVE  /\ rows \cup detached \subseteq rows' \cup detached'
         /\ dismissed \subseteq dismissed' /\ late \subseteq late'
         /\ \A s \in Streams : Committed(s) \subseteq Committed(s)' /\ ChainedRows(s) \subseteq ChainedRows(s)'
<1> DEFINE Grown == /\ rows \cup detached \subseteq rows' \cup detached'
                    /\ dismissed \subseteq dismissed' /\ late \subseteq late'
<1>1. Grown
  <2>1. CASE \E w \in Writers : WriterStep(w)
    BY <2>1 DEF WriterStep, AppendBatch, CommitAppend, RollbackAppend
  <2>2. CASE \E pos \in Positions : Dismiss(pos)
    BY <2>2 DEF Dismiss
  <2>3. CASE \E last \in PartitionEnds : Detach(last)
    <3>1. (\A last \in PartitionEnds : last \in Nat) /\ \A r \in rows : r.pos \in Nat
      BY LogAssumption DEF LogInv, LogTypeOK, Rows, Positions
    <3> QED BY <2>3, <3>1 DEF Detach
  <2> QED BY <2>1, <2>2, <2>3 DEF LogOrQuiet, LogStep, logVars
<1> QED BY <1>1 DEF Committed, ChainedRows

\* A row that appears follows its stream, and is late if its tenant has a later one.
LEMMA NewRow ==
  ASSUME LogInv, LogOrQuiet, NEW r \in rows', r \notin rows
  PROVE  /\ r \in Rows /\ version[r.stream] < r.version
         /\ \A t \in Tenants, pos \in Positions :
              t = TenantOf[r.stream] /\ Logged(t, pos) /\ r.pos <= pos => r.pos \in late'
<1>1. \E w \in Writers : CommitAppend(w)
  BY DEF LogOrQuiet, LogStep, logVars, WriterStep, AppendBatch, RollbackAppend, Dismiss, Detach
<1>0. PICK w \in Writers : CommitAppend(w)
  BY <1>1
<1>2. PICK open \in tx[w] :
        /\ rows' = rows \cup open.rows
        /\ late' = late \cup {z.pos : z \in {q \in open.rows : Overtaken(TenantOf[q.stream], q.pos)}}
  BY <1>0 DEF CommitAppend
<1>3. r \in open.rows
  BY <1>2
<1>4. r \in Rows /\ version[r.stream] < r.version /\ \A q \in Committed(r.stream) \cup detached : q.pos < r.pos
  BY <1>3, OpenFacts
<1>5. \A q \in rows : q.pos # r.pos
  BY <1>3 DEF LogInv, TxInv
<1>6. ASSUME NEW t \in Tenants, NEW pos \in Positions, t = TenantOf[r.stream], Logged(t, pos), r.pos <= pos
      PROVE  r.pos \in late'
  <2>1. PICK q \in rows \cup detached : q.pos = pos /\ TenantOf[q.stream] = t
    BY <1>6 DEF Logged
  <2>2. q.pos \in Nat /\ r.pos \in Nat
    BY <1>4 DEF LogInv, LogTypeOK, Rows, Positions
  <2>3. q.pos > r.pos
    <3>1. q.pos # r.pos
      BY <1>4, <1>5, <2>2
    <3> QED BY <1>6, <2>1, <2>2, <3>1
  <2>4. Overtaken(TenantOf[r.stream], r.pos)
    BY <1>6, <2>1, <2>3 DEF Overtaken, TenantRows
  <2> QED BY <1>2, <1>3, <2>4
<1> QED BY <1>4, <1>6

-----------------------------------------------------------------------------
(* The projectors.                                                         *)

ProjectionInv == ReadersInv /\ OncePerProjector /\ SkipsOnlyLate

LEMMA ReadersInit == Init => ProjectionInv
<1> SUFFICES ASSUME Init PROVE ProjectionInv
  OBVIOUS
<1>1. CatchUpInit /\ LogInit
  BY DEF Init
<1>2. CatchUpTypeOK
  BY <1>1, CatchUpAssumption DEF CatchUpInit, CatchUpTypeOK
<1>3. \A p \in Projectors : PhaseInv(p) /\ BatchInv(p) /\ HandledInv(p)
  BY <1>1 DEF CatchUpInit, PhaseInv, BatchInv, HandledInv
<1>4. (\A t \in Tenants : ckpt[t] = NoRow) /\ rows = {} /\ OncePerProjector
  BY <1>1 DEF CatchUpInit, LogInit, OncePerProjector
<1> QED BY <1>2, <1>3, <1>4 DEF ProjectionInv, ReadersInv, SkipsOnlyLate

\* What the log does leaves the projectors' invariants: a row that appears
\* behind a checkpoint, or inside a batch, is late.
LEMMA ReadersLog ==
  ASSUME LogInv, ProjectionInv, LogOrQuiet, UNCHANGED catchUpVars
  PROVE  ProjectionInv'
<1>1. UNCHANGED <<ckpt, phase, active, turn, passes, tenant, from, batch, wrote, effects, faults>>
  BY DEF catchUpVars, roundVars, txVars
<1>2. CatchUpTypeOK'
  BY <1>1 DEF ProjectionInv, ReadersInv, CatchUpTypeOK
<1>3. /\ rows \cup detached \subseteq rows' \cup detached'
      /\ dismissed \subseteq dismissed' /\ late \subseteq late'
  BY LogGrows
<1>4. \A t, pos : Logged(t, pos) => Logged(t, pos)'
  BY <1>3 DEF Logged
<1>5. LogTypeOK' /\ CatchUpTypeOK
  BY LogStepKeeps, LogStutterKeeps DEF LogInv, LogOrQuiet, ProjectionInv, ReadersInv
<1>6. \A r \in rows' : r.stream \in Streams /\ TenantOf[r.stream] \in Tenants /\ r.pos \in Positions
  BY <1>5, LogAssumption DEF LogTypeOK, Rows
<1>7. \A p \in Projectors : PhaseInv(p)'
  BY <1>1 DEF ProjectionInv, ReadersInv, PhaseInv
<1>8. ASSUME NEW p \in Projectors PROVE HandledInv(p)'
  BY <1>1, <1>4 DEF ProjectionInv, ReadersInv, HandledInv
<1>9. ASSUME NEW p \in Projectors PROVE BatchInv(p)'
  <2> SUFFICES ASSUME NEW t \in tenant[p]
               PROVE  /\ from[p] <= Position(t)'
                      /\ wrote[p] # NoRow =>
                           /\ ckpt[t] <= wrote[p]
                           /\ \A q \in Projectors \ {p} : t \in tenant[q] => wrote[q] = NoRow
                      /\ wrote[p] \in {NoRow, 0, ckpt[t]} \cup batch[p]
                      /\ \A pos \in batch[p] : from[p] < pos /\ Logged(t, pos)'
                      /\ \A r \in TenantRows(t)', pos \in batch[p] :
                           from[p] < r.pos /\ r.pos <= pos => r.pos \in batch[p] \cup dismissed' \cup late'
    BY <1>1 DEF BatchInv
  <2>1. /\ from[p] <= Position(t)
        /\ wrote[p] # NoRow =>
             /\ ckpt[t] <= wrote[p]
             /\ \A q \in Projectors \ {p} : t \in tenant[q] => wrote[q] = NoRow
        /\ wrote[p] \in {NoRow, 0, ckpt[t]} \cup batch[p]
        /\ \A pos \in batch[p] : from[p] < pos /\ Logged(t, pos)
        /\ \A r \in TenantRows(t), pos \in batch[p] :
             from[p] < r.pos /\ r.pos <= pos => r.pos \in batch[p] \cup dismissed \cup late
    BY DEF ProjectionInv, ReadersInv, BatchInv
  <2>2. Position(t)' = Position(t)
    BY <1>1 DEF Position
  <2>3. ASSUME NEW r \in TenantRows(t)', NEW pos \in batch[p], from[p] < r.pos, r.pos <= pos
        PROVE  r.pos \in batch[p] \cup dismissed' \cup late'
    <3>1. r \in rows' /\ TenantOf[r.stream] = t
      BY DEF TenantRows
    <3>2. CASE r \in rows
      <4>1. r \in TenantRows(t)
        BY <3>1, <3>2 DEF TenantRows
      <4> QED BY <1>3, <2>1, <2>3, <4>1
    <3>3. CASE r \notin rows
      <4>1. pos \in Positions /\ t \in Tenants /\ Logged(t, pos)
        BY <1>5, <2>1 DEF CatchUpTypeOK
      <4> QED BY <2>3, <3>1, <3>3, <4>1, NewRow
    <3> QED BY <3>2, <3>3
  <2>4. \A pos \in batch[p] : from[p] < pos /\ Logged(t, pos)'
    BY <1>4, <2>1
  <2> QED BY <2>1, <2>2, <2>3, <2>4
<1>10. \A t \in Tenants : (ckpt[t] \in {NoRow, 0} \/ Logged(t, ckpt[t]))'
  BY <1>1, <1>4 DEF ProjectionInv, ReadersInv
<1>11. OncePerProjector'
  BY <1>1 DEF ProjectionInv, OncePerProjector
<1>12. SkipsOnlyLate'
  <2> SUFFICES ASSUME NEW r \in rows', r.pos <= ckpt[TenantOf[r.stream]], r.pos \notin late' \cup dismissed'
               PROVE  Handled(r.pos)'
    BY <1>1 DEF SkipsOnlyLate
  <2> DEFINE t == TenantOf[r.stream]
  <2>1. CASE r \in rows
    BY <1>1, <1>3, <2>1 DEF ProjectionInv, SkipsOnlyLate, Handled
  <2>2. CASE r \notin rows
    <3>1. t \in Tenants /\ r.pos \in Positions /\ r.pos \in Nat /\ r.pos > 0
      BY <1>6 DEF Positions
    <3>2. ckpt[t] \notin {NoRow, 0}
      BY <3>1 DEF NoRow
    <3>3. Logged(t, ckpt[t])
      BY <3>1, <3>2 DEF ProjectionInv, ReadersInv
    <3>4. ckpt[t] \in Positions
      BY <3>3 DEF Logged, LogInv, LogTypeOK, Rows
    <3> QED BY <2>2, <3>1, <3>3, <3>4, NewRow
  <2> QED BY <2>1, <2>2
<1> QED BY <1>2, <1>7, <1>8, <1>9, <1>10, <1>11, <1>12 DEF ProjectionInv, ReadersInv

\* The rows and what is known of them, when the log stands still.
LEMMA LogStill ==
  ASSUME UNCHANGED logVars
  PROVE  /\ UNCHANGED <<rows, detached, dismissed, late>>
         /\ \A t : TenantRows(t)' = TenantRows(t)
         /\ \A t, pos : Logged(t, pos)' = Logged(t, pos)
BY DEF logVars, TenantRows, Logged

LEMMA LeaveType ==
  ASSUME CatchUpTypeOK, NEW p \in Projectors, NEW t \in Tenants, NEW drained \in BOOLEAN, Leave(p, t, drained)
  PROVE  /\ turn' \in [Projectors -> SUBSET Tenants] /\ active' \in [Projectors -> SUBSET Tenants]
         /\ passes' \in [Projectors -> Nat] /\ tenant' \in [Projectors -> SUBSET Tenants]
         /\ from' \in [Projectors -> Nat] /\ batch' \in [Projectors -> SUBSET Positions]
         /\ wrote' \in [Projectors -> Nat \cup {NoRow}]
         /\ phase' \in [Projectors -> {"idle", "pass", "insert", "load", "set", "commit"}]
<1> DEFINE left == IF drained THEN active[p] \ {t} ELSE active[p]
           next == NextTurn(p, left, turn[p] \ {t})
<1>1. left \in SUBSET Tenants /\ turn[p] \ {t} \in SUBSET Tenants
  BY DEF CatchUpTypeOK
<1>2. next \in SUBSET Tenants
  BY <1>1 DEF NextTurn
<1>3. PICK nx \in SUBSET Tenants, lf \in SUBSET Tenants : nx = next /\ lf = left
  BY <1>1, <1>2
<1>4. /\ turn' = [turn EXCEPT ![p] = nx]
      /\ active' = [active EXCEPT ![p] = IF nx = {} THEN {} ELSE lf]
      /\ passes' = [passes EXCEPT ![p] = IF nx = {} THEN 0 ELSE IF turn[p] = {t} THEN @ + 1 ELSE @]
      /\ phase' = [phase EXCEPT ![p] = IF nx = {} THEN "idle" ELSE "pass"]
  BY <1>3 DEF Leave, GoTo
<1>5. passes' \in [Projectors -> Nat]
  <2>1. (IF nx = {} THEN 0 ELSE IF turn[p] = {t} THEN passes[p] + 1 ELSE passes[p]) \in Nat
    BY DEF CatchUpTypeOK
  <2> QED BY <1>4, <2>1 DEF CatchUpTypeOK
<1>6. turn' \in [Projectors -> SUBSET Tenants] /\ active' \in [Projectors -> SUBSET Tenants]
  BY <1>4 DEF CatchUpTypeOK
<1>7. phase' \in [Projectors -> {"idle", "pass", "insert", "load", "set", "commit"}]
  BY <1>4 DEF CatchUpTypeOK
<1>8. /\ tenant' \in [Projectors -> SUBSET Tenants]
      /\ from' \in [Projectors -> Nat] /\ batch' \in [Projectors -> SUBSET Positions]
      /\ wrote' \in [Projectors -> Nat \cup {NoRow}]
  BY DEF Leave, CatchUpTypeOK
<1> QED BY <1>5, <1>6, <1>7, <1>8

\* After it a projector has nothing open, and the others are as before.
LEMMA LeaveFacts ==
  ASSUME CatchUpTypeOK, NEW p \in Projectors, NEW t \in Tenants, NEW drained \in BOOLEAN, Leave(p, t, drained)
  PROVE  /\ tenant'[p] = {} /\ batch'[p] = {} /\ wrote'[p] = NoRow /\ phase'[p] \in {"idle", "pass"}
         /\ \A q \in Projectors \ {p} : /\ phase'[q] = phase[q] /\ tenant'[q] = tenant[q] /\ from'[q] = from[q]
                                        /\ batch'[q] = batch[q] /\ wrote'[q] = wrote[q]
<1>1. tenant'[p] = {} /\ batch'[p] = {} /\ wrote'[p] = NoRow
  BY DEF CatchUpTypeOK, Leave
<1>2. phase'[p] \in {"idle", "pass"}
  BY DEF CatchUpTypeOK, Leave, GoTo
<1>3. \A q \in Projectors \ {p} : phase'[q] = phase[q]
  BY DEF CatchUpTypeOK, Leave, GoTo
<1>4. \A q \in Projectors \ {p} : /\ tenant'[q] = tenant[q] /\ from'[q] = from[q]
                                  /\ batch'[q] = batch[q] /\ wrote'[q] = wrote[q]
  BY DEF CatchUpTypeOK, Leave
<1> QED BY <1>1, <1>2, <1>3, <1>4

LEMMA PublishType ==
  ASSUME CatchUpTypeOK, NEW p \in Projectors, NEW t \in Tenants, Publish(p, t)
  PROVE  /\ ckpt' \in [Tenants -> Nat \cup {NoRow}] /\ effects' \in [Projectors -> [Positions -> Nat]]
         /\ ckpt'[t] = Visible(p, t) /\ \A z \in Tenants \ {t} : ckpt'[z] = ckpt[z]
         /\ \A q \in Projectors \ {p} : effects'[q] = effects[q]
         /\ \A pos \in Positions : effects'[p][pos] = effects[p][pos] + (IF pos \in batch[p] THEN 1 ELSE 0)
<1>1. Visible(p, t) \in Nat \cup {NoRow}
  BY DEF CatchUpTypeOK, Visible
<1>2. ckpt' \in [Tenants -> Nat \cup {NoRow}] /\ ckpt'[t] = Visible(p, t) /\ \A z \in Tenants \ {t} : ckpt'[z] = ckpt[z]
  BY <1>1 DEF CatchUpTypeOK, Publish
<1> DEFINE e == [pos \in Positions |-> effects[p][pos] + (IF pos \in batch[p] THEN 1 ELSE 0)]
<1>3. e \in [Positions -> Nat]
  <2>1. \A pos \in Positions : effects[p][pos] \in Nat
    BY DEF CatchUpTypeOK
  <2>2. \A pos \in Positions : effects[p][pos] + (IF pos \in batch[p] THEN 1 ELSE 0) \in Nat
    BY <2>1
  <2> QED BY <2>2
<1>4. effects' = [effects EXCEPT ![p] = e]
  BY DEF Publish
<1>5. \A pos \in Positions : e[pos] = effects[p][pos] + (IF pos \in batch[p] THEN 1 ELSE 0)
  OBVIOUS
<1> HIDE DEF e
<1>6. effects' \in [Projectors -> [Positions -> Nat]] /\ effects'[p] = e
      /\ \A q \in Projectors \ {p} : effects'[q] = effects[q]
  BY <1>3, <1>4 DEF CatchUpTypeOK
<1> QED BY <1>2, <1>5, <1>6

LEMMA ProjectorType ==
  ASSUME LogTypeOK, CatchUpTypeOK, NEW p \in Projectors, ProjectorStep(p)
  PROVE  CatchUpTypeOK'
<1>1. CASE Discover(p)
  <2>1. Discovered \in SUBSET Tenants
    BY LogAssumption DEF Discovered, LogTypeOK, Rows
  <2> QED BY <1>1, <2>1 DEF Discover, GoTo, txVars, CatchUpTypeOK
<1>2. ASSUME NEW t \in Tenants, ReadCheckpoint(p, t) PROVE CatchUpTypeOK'
  <2>1. Position(t) \in Nat
    BY DEF Position, CatchUpTypeOK
  <2>2. phase' \in [Projectors -> {"idle", "pass", "insert", "load", "set", "commit"}]
    BY <1>2 DEF ReadCheckpoint, GoTo, CatchUpTypeOK
  <2> QED BY <1>2, <2>1, <2>2 DEF ReadCheckpoint, roundVars, CatchUpTypeOK
<1>3. ASSUME NEW t \in Tenants, InsertCheckpoint(p, t) PROVE CatchUpTypeOK'
  BY <1>3 DEF InsertCheckpoint, GoTo, roundVars, CatchUpTypeOK
<1>4. ASSUME NEW t \in Tenants, LoadBatch(p, t) PROVE CatchUpTypeOK'
  <2>1. Loaded(t, from[p]) \in SUBSET Positions
    BY DEF Loaded, Window, Ahead, TenantRows, LogTypeOK, Rows
  <2>2. phase' \in [Projectors -> {"idle", "pass", "insert", "load", "set", "commit"}]
    BY <1>4 DEF LoadBatch, GoTo, CatchUpTypeOK
  <2> QED BY <1>4, <2>1, <2>2 DEF LoadBatch, roundVars, CatchUpTypeOK
<1>5. ASSUME NEW t \in Tenants, SetCheckpoint(p, t) PROVE CatchUpTypeOK'
  <2>1. PICK last \in batch[p] : wrote' = [wrote EXCEPT ![p] = Upserted(p, t, last)]
    BY <1>5 DEF SetCheckpoint
  <2>2. last \in Nat
    BY DEF CatchUpTypeOK, Positions
  <2>3. Upserted(p, t, last) \in Nat \cup {NoRow}
    BY <2>2 DEF CatchUpTypeOK, Upserted, Visible
  <2> QED BY <1>5, <2>1, <2>3 DEF SetCheckpoint, GoTo, roundVars, CatchUpTypeOK
<1>6. ASSUME NEW t \in Tenants, Commit(p, t) \/ CommitUnknown(p, t) PROVE CatchUpTypeOK'
  <2>1. Publish(p, t) /\ \E drained \in BOOLEAN : Leave(p, t, drained)
    BY <1>6 DEF Commit, CommitUnknown
  <2>2. faults' = faults \/ (faults > 0 /\ faults' = faults - 1)
    BY <1>6 DEF Commit, CommitUnknown, Fault
  <2>3. faults' \in Nat
    BY <2>2 DEF CatchUpTypeOK
  <2> QED BY <2>1, <2>3, LeaveType, PublishType DEF CatchUpTypeOK
<1>7. ASSUME NEW t \in Tenants, PoisonThrows(p, t) \/ DbError(p, t) PROVE CatchUpTypeOK'
  <2>1. Leave(p, t, TRUE) /\ UNCHANGED <<ckpt, effects>>
    BY <1>7 DEF PoisonThrows, DbError, Failed
  <2>2. faults' \in Nat
    BY <1>7 DEF PoisonThrows, DbError, Fault, CatchUpTypeOK
  <2> QED BY <2>1, <2>2, LeaveType DEF CatchUpTypeOK
<1>8. CASE Crash(p)
  <2>1. faults' \in Nat
    BY <1>8 DEF Crash, Fault, CatchUpTypeOK
  <2> QED BY <1>8, <2>1 DEF Crash, GoTo, CatchUpTypeOK
<1> QED BY <1>1, <1>2, <1>3, <1>4, <1>5, <1>6, <1>7, <1>8 DEF ProjectorStep, RoundStep, ProjectorFault

\* What a step of one projector leaves of the others.
Others(p) == \A q \in Projectors \ {p} :
  /\ phase'[q] = phase[q] /\ tenant'[q] = tenant[q] /\ from'[q] = from[q]
  /\ batch'[q] = batch[q] /\ wrote'[q] = wrote[q] /\ effects'[q] = effects[q]

\* A checkpoint moves forward, and under the lock of its row.
Forward(p) ==
  \A t \in Tenants : ckpt'[t] # ckpt[t] => ckpt[t] <= ckpt'[t] /\ t \in tenant[p] /\ wrote[p] # NoRow

\* Nobody writes a checkpoint row that is locked.
Locks(p) == \A q \in Projectors \ {p} : \A t \in tenant[q] :
  wrote[q] # NoRow /\ t \in tenant'[p] => wrote'[p] = NoRow

LEMMA OthersKeep ==
  ASSUME ProjectionInv, UNCHANGED logVars, CatchUpTypeOK', NEW p \in Projectors, Others(p), Forward(p), Locks(p),
         NEW q \in Projectors \ {p}
  PROVE  PhaseInv(q)' /\ BatchInv(q)' /\ HandledInv(q)'
<1>1. /\ phase'[q] = phase[q] /\ tenant'[q] = tenant[q] /\ from'[q] = from[q]
      /\ batch'[q] = batch[q] /\ wrote'[q] = wrote[q] /\ effects'[q] = effects[q]
  BY DEF Others
<1>2. CatchUpTypeOK /\ PhaseInv(q) /\ BatchInv(q) /\ HandledInv(q)
  BY DEF ProjectionInv, ReadersInv
<1>3. /\ dismissed' = dismissed /\ late' = late
      /\ \A t : TenantRows(t)' = TenantRows(t)
      /\ \A t, pos : Logged(t, pos)' = Logged(t, pos)
  BY LogStill
<1>4. \A t \in Tenants : ckpt[t] <= ckpt'[t] /\ ckpt[t] \in Nat \cup {NoRow} /\ ckpt'[t] \in Nat \cup {NoRow}
  <2> TAKE t \in Tenants
  <2>1. ckpt[t] \in Nat \cup {NoRow} /\ ckpt'[t] \in Nat \cup {NoRow}
    BY <1>2 DEF CatchUpTypeOK
  <2> QED BY <2>1 DEF Forward, NoRow
<1>5. PhaseInv(q)'
  BY <1>1, <1>2 DEF PhaseInv
<1>6. HandledInv(q)'
  <2> SUFFICES ASSUME NEW pos \in Positions, effects[q][pos] > 0
               PROVE  \E t \in Tenants : Logged(t, pos)' /\ pos <= ckpt'[t] /\ (t \in tenant[q] => pos <= from[q])
    BY <1>1 DEF HandledInv
  <2>1. PICK t \in Tenants : Logged(t, pos) /\ pos <= ckpt[t] /\ (t \in tenant[q] => pos <= from[q])
    BY <1>2 DEF HandledInv
  <2>2. pos <= ckpt'[t]
    BY <1>4, <2>1 DEF Positions, NoRow
  <2> QED BY <1>3, <2>1, <2>2
<1>7. BatchInv(q)'
  <2> SUFFICES ASSUME NEW t \in tenant[q]
               PROVE  /\ from[q] <= Position(t)'
                      /\ wrote[q] # NoRow =>
                           /\ ckpt'[t] <= wrote[q]
                           /\ \A r \in Projectors \ {q} : t \in tenant'[r] => wrote'[r] = NoRow
                      /\ wrote[q] \in {NoRow, 0, ckpt'[t]} \cup batch[q]
                      /\ \A pos \in batch[q] : from[q] < pos /\ Logged(t, pos)'
                      /\ \A r \in TenantRows(t)', pos \in batch[q] :
                           from[q] < r.pos /\ r.pos <= pos => r.pos \in batch[q] \cup dismissed' \cup late'
    BY <1>1 DEF BatchInv
  <2>1. /\ from[q] <= Position(t)
        /\ wrote[q] # NoRow =>
             /\ ckpt[t] <= wrote[q]
             /\ \A r \in Projectors \ {q} : t \in tenant[r] => wrote[r] = NoRow
        /\ wrote[q] \in {NoRow, 0, ckpt[t]} \cup batch[q]
        /\ \A pos \in batch[q] : from[q] < pos /\ Logged(t, pos)
        /\ \A r \in TenantRows(t), pos \in batch[q] :
             from[q] < r.pos /\ r.pos <= pos => r.pos \in batch[q] \cup dismissed \cup late
    BY <1>2 DEF BatchInv
  <2>2. t \in Tenants /\ from[q] \in Nat
    BY <1>2 DEF CatchUpTypeOK
  <2>3. Position(t) <= Position(t)' /\ Position(t) \in Nat /\ Position(t)' \in Nat
    BY <1>4, <2>2 DEF Position, NoRow
  <2>4. from[q] <= Position(t)'
    BY <2>1, <2>2, <2>3
  <2>5. wrote[q] # NoRow => ckpt'[t] = ckpt[t] /\ \A r \in Projectors \ {q} : t \in tenant'[r] => wrote'[r] = NoRow
    <3> SUFFICES ASSUME wrote[q] # NoRow
                 PROVE  ckpt'[t] = ckpt[t] /\ \A r \in Projectors \ {q} : t \in tenant'[r] => wrote'[r] = NoRow
      OBVIOUS
    <3>1. ckpt'[t] = ckpt[t]
      BY <2>1, <2>2 DEF Forward
    <3>2. ASSUME NEW r \in Projectors \ {q}, t \in tenant'[r] PROVE wrote'[r] = NoRow
      <4>1. CASE r = p
        BY <3>2, <4>1 DEF Locks
      <4>2. CASE r # p
        BY <2>1, <3>2, <4>2 DEF Others
      <4> QED BY <4>1, <4>2
    <3> QED BY <3>1, <3>2
  <2> QED BY <1>3, <2>1, <2>4, <2>5
<1> QED BY <1>5, <1>6, <1>7

LEMMA StepFrame ==
  ASSUME LogInv, ProjectionInv, UNCHANGED logVars, CatchUpTypeOK', NEW p \in Projectors,
         Others(p), Forward(p), Locks(p), PhaseInv(p)', BatchInv(p)', HandledInv(p)',
         \A pos \in Positions : effects'[p][pos] <= 1 /\ (effects[p][pos] > 0 => effects'[p][pos] > 0),
         \A t \in Tenants : ckpt'[t] # ckpt[t] =>
           /\ ckpt'[t] \in {NoRow, 0} \/ Logged(t, ckpt'[t])
           /\ \A r \in TenantRows(t) : r.pos <= ckpt'[t] /\ r.pos \notin late \cup dismissed => Handled(r.pos)'
  PROVE  ProjectionInv'
<1>1. CatchUpTypeOK /\ OncePerProjector /\ SkipsOnlyLate /\ LogTypeOK
  BY DEF ProjectionInv, ReadersInv, LogInv
<1>2. UNCHANGED <<rows, dismissed, late>> /\ \A t, pos : Logged(t, pos)' = Logged(t, pos)
  BY LogStill
<1>3. \A q \in Projectors : PhaseInv(q)' /\ BatchInv(q)' /\ HandledInv(q)'
  BY OthersKeep
<1>4. OncePerProjector'
  BY <1>1 DEF Others, OncePerProjector
<1>5. \A t \in Tenants : (ckpt[t] \in {NoRow, 0} \/ Logged(t, ckpt[t]))'
  BY <1>2 DEF ProjectionInv, ReadersInv
<1>6. SkipsOnlyLate'
  <2> SUFFICES ASSUME NEW r \in rows, r.pos <= ckpt'[TenantOf[r.stream]], r.pos \notin late \cup dismissed
               PROVE  Handled(r.pos)'
    BY <1>2 DEF SkipsOnlyLate
  <2> DEFINE t == TenantOf[r.stream]
  <2>1. t \in Tenants /\ r \in TenantRows(t) /\ r.pos \in Positions
    BY <1>1, LogAssumption DEF LogTypeOK, Rows, TenantRows
  <2>2. CASE ckpt'[t] = ckpt[t]
    <3>1. PICK q \in Projectors : effects[q][r.pos] > 0
      BY <1>1, <2>2 DEF SkipsOnlyLate, Handled
    <3>2. effects'[q][r.pos] > 0
      BY <2>1, <3>1 DEF Others
    <3> QED BY <3>2 DEF Handled
  <2>3. CASE ckpt'[t] # ckpt[t]
    BY <2>1, <2>3
  <2> QED BY <2>2, <2>3
<1> QED BY <1>3, <1>4, <1>5, <1>6 DEF ProjectionInv, ReadersInv

\* The same for a step that commits nothing.
LEMMA QuietFrame ==
  ASSUME LogInv, ProjectionInv, UNCHANGED logVars, UNCHANGED <<ckpt, effects>>, CatchUpTypeOK', NEW p \in Projectors,
         \A q \in Projectors \ {p} : /\ phase'[q] = phase[q] /\ tenant'[q] = tenant[q] /\ from'[q] = from[q]
                                     /\ batch'[q] = batch[q] /\ wrote'[q] = wrote[q],
         Locks(p), PhaseInv(p)', BatchInv(p)',
         \A t \in tenant'[p] : from'[p] = Position(t) \/ (t \in tenant[p] /\ from'[p] = from[p])
  PROVE  ProjectionInv'
<1>1. CatchUpTypeOK /\ OncePerProjector /\ HandledInv(p)
  BY DEF ProjectionInv, ReadersInv
<1>2. Others(p) /\ Forward(p)
  BY DEF Others, Forward
<1>3. HandledInv(p)'
  <2> SUFFICES ASSUME NEW pos \in Positions, effects[p][pos] > 0
               PROVE  \E t \in Tenants : Logged(t, pos)' /\ pos <= ckpt[t] /\ (t \in tenant'[p] => pos <= from'[p])
    BY DEF HandledInv
  <2>1. PICK t \in Tenants : Logged(t, pos) /\ pos <= ckpt[t] /\ (t \in tenant[p] => pos <= from[p])
    BY <1>1 DEF HandledInv
  <2>2. ckpt[t] # NoRow
    BY <2>1 DEF Positions, NoRow
  <2>3. t \in tenant'[p] => pos <= from'[p]
    BY <2>1, <2>2 DEF Position
  <2> QED BY <2>1, <2>3, LogStill
<1>4. \A pos \in Positions : effects'[p][pos] <= 1 /\ (effects[p][pos] > 0 => effects'[p][pos] > 0)
  BY <1>1 DEF OncePerProjector
<1> QED BY <1>2, <1>3, <1>4, StepFrame

\* A projector that has nothing open keeps what concerns it.
LEMMA Nothing ==
  ASSUME NEW p \in Projectors, phase'[p] \in {"idle", "pass"}, tenant'[p] = {}, wrote'[p] = NoRow, batch'[p] = {}
  PROVE  PhaseInv(p)' /\ BatchInv(p)' /\ Locks(p)
BY DEF PhaseInv, BatchInv, Locks

LEMMA DiscoverKeeps ==
  ASSUME LogInv, ProjectionInv, UNCHANGED logVars, NEW p \in Projectors, Discover(p)
  PROVE  ProjectionInv'
<1>1. CatchUpTypeOK /\ PhaseInv(p) /\ LogTypeOK
  BY DEF ProjectionInv, ReadersInv, LogInv
<1>2. CatchUpTypeOK'
  BY <1>1, ProjectorType DEF ProjectorStep, RoundStep
<1>3. phase[p] = "idle" /\ phase' = [phase EXCEPT ![p] = "pass"] /\ UNCHANGED <<ckpt, tenant, from, batch, wrote, effects>>
  BY DEF Discover, GoTo, txVars
<1>4. phase'[p] = "pass" /\ \A q \in Projectors \ {p} : phase'[q] = phase[q]
  BY <1>1, <1>3 DEF CatchUpTypeOK
<1>5. tenant'[p] = {} /\ wrote'[p] = NoRow /\ batch'[p] = {}
  BY <1>1, <1>3 DEF PhaseInv
<1> QED BY <1>2, <1>3, <1>4, <1>5, Nothing, QuietFrame

LEMMA ReadCheckpointKeeps ==
  ASSUME LogInv, ProjectionInv, UNCHANGED logVars, NEW p \in Projectors, NEW t \in Tenants, ReadCheckpoint(p, t)
  PROVE  ProjectionInv'
<1>1. CatchUpTypeOK /\ PhaseInv(p) /\ LogTypeOK
  BY DEF ProjectionInv, ReadersInv, LogInv
<1>2. CatchUpTypeOK'
  BY <1>1, ProjectorType DEF ProjectorStep, RoundStep
<1>3. /\ phase[p] = "pass" /\ UNCHANGED <<ckpt, batch, wrote, effects>>
      /\ tenant' = [tenant EXCEPT ![p] = {t}] /\ from' = [from EXCEPT ![p] = Position(t)]
  BY DEF ReadCheckpoint
<1>4. phase'[p] \in {"insert", "load"} /\ \A q \in Projectors \ {p} : phase'[q] = phase[q]
  BY <1>1 DEF CatchUpTypeOK, ReadCheckpoint, GoTo
<1>5. tenant'[p] = {t} /\ from'[p] = Position(t) /\ wrote'[p] = NoRow /\ batch'[p] = {}
      /\ \A q \in Projectors \ {p} : tenant'[q] = tenant[q] /\ from'[q] = from[q]
  BY <1>1, <1>3 DEF CatchUpTypeOK, PhaseInv
<1>6. PhaseInv(p)' /\ Locks(p)
  BY <1>4, <1>5 DEF PhaseInv, Locks
<1>7. BatchInv(p)'
  <2>1. Position(t)' = Position(t) /\ Position(t) \in Nat
    BY <1>1, <1>3 DEF Position, CatchUpTypeOK
  <2> QED BY <1>5, <2>1 DEF BatchInv
<1> QED BY <1>2, <1>3, <1>4, <1>5, <1>6, <1>7, QuietFrame

\* The one tenant a projector in a transaction works for.
LEMMA OneTenant ==
  ASSUME ProjectionInv, NEW p \in Projectors, NEW t \in tenant[p]
  PROVE  t \in Tenants /\ tenant[p] = {t}
<1>1. PhaseInv(p) /\ CatchUpTypeOK
  BY DEF ProjectionInv, ReadersInv
<1> QED BY <1>1 DEF PhaseInv, CatchUpTypeOK

LEMMA InsertCheckpointKeeps ==
  ASSUME LogInv, ProjectionInv, UNCHANGED logVars, NEW p \in Projectors, NEW t \in Tenants, InsertCheckpoint(p, t)
  PROVE  ProjectionInv'
<1>1. CatchUpTypeOK /\ PhaseInv(p) /\ BatchInv(p) /\ LogTypeOK
  BY DEF ProjectionInv, ReadersInv, LogInv
<1>2. CatchUpTypeOK'
  BY <1>1, ProjectorType DEF ProjectorStep, RoundStep
<1>3. /\ phase[p] = "insert" /\ UNCHANGED <<ckpt, tenant, from, batch, effects>> /\ RowFree(p, t)
      /\ wrote' = [wrote EXCEPT ![p] = IF ckpt[t] = NoRow THEN 0 ELSE NoRow]
      /\ phase' = [phase EXCEPT ![p] = "load"]
  BY DEF InsertCheckpoint, GoTo
<1>4. /\ phase'[p] = "load" /\ wrote'[p] = IF ckpt[t] = NoRow THEN 0 ELSE NoRow
      /\ \A q \in Projectors \ {p} : phase'[q] = phase[q] /\ wrote'[q] = wrote[q]
  BY <1>1, <1>3 DEF CatchUpTypeOK
<1>5. tenant[p] = {t} /\ batch[p] = {} /\ wrote[p] = NoRow
  BY <1>1, <1>3, OneTenant DEF PhaseInv, InsertCheckpoint
<1>6. PhaseInv(p)' /\ Locks(p)
  BY <1>3, <1>4, <1>5 DEF PhaseInv, Locks, RowFree
<1>7. BatchInv(p)'
  <2>1. Position(t)' = Position(t) /\ from[p] <= Position(t)
    BY <1>1, <1>3, <1>5 DEF Position, BatchInv
  <2>2. wrote'[p] # NoRow => ckpt'[t] <= wrote'[p] /\ wrote'[p] = 0
    BY <1>3, <1>4 DEF NoRow
  <2>3. \A q \in Projectors \ {p} : t \in tenant'[q] => wrote'[q] = NoRow
    BY <1>3, <1>4 DEF RowFree
  <2> QED BY <1>3, <1>5, <2>1, <2>2, <2>3 DEF BatchInv
<1> QED BY <1>2, <1>3, <1>4, <1>5, <1>6, <1>7, QuietFrame

\* A batch holds every row up to any of its own.
LEMMA WindowPrefix ==
  ASSUME LogTypeOK, NEW t, NEW after, NEW pos \in Window(t, after), NEW q \in Ahead(t, after), q <= pos
  PROVE  q \in Window(t, after)
<1> DEFINE S(n) == {k \in Ahead(t, after) : k <= n}
<1>1. Ahead(t, after) \subseteq Positions
  BY DEF Ahead, TenantRows, LogTypeOK, Rows
<1>2. \A n : IsFiniteSet(S(n)) /\ Cardinality(S(n)) \in Nat
  <2> TAKE n
  <2>1. IsFiniteSet(1 .. MaxPos)
    BY LogAssumption, FS_Interval
  <2>2. IsFiniteSet(S(n))
    BY <1>1, <2>1, FS_Subset DEF Positions
  <2> QED BY <2>2, FS_CardinalityType
<1>3. pos \in Ahead(t, after) /\ pos \in Nat /\ q \in Nat /\ \A k \in Ahead(t, after) : k \in Nat
  BY <1>1 DEF Window, Positions
<1>4. S(q) \subseteq S(pos)
  <2> SUFFICES ASSUME NEW k \in Ahead(t, after), k <= q PROVE k <= pos
    OBVIOUS
  <2>1. k \in Nat /\ q \in Nat /\ pos \in Nat
    BY <1>3
  <2> QED BY <2>1
<1>5. Cardinality(S(q)) <= Cardinality(S(pos))
  BY <1>2, <1>4, FS_Subset
<1>6. Cardinality(S(pos)) <= BatchSize
  BY DEF Window
<1>7. Cardinality(S(q)) <= BatchSize
  BY <1>2, <1>5, <1>6, CatchUpAssumption
<1> QED BY <1>7 DEF Window

LEMMA LoadBatchKeeps ==
  ASSUME LogInv, ProjectionInv, UNCHANGED logVars, NEW p \in Projectors, NEW t \in Tenants, LoadBatch(p, t)
  PROVE  ProjectionInv'
<1> DEFINE envs == Loaded(t, from[p])
<1>1. CatchUpTypeOK /\ PhaseInv(p) /\ BatchInv(p) /\ LogTypeOK
  BY DEF ProjectionInv, ReadersInv, LogInv
<1>2. CatchUpTypeOK'
  BY <1>1, ProjectorType DEF ProjectorStep, RoundStep
<1>3. /\ phase[p] = "load" /\ UNCHANGED <<ckpt, tenant, from, wrote, effects>>
      /\ batch' = [batch EXCEPT ![p] = envs]
      /\ phase' = [phase EXCEPT ![p] = IF envs = {} THEN "commit" ELSE "set"]
  BY DEF LoadBatch, GoTo
<1>4. /\ batch'[p] = envs /\ phase'[p] = IF envs = {} THEN "commit" ELSE "set"
      /\ \A q \in Projectors \ {p} : phase'[q] = phase[q] /\ batch'[q] = batch[q]
  BY <1>1, <1>3 DEF CatchUpTypeOK
<1>5. tenant[p] = {t} /\ batch[p] = {}
  BY <1>1, <1>3, OneTenant DEF PhaseInv, LoadBatch
<1>6. PhaseInv(p)'
  BY <1>3, <1>4, <1>5 DEF PhaseInv
<1>7. Locks(p)
  BY <1>1, <1>3, <1>5 DEF Locks, BatchInv
<1>8. envs \subseteq Window(t, from[p]) /\ Window(t, from[p]) \subseteq envs \cup dismissed
  BY DEF Loaded
<1>9. \A pos \in envs : from[p] < pos /\ Logged(t, pos)
  BY <1>8 DEF Window, Ahead, TenantRows, Logged
<1>10. ASSUME NEW r \in TenantRows(t), NEW pos \in envs, from[p] < r.pos, r.pos <= pos
       PROVE  r.pos \in envs \cup dismissed
  <2>1. r.pos \in Ahead(t, from[p])
    BY <1>10 DEF Ahead
  <2>2. r.pos \in Window(t, from[p])
    BY <1>1, <1>8, <1>10, <2>1, WindowPrefix
  <2> QED BY <1>8, <2>2
<1>11. BatchInv(p)'
  <2>1. Position(t)' = Position(t)
    BY <1>3 DEF Position
  <2>2. /\ from[p] <= Position(t)
        /\ wrote[p] # NoRow =>
             /\ ckpt[t] <= wrote[p]
             /\ \A q \in Projectors \ {p} : t \in tenant[q] => wrote[q] = NoRow
        /\ wrote[p] \in {NoRow, 0, ckpt[t]}
    BY <1>1, <1>5 DEF BatchInv
  <2>3. UNCHANGED <<dismissed, late>> /\ TenantRows(t)' = TenantRows(t) /\ \A pos : Logged(t, pos)' = Logged(t, pos)
    BY LogStill
  <2> HIDE DEF envs
  <2> QED BY <1>3, <1>4, <1>5, <1>9, <1>10, <2>1, <2>2, <2>3 DEF BatchInv
<1> QED BY <1>2, <1>3, <1>4, <1>5, <1>6, <1>7, <1>11, QuietFrame

LEMMA SetCheckpointKeeps ==
  ASSUME LogInv, ProjectionInv, UNCHANGED logVars, NEW p \in Projectors, NEW t \in Tenants, SetCheckpoint(p, t)
  PROVE  ProjectionInv'
<1>1. CatchUpTypeOK /\ PhaseInv(p) /\ BatchInv(p) /\ LogTypeOK
  BY DEF ProjectionInv, ReadersInv, LogInv
<1>2. CatchUpTypeOK'
  BY <1>1, ProjectorType DEF ProjectorStep, RoundStep
<1>3. /\ phase[p] = "set" /\ UNCHANGED <<ckpt, tenant, from, batch, effects>> /\ RowFree(p, t)
      /\ phase' = [phase EXCEPT ![p] = "commit"]
  BY DEF SetCheckpoint, GoTo
<1>4. PICK last \in batch[p] : (\A pos \in batch[p] : pos <= last) /\ wrote' = [wrote EXCEPT ![p] = Upserted(p, t, last)]
  BY DEF SetCheckpoint
<1>5. /\ phase'[p] = "commit" /\ wrote'[p] = Upserted(p, t, last)
      /\ \A q \in Projectors \ {p} : phase'[q] = phase[q] /\ wrote'[q] = wrote[q]
  BY <1>1, <1>3, <1>4 DEF CatchUpTypeOK
<1>6. tenant[p] = {t}
  BY OneTenant DEF SetCheckpoint
<1>7. /\ from[p] <= Position(t)
      /\ wrote[p] # NoRow => ckpt[t] <= wrote[p]
      /\ wrote[p] \in {NoRow, 0, ckpt[t]} \cup batch[p]
      /\ \A pos \in batch[p] : from[p] < pos /\ Logged(t, pos)
      /\ \A r \in TenantRows(t), pos \in batch[p] :
           from[p] < r.pos /\ r.pos <= pos => r.pos \in batch[p] \cup dismissed \cup late
  BY <1>1, <1>6 DEF BatchInv
<1>8. Visible(p, t) \in Nat \cup {NoRow} /\ ckpt[t] \in Nat \cup {NoRow} /\ last \in Nat
  BY <1>1 DEF CatchUpTypeOK, Visible, Positions
<1>9. ckpt[t] <= Visible(p, t) /\ Visible(p, t) \in {0, ckpt[t]} \cup batch[p]
  BY <1>7, <1>8 DEF Visible, NoRow
<1>10. /\ Visible(p, t) <= wrote'[p] /\ last <= wrote'[p] /\ wrote'[p] \in {last, Visible(p, t)}
  BY <1>5, <1>8 DEF Upserted, NoRow
<1>11. wrote'[p] \in Nat
  BY <1>8, <1>10 DEF NoRow
<1>12. ckpt[t] <= wrote'[p]
  BY <1>8, <1>9, <1>10, <1>11 DEF NoRow
<1>13. \A pos \in batch[p] : pos <= wrote'[p]
  <2> TAKE pos \in batch[p]
  <2>1. pos \in Nat /\ pos <= last
    BY <1>1, <1>4 DEF CatchUpTypeOK, Positions
  <2> QED BY <1>8, <1>10, <1>11, <2>1
<1>14. PhaseInv(p)' /\ Locks(p)
  BY <1>3, <1>5, <1>6, <1>13 DEF PhaseInv, Locks, RowFree
<1>15. BatchInv(p)'
  <2>1. Position(t)' = Position(t)
    BY <1>3 DEF Position
  <2>2. \A q \in Projectors \ {p} : t \in tenant'[q] => wrote'[q] = NoRow
    BY <1>3, <1>5 DEF RowFree
  <2>3. UNCHANGED <<dismissed, late>> /\ TenantRows(t)' = TenantRows(t) /\ \A pos : Logged(t, pos)' = Logged(t, pos)
    BY LogStill
  <2>4. wrote'[p] \in {NoRow, 0, ckpt[t]} \cup batch[p]
    BY <1>9, <1>10
  <2> QED BY <1>3, <1>6, <1>7, <1>12, <2>1, <2>2, <2>3, <2>4 DEF BatchInv
<1> QED BY <1>2, <1>3, <1>5, <1>6, <1>14, <1>15, QuietFrame

\* Two rows of one position are one row, and so of one tenant.
LEMMA OneLogged ==
  ASSUME LogInv, NEW t, NEW u, NEW pos, Logged(t, pos), Logged(u, pos)
  PROVE  t = u
BY DEF Logged, LogInv, RowsInv

LEMMA CommitKeepsProjection ==
  ASSUME LogInv, ProjectionInv, UNCHANGED logVars, NEW p \in Projectors, NEW t \in Tenants,
         Commit(p, t) \/ CommitUnknown(p, t)
  PROVE  ProjectionInv'
<1>1. CatchUpTypeOK /\ PhaseInv(p) /\ BatchInv(p) /\ HandledInv(p) /\ LogTypeOK /\ OncePerProjector /\ SkipsOnlyLate
  BY DEF ProjectionInv, ReadersInv, LogInv
<1>2. CatchUpTypeOK'
  BY <1>1, ProjectorType DEF ProjectorStep, RoundStep, ProjectorFault
<1>3. Publish(p, t) /\ \E drained \in BOOLEAN : Leave(p, t, drained)
  BY DEF Commit, CommitUnknown
<1>4. phase[p] = "commit" /\ t \in tenant[p] /\ tenant[p] = {t}
  BY <1>3, OneTenant DEF Publish
<1>5. /\ tenant'[p] = {} /\ batch'[p] = {} /\ wrote'[p] = NoRow /\ phase'[p] \in {"idle", "pass"}
      /\ \A q \in Projectors \ {p} : /\ phase'[q] = phase[q] /\ tenant'[q] = tenant[q] /\ from'[q] = from[q]
                                     /\ batch'[q] = batch[q] /\ wrote'[q] = wrote[q]
  BY <1>1, <1>3, LeaveFacts
<1>6. /\ ckpt'[t] = Visible(p, t) /\ \A z \in Tenants \ {t} : ckpt'[z] = ckpt[z]
      /\ \A q \in Projectors \ {p} : effects'[q] = effects[q]
      /\ \A pos \in Positions : effects'[p][pos] = effects[p][pos] + (IF pos \in batch[p] THEN 1 ELSE 0)
  BY <1>1, <1>3, PublishType
<1>7. /\ from[p] <= Position(t) /\ (wrote[p] # NoRow => ckpt[t] <= wrote[p])
      /\ wrote[p] \in {NoRow, 0, ckpt[t]} \cup batch[p]
      /\ \A pos \in batch[p] : from[p] < pos /\ Logged(t, pos) /\ pos <= wrote[p]
      /\ \A r \in TenantRows(t), pos \in batch[p] :
           from[p] < r.pos /\ r.pos <= pos => r.pos \in batch[p] \cup dismissed \cup late
  BY <1>1, <1>4 DEF BatchInv, PhaseInv
<1>8. ckpt[t] \in Nat \cup {NoRow} /\ ckpt'[t] \in Nat \cup {NoRow} /\ wrote[p] \in Nat \cup {NoRow} /\ from[p] \in Nat
  BY <1>1, <1>2 DEF CatchUpTypeOK
<1>9. ckpt[t] <= ckpt'[t] /\ (ckpt'[t] # ckpt[t] => wrote[p] # NoRow /\ ckpt'[t] = wrote[p])
  BY <1>6, <1>7, <1>8 DEF Visible, NoRow
<1>10. Others(p) /\ Forward(p)
  BY <1>4, <1>5, <1>6, <1>9 DEF Others, Forward
<1>11. PhaseInv(p)' /\ BatchInv(p)' /\ Locks(p)
  BY <1>5, Nothing
<1>12. \A pos \in batch[p] : pos \in Positions /\ pos <= ckpt'[t]
  <2> TAKE pos \in batch[p]
  <2>1. pos \in Positions /\ pos \in Nat /\ pos > 0 /\ pos <= wrote[p]
    BY <1>1, <1>7 DEF CatchUpTypeOK, Positions
  <2>2. wrote[p] # NoRow
    BY <1>8, <2>1 DEF NoRow
  <2> QED BY <1>6, <2>1, <2>2 DEF Visible
<1>13. ASSUME NEW pos \in batch[p] PROVE effects[p][pos] = 0
  <2> SUFFICES ASSUME effects[p][pos] # 0 PROVE FALSE
    OBVIOUS
  <2>1. pos \in Positions /\ effects[p][pos] > 0 /\ from[p] < pos /\ Logged(t, pos)
    BY <1>1, <1>7 DEF CatchUpTypeOK
  <2>2. PICK u \in Tenants : Logged(u, pos) /\ (u \in tenant[p] => pos <= from[p])
    BY <1>1, <2>1 DEF HandledInv
  <2>3. pos <= from[p]
    BY <1>4, <2>1, <2>2, OneLogged
  <2> QED BY <1>8, <2>1, <2>3 DEF Positions
<1>14. \A pos \in Positions : effects[p][pos] \in Nat /\ effects[p][pos] <= 1
  BY <1>1 DEF CatchUpTypeOK, OncePerProjector
<1>15. \A pos \in Positions : effects'[p][pos] <= 1 /\ (effects[p][pos] > 0 => effects'[p][pos] > 0)
  <2> TAKE pos \in Positions
  <2>1. CASE pos \in batch[p]
    BY <1>6, <1>13, <2>1
  <2>2. CASE pos \notin batch[p]
    BY <1>6, <1>14, <2>2
  <2> QED BY <2>1, <2>2
<1>16. HandledInv(p)'
  <2> SUFFICES ASSUME NEW pos \in Positions, effects'[p][pos] > 0
               PROVE  \E u \in Tenants : Logged(u, pos) /\ pos <= ckpt'[u]
    BY <1>5, LogStill DEF HandledInv
  <2>1. CASE pos \in batch[p]
    BY <1>7, <1>12, <2>1
  <2>2. CASE pos \notin batch[p]
    <3>1. effects[p][pos] > 0
      BY <1>6, <1>14, <2>2
    <3>2. PICK u \in Tenants : Logged(u, pos) /\ pos <= ckpt[u]
      BY <1>1, <3>1 DEF HandledInv
    <3>3. pos <= ckpt'[u]
      BY <1>6, <1>8, <1>9, <3>2 DEF Positions, NoRow
    <3> QED BY <3>2, <3>3
  <2> QED BY <2>1, <2>2
<1>17. ASSUME ckpt'[t] # ckpt[t]
       PROVE  /\ ckpt'[t] \in {NoRow, 0} \/ Logged(t, ckpt'[t])
              /\ \A r \in TenantRows(t) : r.pos <= ckpt'[t] /\ r.pos \notin late \cup dismissed => Handled(r.pos)'
  <2>1. ckpt'[t] = wrote[p] /\ wrote[p] # NoRow /\ wrote[p] \in {0} \cup batch[p]
    BY <1>7, <1>9, <1>17
  <2>2. ASSUME NEW r \in TenantRows(t), r.pos <= ckpt'[t], r.pos \notin late \cup dismissed
        PROVE  Handled(r.pos)'
    <3>1. r \in rows /\ TenantOf[r.stream] = t /\ r.pos \in Positions /\ r.pos \in Nat /\ r.pos > 0
      BY <1>1 DEF TenantRows, LogTypeOK, Rows, Positions
    <3>2. wrote[p] \in batch[p]
      BY <2>1, <2>2, <3>1
    <3>3. CASE from[p] < r.pos
      <4>1. r.pos \in batch[p]
        BY <1>7, <2>1, <2>2, <3>2, <3>3
      <4>2. effects'[p][r.pos] > 0
        BY <1>6, <1>13, <3>1, <4>1
      <4> QED BY <4>2 DEF Handled
    <3>4. CASE r.pos <= from[p]
      <4>1. r.pos <= Position(t) /\ Position(t) \in Nat
        BY <1>7, <1>8, <3>1, <3>4 DEF Position, NoRow
      <4>2. r.pos <= ckpt[t]
        BY <3>1, <4>1 DEF Position
      <4>3. PICK q \in Projectors : effects[q][r.pos] > 0
        BY <1>1, <2>2, <3>1, <4>2 DEF SkipsOnlyLate, Handled
      <4>4. effects'[q][r.pos] > 0
        BY <1>6, <1>15, <3>1, <4>3
      <4> QED BY <4>4 DEF Handled
    <3> QED BY <1>8, <3>1, <3>3, <3>4
  <2>3. ckpt'[t] = 0 \/ Logged(t, ckpt'[t])
    BY <1>7, <2>1
  <2> QED BY <2>2, <2>3
<1> QED BY <1>2, <1>6, <1>10, <1>11, <1>15, <1>16, <1>17, StepFrame

LEMMA FailedKeeps ==
  ASSUME LogInv, ProjectionInv, UNCHANGED logVars, NEW p \in Projectors,
         Crash(p) \/ \E t \in Tenants : PoisonThrows(p, t) \/ DbError(p, t)
  PROVE  ProjectionInv'
<1>1. CatchUpTypeOK /\ LogTypeOK
  BY DEF ProjectionInv, ReadersInv, LogInv
<1>2. CatchUpTypeOK'
  BY <1>1, ProjectorType DEF ProjectorStep, RoundStep, ProjectorFault
<1>3. /\ UNCHANGED <<ckpt, effects>>
      /\ tenant'[p] = {} /\ batch'[p] = {} /\ wrote'[p] = NoRow /\ phase'[p] \in {"idle", "pass"}
      /\ \A q \in Projectors \ {p} : /\ phase'[q] = phase[q] /\ tenant'[q] = tenant[q] /\ from'[q] = from[q]
                                     /\ batch'[q] = batch[q] /\ wrote'[q] = wrote[q]
  <2>1. CASE Crash(p)
    <3>1. /\ UNCHANGED <<ckpt, effects>> /\ phase' = [phase EXCEPT ![p] = "idle"]
          /\ tenant' = [tenant EXCEPT ![p] = {}] /\ from' = [from EXCEPT ![p] = 0]
          /\ batch' = [batch EXCEPT ![p] = {}] /\ wrote' = [wrote EXCEPT ![p] = NoRow]
      BY <2>1 DEF Crash, GoTo
    <3> QED BY <1>1, <3>1 DEF CatchUpTypeOK
  <2>2. CASE \E t \in Tenants : PoisonThrows(p, t) \/ DbError(p, t)
    <3>1. PICK t \in Tenants : Leave(p, t, TRUE) /\ UNCHANGED <<ckpt, effects>>
      BY <2>2 DEF PoisonThrows, DbError, Failed
    <3> QED BY <1>1, <3>1, LeaveFacts
  <2> QED BY <2>1, <2>2
<1> QED BY <1>2, <1>3, Nothing, QuietFrame

\* Every step of a projector.
LEMMA ProjectorKeeps ==
  ASSUME LogInv, ProjectionInv, NEW p \in Projectors, ProjectorMove(p)
  PROVE  ProjectionInv'
<1>1. UNCHANGED logVars
  BY DEF ProjectorMove
<1> QED BY <1>1, DiscoverKeeps, ReadCheckpointKeeps, InsertCheckpointKeeps, LoadBatchKeeps, SetCheckpointKeeps,
           CommitKeepsProjection, FailedKeeps DEF ProjectorMove, ProjectorStep, RoundStep, ProjectorFault

-----------------------------------------------------------------------------
(* Sealers and verifiers.                                                  *)

AuditAll == AuditInv /\ AnchorsForward

LEMMA AuditInitHolds == Init => AuditAll
<1> SUFFICES ASSUME Init PROVE AuditAll
  OBVIOUS
<1>1. AuditInit
  BY DEF Init
<1>2. AuditTypeOK
  BY <1>1, AuditAssumption DEF AuditInit, AuditTypeOK
<1>3. \A t \in Tenants : anchors[t] = <<>> /\ DOMAIN anchors[t] = {}
  BY <1>1 DEF AuditInit
<1>4. SealInv /\ \A v \in Verifiers : ReadInv(v)
  BY <1>1, <1>3 DEF AuditInit, SealInv, ReadInv
<1>5. AnchorsForward
  BY <1>3 DEF AnchorsForward, ChainHolds
<1> QED BY <1>2, <1>4, <1>5 DEF AuditAll, AuditInv

\* What was read of a stream stays genuine as the log grows.
LEMMA HeadGrows ==
  ASSUME LogInv, LogOrQuiet, NEW t, NEW h, h.stream \in Streams, HeadInv(t, h)
  PROVE  HeadInv(t, h)'
<1>1. Committed(h.stream) \subseteq Committed(h.stream)' /\ ChainedRows(h.stream) \subseteq ChainedRows(h.stream)'
  BY LogGrows
<1> QED BY <1>1 DEF HeadInv

LEMMA AuditLog ==
  ASSUME LogInv, AuditAll, LogOrQuiet, UNCHANGED auditVars
  PROVE  AuditAll'
<1>1. UNCHANGED <<anchors, stage, round, sealing, heads, sealErrors, reading, verdict>>
  BY DEF auditVars
<1>2. AuditTypeOK /\ SealInv /\ AnchorsForward /\ \A v \in Verifiers : ReadInv(v)
  BY DEF AuditAll, AuditInv
<1>3. AuditTypeOK'
  BY <1>1, <1>2 DEF AuditTypeOK
<1>4. AnchorsForward'
  BY <1>1, <1>2 DEF AnchorsForward, ChainHolds, HashOf, SealedAt
<1>5. SealInv'
  <2>1. \A z \in Sealers : \A job \in sealing[z] : \A h \in heads[z] : HeadInv(job.tenant, h)'
    <3> TAKE z \in Sealers
    <3> TAKE job \in sealing[z]
    <3> TAKE h \in heads[z]
    <3>1. HeadInv(job.tenant, h) /\ h.stream \in Streams
      BY <1>2 DEF AuditTypeOK, Heads, SealInv
    <3> QED BY <3>1, HeadGrows
  <2>2. \A t \in Tenants : \A n \in DOMAIN anchors[t] : \A m \in anchors[t][n].members : HeadInv(t, m)'
    <3> TAKE t \in Tenants
    <3> TAKE n \in DOMAIN anchors[t]
    <3> TAKE m \in anchors[t][n].members
    <3>1. anchors[t] \in Seq(Anchors)
      BY <1>2 DEF AuditTypeOK
    <3>2. anchors[t][n] \in Anchors
      BY <3>1
    <3>3. HeadInv(t, m) /\ m.stream \in Streams
      BY <1>2, <3>2 DEF Anchors, Heads, SealInv
    <3> QED BY <3>3, HeadGrows
  <2>3. \A t, s, n : SealedAt(t, s, n)' = SealedAt(t, s, n)
    BY <1>1 DEF SealedAt
  <2> QED BY <1>1, <1>2, <2>1, <2>2, <2>3 DEF SealInv
<1>6. ASSUME NEW v \in Verifiers PROVE ReadInv(v)'
  <2> SUFFICES ASSUME NEW read \in reading[v]
               PROVE  /\ reading[v] = {read}
                      /\ read.rows \subseteq {r \in rows' : r.stream = read.stream}
                      /\ \A q \in read.rows, r \in rows' \ read.rows :
                           r.stream = read.stream => q.version < r.version
    BY <1>1 DEF ReadInv
  <2>1. /\ reading[v] = {read} /\ read.rows \subseteq {r \in rows : r.stream = read.stream}
        /\ \A q \in read.rows, r \in rows \ read.rows : r.stream = read.stream => q.version < r.version
    BY <1>2 DEF ReadInv
  <2>2. rows \subseteq rows'
    <3>1. ~Unread
      BY DEF Unread
    <3> QED BY <3>1 DEF LogOrQuiet, LogStep, WriterStep, AppendBatch, CommitAppend, RollbackAppend, Dismiss, logVars
  <2>3. ASSUME NEW q \in read.rows, NEW r \in rows', r \notin rows, r.stream = read.stream
        PROVE  q.version < r.version
    <3>1. version[r.stream] < r.version /\ r \in Rows
      BY <2>3, NewRow
    <3>2. q \in Committed(r.stream) /\ r.stream \in Streams
      BY <2>1, <2>3, <3>1 DEF Committed, Rows
    <3>3. q.version <= version[r.stream] /\ q.version \in Nat /\ version[r.stream] \in Nat /\ r.version \in Nat
      BY <3>1, <3>2, CommittedFacts DEF Rows
    <3> QED BY <3>1, <3>3
  <2> QED BY <2>1, <2>2, <2>3
<1> QED BY <1>3, <1>4, <1>5, <1>6 DEF AuditAll, AuditInv

\* A stream's head is the hash of its last row, unless that is unprotected.
LEMMA HeadReal ==
  ASSUME LogInv, NEW s \in Streams, head[s] # NoHash
  PROVE  HeadInv(TenantOf[s], [stream |-> s, version |-> version[s], head |-> head[s]])
<1>1. PICK last \in ChainedRows(s) : last.hash = head[s] /\ \A r \in ChainedRows(s) : r.version <= last.version
  BY DEF LogInv, ChainInv
<1>2. last \in Committed(s) /\ last.version \in Nat /\ last.version > 0 /\ last.version <= version[s] /\ version[s] \in Nat
  BY CommittedFacts
<1>3. version[s] \in 1 .. version[s]
  BY <1>2
<1>4. PICK r \in Committed(s) : r.version = version[s]
  BY <1>3 DEF LogInv, StreamInv
<1>5. CASE r.hash = NoHash
  <2>1. last.version # version[s]
    <3>1. last.hash # NoHash
      BY <1>1
    <3> QED BY <1>2, <1>4, <1>5, <3>1, CommittedFacts
  <2>2. last.version < r.version
    BY <1>2, <1>4, <2>1
  <2> QED BY <1>4, <1>5, <2>2 DEF HeadInv
<1>6. CASE r.hash # NoHash
  <2>1. r \in ChainedRows(s)
    BY <1>6 DEF ChainedRows, Committed
  <2>2. r.version = last.version
    BY <1>1, <1>2, <1>4, <2>1
  <2>3. r = last
    BY <1>2, <2>2, CommittedFacts
  <2> QED BY <1>1, <1>4, <2>3 DEF HeadInv
<1> QED BY <1>5, <1>6

\* HeadInv depends on the log alone.
LEMMA HeadStill ==
  ASSUME UNCHANGED logVars, NEW t, NEW h
  PROVE  HeadInv(t, h)' <=> HeadInv(t, h)
BY DEF logVars, HeadInv, Committed, ChainedRows

\* The sealer's own state after a tenant is done with, and after each other move.
LEMMA DoneWithFacts ==
  ASSUME AuditTypeOK, NEW z \in Sealers, NEW t \in Tenants, DoneWith(z, t)
  PROVE  /\ round' \in [Sealers -> SUBSET Tenants] /\ heads' \in [Sealers -> SUBSET Heads]
         /\ sealing' \in [Sealers -> SUBSET [tenant : Tenants, prev : Nat]]
         /\ stage' \in [Sealers -> {"idle", "round", "heads", "insert"}]
         /\ heads'[z] = {} /\ sealing'[z] = {}
         /\ \A y \in Sealers \ {z} : heads'[y] = heads[y] /\ sealing'[y] = sealing[y] /\ stage'[y] = stage[y]
<1>1. /\ round' = [round EXCEPT ![z] = @ \ {t}] /\ sealing' = [sealing EXCEPT ![z] = {}]
      /\ heads' = [heads EXCEPT ![z] = {}]
      /\ stage' = [stage EXCEPT ![z] = IF round[z] = {t} THEN "idle" ELSE "round"]
  BY DEF DoneWith
<1>2. round' \in [Sealers -> SUBSET Tenants]
  BY <1>1 DEF AuditTypeOK
<1>3. /\ heads' \in [Sealers -> SUBSET Heads] /\ heads'[z] = {} /\ \A y \in Sealers \ {z} : heads'[y] = heads[y]
  BY <1>1 DEF AuditTypeOK
<1>4. /\ sealing' \in [Sealers -> SUBSET [tenant : Tenants, prev : Nat]]
      /\ sealing'[z] = {} /\ \A y \in Sealers \ {z} : sealing'[y] = sealing[y]
  BY <1>1 DEF AuditTypeOK
<1>5. /\ stage' \in [Sealers -> {"idle", "round", "heads", "insert"}]
      /\ \A y \in Sealers \ {z} : stage'[y] = stage[y]
  BY <1>1 DEF AuditTypeOK
<1> QED BY <1>2, <1>3, <1>4, <1>5

\* Steps of a sealer that insert no anchor.
LEMMA SealerQuiet ==
  ASSUME AuditAll, UNCHANGED logVars, UNCHANGED <<anchors, reading, verdict>>, AuditTypeOK', NEW z \in Sealers,
         \A y \in Sealers \ {z} : heads'[y] = heads[y] /\ sealing'[y] = sealing[y] /\ stage'[y] = stage[y],
         stage'[z] # "insert" => heads'[z] = {},
         \A job \in sealing'[z], h \in heads'[z] : HeadInv(job.tenant, h),
         \A j, k \in sealing'[z] : j = k
  PROVE  AuditAll'
<1>1. SealInv /\ AnchorsForward /\ \A v \in Verifiers : ReadInv(v)
  BY DEF AuditAll, AuditInv
<1>2. UNCHANGED rows
  BY DEF logVars
<1>3. \A v \in Verifiers : ReadInv(v)'
  BY <1>1, <1>2 DEF ReadInv
<1>4. AnchorsForward'
  BY <1>1 DEF AnchorsForward, ChainHolds, HashOf, SealedAt
<1>5. SealInv'
  <2>1. \A y \in Sealers : stage'[y] # "insert" => heads'[y] = {}
    BY <1>1 DEF SealInv
  <2>2. \A y \in Sealers : \A job \in sealing'[y] : \A h \in heads'[y] : HeadInv(job.tenant, h)'
    <3> TAKE y \in Sealers
    <3>1. CASE y = z
      BY <3>1, HeadStill
    <3>2. CASE y # z
      BY <1>1, <3>2, HeadStill DEF SealInv
    <3> QED BY <3>1, <3>2
  <2>3. \A t, s, n : SealedAt(t, s, n)' = SealedAt(t, s, n)
    BY DEF SealedAt
  <2>4. \A t \in Tenants : \A n \in DOMAIN anchors[t] : \A m \in anchors[t][n].members : HeadInv(t, m)'
    BY <1>1, HeadStill DEF SealInv
  <2>5. \A y \in Sealers : \A j, k \in sealing'[y] : j = k
    <3> TAKE y \in Sealers
    <3>1. CASE y = z
      BY <3>1
    <3>2. CASE y # z
      BY <1>1, <3>2 DEF SealInv
    <3> QED BY <3>1, <3>2
  <2> QED BY <1>1, <2>1, <2>2, <2>3, <2>4, <2>5 DEF SealInv
<1> QED BY <1>3, <1>4, <1>5 DEF AuditAll, AuditInv

LEMMA SealerMoves ==
  ASSUME LogInv, AuditAll, UNCHANGED logVars, NEW z \in Sealers,
         DiscoverChained(z) \/ ReadHeads(z) \/ SealNothing(z) \/ SealFails(z) \/ \E t \in Tenants : ReadAnchor(z, t)
  PROVE  AuditAll'
<1>1. AuditTypeOK /\ SealInv /\ LogTypeOK
  BY DEF AuditAll, AuditInv, LogInv
<1>2. CASE DiscoverChained(z)
  <2>1. /\ round' = [round EXCEPT ![z] = {TenantOf[s] : s \in {s \in Streams : head[s] # NoHash}}]
        /\ stage[z] = "idle" /\ stage' = [stage EXCEPT ![z] = "round"]
        /\ UNCHANGED <<anchors, sealing, heads, sealErrors, reading, verdict>>
    BY <1>2 DEF DiscoverChained
  <2>2. {TenantOf[s] : s \in {s \in Streams : head[s] # NoHash}} \in SUBSET Tenants
    BY LogAssumption
  <2>3. round' \in [Sealers -> SUBSET Tenants]
    BY <1>1, <2>1, <2>2 DEF AuditTypeOK
  <2>4. AuditTypeOK'
    BY <1>1, <2>1, <2>3 DEF AuditTypeOK
  <2>5. heads[z] = {} /\ \A j, k \in sealing[z] : j = k
    BY <1>1, <2>1 DEF SealInv
  <2>6. \A y \in Sealers \ {z} : stage'[y] = stage[y]
    BY <1>1, <2>1 DEF AuditTypeOK
  <2> QED BY <2>1, <2>4, <2>5, <2>6, SealerQuiet
<1>3. ASSUME NEW t \in Tenants, ReadAnchor(z, t) PROVE AuditAll'
  <2>1. /\ stage[z] = "round" /\ stage' = [stage EXCEPT ![z] = "heads"]
        /\ sealing' = [sealing EXCEPT ![z] = {[tenant |-> t, prev |-> Len(anchors[t])]}]
        /\ UNCHANGED <<anchors, round, heads, sealErrors, reading, verdict>>
    BY <1>3 DEF ReadAnchor
  <2>2. Len(anchors[t]) \in Nat
    BY <1>1, LenProperties DEF AuditTypeOK
  <2>3. /\ sealing' \in [Sealers -> SUBSET [tenant : Tenants, prev : Nat]]
        /\ \A y \in Sealers \ {z} : sealing'[y] = sealing[y]
    BY <1>1, <2>1, <2>2 DEF AuditTypeOK
  <2>4. AuditTypeOK' /\ \A y \in Sealers \ {z} : stage'[y] = stage[y]
    BY <1>1, <2>1, <2>3 DEF AuditTypeOK
  <2>5. heads[z] = {}
    BY <1>1, <2>1 DEF SealInv
  <2> QED BY <2>1, <2>3, <2>4, <2>5, SealerQuiet
<1>4. CASE ReadHeads(z)
  <2>1. /\ stage[z] = "heads" /\ stage' = [stage EXCEPT ![z] = "insert"]
        /\ UNCHANGED <<anchors, round, sealing, sealErrors, reading, verdict>>
    BY <1>4 DEF ReadHeads
  <2>2. PICK job \in sealing[z] :
          heads' = [heads EXCEPT ![z] =
            {[stream |-> s, version |-> version[s], head |-> head[s]] :
               s \in {s \in Streams : TenantOf[s] = job.tenant /\ head[s] # NoHash}}]
    BY <1>4 DEF ReadHeads
  <2> DEFINE H == {[stream |-> s, version |-> version[s], head |-> head[s]] :
                     s \in {s \in Streams : TenantOf[s] = job.tenant /\ head[s] # NoHash}}
  <2>3. H \in SUBSET Heads
    BY <1>1 DEF LogTypeOK, Heads
  <2>4. \A h \in H : HeadInv(job.tenant, h)
    BY HeadReal
  <2>5. PICK hs \in SUBSET Heads : hs = H
    BY <2>3
  <2>6. heads' = [heads EXCEPT ![z] = hs] /\ \A h \in hs : HeadInv(job.tenant, h)
    BY <2>2, <2>4, <2>5
  <2>7. heads' \in [Sealers -> SUBSET Heads] /\ heads'[z] = hs /\ \A y \in Sealers \ {z} : heads'[y] = heads[y]
    BY <1>1, <2>6 DEF AuditTypeOK
  <2>8. AuditTypeOK' /\ stage'[z] = "insert" /\ \A y \in Sealers \ {z} : stage'[y] = stage[y]
    BY <1>1, <2>1, <2>7 DEF AuditTypeOK
  <2>9. \A other \in sealing[z] : other = job
    BY <1>1 DEF SealInv
  <2> QED BY <2>1, <2>6, <2>7, <2>8, <2>9, SealerQuiet
<1>5. CASE SealNothing(z) \/ SealFails(z)
  <2>1. PICK job \in sealing[z] : DoneWith(z, job.tenant)
    BY <1>5 DEF SealNothing, SealFails
  <2>2. job.tenant \in Tenants
    BY <1>1 DEF AuditTypeOK
  <2>3. UNCHANGED <<anchors, reading, verdict>> /\ (sealErrors' = sealErrors \/ (sealErrors > 0 /\ sealErrors' = sealErrors - 1))
    BY <1>5 DEF SealNothing, SealFails
  <2>4. sealErrors' \in Nat
    BY <1>1, <2>3 DEF AuditTypeOK
  <2>5. AuditTypeOK'
    BY <1>1, <2>1, <2>2, <2>3, <2>4, DoneWithFacts DEF AuditTypeOK
  <2> QED BY <1>1, <2>1, <2>2, <2>3, <2>5, DoneWithFacts, SealerQuiet
<1> QED BY <1>2, <1>3, <1>4, <1>5

LEMMA OneMore ==
  ASSUME NEW T, NEW seq \in Seq(T), NEW e \in T
  PROVE  /\ Append(seq, e) \in Seq(T) /\ Len(seq) \in Nat
         /\ DOMAIN seq = 1 .. Len(seq) /\ DOMAIN Append(seq, e) = 1 .. Len(seq) + 1
         /\ \A n \in 1 .. Len(seq) : Append(seq, e)[n] = seq[n]
         /\ Append(seq, e)[Len(seq) + 1] = e
BY LenProperties, AppendProperties

LEMMA SealKeeps ==
  ASSUME LogInv, AuditAll, UNCHANGED logVars, NEW z \in Sealers, Seal(z)
  PROVE  AuditAll'
<1>1. AuditTypeOK /\ SealInv /\ AnchorsForward /\ \A v \in Verifiers : ReadInv(v)
  BY DEF AuditAll, AuditInv
<1>2. PICK job \in sealing[z] :
        /\ Vacant(job)
        /\ anchors' = [anchors EXCEPT ![job.tenant] =
             Append(@, [prev |-> HashOf(job.tenant, job.prev),
                        hash |-> AnchorHash(HashOf(job.tenant, job.prev), Delta(job.tenant, heads[z])),
                        members |-> Delta(job.tenant, heads[z])])]
        /\ DoneWith(z, job.tenant)
  BY DEF Seal
<1>3. PICK new : new = [prev |-> HashOf(job.tenant, job.prev),
                        hash |-> AnchorHash(HashOf(job.tenant, job.prev), Delta(job.tenant, heads[z])),
                        members |-> Delta(job.tenant, heads[z])]
  OBVIOUS
<1>4. /\ job.tenant \in Tenants /\ job.prev \in Nat /\ new \in Anchors
      /\ anchors' \in [Tenants -> Seq(Anchors)]
      /\ \A t \in Tenants \ {job.tenant} : anchors'[t] = anchors[t]
      /\ DOMAIN anchors[job.tenant] = 1 .. job.prev
      /\ DOMAIN anchors'[job.tenant] = 1 .. job.prev + 1
      /\ \A n \in 1 .. job.prev : anchors'[job.tenant][n] = anchors[job.tenant][n]
      /\ anchors'[job.tenant][job.prev + 1] = new
  <2>1. job.tenant \in Tenants /\ job.prev \in Nat
    BY <1>1 DEF AuditTypeOK
  <2>2. PICK t \in Tenants : t = job.tenant
    BY <2>1
  <2>3. PICK old : old = anchors[t]
    OBVIOUS
  <2>4. old \in Seq(Anchors) /\ Len(old) = job.prev
    BY <1>1, <1>2, <2>2, <2>3 DEF AuditTypeOK, Vacant
  <2>5. PICK members : members = Delta(t, heads[z])
    OBVIOUS
  <2>6. members \in SUBSET Heads
    BY <1>1, <2>5 DEF AuditTypeOK, Delta
  <2>7. PICK before : before = HashOf(t, job.prev)
    OBVIOUS
  <2>8. before \in Seq(SUBSET Heads)
    <3>1. CASE job.prev = 0
      BY <2>7, <3>1 DEF HashOf
    <3>2. CASE job.prev # 0
      <4>1. job.prev \in 1 .. Len(old)
        BY <2>1, <2>4, <3>2
      <4>2. old[job.prev] \in Anchors
        BY <2>4, <4>1
      <4> QED BY <2>3, <2>7, <3>2, <4>2 DEF HashOf, Anchors
    <3> QED BY <3>1, <3>2
  <2>9. Append(before, members) \in Seq(SUBSET Heads)
    BY <2>6, <2>8, AppendProperties
  <2>10. new = [prev |-> before, hash |-> Append(before, members), members |-> members]
    BY <1>3, <2>2, <2>5, <2>7 DEF AnchorHash
  <2>11. new \in Anchors
    BY <2>6, <2>8, <2>9, <2>10 DEF Anchors
  <2>12. /\ Append(old, new) \in Seq(Anchors)
         /\ DOMAIN old = 1 .. Len(old) /\ DOMAIN Append(old, new) = 1 .. Len(old) + 1
         /\ \A n \in 1 .. Len(old) : Append(old, new)[n] = old[n]
         /\ Append(old, new)[Len(old) + 1] = new
    BY <2>4, <2>11, OneMore
  <2>13. anchors' = [anchors EXCEPT ![t] = Append(old, new)]
    BY <1>2, <1>3, <2>2, <2>3
  <2>14. anchors'[t] = Append(old, new) /\ \A u \in Tenants \ {t} : anchors'[u] = anchors[u]
    BY <1>1, <2>13 DEF AuditTypeOK
  <2>15. anchors' \in [Tenants -> Seq(Anchors)]
    BY <1>1, <2>12, <2>13 DEF AuditTypeOK
  <2> QED BY <2>1, <2>2, <2>3, <2>4, <2>11, <2>12, <2>14, <2>15
<1>5. PICK u \in Tenants, N \in Nat, H \in {heads[z]} : u = job.tenant /\ N = job.prev /\ H = heads[z]
  BY <1>4
<1>6. /\ new = [prev |-> HashOf(u, N), hash |-> Append(HashOf(u, N), Delta(u, H)), members |-> Delta(u, H)]
      /\ \A t \in Tenants \ {u} : anchors'[t] = anchors[t]
      /\ DOMAIN anchors[u] = 1 .. N /\ DOMAIN anchors'[u] = 1 .. N + 1
      /\ \A n \in 1 .. N : anchors'[u][n] = anchors[u][n]
      /\ anchors'[u][N + 1] = new
  BY <1>3, <1>4, <1>5 DEF AnchorHash
<1>7. \A s : /\ \A t \in Tenants \ {u} : \A n : SealedAt(t, s, n)' = SealedAt(t, s, n)
             /\ \A n \in 1 .. N : SealedAt(u, s, n)' = SealedAt(u, s, n)
             /\ SealedAt(u, s, N + 1)' = {m \in Delta(u, H) : m.stream = s}
  BY <1>6 DEF SealedAt
<1>8. H \in SUBSET Heads /\ \A h \in H : HeadInv(u, h)
  BY <1>1, <1>5 DEF SealInv, AuditTypeOK
<1>9. UNCHANGED <<rows, sealErrors, reading, verdict>>
  BY DEF Seal, logVars
<1>10. AuditTypeOK'
  BY <1>1, <1>2, <1>4, <1>9, DoneWithFacts DEF AuditTypeOK
<1>11. \A v \in Verifiers : ReadInv(v)'
  BY <1>1, <1>9 DEF ReadInv
<1>12. SealInv'
  <2>1. \A y \in Sealers :
          /\ stage'[y] # "insert" => heads'[y] = {}
          /\ \A j \in sealing'[y] : \A h \in heads'[y] : HeadInv(j.tenant, h)'
          /\ \A j, k \in sealing'[y] : j = k
    <3> TAKE y \in Sealers
    <3>1. CASE y = z
      BY <1>1, <1>2, <1>4, <3>1, DoneWithFacts
    <3>2. CASE y # z
      <4>1. heads'[y] = heads[y] /\ sealing'[y] = sealing[y] /\ stage'[y] = stage[y]
        BY <1>1, <1>2, <1>4, <3>2, DoneWithFacts
      <4> QED BY <1>1, <4>1, HeadStill DEF SealInv
    <3> QED BY <3>1, <3>2
  <2>2. \A t \in Tenants : \A n \in DOMAIN anchors'[t] : \A m \in anchors'[t][n].members : HeadInv(t, m)'
    <3> TAKE t \in Tenants
    <3> TAKE n \in DOMAIN anchors'[t]
    <3>1. CASE t # u
      BY <1>1, <1>6, <3>1, HeadStill DEF SealInv
    <3>2. CASE t = u /\ n = N + 1
      BY <1>6, <1>8, <3>2, HeadStill DEF Delta
    <3>3. CASE t = u /\ n # N + 1
      <4>1. n \in 1 .. N
        BY <1>6, <3>3
      <4> QED BY <1>1, <1>6, <3>3, <4>1, HeadStill DEF SealInv
    <3> QED BY <3>1, <3>2, <3>3
  <2>3. ASSUME NEW t \in Tenants, NEW s \in Streams, NEW n \in DOMAIN anchors'[t], SealedAt(t, s, n)' # {}
        PROVE  \E last \in DOMAIN anchors'[t] :
                 SealedAt(t, s, last)' # {} /\ \A k \in DOMAIN anchors'[t] : k > last => SealedAt(t, s, k)' = {}
    <3>1. CASE t # u
      <4>1. DOMAIN anchors'[t] = DOMAIN anchors[t] /\ \A k : SealedAt(t, s, k)' = SealedAt(t, s, k)
        BY <1>6, <1>7, <3>1
      <4> QED BY <1>1, <2>3, <4>1 DEF SealInv
    <3>2. CASE t = u /\ SealedAt(u, s, N + 1)' # {}
      <4>1. N + 1 \in DOMAIN anchors'[t] /\ \A k \in DOMAIN anchors'[t] : ~(k > N + 1)
        BY <1>6, <3>2
      <4> QED BY <3>2, <4>1
    <3>3. CASE t = u /\ SealedAt(u, s, N + 1)' = {}
      <4>1. n \in 1 .. N
        <5>1. n # N + 1
          BY <2>3, <3>3
        <5> QED BY <1>6, <3>3, <5>1
      <4>2. n \in DOMAIN anchors[u] /\ SealedAt(u, s, n) # {}
        BY <1>6, <1>7, <2>3, <3>3, <4>1
      <4>3. PICK last \in DOMAIN anchors[u] :
              SealedAt(u, s, last) # {} /\ \A k \in DOMAIN anchors[u] : k > last => SealedAt(u, s, k) = {}
        BY <1>1, <4>2 DEF SealInv
      <4>4. last \in DOMAIN anchors'[u] /\ last \in 1 .. N /\ SealedAt(u, s, last)' # {}
        <5>1. last \in 1 .. N
          BY <1>6
        <5>2. last \in DOMAIN anchors'[u]
          BY <1>6, <5>1
        <5>3. SealedAt(u, s, last)' = SealedAt(u, s, last)
          BY <1>7, <5>1
        <5> QED BY <4>3, <5>1, <5>2, <5>3
      <4>5. ASSUME NEW k \in DOMAIN anchors'[u], k > last PROVE SealedAt(u, s, k)' = {}
        <5>1. CASE k = N + 1
          BY <3>3, <5>1
        <5>2. CASE k # N + 1
          <6>1. k \in 1 .. N
            BY <1>6, <5>2
          <6> QED BY <1>6, <1>7, <4>3, <4>5, <6>1
        <5> QED BY <5>1, <5>2
      <4> QED BY <3>3, <4>4, <4>5
    <3> QED BY <3>1, <3>2, <3>3
  <2> QED BY <2>1, <2>2, <2>3 DEF SealInv
<1>13. AnchorsForward'
  <2>1. ASSUME NEW t \in Tenants PROVE ChainHolds(t)'
    <3>1. CASE t # u
      BY <1>1, <1>6, <3>1 DEF AnchorsForward, ChainHolds, HashOf
    <3>2. CASE t = u
      <4>1. ASSUME NEW n \in 0 .. N PROVE HashOf(u, n)' = HashOf(u, n)
        <5>1. CASE n = 0
          BY <5>1 DEF HashOf
        <5>2. CASE n # 0
          <6>1. n \in 1 .. N
            BY <5>2
          <6>2. anchors'[u][n] = anchors[u][n]
            BY <1>6, <6>1
          <6> QED BY <5>2, <6>2 DEF HashOf
        <5> QED BY <5>1, <5>2
      <4>2. ASSUME NEW n \in 1 .. N
            PROVE  /\ anchors'[u][n].prev = HashOf(u, n - 1)'
                   /\ anchors'[u][n].hash = Append(HashOf(u, n - 1)', anchors'[u][n].members)
        <5>1. n - 1 \in 0 .. N
          OBVIOUS
        <5>2. HashOf(u, n - 1)' = HashOf(u, n - 1)
          BY <4>1, <5>1
        <5> QED BY <1>1, <1>6, <5>2, ZenonT(60) DEF AnchorsForward, ChainHolds, AnchorHash
      <4>3. HashOf(u, N)' = HashOf(u, N) /\ (N + 1) - 1 = N
        BY <4>1
      <4>4. ASSUME NEW n \in 1 .. N + 1
            PROVE  /\ anchors'[u][n].prev = HashOf(u, n - 1)'
                   /\ anchors'[u][n].hash = Append(HashOf(u, n - 1)', anchors'[u][n].members)
        <5>1. CASE n = N + 1
          BY <1>6, <4>3, <5>1
        <5>2. CASE n # N + 1
          BY <4>2, <5>2
        <5> QED BY <5>1, <5>2
      <4> QED BY <1>6, <3>2, <4>4 DEF ChainHolds, AnchorHash
    <3> QED BY <3>1, <3>2
  <2>2. ASSUME NEW t \in Tenants, NEW m \in DOMAIN anchors'[t], NEW n \in DOMAIN anchors'[t], NEW s \in Streams,
               m < n, NEW a \in SealedAt(t, s, m)', NEW b \in SealedAt(t, s, n)'
        PROVE  a.version < b.version
    <3>1. CASE t # u
      <4>1. m \in DOMAIN anchors[t] /\ n \in DOMAIN anchors[t] /\ a \in SealedAt(t, s, m) /\ b \in SealedAt(t, s, n)
        BY <1>6, <1>7, <3>1
      <4> QED BY <1>1, <2>2, <4>1 DEF AnchorsForward
    <3>2. CASE t = u /\ n # N + 1
      <4>1. m \in 1 .. N /\ n \in 1 .. N
        BY <1>6, <2>2, <3>2
      <4>2. m \in DOMAIN anchors[t] /\ n \in DOMAIN anchors[t] /\ a \in SealedAt(t, s, m) /\ b \in SealedAt(t, s, n)
        BY <1>6, <1>7, <3>2, <4>1
      <4> QED BY <1>1, <2>2, <4>2 DEF AnchorsForward
    <3>3. CASE t = u /\ n = N + 1
      <4>1. m \in 1 .. N
        BY <1>6, <2>2, <3>3
      <4>2. a \in SealedAt(u, s, m) /\ b \in Delta(u, H) /\ b.stream = s
        BY <1>7, <3>3, <4>1
      <4>3. PICK last \in DOMAIN anchors[u] :
              SealedAt(u, s, last) # {} /\ \A k \in DOMAIN anchors[u] : k > last => SealedAt(u, s, k) = {}
        BY <1>1, <1>6, <4>1, <4>2, ZenonT(60) DEF SealInv
      <4>4. PICK x : x \in SealedAt(u, s, last)
        BY <4>3
      <4>5. \A y \in SealedAt(u, s, last) : y \in LatestSealed(u, s)
        BY <4>3 DEF LatestSealed
      <4>6. \A y \in SealedAt(u, s, last) : y.version < b.version
        BY <4>2, <4>5, <1>8 DEF Delta, Heads
      <4>7. CASE m = last
        BY <4>2, <4>6, <4>7
      <4>8. CASE m < last
        <5>1. a.version < x.version
          BY <1>1, <1>6, <4>1, <4>2, <4>3, <4>4, <4>8 DEF AnchorsForward
        <5>2. a.version \in Nat /\ x.version \in Nat /\ b.version \in Nat
          <6>1. anchors[u] \in Seq(Anchors)
            BY <1>1 DEF AuditTypeOK
          <6>2. anchors[u][m] \in Anchors /\ anchors[u][last] \in Anchors
            BY <1>6, <4>1, <6>1
          <6> QED BY <1>8, <4>2, <4>4, <6>2 DEF SealedAt, Anchors, Heads, Delta
        <5>3. x.version < b.version
          BY <4>4, <4>6
        <5> QED BY <5>1, <5>2, <5>3
      <4>9. ~(m > last)
        BY <1>6, <4>1, <4>2, <4>3
      <4> QED BY <1>6, <4>1, <4>3, <4>7, <4>8, <4>9
    <3> QED BY <3>1, <3>2, <3>3
  <2> QED BY <2>1, <2>2 DEF AnchorsForward
<1> QED BY <1>10, <1>11, <1>12, <1>13 DEF AuditAll, AuditInv

LEMMA VerdictIs == \A rs, h : StreamVerdict(rs, h) \in {"ok", "broken"}
BY DEF StreamVerdict

LEMMA VerifierKeeps ==
  ASSUME LogInv, AuditAll, UNCHANGED logVars, NEW v \in Verifiers, VerifierStep(v)
  PROVE  AuditAll'
<1>1. AuditTypeOK /\ SealInv /\ AnchorsForward /\ \A u \in Verifiers : ReadInv(u)
  BY DEF AuditAll, AuditInv
<1>2. UNCHANGED <<anchors, stage, round, sealing, heads, sealErrors>> /\ UNCHANGED rows
  BY DEF VerifierStep, Verify, ReadEvents, logVars
<1>3. AnchorsForward'
  BY <1>1, <1>2 DEF AnchorsForward, ChainHolds, HashOf, SealedAt
<1>4. SealInv'
  <2>1. \A t, s, n : SealedAt(t, s, n)' = SealedAt(t, s, n)
    BY <1>2 DEF SealedAt
  <2>2. \A z \in Sealers : \A job \in sealing[z] : \A h \in heads[z] : HeadInv(job.tenant, h)'
    BY <1>1, HeadStill DEF SealInv
  <2>3. \A t \in Tenants : \A n \in DOMAIN anchors[t] : \A m \in anchors[t][n].members : HeadInv(t, m)'
    BY <1>1, HeadStill DEF SealInv
  <2> QED BY <1>1, <1>2, <2>1, <2>2, <2>3 DEF SealInv
<1>5. reading' \in [Verifiers -> SUBSET [stream : Streams, rows : SUBSET Rows]] /\ \A u \in Verifiers : ReadInv(u)'
  <2>1. CASE Verify(v)
    <3>1. reading' = [reading EXCEPT ![v] = {}]
      BY <2>1 DEF Verify
    <3> QED BY <1>1, <1>2, <3>1 DEF AuditTypeOK, ReadInv
  <2>2. ASSUME NEW s \in Streams, ReadEvents(v, s)
        PROVE  reading' \in [Verifiers -> SUBSET [stream : Streams, rows : SUBSET Rows]] /\ \A u \in Verifiers : ReadInv(u)'
    <3>1. PICK read : read = [stream |-> s, rows |-> {r \in rows : r.stream = s}]
      OBVIOUS
    <3>2. reading' = [reading EXCEPT ![v] = {read}]
      BY <2>2, <3>1 DEF ReadEvents
    <3>3. read \in [stream : Streams, rows : SUBSET Rows]
      BY <3>1 DEF LogInv, LogTypeOK
    <3>4. reading' \in [Verifiers -> SUBSET [stream : Streams, rows : SUBSET Rows]]
      BY <1>1, <3>2, <3>3 DEF AuditTypeOK
    <3>5. reading'[v] = {read} /\ \A u \in Verifiers \ {v} : reading'[u] = reading[u]
      BY <1>1, <3>2 DEF AuditTypeOK
    <3>6. ReadInv(v)'
      BY <1>2, <3>1, <3>5 DEF ReadInv
    <3>7. ASSUME NEW u \in Verifiers \ {v} PROVE ReadInv(u)'
      BY <1>1, <1>2, <3>5 DEF ReadInv
    <3> QED BY <3>4, <3>6, <3>7
  <2> QED BY <2>1, <2>2 DEF VerifierStep
<1>6. verdict' \in [Verifiers -> {"none", "ok", "broken"}]
  <2>1. \/ verdict' = [verdict EXCEPT ![v] = "none"]
        \/ \E read \in reading[v] : verdict' = [verdict EXCEPT ![v] = StreamVerdict(read.rows, head[read.stream])]
    BY DEF VerifierStep, Verify, ReadEvents
  <2>2. \E x \in {"none", "ok", "broken"} : verdict' = [verdict EXCEPT ![v] = x]
    BY <2>1, VerdictIs
  <2> QED BY <1>1, <2>2 DEF AuditTypeOK
<1>7. AuditTypeOK'
  BY <1>1, <1>2, <1>5, <1>6 DEF AuditTypeOK
<1> QED BY <1>3, <1>4, <1>5, <1>7 DEF AuditAll, AuditInv

-----------------------------------------------------------------------------
(* The invariant of the whole specification.                               *)

LEMMA InitHolds == Init => IInv
BY LogInitHolds, ReadersInit, AuditInitHolds DEF IInv, ProjectionInv, AuditAll

LEMMA NextKeeps == IInv /\ [Next]_vars => IInv'
<1> SUFFICES ASSUME IInv, [Next]_vars PROVE IInv'
  OBVIOUS
<1>1. LogInv /\ ProjectionInv /\ AuditAll
  BY DEF IInv, ProjectionInv, AuditAll
<1>2. CASE LogStep
  <2>1. LogOrQuiet /\ UNCHANGED catchUpVars /\ UNCHANGED auditVars
    BY <1>2 DEF LogOrQuiet, LogStep
  <2>2. LogInv'
    BY <1>1, <1>2, LogStepKeeps
  <2>3. ProjectionInv'
    BY <1>1, <2>1, ReadersLog
  <2>4. AuditAll'
    BY <1>1, <2>1, AuditLog
  <2> QED BY <2>2, <2>3, <2>4 DEF IInv, ProjectionInv, AuditAll
<1>3. ASSUME NEW p \in Projectors, ProjectorMove(p) PROVE IInv'
  <2>1. LogOrQuiet /\ UNCHANGED logVars /\ UNCHANGED auditVars
    BY <1>3 DEF LogOrQuiet, ProjectorMove
  <2>2. LogInv'
    BY <1>1, <2>1, LogStutterKeeps
  <2>3. ProjectionInv'
    BY <1>1, <1>3, ProjectorKeeps
  <2>4. AuditAll'
    BY <1>1, <2>1, AuditLog
  <2> QED BY <2>2, <2>3, <2>4 DEF IInv, ProjectionInv, AuditAll
<1>4. CASE AuditStep /\ UNCHANGED <<logVars, catchUpVars>>
  <2>1. LogOrQuiet /\ UNCHANGED logVars /\ UNCHANGED catchUpVars
    BY <1>4 DEF LogOrQuiet
  <2>2. LogInv'
    BY <1>1, <2>1, LogStutterKeeps
  <2>3. ProjectionInv'
    BY <1>1, <2>1, ReadersLog
  <2>4. AuditAll'
    <3>1. ASSUME NEW z \in Sealers, SealerStep(z) \/ SealFails(z) PROVE AuditAll'
      BY <1>1, <2>1, <3>1, SealerMoves, SealKeeps DEF SealerStep
    <3>2. ASSUME NEW v \in Verifiers, VerifierStep(v) PROVE AuditAll'
      BY <1>1, <2>1, <3>2, VerifierKeeps
    <3> QED BY <1>4, <3>1, <3>2 DEF AuditStep
  <2> QED BY <2>2, <2>3, <2>4 DEF IInv, ProjectionInv, AuditAll
<1>5. CASE UNCHANGED vars
  <2>1. LogOrQuiet /\ UNCHANGED logVars /\ UNCHANGED catchUpVars /\ UNCHANGED auditVars
    BY <1>5 DEF LogOrQuiet, vars
  <2>2. LogInv'
    BY <1>1, <2>1, LogStutterKeeps
  <2>3. ProjectionInv'
    BY <1>1, <2>1, ReadersLog
  <2>4. AuditAll'
    BY <1>1, <2>1, AuditLog
  <2> QED BY <2>2, <2>3, <2>4 DEF IInv, ProjectionInv, AuditAll
<1> QED BY <1>2, <1>3, <1>4, <1>5 DEF Next

(* The inductive invariant of the log and all its readers.                 *)
THEOREM Invariance == Spec => []IInv
BY InitHolds, NextKeeps, PTL DEF Spec

(* Every variable of the log and its readers has its type.                 *)
THEOREM TypeCorrect == Spec => []TypeOK
<1>1. IInv => TypeOK
  BY DEF IInv, LogInv, ReadersInv, AuditInv, TypeOK
<1> QED BY <1>1, Invariance, PTL

(* However many projectors run, roll back, crash or lose the answer to a   *)
(* commit, a projector's writes for an event commit at most once.          *)
THEOREM ProjectedOnce == Spec => []OncePerProjector
<1>1. IInv => OncePerProjector
  BY DEF IInv
<1> QED BY <1>1, Invariance, PTL

(* A checkpoint passes nothing that was not handled, dismissed or          *)
(* committed after a later position.                                       *)
THEOREM NothingElseSkipped == Spec => []SkipsOnlyLate
<1>1. IInv => SkipsOnlyLate
  BY DEF IInv
<1> QED BY <1>1, Invariance, PTL

(* Anchors form one advancing chain per tenant, and verifyAnchors raises   *)
(* an alarm only if sealed events left the table or chaining was off for   *)
(* some of the stream's appends.                                           *)
THEOREM SealsSound == Spec => []AnchorsSound
<1>1. ASSUME IInv PROVE AnchorsSound
  <2>1. AnchorsForward /\ SealInv /\ LogInv
    BY <1>1 DEF IInv, AuditInv
  <2>2. ASSUME NEW t \in Tenants, ~AnchorsVerify(t)
        PROVE  \E s \in Streams :
                 /\ TenantOf[s] = t
                 /\ ChainedRows(s) \cap detached # {} \/ Mixed({r \in rows \cup detached : r.stream = s})
    <3>1. PICK s \in Streams : \E m \in LatestSealed(t, s) : ~StillThere(m)
      BY <2>1, <2>2 DEF AnchorsVerify, AnchorsForward
    <3>0. PICK m \in LatestSealed(t, s) : ~StillThere(m)
      BY <3>1
    <3>2. m.stream = s /\ HeadInv(t, m)
      BY <2>1, <3>0 DEF LatestSealed, SealedAt, SealInv
    <3>3. TenantOf[s] = t /\ m.head # NoHash
      BY <3>2 DEF HeadInv
    <3>4. PICK r \in Committed(s) :
            /\ r.version = m.version
            /\ r.hash = m.head \/ (r.hash = NoHash /\ \E q \in ChainedRows(s) : q.version < r.version)
      BY <3>2 DEF HeadInv
    <3>5. CASE r.hash = m.head
      <4>1. r \notin rows
        BY <3>0, <3>2, <3>4, <3>5 DEF StillThere, Committed
      <4>2. r \in ChainedRows(s) /\ r \in detached
        BY <3>3, <3>4, <3>5, <4>1 DEF Committed, ChainedRows
      <4> QED BY <3>3, <4>2
    <3>6. CASE r.hash = NoHash /\ \E q \in ChainedRows(s) : q.version < r.version
      <4>1. PICK q \in ChainedRows(s) : q.version < r.version
        BY <3>6
      <4>2. /\ q \in {x \in rows \cup detached : x.stream = s} /\ r \in {x \in rows \cup detached : x.stream = s}
            /\ q.hash # NoHash
        BY <3>4 DEF Committed, ChainedRows
      <4>3. Mixed({x \in rows \cup detached : x.stream = s})
        BY <3>6, <4>1, <4>2 DEF Mixed
      <4> QED BY <3>3, <4>3
    <3> QED BY <3>4, <3>5, <3>6
  <2> QED BY <2>1, <2>2 DEF AnchorsSound, AnchorAlarmHasCause
<1> QED BY <1>1, Invariance, PTL

-----------------------------------------------------------------------------
(* verifyStream.                                                           *)

\* What a verifier has read is the lower part of what there is, and nothing it
\* read comes after what was detached.
LEMMA ReadFacts ==
  ASSUME LogInv, NEW v \in Verifiers, ReadInv(v), NEW read \in reading[v], NEW s \in Streams, s = read.stream
  PROVE  /\ read.rows \subseteq Committed(s)
         /\ \A q \in read.rows, r \in Committed(s) \ read.rows :
              (r \in detached /\ r.version < q.version) \/ (r \in rows /\ q.version < r.version)
<1>1. read.rows \subseteq {r \in rows : r.stream = s}
  BY DEF ReadInv
<1>2. read.rows \subseteq Committed(s)
  BY <1>1 DEF Committed
<1>3. ASSUME NEW q \in read.rows, NEW r \in Committed(s) \ read.rows
      PROVE  (r \in detached /\ r.version < q.version) \/ (r \in rows /\ q.version < r.version)
  <2>1. CASE r \in rows
    BY <1>3, <2>1 DEF ReadInv, Committed
  <2>2. CASE r \in detached
    <3>1. r.pos < q.pos
      BY <1>1, <2>2 DEF LogInv, RowsInv
    <3>2. r.version < q.version
      BY <1>2, <3>1 DEF LogInv, StreamInv
    <3> QED BY <2>2, <3>2
  <2> QED BY <2>1, <2>2 DEF Committed
<1> QED BY <1>2, <1>3

\* A verdict "ok" means that what is protected is all there.
LEMMA OkIsSound ==
  ASSUME LogInv, NEW v \in Verifiers, ReadInv(v), NEW read \in reading[v], NEW s \in Streams, s = read.stream,
         StreamVerdict(read.rows, head[s]) = "ok"
  PROVE  ~Mixed(read.rows) /\ ChainedRows(s) \subseteq read.rows
<1> DEFINE R == read.rows
<1>1. /\ R \subseteq Committed(s)
      /\ \A q \in R, r \in Committed(s) \ R :
           (r \in detached /\ r.version < q.version) \/ (r \in rows /\ q.version < r.version)
  BY ReadFacts
<1>2. \A r \in Committed(s) : r.hash # NoHash => r \in ChainedRows(s)
  BY DEF Committed, ChainedRows
<1>3. CASE ChainedIn(R) = {} /\ head[s] = NoHash
  <2>1. ChainedRows(s) = {}
    BY <1>3 DEF LogInv, ChainInv
  <2> QED BY <1>3, <2>1 DEF ChainedIn, Mixed
<1>4. CASE \E first \in ChainedIn(R) :
             (\A r \in ChainedIn(R) : first.version <= r.version) /\ Follows(R, first, head[s])
  <2>1. PICK first \in ChainedIn(R) :
          (\A r \in ChainedIn(R) : first.version <= r.version) /\ Follows(R, first, head[s])
    BY <1>4
  <2>2. first \in R /\ first \in ChainedRows(s) /\ first \in Committed(s)
    BY <1>1, <1>2 DEF ChainedIn
  <2> DEFINE tail == {r \in R : r.version >= first.version}
  <2>3. /\ \A r \in tail : r.hash # NoHash
        /\ first.hash = Link(Genesis, first.pos)
        /\ \E last \in tail : last.hash = head[s] /\ \A r \in tail : r.version <= last.version
    BY <2>1, <2>2, CommittedFacts DEF Follows
  <2>4. PICK last \in tail : last.hash = head[s]
    BY <2>3
  <2>5. ~Mixed(R)
    <3> SUFFICES ASSUME NEW a \in R, NEW b \in R, a.hash # NoHash, b.hash = NoHash, a.version < b.version
                 PROVE  FALSE
      BY DEF Mixed
    <3>1. first.version <= a.version
      BY <2>1 DEF ChainedIn
    <3>2. b \in tail
      BY <1>1, <2>2, <3>1, CommittedFacts
    <3> QED BY <2>3, <3>2
  <2>6. head[s] # NoHash
    BY <2>2 DEF LogInv, ChainInv
  <2>7. PICK lo \in ChainedRows(s), hi \in ChainedRows(s) :
          /\ lo.hash = Link(Genesis, lo.pos) /\ hi.hash = head[s]
          /\ \A r \in ChainedRows(s) : lo.version <= r.version /\ r.version <= hi.version
    BY <2>6 DEF LogInv, ChainInv
  <2>8. \A q, r \in ChainedRows(s) : /\ q.version < r.version => Len(q.hash) < Len(r.hash)
                                     /\ q.version = r.version => q = r
                                     /\ q.version \in Nat /\ Len(q.hash) \in Nat
    BY CommittedFacts DEF LogInv, ChainInv
  <2>9. last = hi
    <3>1. last \in ChainedRows(s)
      BY <1>1, <1>2, <2>3
    <3>2. last.version <= hi.version /\ Len(last.hash) = Len(hi.hash)
      BY <2>4, <2>7, <3>1
    <3>3. ~(last.version < hi.version)
      BY <2>8, <3>1, <3>2
    <3> QED BY <2>8, <3>1, <3>2, <3>3
  <2>10. lo = first
    <3>1. Len(lo.hash) = 1 /\ Len(first.hash) = 1
      BY <2>3, <2>7 DEF Link, Genesis
    <3>2. lo.version <= first.version
      BY <2>2, <2>7
    <3>3. ~(lo.version < first.version)
      BY <2>2, <2>8, <3>1
    <3> QED BY <2>2, <2>8, <3>2, <3>3
  <2>11. ASSUME NEW c \in ChainedRows(s), c \notin R PROVE FALSE
    <3>1. first.version <= c.version /\ c.version <= last.version
      BY <2>7, <2>9, <2>10
    <3>2. c \in Committed(s) \ R /\ last \in R
      BY <2>11, CommittedFacts
    <3>3. (c \in detached /\ c.version < first.version) \/ (c \in rows /\ first.version < c.version)
      BY <1>1, <2>2, <3>2
    <3>4. (c \in detached /\ c.version < last.version) \/ (c \in rows /\ last.version < c.version)
      BY <1>1, <3>2
    <3>5. c \notin rows \/ c \notin detached
      BY DEF LogInv, RowsInv, LogTypeOK, Rows, Positions
    <3>6. c.version \in Nat /\ first.version \in Nat /\ last.version \in Nat
      BY <1>1, <2>2, <3>2, CommittedFacts
    <3> QED BY <3>1, <3>3, <3>4, <3>5, <3>6
  <2> QED BY <2>5, <2>11
<1>5. "ok" # "broken"
  OBVIOUS
<1> QED BY <1>3, <1>4, <1>5 DEF StreamVerdict

\* If what is protected is all there the walk succeeds.
LEMMA SoundIsOk ==
  ASSUME LogInv, NEW v \in Verifiers, ReadInv(v), NEW read \in reading[v], NEW s \in Streams, s = read.stream,
         ~Mixed(read.rows), ChainedRows(s) \subseteq read.rows
  PROVE  StreamVerdict(read.rows, head[s]) = "ok"
<1> DEFINE R == read.rows
<1>1. /\ R \subseteq Committed(s)
      /\ \A q \in R, r \in Committed(s) \ R :
           (r \in detached /\ r.version < q.version) \/ (r \in rows /\ q.version < r.version)
  BY ReadFacts
<1>2. \A r \in Committed(s) : r.hash # NoHash => r \in ChainedRows(s)
  BY DEF Committed, ChainedRows
<1>3. CASE head[s] = NoHash
  <2>1. ChainedRows(s) = {}
    BY <1>3 DEF LogInv, ChainInv
  <2>2. ChainedIn(R) = {}
    BY <1>1, <1>2, <2>1 DEF ChainedIn
  <2> QED BY <1>3, <2>2 DEF StreamVerdict
<1>4. CASE head[s] # NoHash
  <2>1. PICK first \in ChainedRows(s), last \in ChainedRows(s) :
          /\ first.hash = Link(Genesis, first.pos) /\ last.hash = head[s]
          /\ \A r \in ChainedRows(s) : first.version <= r.version /\ r.version <= last.version
    BY <1>4 DEF LogInv, ChainInv
  <2>2. first.hash # NoHash /\ first \in ChainedIn(R) /\ first \in R /\ last \in R
    BY DEF ChainedRows, ChainedIn
  <2>3. \A r \in ChainedIn(R) : r \in ChainedRows(s)
    BY <1>1, <1>2 DEF ChainedIn
  <2> DEFINE tail == {r \in R : r.version >= first.version}
  <2>4. ASSUME NEW r \in tail PROVE r.hash # NoHash /\ r \in ChainedRows(s)
    <3>1. r.hash # NoHash
      <4> SUFFICES ASSUME r.hash = NoHash PROVE FALSE
        OBVIOUS
      <4>1. r # first /\ r \in Committed(s) /\ first \in Committed(s)
        BY <1>1, <2>2
      <4>2. r.version # first.version /\ r.version \in Nat /\ first.version \in Nat
        BY <4>1, CommittedFacts
      <4>3. first.version < r.version
        BY <4>2
      <4> QED BY <2>2, <4>3 DEF Mixed
    <3> QED BY <1>1, <1>2, <3>1
  <2>5. ASSUME NEW r \in tail, r # first
        PROVE  \E q \in tail : q.version = r.version - 1 /\ r.hash = Link(q.hash, r.pos)
    <3>1. r \in Committed(s) /\ first \in Committed(s)
      BY <1>1, <2>2
    <3>2. /\ r.version \in Nat /\ first.version \in Nat /\ first.version > 0 /\ r.version <= version[s]
          /\ version[s] \in Nat /\ r.version # first.version
      BY <2>5, <3>1, CommittedFacts
    <3>3. r.version - 1 \in 1 .. version[s] /\ r.version - 1 >= first.version /\ r.version - 1 < r.version
      BY <3>2
    <3>4. PICK q \in Committed(s) : q.version = r.version - 1
      BY <3>3 DEF LogInv, StreamInv
    <3>5. q \in R
      <4> SUFFICES ASSUME q \notin R PROVE FALSE
        OBVIOUS
      <4>1. /\ (q \in detached /\ q.version < r.version) \/ (q \in rows /\ r.version < q.version)
            /\ (q \in detached /\ q.version < first.version) \/ (q \in rows /\ first.version < q.version)
        BY <1>1, <2>2
      <4>2. q \notin rows \/ q \notin detached
        BY DEF LogInv, RowsInv, LogTypeOK, Rows, Positions
      <4> QED BY <3>2, <3>3, <3>4, <4>1, <4>2
    <3>6. q \in tail
      BY <3>3, <3>4, <3>5
    <3>7. r.version = q.version + 1
      BY <3>2, <3>4
    <3>8. q \in ChainedRows(s) /\ r \in ChainedRows(s)
      BY <2>4, <3>6
    <3>9. r.hash = Link(q.hash, r.pos)
      BY <3>7, <3>8 DEF LogInv, ChainInv
    <3> QED BY <3>4, <3>6, <3>9
  <2>6. last \in tail /\ \A r \in tail : r.version <= last.version
    BY <2>1, <2>2, <2>4, CommittedFacts
  <2>7. Follows(R, first, head[s])
    BY <2>1, <2>4, <2>5, <2>6 DEF Follows
  <2> QED BY <2>1, <2>2, <2>3, <2>7 DEF StreamVerdict
<1> QED BY <1>3, <1>4

(* verifyStream is exact: it says "ok" if and only if no unprotected event *)
(* follows a protected one and nothing protected is missing from what it   *)
(* read, whatever was appended or detached before, between and after.      *)
THEOREM AuditsExactly == Spec => AuditExact
<1>1. ASSUME IInv, Next
      PROVE  \A v \in Verifiers : \A read \in reading[v] : reading'[v] = {} =>
               (verdict'[v] = "ok" <=> ~Mixed(read.rows) /\ ChainedRows(read.stream) \subseteq read.rows)
  <2> TAKE v \in Verifiers
  <2> TAKE read \in reading[v]
  <2> HAVE reading'[v] = {}
  <2>1. LogInv /\ ReadInv(v) /\ AuditTypeOK
    BY <1>1 DEF IInv, AuditInv
  <2>2. reading[v] = {read} /\ reading' # reading
    BY <2>1 DEF ReadInv
  <2>3. PICK u \in Verifiers : VerifierStep(u)
    BY <1>1, <2>2 DEF Next, LogStep, ProjectorMove, AuditStep, auditVars, SealerStep, SealFails,
                      DiscoverChained, ReadAnchor, ReadHeads, Seal, SealNothing
  <2>4. Verify(v)
    <3>1. ASSUME NEW s \in Streams, ReadEvents(u, s) PROVE FALSE
      <4>1. reading[u] = {} /\ reading' = [reading EXCEPT ![u] = {[stream |-> s, rows |-> {r \in rows : r.stream = s}]}]
        BY <3>1 DEF ReadEvents
      <4>2. u # v
        BY <2>2, <4>1
      <4>3. reading'[v] = reading[v]
        BY <2>1, <4>1, <4>2 DEF AuditTypeOK
      <4> QED BY <2>2, <4>3
    <3>2. Verify(u)
      BY <2>3, <3>1 DEF VerifierStep
    <3>3. reading' = [reading EXCEPT ![u] = {}]
      BY <3>2 DEF Verify
    <3>4. u = v
      <4> SUFFICES ASSUME u # v PROVE FALSE
        OBVIOUS
      <4>1. reading'[v] = reading[v]
        BY <2>1, <3>3 DEF AuditTypeOK
      <4> QED BY <2>2, <4>1
    <3> QED BY <3>2, <3>4
  <2>5. verdict' = [verdict EXCEPT ![v] = StreamVerdict(read.rows, head[read.stream])]
    BY <2>2, <2>4 DEF Verify
  <2>6. verdict'[v] = StreamVerdict(read.rows, head[read.stream])
    BY <2>1, <2>5 DEF AuditTypeOK
  <2>7. read.stream \in Streams
    BY <2>1 DEF AuditTypeOK
  <2> QED BY <2>1, <2>6, <2>7, OkIsSound, SoundIsOk
<1>2. IInv /\ [Next]_vars => [\A v \in Verifiers : \A read \in reading[v] : reading'[v] = {} =>
               (verdict'[v] = "ok" <=> ~Mixed(read.rows) /\ ChainedRows(read.stream) \subseteq read.rows)]_vars
  BY <1>1
<1> QED BY <1>2, Invariance, PTL DEF Spec, AuditExact

=============================================================================
