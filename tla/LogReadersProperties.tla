------------------------ MODULE LogReadersProperties ------------------------
(* What is claimed of the readers of the log.                              *)
EXTENDS LogReaders

Handled(pos) == \E p \in Projectors : effects[p][pos] > 0

(* A projector's writes for an event commit at most once, over rollbacks,  *)
(* crashes and ambiguous commits; only a second projector can repeat them. *)
OncePerProjector == \A p \in Projectors, pos \in Positions : effects[p][pos] <= 1

(* An event behind its tenant's checkpoint has been handled, unless it was *)
(* dismissed or its transaction committed after one with a later position. *)
SkipsOnlyLate ==
  \A r \in rows :
    r.pos <= ckpt[TenantOf[r.stream]] /\ r.pos \notin late \cup dismissed => Handled(r.pos)

(* When no more is appended every event of the log has been handled, in    *)
(* the end and whatever happens to other tenants: a handler that can never *)
(* succeed stalls its own tenant only.                                     *)
Stalled(t) == \E q \in TenantRows(t) : q.pos \in Poison

CaughtUp ==
  <>[](deployed \cap Projectors # {} =>
         \A r \in rows :
           r.pos \in late \cup dismissed \/ Stalled(TenantOf[r.stream]) \/ Handled(r.pos))

ChainedRows(s) == {r \in rows \cup detached : r.stream = s /\ r.hash # NoHash}

\* An append with chaining off follows one with chaining on.
Mixed(rs) == \E a, b \in rs : a.hash # NoHash /\ b.hash = NoHash /\ a.version < b.version

(* verifyStream is exact: it says broken if and only if protected events   *)
(* are gone, an unprotected one follows them, or a protected one was       *)
(* committed between its two statements.                                   *)
AuditExact ==
  [][\A v \in Verifiers : \A read \in reading[v] : reading'[v] = {} =>
       (verdict'[v] = "ok" <=>
          ~Mixed(read.rows) /\ ChainedRows(read.stream) \subseteq read.rows)]_vars

(* verifyAnchors does not raise a false alarm, whichever appends and       *)
(* sealers race: it fails only if a stream was also written with chaining  *)
(* off, or sealed events have left the table.                              *)
AnchorAlarmHasCause ==
  \A t \in Tenants : ~AnchorsVerify(t) =>
    \E s \in Streams :
      /\ TenantOf[s] = t
      /\ ChainedRows(s) \cap detached # {} \/ Mixed({r \in rows \cup detached : r.stream = s})

(* The anchors of a tenant are one chain in which a stream only advances,  *)
(* although two sealers read and insert at the same time.                  *)
AnchorsForward ==
  \A t \in Tenants :
    /\ ChainHolds(t)
    /\ \A m, n \in DOMAIN anchors[t], s \in Streams : m < n =>
         \A a \in SealedAt(t, s, m), b \in SealedAt(t, s, n) : a.version < b.version

(* The anchors are sound: one advancing chain per tenant, and no alarm     *)
(* without a cause.                                                        *)
AnchorsSound == AnchorsForward /\ AnchorAlarmHasCause

(* When no more is appended every protected stream is sealed at its last   *)
(* version, in the end and although sealers lose races and transactions.   *)
HeadsSealed ==
  <>[](deployed \cap Sealers # {} =>
         \A s \in Streams : head[s] # NoHash =>
           \E m \in LatestSealed(TenantOf[s], s) : m.version = version[s])

-----------------------------------------------------------------------------
(* The inductive invariants behind the theorems of LogReadersProofs.       *)

Committed(s) == {r \in rows \cup detached : r.stream = s}

\* A position names one event, and what a detached partition took lies behind
\* all that stays or will come.
RowsInv ==
  /\ \A r \in rows \cup detached : r.pos < nextPos
  /\ \A q, r \in rows \cup detached : q.pos = r.pos => q = r
  /\ \A r \in rows, d \in detached : d.pos < r.pos

\* A stream has all versions up to its own, at positions that grow with them.
StreamInv(s) ==
  /\ \A r \in Committed(s) : r.version <= version[s]
  /\ \A n \in 1 .. version[s] : \E r \in Committed(s) : r.version = n
  /\ \A q, r \in Committed(s) : q.version < r.version <=> q.pos < r.pos

\* The hashes of a stream grow from genesis to the stored head, each by its event.
ChainInv(s) ==
  /\ \A q, r \in ChainedRows(s) :
       /\ q.version < r.version => Len(q.hash) < Len(r.hash)
       /\ r.version = q.version + 1 => r.hash = Link(q.hash, r.pos)
  /\ IF head[s] = NoHash THEN ChainedRows(s) = {}
     ELSE \E first, last \in ChainedRows(s) :
            /\ first.hash = Link(Genesis, first.pos) /\ last.hash = head[s]
            /\ \A r \in ChainedRows(s) : first.version <= r.version /\ r.version <= last.version

\* A writer's stream is locked: its rows still follow what is committed.
TxInv(w) ==
  \A open \in tx[w] :
    /\ \E first, n \in Positions, chained \in BOOLEAN :
         /\ open = Appended(open.stream, chained, first, n)
         /\ first + n <= nextPos
         /\ \A r \in Committed(open.stream) \cup detached : r.pos < first
    /\ \A v \in Writers \ {w} : \A other \in tx[v] :
         other.stream # open.stream /\ \A q \in other.rows, r \in open.rows : q.pos # r.pos
    /\ \A q \in rows, r \in open.rows : q.pos # r.pos

LogInv ==
  /\ LogTypeOK /\ RowsInv
  /\ \A s \in Streams : StreamInv(s) /\ ChainInv(s)
  /\ \A w \in Writers : TxInv(w)

\* Where a projector is and what it has open there.
PhaseInv(p) ==
  /\ phase[p] \in {"idle", "pass"} => tenant[p] = {} /\ wrote[p] = NoRow
  /\ phase[p] \notin {"idle", "pass"} => \E t \in Tenants : tenant[p] = {t}
  /\ phase[p] \notin {"set", "commit"} => batch[p] = {}
  /\ phase[p] = "insert" => wrote[p] = NoRow
  /\ phase[p] = "commit" => \A pos \in batch[p] : pos <= wrote[p]

Logged(t, pos) == \E r \in rows \cup detached : r.pos = pos /\ TenantOf[r.stream] = t

\* A transaction works behind nothing its projector has handled, on a row of
\* the checkpoint table that is its own once it wrote it.
BatchInv(p) ==
  \A t \in tenant[p] :
    /\ from[p] <= Position(t)
    /\ wrote[p] # NoRow =>
         /\ ckpt[t] <= wrote[p]
         /\ \A q \in Projectors \ {p} : t \in tenant[q] => wrote[q] = NoRow
    /\ wrote[p] \in {NoRow, 0, ckpt[t]} \cup batch[p]
    /\ \A pos \in batch[p] : from[p] < pos /\ Logged(t, pos)
    /\ \A r \in TenantRows(t), pos \in batch[p] :
         from[p] < r.pos /\ r.pos <= pos => r.pos \in batch[p] \cup dismissed \cup late

\* What a projector has handled is behind the checkpoint, and behind where it reads from.
HandledInv(p) ==
  \A pos \in Positions : effects[p][pos] > 0 =>
    \E t \in Tenants :
      Logged(t, pos) /\ pos <= ckpt[t] /\ (t \in tenant[p] => pos <= from[p])

ReadersInv ==
  /\ CatchUpTypeOK
  /\ \A p \in Projectors : PhaseInv(p) /\ BatchInv(p) /\ HandledInv(p)
  /\ \A t \in Tenants : ckpt[t] \in {NoRow, 0} \/ Logged(t, ckpt[t])

\* A verifier has read a stream up to some version, and nothing of it has been detached.
ReadInv(v) ==
  \A read \in reading[v] :
    /\ reading[v] = {read}
    /\ read.rows \subseteq {r \in rows : r.stream = read.stream}
    /\ \A q \in read.rows, r \in rows \ read.rows : r.stream = read.stream => q.version < r.version

\* A head that was read belongs to the row of its version, unless that row is
\* an unprotected one behind protected ones.
HeadInv(t, h) ==
  /\ TenantOf[h.stream] = t /\ h.head # NoHash
  /\ \E r \in Committed(h.stream) :
       /\ r.version = h.version
       /\ r.hash = h.head \/ (r.hash = NoHash /\ \E q \in ChainedRows(h.stream) : q.version < r.version)

\* What a sealer read is genuine, and so is what it sealed; a sealed stream has a latest anchor.
SealInv ==
  /\ \A z \in Sealers :
       /\ stage[z] # "insert" => heads[z] = {}
       /\ \A job \in sealing[z] : \A h \in heads[z] : HeadInv(job.tenant, h)
       /\ \A j, k \in sealing[z] : j = k
  /\ \A t \in Tenants :
       /\ \A n \in DOMAIN anchors[t] : \A m \in anchors[t][n].members : HeadInv(t, m)
       /\ \A s \in Streams, n \in DOMAIN anchors[t] : SealedAt(t, s, n) # {} =>
            \E last \in DOMAIN anchors[t] :
              SealedAt(t, s, last) # {} /\ \A k \in DOMAIN anchors[t] : k > last => SealedAt(t, s, k) = {}

AuditInv == AuditTypeOK /\ (\A v \in Verifiers : ReadInv(v)) /\ SealInv

IInv == LogInv /\ ReadersInv /\ OncePerProjector /\ SkipsOnlyLate /\ AuditInv /\ AnchorsForward

=============================================================================
