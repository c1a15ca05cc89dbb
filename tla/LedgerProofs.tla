---------------------------- MODULE LedgerProofs ----------------------------
(***************************************************************************)
(* Proofs about the ledger for any number of sessions, rows and fields.    *)
(*                                                                         *)
(* The argument: only the holder of the advisory lock has rows in flight,  *)
(* so what it read as the last hash stays the last hash until it inserts,  *)
(* and the rows it commits are later than every row committed before.      *)
(***************************************************************************)
EXTENDS LedgerReader, FiniteSetTheorems, WellFoundedInduction, TLAPS

(* Some row is the latest one: what makes Latest(rows) a row.              *)
HasLatest(rows) == rows = {} \/ \E r \in rows : \A q \in rows : q.seq <= r.seq

(* A session with an append or an open transaction under way has the lock. *)
LockHeld == \A s \in Sessions : pc[s] # "open" \/ inserted[s] # {} => lock = s

(* Sequence numbers in use are below the next one, and rows in flight are  *)
(* later than every committed row.                                         *)
SeqOrdered ==
  \A s \in Sessions : /\ \A r \in Visible(s) : r.seq < next_seq
                      /\ \A r \in entries, q \in inserted[s] : r.seq < q.seq

(* The chain is intact as every session sees it, and a last hash that was  *)
(* read is still the last hash.                                            *)
ChainIntact ==
  /\ Broken(entries) = {} /\ HasLatest(entries)
  /\ \A s \in Sessions : /\ Broken(Visible(s)) = {} /\ HasLatest(Visible(s))
                         /\ pc[s] = "read" => prev_hash[s] = LastHash(Visible(s))

(* A number is given to one row.                                           *)
Numbered(rows) == IsFiniteSet(rows) /\ \A r, q \in rows : r.seq = q.seq => r = q
RowsNumbered == Numbered(entries) /\ \A s \in Sessions : Numbered(Visible(s))

IInv == TypeOK /\ LockHeld /\ SeqOrdered /\ RowsNumbered /\ ChainIntact

-----------------------------------------------------------------------------
(* The last hash of a set of rows that has a latest row is a digest.       *)
LEMMA LastHashType ==
  ASSUME NEW rows \in SUBSET Rows, HasLatest(rows)
  PROVE  LastHash(rows) \in Hashes
<1>1. CASE rows = {}
  BY <1>1, HashAssumption DEF LastHash
<1>2. CASE rows # {}
  <2>1. Latest(rows) \in rows
    BY <1>2 DEF HasLatest, Latest
  <2>2. QED
    BY <1>2, <2>1 DEF LastHash, Rows
<1>3. QED
  BY <1>1, <1>2

(* Adding a row that is later than all others, and chained to the last     *)
(* hash, leaves an intact chain whose latest row is the new one.           *)
LEMMA AppendKeepsChain ==
  ASSUME NEW rows \in SUBSET Rows, NEW row \in Rows,
         Broken(rows) = {},
         \A r \in rows : r.seq < row.seq,
         row.prev_hash = LastHash(rows),
         row.this_hash = Hash(row.prev_hash, row.fields)
  PROVE  Broken(rows \union {row}) = {} /\ HasLatest(rows \union {row})
<1> DEFINE new == rows \union {row}
<1>1. Earlier(new, row.seq) = rows
  BY DEF Earlier, Rows
<1>2. ASSUME NEW r \in rows
      PROVE  Earlier(new, r.seq) = Earlier(rows, r.seq)
  BY DEF Earlier, Rows
<1>3. ASSUME NEW r \in new
      PROVE  r.prev_hash = LastHash(Earlier(new, r.seq)) /\ r.this_hash = Hash(r.prev_hash, r.fields)
  <2>1. CASE r = row
    BY <2>1, <1>1
  <2>2. CASE r \in rows
    BY <2>2, <1>2 DEF Broken
  <2>3. QED
    BY <2>1, <2>2
<1>4. Broken(new) = {}
  BY <1>3 DEF Broken
<1>5. HasLatest(new)
  BY DEF HasLatest, Rows
<1>6. QED
  BY <1>4, <1>5

LEMMA AppendNumbered ==
  ASSUME NEW rows, NEW row, Numbered(rows), \A r \in rows : r.seq < row.seq,
         \A r \in rows : r.seq \in Nat, row.seq \in Nat
  PROVE  Numbered(rows \union {row})
<1>1. IsFiniteSet(rows \union {row})
  BY FS_AddElement DEF Numbered
<1>2. \A r, q \in rows \union {row} : r.seq = q.seq => r = q
  BY DEF Numbered
<1> QED
  BY <1>1, <1>2 DEF Numbered

-----------------------------------------------------------------------------
LEMMA InitInv == Init => IInv
  BY HashAssumption, FS_EmptySet
  DEF Init, IInv, TypeOK, LockHeld, SeqOrdered, RowsNumbered, Numbered, ChainIntact, Broken, HasLatest,
      Visible

LEMMA StepInv == IInv /\ [Next]_vars => IInv'
<1> SUFFICES ASSUME IInv, [Next]_vars PROVE IInv'
  OBVIOUS
<1> USE DEF IInv
<1>1. ASSUME NEW s \in Sessions, AcquireLock(s) PROVE IInv'
  <2>1. TypeOK'
    BY <1>1 DEF AcquireLock, TypeOK
  <2>2. LockHeld'
    BY <1>1, SessionAssumption DEF AcquireLock, TypeOK, LockHeld
  <2>3. SeqOrdered' /\ RowsNumbered' /\ ChainIntact'
    BY <1>1 DEF AcquireLock, TypeOK, SeqOrdered, RowsNumbered, ChainIntact, Visible
  <2>4. QED
    BY <2>1, <2>2, <2>3
<1>2. ASSUME NEW s \in Sessions, ReadLastHash(s) PROVE IInv'
  <2>1. LastHash(Visible(s)) \in Hashes
    BY LastHashType DEF TypeOK, ChainIntact, Visible
  <2>2. TypeOK'
    BY <1>2, <2>1 DEF ReadLastHash, TypeOK
  <2>3. LockHeld' /\ SeqOrdered' /\ RowsNumbered'
    BY <1>2 DEF ReadLastHash, TypeOK, LockHeld, SeqOrdered, RowsNumbered, Visible
  <2>4. ChainIntact'
    BY <1>2 DEF ReadLastHash, TypeOK, ChainIntact, Visible
  <2>5. QED
    BY <2>2, <2>3, <2>4
<1>3. ASSUME NEW s \in Sessions, NEW f \in Fields, Insert(s, f) PROVE IInv'
  <2> DEFINE row == [seq |-> next_seq, fields |-> f, prev_hash |-> prev_hash[s],
                     this_hash |-> Hash(prev_hash[s], f)]
  <2>1. row \in Rows
    BY HashAssumption DEF TypeOK, Rows
  <2>2. TypeOK'
    BY <1>3, <2>1 DEF Insert, TypeOK
  <2>3. lock = s /\ \A t \in Sessions : t # s => inserted[t] = {} /\ pc[t] = "open"
    BY <1>3, SessionAssumption DEF Insert, LockHeld, TypeOK
  <2>4. LockHeld'
    BY <1>3, <2>3 DEF Insert, LockHeld, TypeOK
  <2>5. Visible(s)' = Visible(s) \union {row} /\ entries' = entries
    BY <1>3 DEF Insert, Visible, TypeOK
  <2>6. \A t \in Sessions : t # s => Visible(t)' = entries /\ pc'[t] = "open"
    BY <1>3, <2>3 DEF Insert, Visible, TypeOK
  <2>7. SeqOrdered'
    BY <1>3, <2>1, <2>3, <2>5, <2>6 DEF Insert, SeqOrdered, Visible, TypeOK, Rows
  <2>8. Broken(Visible(s) \union {row}) = {} /\ HasLatest(Visible(s) \union {row})
    <3>1. Visible(s) \in SUBSET Rows
      BY DEF Visible, TypeOK
    <3>2. Broken(Visible(s)) = {} /\ row.prev_hash = LastHash(Visible(s))
      BY <1>3 DEF Insert, ChainIntact
    <3>3. \A r \in Visible(s) : r.seq < row.seq
      BY DEF SeqOrdered
    <3>4. QED
      BY <2>1, <3>1, <3>2, <3>3, AppendKeepsChain
  <2>9. ChainIntact'
    <3>1. pc'[s] # "read"
      BY <1>3 DEF Insert, TypeOK
    <3>2. Broken(entries) = {} /\ HasLatest(entries)
      BY DEF ChainIntact
    <3>3. QED
      BY <2>5, <2>6, <2>8, <3>1, <3>2 DEF ChainIntact
  <2>10. RowsNumbered'
    <3>1. \A r \in Visible(s) : r.seq < row.seq /\ r.seq \in Nat
      BY DEF SeqOrdered, Visible, TypeOK, Rows
    <3>2. Numbered(Visible(s) \union {row})
      BY <2>1, <3>1, AppendNumbered DEF RowsNumbered, Rows
    <3>3. QED
      BY <2>5, <2>6, <3>2 DEF RowsNumbered
  <2>11. QED
    BY <2>2, <2>4, <2>7, <2>9, <2>10
<1>4. ASSUME NEW s \in Sessions, Commit(s) PROVE IInv'
  <2>1. lock = s /\ \A t \in Sessions : t # s => inserted[t] = {} /\ pc[t] = "open"
    BY <1>4, SessionAssumption DEF Commit, LockHeld, TypeOK
  <2>2. TypeOK'
    BY <1>4 DEF Commit, Release, TypeOK
  <2>3. \A t \in Sessions : inserted'[t] = {} /\ pc'[t] = "open"
    BY <1>4, <2>1 DEF Commit, TypeOK
  <2>4. entries' = Visible(s) /\ \A t \in Sessions : Visible(t)' = Visible(s)
    BY <1>4, <2>3 DEF Commit, Visible, TypeOK
  <2>5. LockHeld'
    BY <2>3 DEF LockHeld
  <2>6. SeqOrdered'
    BY <1>4, <2>3, <2>4 DEF Commit, SeqOrdered
  <2>7. RowsNumbered' /\ ChainIntact'
    BY <2>3, <2>4 DEF RowsNumbered, ChainIntact
  <2>8. QED
    BY <2>2, <2>5, <2>6, <2>7
<1>5. ASSUME NEW s \in Sessions, Rollback(s) PROVE IInv'
  <2>1. lock = s /\ \A t \in Sessions : t # s => inserted[t] = {} /\ pc[t] = "open"
    BY <1>5, SessionAssumption DEF Rollback, LockHeld, TypeOK
  <2>2. TypeOK'
    BY <1>5 DEF Rollback, Release, TypeOK
  <2>3. \A t \in Sessions : inserted'[t] = {} /\ pc'[t] = "open"
    BY <1>5, <2>1 DEF Rollback, TypeOK
  <2>4. entries' = entries /\ \A t \in Sessions : Visible(t)' = entries
    BY <1>5, <2>3 DEF Rollback, Visible, TypeOK
  <2>5. LockHeld'
    BY <2>3 DEF LockHeld
  <2>6. SeqOrdered'
    BY <1>5, <2>3, <2>4 DEF Rollback, SeqOrdered, Visible
  <2>7. RowsNumbered' /\ ChainIntact'
    BY <2>3, <2>4 DEF RowsNumbered, ChainIntact
  <2>8. QED
    BY <2>2, <2>5, <2>6, <2>7
<1>6. CASE UNCHANGED vars
  BY <1>6 DEF vars, TypeOK, LockHeld, SeqOrdered, RowsNumbered, ChainIntact, Visible
<1>7. QED
  BY <1>1, <1>2, <1>3, <1>4, <1>5, <1>6 DEF Next

(* The strengthened invariant holds in every reachable state.              *)
THEOREM InvHolds == Spec => []IInv
  BY InitInv, StepInv, PTL DEF Spec

(* Type correctness of the ledger and of every transaction in flight.      *)
THEOREM TypeCorrect == Spec => []TypeOK
<1>1. IInv => TypeOK
  BY DEF IInv
<1>2. QED
  BY <1>1, InvHolds, PTL

(* Concurrent appends, rollbacks and crashes never break the hash chain    *)
(* that verify_chain walks.                                                *)
THEOREM ChainAlwaysVerifies == Spec => []CommittedChainValid
<1>1. IInv => CommittedChainValid
  BY DEF IInv, ChainIntact, CommittedChainValid, verify_chain
<1>2. QED
  BY <1>1, InvHolds, PTL

(* The table implements the append-only log: rows appear in seq order.     *)
THEOREM ImplementsAppendOnlyLog == Spec => AppendOnly
<1>1. Init => Log!Init
  BY DEF Init, Log!Init
<1>2. IInv /\ [Next]_vars => [Log!Publish]_entries
  <2> SUFFICES ASSUME IInv, [Next]_vars, entries' # entries PROVE Log!Publish
    OBVIOUS
  <2>1. PICK s \in Sessions : Commit(s)
    BY DEF Next, vars, AcquireLock, ReadLastHash, Insert, Rollback
  <2>2. entries' = entries \union inserted[s]
    BY <2>1 DEF Commit
  <2>3. \A r \in entries, q \in inserted[s] : r.seq < q.seq
    BY DEF IInv, SeqOrdered
  <2>4. QED
    BY <2>2, <2>3 DEF Log!Publish, Precedes
<1>3. QED
  BY <1>1, <1>2, InvHolds, PTL DEF Spec, AppendOnly, Log!Spec

-----------------------------------------------------------------------------
(* Tampering.  The code takes it that SHA-256 does not collide; what that  *)
(* means here is that no digest of a visible row, or of one with other     *)
(* fields in its place, is that of another row or GENESIS_HASH.            *)
Collisionless ==
  \A r, q \in entries, f \in Fields :
    /\ Hash(r.prev_hash, f) # Genesis
    /\ Hash(r.prev_hash, f) = q.this_hash => r.prev_hash = q.prev_hash /\ f = q.fields

(* A set of numbers has a least one.                                       *)
LEMMA LeastNumber ==
  ASSUME NEW S, S \subseteq Nat, S # {}
  PROVE  \E x \in S : \A y \in S : x <= y
<1> DEFINE Below == OpToRel(<, Nat)
<1>1. IsWellFoundedOn(Below, Nat)
  BY NatLessThanWellFounded
<1>2. \A x, y \in Nat : y < x => <<y, x>> \in Below
  BY Zenon DEF OpToRel
<1> HIDE DEF Below
<1>3. PICK x \in S : \A y \in S : ~(<<y, x>> \in Below)
  BY <1>1, WFMin
<1>4. \A y \in S : x <= y
  <2> SUFFICES ASSUME NEW y \in S PROVE ~(y < x)
    OBVIOUS
  <2> QED
    BY <1>2, <1>3
<1> QED
  BY <1>4

LEMMA FirstRow ==
  ASSUME NEW rows \in SUBSET Rows, rows # {}
  PROVE  \E r \in rows : \A q \in rows : r.seq <= q.seq
<1> DEFINE numbers == {r.seq : r \in rows}
<1>1. numbers \subseteq Nat /\ numbers # {}
  BY DEF Rows
<1> HIDE DEF numbers
<1>2. PICK n \in numbers : \A m \in numbers : n <= m
  BY <1>1, LeastNumber
<1> QED
  BY <1>2 DEF numbers

LEMMA LatestRow ==
  ASSUME NEW rows \in SUBSET Rows, rows # {}, NEW bound \in Nat, \A r \in rows : r.seq < bound
  PROVE  Latest(rows) \in rows /\ \A q \in rows : q.seq <= Latest(rows).seq
<1> DEFINE gaps == {bound - r.seq : r \in rows}
<1>1. gaps \subseteq Nat /\ gaps # {}
  BY DEF Rows
<1> HIDE DEF gaps
<1>2. PICK n \in gaps : \A m \in gaps : n <= m
  BY <1>1, LeastNumber
<1>3. PICK r \in rows : n = bound - r.seq
  BY <1>2 DEF gaps
<1>4. \A q \in rows : bound - r.seq <= bound - q.seq
  BY <1>2, <1>3 DEF gaps
<1>5. \A q \in rows : q.seq <= r.seq
  BY <1>4 DEF Rows
<1> QED
  BY <1>5 DEF Latest

(* The rows before a place decide what is broken before it.                *)
LEMMA SameStart ==
  ASSUME NEW rows \in SUBSET Rows, NEW other \in SUBSET Rows, NEW k \in Nat,
         Broken(rows) = {}, Earlier(other, k) = Earlier(rows, k),
         NEW b \in Broken(other)
  PROVE  k <= b.seq
<1> SUFFICES ASSUME b.seq < k PROVE FALSE
  BY DEF Broken, Rows
<1>1. b \in other /\ b \in rows /\ b.seq \in Nat
  BY DEF Broken, Earlier, Rows
<1>2. Earlier(other, b.seq) = Earlier(rows, b.seq)
  <2>1. \A q \in other \union rows : q.seq \in Nat
    BY DEF Rows
  <2>2. \A q : q.seq \in Nat /\ q.seq < b.seq => q.seq < k
    BY <1>1
  <2>3. \A q : q \in Earlier(other, b.seq) <=> q \in Earlier(rows, b.seq)
    BY <2>1, <2>2 DEF Earlier
  <2> QED
    BY <2>3
<1> QED
  BY <1>1, <1>2 DEF Broken

(* verify_chain reports the first broken place.                            *)
LEMMA FirstBroken ==
  ASSUME NEW rows \in SUBSET Rows, NEW n \in Broken(rows), \A b \in Broken(rows) : n.seq <= b.seq
  PROVE  verify_chain(rows).first_broken_seq = n.seq
<1> DEFINE c == CHOOSE r \in Broken(rows) : \A q \in Broken(rows) : r.seq <= q.seq
<1>1. c \in Broken(rows) /\ \A q \in Broken(rows) : c.seq <= q.seq
  OBVIOUS
<1>2. verify_chain(rows).first_broken_seq = c.seq
  BY DEF verify_chain
<1> HIDE DEF c
<1>3. c.seq <= n.seq /\ n.seq <= c.seq /\ c.seq \in Nat /\ n.seq \in Nat
  BY <1>1 DEF Broken, Rows
<1> QED
  BY <1>2, <1>3

(* What the rows of a visible chain link to.                               *)
LEMMA LinkOf ==
  ASSUME IInv, NEW r \in entries
  PROVE  /\ r \in Rows /\ r.seq \in Nat
         /\ r.this_hash = Hash(r.prev_hash, r.fields)
         /\ Earlier(entries, r.seq) = {} => r.prev_hash = Genesis
         /\ Earlier(entries, r.seq) # {} =>
              \E p \in entries : /\ p.seq < r.seq /\ r.prev_hash = p.this_hash
                                 /\ \A q \in entries : q.seq < r.seq => q.seq <= p.seq
<1> DEFINE before == Earlier(entries, r.seq)
<1>1. entries \in SUBSET Rows /\ r \in Rows /\ r.seq \in Nat
  BY DEF IInv, TypeOK, Rows
<1>2. r.prev_hash = LastHash(before) /\ r.this_hash = Hash(r.prev_hash, r.fields)
  BY DEF IInv, ChainIntact, Broken
<1>3. before \in SUBSET Rows /\ \A q \in before : q.seq < r.seq
  BY <1>1 DEF Earlier
<1>4. CASE before # {}
  <2>1. Latest(before) \in before /\ \A q \in before : q.seq <= Latest(before).seq
    BY <1>1, <1>3, <1>4, LatestRow
  <2>2. r.prev_hash = Latest(before).this_hash
    BY <1>2, <1>4 DEF LastHash
  <2> QED
    BY <1>1, <1>2, <1>4, <2>1, <2>2 DEF Earlier
<1>5. CASE before = {}
  BY <1>1, <1>2, <1>5 DEF LastHash
<1> QED
  BY <1>4, <1>5

(* Without collisions no two rows link to the same digest: of the first    *)
(* row that shared its link with a later one, the predecessors would too.  *)
LEMMA LinksDistinct ==
  ASSUME IInv, Collisionless, NEW r \in entries, NEW q \in entries, r.prev_hash = q.prev_hash
  PROVE  r = q
<1> DEFINE shared == {x \in entries : \E y \in entries : y # x /\ y.prev_hash = x.prev_hash}
<1> SUFFICES ASSUME r # q PROVE FALSE
  OBVIOUS
<1>1. shared \in SUBSET Rows /\ shared # {} /\ entries \in SUBSET Rows
  BY DEF IInv, TypeOK
<1>2. PICK x \in shared : \A y \in shared : x.seq <= y.seq
  <2> HIDE DEF shared
  <2> QED
    BY <1>1, FirstRow
<1>3. PICK y \in entries : y # x /\ y.prev_hash = x.prev_hash
  BY <1>2
<1>4. x \in entries /\ y \in shared /\ x.seq \in Nat /\ y.seq \in Nat
  BY <1>1, <1>2, <1>3 DEF Rows
<1>5. x.seq < y.seq
  <2>1. x.seq # y.seq
    BY <1>3, <1>4 DEF IInv, RowsNumbered, Numbered
  <2> QED
    BY <1>2, <1>4, <2>1
<1>6. Earlier(entries, y.seq) # {}
  BY <1>4, <1>5 DEF Earlier
<1>7. PICK b \in entries : b.seq < y.seq /\ y.prev_hash = b.this_hash /\ x.seq <= b.seq
  BY <1>3, <1>4, <1>5, <1>6, LinkOf
<1>8. b.this_hash = Hash(b.prev_hash, b.fields) /\ b.fields \in Fields /\ b.seq \in Nat
  BY <1>1, <1>7, LinkOf DEF Rows
<1>9. CASE Earlier(entries, x.seq) = {}
  <2>1. x.prev_hash = Genesis
    BY <1>4, <1>9, LinkOf
  <2> QED
    BY <1>3, <1>7, <1>8, <2>1 DEF Collisionless
<1>10. CASE Earlier(entries, x.seq) # {}
  <2>1. PICK a \in entries : a.seq < x.seq /\ x.prev_hash = a.this_hash
    BY <1>4, <1>10, LinkOf
  <2>2. a.seq \in Nat
    BY <1>1, <2>1 DEF Rows
  <2>3. b.prev_hash = a.prev_hash
    <3>1. Hash(b.prev_hash, b.fields) = a.this_hash
      BY <1>3, <1>7, <1>8, <2>1
    <3> QED
      BY <1>7, <1>8, <2>1, <3>1 DEF Collisionless
  <2>4. a # b
    BY <1>4, <1>7, <1>8, <2>1, <2>2
  <2>5. a \in shared
    BY <1>7, <2>1, <2>3, <2>4
  <2> QED
    BY <1>2, <1>4, <2>1, <2>2, <2>5
<1> QED
  BY <1>9, <1>10

LEMMA EditsFound == IInv /\ Collisionless => EditPinpointed
<1> SUFFICES ASSUME IInv, Collisionless, NEW r \in entries, NEW f \in Fields \ {r.fields}
             PROVE  verify_chain((entries \ {r}) \union {[r EXCEPT !.fields = f]}).first_broken_seq = r.seq
  BY DEF EditPinpointed
<1> DEFINE edited == [r EXCEPT !.fields = f]
           other == (entries \ {r}) \union {edited}
<1>1. entries \in SUBSET Rows /\ r \in Rows /\ r.seq \in Nat /\ Broken(entries) = {}
  BY DEF IInv, TypeOK, ChainIntact, Rows
<1>2. /\ edited \in Rows /\ edited.seq = r.seq /\ edited.fields = f
      /\ edited.prev_hash = r.prev_hash /\ edited.this_hash = r.this_hash
  BY <1>1 DEF Rows
<1> HIDE DEF edited
<1>3. other \in SUBSET Rows /\ Earlier(other, r.seq) = Earlier(entries, r.seq)
  BY <1>1, <1>2 DEF Earlier
<1>4. edited \in Broken(other)
  <2>1. r.this_hash = Hash(r.prev_hash, r.fields)
    BY LinkOf
  <2>2. Hash(r.prev_hash, f) # r.this_hash
    BY DEF Collisionless
  <2> QED
    BY <1>2, <2>2 DEF Broken
<1>5. \A b \in Broken(other) : edited.seq <= b.seq
  <2> HIDE DEF other
  <2> QED
    BY <1>1, <1>2, <1>3, SameStart
<1>6. verify_chain(other).first_broken_seq = edited.seq
  <2> HIDE DEF other
  <2> QED
    BY <1>3, <1>4, <1>5, FirstBroken
<1> QED
  BY <1>2, <1>6 DEF edited

(* A removed row is missed by its successor.                               *)
LEMMA RemovalFound ==
  ASSUME IInv, Collisionless, NEW r \in entries, {q \in entries : q.seq > r.seq} # {}
  PROVE  \E n \in {q \in entries : q.seq > r.seq} :
           /\ \A q \in {p \in entries : p.seq > r.seq} : n.seq <= q.seq
           /\ verify_chain(entries \ {r}).first_broken_seq = n.seq
<1> DEFINE later == {q \in entries : q.seq > r.seq}
           other == entries \ {r}
<1>1. entries \in SUBSET Rows /\ r \in Rows /\ r.seq \in Nat /\ Broken(entries) = {}
  BY DEF IInv, TypeOK, ChainIntact, Rows
<1>2. later \in SUBSET Rows /\ later # {} /\ other \in SUBSET Rows
  BY <1>1
<1>3. PICK n \in later : \A q \in later : n.seq <= q.seq
  <2> HIDE DEF later
  <2> QED
    BY <1>2, FirstRow
<1>4. n \in entries /\ n.seq \in Nat /\ r.seq < n.seq
  BY <1>1, <1>3 DEF Rows
<1>5. Earlier(other, r.seq) = Earlier(entries, r.seq)
  BY <1>1 DEF Earlier
<1>6. \A q \in entries : q.seq < n.seq => q = r \/ q.seq < r.seq
  <2> SUFFICES ASSUME NEW q \in entries, q.seq < n.seq, q # r PROVE q.seq < r.seq
    OBVIOUS
  <2>1. q.seq \in Nat /\ q.seq # r.seq
    BY <1>1 DEF IInv, RowsNumbered, Numbered, Rows
  <2>2. ~(q.seq > r.seq)
    BY <1>3, <1>4, <2>1
  <2> QED
    BY <1>1, <2>1, <2>2
<1>7. Earlier(other, n.seq) = Earlier(entries, r.seq)
  <2>1. \A q \in entries : q.seq < r.seq => q # r /\ q.seq < n.seq
    BY <1>1, <1>4 DEF Rows
  <2> QED
    BY <1>6, <2>1 DEF Earlier
<1>8. n.prev_hash = r.this_hash
  <2>1. Earlier(entries, n.seq) # {}
    BY <1>4 DEF Earlier
  <2>2. PICK p \in entries : /\ p.seq < n.seq /\ n.prev_hash = p.this_hash
                             /\ \A q \in entries : q.seq < n.seq => q.seq <= p.seq
    BY <1>4, <2>1, LinkOf
  <2>3. r.seq <= p.seq /\ p.seq \in Nat
    BY <1>1, <1>4, <2>2 DEF Rows
  <2>4. p = r
    BY <1>1, <1>6, <2>2, <2>3
  <2> QED
    BY <2>2, <2>4
<1>9. r.this_hash # LastHash(Earlier(entries, r.seq))
  <2>1. r.this_hash = Hash(r.prev_hash, r.fields) /\ r.fields \in Fields
    BY <1>1, LinkOf DEF Rows
  <2>2. r.prev_hash = LastHash(Earlier(entries, r.seq))
    BY DEF IInv, ChainIntact, Broken
  <2>3. CASE Earlier(entries, r.seq) = {}
    BY <2>1, <2>3 DEF LastHash, Collisionless
  <2>4. CASE Earlier(entries, r.seq) # {}
    <3>1. PICK p \in entries : p.seq < r.seq /\ r.prev_hash = p.this_hash
      BY <2>4, LinkOf
    <3>2. SUFFICES ASSUME p.this_hash = r.this_hash PROVE FALSE
      BY <2>2, <3>1
    <3>3. r.prev_hash = p.prev_hash
      BY <2>1, <3>1, <3>2 DEF Collisionless
    <3>4. r = p
      BY <3>1, <3>3, LinksDistinct
    <3> QED
      BY <1>1, <3>1, <3>4
  <2> QED
    BY <2>3, <2>4
<1>10. n \in Broken(other)
  BY <1>4, <1>7, <1>8, <1>9 DEF Broken
<1>11. \A b \in Broken(other) : n.seq <= b.seq
  <2> SUFFICES ASSUME NEW b \in Broken(other) PROVE n.seq <= b.seq
    OBVIOUS
  <2>1. r.seq <= b.seq
    <3> HIDE DEF other
    <3> QED
      BY <1>1, <1>2, <1>5, SameStart
  <2>2. b \in entries /\ b # r /\ b.seq \in Nat
    BY <1>1 DEF Broken, Rows
  <2>3. b.seq # r.seq
    BY <2>2 DEF IInv, RowsNumbered, Numbered
  <2> QED
    BY <1>1, <1>3, <2>1, <2>2, <2>3
<1>12. verify_chain(other).first_broken_seq = n.seq
  <2> HIDE DEF other
  <2> QED
    BY <1>2, <1>10, <1>11, FirstBroken
<1> QED
  BY <1>3, <1>12

(* A row in another's place does not link to what is before it.            *)
LEMMA ExchangeFound ==
  ASSUME IInv, Collisionless, NEW r \in entries, NEW q \in entries, r.seq < q.seq
  PROVE  verify_chain((entries \ {r, q})
                        \union {[r EXCEPT !.seq = q.seq], [q EXCEPT !.seq = r.seq]}).first_broken_seq = r.seq
<1> DEFINE back == [r EXCEPT !.seq = q.seq]
           front == [q EXCEPT !.seq = r.seq]
           other == (entries \ {r, q}) \union {back, front}
<1>1. /\ entries \in SUBSET Rows /\ r \in Rows /\ q \in Rows /\ Broken(entries) = {}
      /\ r.seq \in Nat /\ q.seq \in Nat
  BY DEF IInv, TypeOK, ChainIntact, Rows
<1>2. /\ back \in Rows /\ back.seq = q.seq
      /\ front \in Rows /\ front.seq = r.seq /\ front.prev_hash = q.prev_hash
  BY <1>1 DEF Rows
<1> HIDE DEF back, front
<1>3. other \in SUBSET Rows /\ Earlier(other, r.seq) = Earlier(entries, r.seq)
  BY <1>1, <1>2 DEF Earlier
<1>4. front \in Broken(other)
  <2>1. r.prev_hash = LastHash(Earlier(entries, r.seq))
    BY DEF IInv, ChainIntact, Broken
  <2>2. q.prev_hash # r.prev_hash
    BY <1>1, LinksDistinct
  <2> QED
    BY <1>2, <1>3, <2>1, <2>2 DEF Broken
<1>5. \A b \in Broken(other) : front.seq <= b.seq
  <2> HIDE DEF other
  <2> QED
    BY <1>1, <1>2, <1>3, SameStart
<1>6. verify_chain(other).first_broken_seq = front.seq
  <2> HIDE DEF other
  <2> QED
    BY <1>3, <1>4, <1>5, FirstBroken
<1> QED
  BY <1>2, <1>6 DEF back, front

(* Where SHA-256 does not collide, verify_chain reports the edit of any    *)
(* visible row at exactly that row, and everything before it as intact.    *)
THEOREM EditsArePinpointed == Spec => [](Collisionless => EditPinpointed)
  BY InvHolds, EditsFound, PTL

(* And a row that is taken out, or that has changed its place with         *)
(* another, at the first place that is no longer what it was.              *)
THEOREM MovesArePinpointed == Spec => [](Collisionless => MovesPinpointed)
<1>1. IInv => (Collisionless => MovesPinpointed)
  <2> SUFFICES ASSUME IInv, Collisionless PROVE MovesPinpointed
    OBVIOUS
  <2>1. ASSUME NEW r \in entries, {q \in entries : q.seq > r.seq} # {}
        PROVE  \E n \in {q \in entries : q.seq > r.seq} :
                 /\ \A q \in {p \in entries : p.seq > r.seq} : n.seq <= q.seq
                 /\ verify_chain(entries \ {r}).first_broken_seq = n.seq
    BY <2>1, RemovalFound
  <2>2. ASSUME NEW r \in entries, NEW q \in entries, r.seq < q.seq
        PROVE  verify_chain((entries \ {r, q})
                 \union {[r EXCEPT !.seq = q.seq], [q EXCEPT !.seq = r.seq]}).first_broken_seq = r.seq
    BY <2>2, ExchangeFound
  <2> QED
    BY <2>1, <2>2 DEF MovesPinpointed
<1> QED
  BY <1>1, InvHolds, PTL

-----------------------------------------------------------------------------
(* Paging.  The rank of a row, how many newer ones there are, tells rows   *)
(* apart and leaves no gap.                                                *)
LEMMA RankOrder ==
  ASSUME NEW rows \in SUBSET Rows, IsFiniteSet(rows), NEW r \in rows, NEW q \in rows, r.seq > q.seq
  PROVE  Cardinality(Newer(rows, r)) < Cardinality(Newer(rows, q))
<1>1. Newer(rows, r) \subseteq Newer(rows, q) /\ r \in Newer(rows, q) /\ r \notin Newer(rows, r)
  BY DEF Newer, Rows
<1>2. IsFiniteSet(Newer(rows, q))
  BY FS_Subset DEF Newer
<1>3. /\ Cardinality(Newer(rows, r)) <= Cardinality(Newer(rows, q))
      /\ Cardinality(Newer(rows, q)) # Cardinality(Newer(rows, r))
  BY <1>1, <1>2, FS_Subset
<1>4. Cardinality(Newer(rows, r)) \in Nat /\ Cardinality(Newer(rows, q)) \in Nat
  BY <1>1, <1>2, FS_Subset, FS_CardinalityType
<1> QED
  BY <1>3, <1>4

LEMMA RankTells ==
  ASSUME NEW rows \in SUBSET Rows, Numbered(rows), NEW r \in rows, NEW q \in rows,
         Cardinality(Newer(rows, r)) = Cardinality(Newer(rows, q))
  PROVE  r = q
<1>1. r.seq \in Nat /\ q.seq \in Nat
  BY DEF Rows
<1>2. Cardinality(Newer(rows, r)) \in Nat
  BY FS_Subset, FS_CardinalityType DEF Newer, Numbered
<1>3. ~(r.seq > q.seq) /\ ~(q.seq > r.seq)
  BY <1>2, RankOrder DEF Numbered
<1> QED
  BY <1>1, <1>3 DEF Numbered

LEMMA RankBelow ==
  ASSUME NEW rows \in SUBSET Rows, IsFiniteSet(rows), NEW r \in rows
  PROVE  Cardinality(Newer(rows, r)) \in 0 .. Cardinality(rows) - 1
<1>1. Newer(rows, r) \subseteq rows \ {r}
  BY DEF Newer, Rows
<1>2. IsFiniteSet(rows \ {r}) /\ Cardinality(rows \ {r}) = Cardinality(rows) - 1
  BY FS_RemoveElement
<1>3. IsFiniteSet(Newer(rows, r)) /\ Cardinality(Newer(rows, r)) <= Cardinality(rows \ {r})
  BY <1>1, <1>2, FS_Subset
<1> QED
  BY <1>2, <1>3, FS_CardinalityType

LEMMA RankTaken ==
  ASSUME NEW rows \in SUBSET Rows, Numbered(rows), NEW n \in 0 .. Cardinality(rows) - 1
  PROVE  \E r \in rows : Cardinality(Newer(rows, r)) = n
<1> DEFINE ranks == 0 .. Cardinality(rows) - 1
           rank == [r \in rows |-> Cardinality(Newer(rows, r))]
<1>1. IsFiniteSet(rows) /\ Cardinality(rows) \in Nat
  BY FS_CardinalityType DEF Numbered
<1>2. IsFiniteSet(ranks) /\ Cardinality(ranks) = Cardinality(rows)
  <2>1. 0 \in Int /\ Cardinality(rows) - 1 \in Int
    BY <1>1
  <2>2. IsFiniteSet(ranks)
        /\ Cardinality(ranks) = IF 0 > Cardinality(rows) - 1 THEN 0 ELSE (Cardinality(rows) - 1) - 0 + 1
    BY <2>1, FS_Interval
  <2> QED
    BY <1>1, <2>2
<1>3. \A r \in rows : rank[r] = Cardinality(Newer(rows, r)) /\ rank[r] \in ranks
  BY <1>1, RankBelow
<1>4. \A r, q \in rows : rank[r] = rank[q] => r = q
  BY <1>3, RankTells
<1>5. rank \in [rows -> ranks]
  BY <1>3
<1> HIDE DEF rank
<1>6. rank \in Injection(rows, ranks)
  BY <1>4, <1>5 DEF Injection, IsInjective
<1>7. n \in ranks
  OBVIOUS
<1> HIDE DEF ranks
<1>8. rank \in Surjection(rows, ranks)
  BY <1>2, <1>6, FS_Injection
<1>9. PICK r \in rows : rank[r] = n
  BY <1>7, <1>8 DEF Surjection
<1> QED
  BY <1>3, <1>9

Elements(s) == {s[i] : i \in DOMAIN s}
Descending(s) == \A i, j \in DOMAIN s : i < j => s[i].seq > s[j].seq

(* A page is as long as it can be; it is in order, and it is all there is  *)
(* down to its last row or, where it is not full, at all.                  *)
LEMMA PageIsNewest ==
  ASSUME NEW rows \in SUBSET Rows, Numbered(rows), NEW page, page = Newest(rows)
  PROVE  /\ page \in Seq(rows) /\ Descending(page)
         /\ NextBeforeSeq(page) = NoSeq => Elements(page) = rows
         /\ NextBeforeSeq(page) # NoSeq =>
              /\ \E r \in rows : r.seq = NextBeforeSeq(page)
              /\ Elements(page) = {r \in rows : r.seq >= NextBeforeSeq(page)}
<1> DEFINE count == Cardinality(rows)
           size == IF count < Limit THEN count ELSE Limit
           Rank(r) == Cardinality(Newer(rows, r))
<1>1. count \in Nat /\ Limit \in Nat /\ Limit # 0 /\ size \in Nat /\ size <= count /\ size <= Limit
  BY FS_CardinalityType, LimitAssumption DEF Numbered
<1>2. page = [i \in 1 .. size |-> CHOOSE r \in rows : Rank(r) = i - 1]
  BY DEF Newest
<1>3. \A i \in 1 .. size : page[i] \in rows /\ Rank(page[i]) = i - 1
  <2> SUFFICES ASSUME NEW i \in 1 .. size PROVE page[i] \in rows /\ Rank(page[i]) = i - 1
    OBVIOUS
  <2>1. i - 1 \in 0 .. count - 1
    BY <1>1
  <2>2. \E r \in rows : Rank(r) = i - 1
    BY <2>1, RankTaken
  <2>3. page[i] = CHOOSE r \in rows : Rank(r) = i - 1
    BY <1>2
  <2> HIDE DEF Rank
  <2> QED
    BY <2>2, <2>3
<1>4. \A r \in rows : Rank(r) \in 0 .. count - 1
  BY RankBelow DEF Numbered
<1>5. \A r, q \in rows : Rank(r) < Rank(q) => r.seq > q.seq
  <2> SUFFICES ASSUME NEW r \in rows, NEW q \in rows, Rank(r) < Rank(q) PROVE r.seq > q.seq
    OBVIOUS
  <2>1. Rank(r) \in Nat /\ Rank(q) \in Nat /\ r.seq \in Nat /\ q.seq \in Nat
    BY <1>1, <1>4 DEF Rows
  <2>2. ~(q.seq > r.seq)
    BY <2>1, RankOrder DEF Numbered
  <2>3. q.seq # r.seq
    BY <2>1 DEF Numbered
  <2> QED
    BY <2>1, <2>2, <2>3
<1>6. \A r \in rows : Rank(r) < size => \E i \in 1 .. size : page[i] = r
  <2> SUFFICES ASSUME NEW r \in rows, Rank(r) < size PROVE \E i \in 1 .. size : page[i] = r
    OBVIOUS
  <2>1. Rank(r) + 1 \in 1 .. size /\ (Rank(r) + 1) - 1 = Rank(r)
    BY <1>1, <1>4
  <2>2. page[Rank(r) + 1] \in rows /\ Rank(page[Rank(r) + 1]) = Rank(r)
    BY <1>3, <2>1
  <2>3. page[Rank(r) + 1] = r
    BY <2>2, RankTells
  <2> QED
    BY <2>1, <2>3
<1> HIDE DEF Rank, count
<1>7. page \in Seq(rows) /\ DOMAIN page = 1 .. size /\ Len(page) = size
  <2> HIDE DEF size
  <2>1. page \in [1 .. size -> rows]
    BY <1>2, <1>3
  <2> QED
    BY <1>1, <2>1
<1>8. Descending(page)
  <2> SUFFICES ASSUME NEW i \in 1 .. size, NEW j \in 1 .. size, i < j PROVE page[i].seq > page[j].seq
    BY <1>7 DEF Descending
  <2>1. i - 1 < j - 1
    OBVIOUS
  <2> QED
    BY <1>3, <1>5, <2>1
<1>9. CASE size < Limit
  <2>1. NextBeforeSeq(page) = NoSeq /\ size = count
    BY <1>1, <1>7, <1>9 DEF NextBeforeSeq
  <2>2. \A r \in rows : Rank(r) < size
    BY <1>1, <1>4, <2>1
  <2>3. Elements(page) = rows
    BY <1>3, <1>6, <1>7, <2>2 DEF Elements
  <2> QED
    BY <1>7, <1>8, <2>1, <2>3
<1>10. CASE size = Limit
  <2> DEFINE last == page[Limit]
  <2>1. Limit \in 1 .. size /\ last \in rows /\ Rank(last) = Limit - 1 /\ NextBeforeSeq(page) = last.seq
    BY <1>1, <1>3, <1>7, <1>10 DEF NextBeforeSeq
  <2>2. last.seq \in Nat /\ last.seq # NoSeq
    BY <2>1 DEF Rows, NoSeq
  <2> HIDE DEF last
  <2>3. \A i \in 1 .. size : page[i].seq >= last.seq
    <3> SUFFICES ASSUME NEW i \in 1 .. size PROVE page[i].seq >= last.seq
      OBVIOUS
    <3>1. page[i] \in rows /\ Rank(page[i]) = i - 1 /\ page[i].seq \in Nat
      BY <1>3 DEF Rows
    <3>2. CASE i = Limit
      BY <2>2, <3>1, <3>2 DEF last
    <3>3. CASE i # Limit
      <4>1. i - 1 < Limit - 1
        BY <1>1, <1>10, <3>3
      <4> QED
        BY <1>5, <2>1, <2>2, <3>1, <4>1
    <3> QED
      BY <3>2, <3>3
  <2>4. \A r \in rows : r.seq >= last.seq => Rank(r) < size
    <3> SUFFICES ASSUME NEW r \in rows, r.seq >= last.seq, ~(Rank(r) < size) PROVE FALSE
      OBVIOUS
    <3>1. Rank(last) < Rank(r)
      BY <1>1, <1>4, <1>10, <2>1
    <3>2. last.seq > r.seq
      BY <1>5, <2>1, <3>1
    <3> QED
      BY <2>2, <3>2 DEF Rows
  <2>5. Elements(page) = {r \in rows : r.seq >= last.seq}
    BY <1>3, <1>6, <1>7, <2>3, <2>4 DEF Elements
  <2> QED
    BY <1>7, <1>8, <2>1, <2>2, <2>5
<1> QED
  BY <1>1, <1>9, <1>10

(* Pages of which the second is all below the first make one list.         *)
LEMMA PagesJoin ==
  ASSUME NEW s \in Seq(Rows), NEW t \in Seq(Rows), NEW k \in Nat, Descending(s), Descending(t),
         \A r \in Elements(s) : r.seq >= k, \A r \in Elements(t) : r.seq < k
  PROVE  /\ s \o t \in Seq(Rows) /\ Descending(s \o t)
         /\ Elements(s \o t) = Elements(s) \union Elements(t)
<1> DEFINE both == s \o t
<1>1. /\ both \in Seq(Rows) /\ Len(both) = Len(s) + Len(t)
      /\ Len(s) \in Nat /\ Len(t) \in Nat
      /\ DOMAIN s = 1 .. Len(s) /\ DOMAIN t = 1 .. Len(t) /\ DOMAIN both = 1 .. Len(both)
  OBVIOUS
<1>2. \A i \in 1 .. Len(s) : both[i] = s[i]
  OBVIOUS
<1>3. \A i \in 1 .. Len(t) : both[Len(s) + i] = t[i]
  OBVIOUS
<1>4. \A i \in 1 .. Len(both) : \/ i \in 1 .. Len(s)
                                \/ \E n \in 1 .. Len(t) : i = Len(s) + n
  <2> SUFFICES ASSUME NEW i \in 1 .. Len(both), i \notin 1 .. Len(s)
               PROVE  \E n \in 1 .. Len(t) : i = Len(s) + n
    OBVIOUS
  <2>1. i - Len(s) \in 1 .. Len(t) /\ i = Len(s) + (i - Len(s))
    BY <1>1
  <2> QED
    BY <2>1
<1> HIDE DEF both
<1>5. \A i \in 1 .. Len(s) : both[i] \in Elements(s)
  BY <1>1, <1>2 DEF Elements
<1>6. \A n \in 1 .. Len(t) : both[Len(s) + n] \in Elements(t)
  BY <1>1, <1>3 DEF Elements
<1>7. Elements(both) = Elements(s) \union Elements(t)
  <2>1. \A r \in Elements(both) : r \in Elements(s) \union Elements(t)
    BY <1>1, <1>4, <1>5, <1>6 DEF Elements
  <2>2. \A i \in 1 .. Len(s) : i \in DOMAIN both
    BY <1>1
  <2>3. \A n \in 1 .. Len(t) : Len(s) + n \in DOMAIN both
    BY <1>1
  <2>4. \A r \in Elements(s) : r \in Elements(both)
    BY <1>1, <1>2, <2>2 DEF Elements
  <2>5. \A r \in Elements(t) : r \in Elements(both)
    BY <1>1, <1>3, <2>3 DEF Elements
  <2> QED
    BY <2>1, <2>4, <2>5
<1>8. Descending(both)
  <2> SUFFICES ASSUME NEW i \in 1 .. Len(both), NEW j \in 1 .. Len(both), i < j
               PROVE  both[i].seq > both[j].seq
    BY <1>1 DEF Descending
  <2>1. CASE j \in 1 .. Len(s)
    <3>1. i \in 1 .. Len(s)
      BY <2>1
    <3> QED
      BY <1>1, <1>2, <2>1, <3>1 DEF Descending
  <2>2. CASE j \notin 1 .. Len(s)
    <3>1. PICK n \in 1 .. Len(t) : j = Len(s) + n
      BY <1>4, <2>2
    <3>2. CASE i \in 1 .. Len(s)
      <4>1. both[i].seq >= k /\ both[j].seq < k
        BY <1>5, <1>6, <3>1, <3>2
      <4>2. both[i] \in Rows /\ both[j] \in Rows
        BY <1>1
      <4>3. both[i].seq \in Nat /\ both[j].seq \in Nat
        BY <4>2 DEF Rows
      <4> QED
        BY <4>1, <4>3
    <3>3. CASE i \notin 1 .. Len(s)
      <4>1. PICK m \in 1 .. Len(t) : i = Len(s) + m
        BY <1>4, <3>3
      <4>2. m < n
        BY <1>1, <3>1, <4>1
      <4>3. t[m].seq > t[n].seq
        BY <1>1, <4>2 DEF Descending
      <4> QED
        BY <1>3, <3>1, <4>1, <4>3
    <3> QED
      BY <3>2, <3>3
  <2> QED
    BY <2>1, <2>2
<1> QED
  BY <1>1, <1>7, <1>8 DEF both

(* What a client was shown is, newest first, what there was at the start   *)
(* of its reading, down to its cursor; nothing has appeared among it.      *)
PagesInv ==
  /\ DOMAIN reader = {"started", "shown", "before_seq", "at_start"}
  /\ reader.started \in BOOLEAN /\ reader.shown \in Seq(Rows)
  /\ reader.at_start \subseteq entries
  /\ \A r \in reader.at_start, q \in entries \ reader.at_start : r.seq < q.seq
  /\ Descending(reader.shown)
  /\ Elements(reader.shown) \subseteq reader.at_start
  /\ reader.before_seq # NoSeq =>
       /\ reader.started
       /\ \E r \in reader.at_start : r.seq = reader.before_seq
       /\ Elements(reader.shown) = {r \in reader.at_start : r.seq >= reader.before_seq}
  /\ reader.started /\ reader.before_seq = NoSeq => Elements(reader.shown) = reader.at_start

LEMMA EntriesGrow ==
  ASSUME IInv, [Next]_vars
  PROVE  entries \subseteq entries' /\ \A r \in entries, q \in entries' \ entries : r.seq < q.seq
<1> SUFFICES ASSUME entries' # entries
             PROVE  entries \subseteq entries' /\ \A r \in entries, q \in entries' \ entries : r.seq < q.seq
  OBVIOUS
<1>1. PICK s \in Sessions : Commit(s)
  BY DEF Next, vars, AcquireLock, ReadLastHash, Insert, Rollback
<1>2. entries' = entries \union inserted[s]
  BY <1>1 DEF Commit
<1> QED
  BY <1>2 DEF IInv, SeqOrdered

LEMMA PagesInit == ReaderInit => PagesInv
<1> SUFFICES ASSUME ReaderInit PROVE PagesInv
  OBVIOUS
<1>1. reader = Unread /\ entries = {}
  BY DEF ReaderInit, Init
<1>2. <<>> \in Seq(Rows) /\ DOMAIN <<>> = {}
  OBVIOUS
<1> QED
  BY <1>1, <1>2 DEF PagesInv, Unread, Descending, Elements

LEMMA PagesStep ==
  ASSUME IInv, PagesInv, [ReaderNext]_readervars
  PROVE  PagesInv'
<1> USE DEF PagesInv
<1>0. entries \in SUBSET Rows /\ Numbered(entries)
  BY DEF IInv, TypeOK, RowsNumbered
<1>1. CASE Next /\ UNCHANGED reader
  <2>1. entries \subseteq entries' /\ \A r \in entries, q \in entries' \ entries : r.seq < q.seq
    BY <1>1, EntriesGrow
  <2>2. \A r \in reader.at_start, q \in entries' \ reader.at_start : r.seq < q.seq
    BY <2>1
  <2> QED
    BY <1>1, <2>1, <2>2 DEF Descending, Elements
<1>2. CASE FirstPage
  <2> DEFINE page == Newest(entries)
  <2>1. reader' = [started |-> TRUE, shown |-> page, before_seq |-> NextBeforeSeq(page), at_start |-> entries]
    BY <1>2 DEF FirstPage
  <2>2. entries' = entries
    BY <1>2 DEF FirstPage, vars
  <2> HIDE DEF page
  <2>3. /\ page \in Seq(entries) /\ Descending(page)
        /\ NextBeforeSeq(page) = NoSeq => Elements(page) = entries
        /\ NextBeforeSeq(page) # NoSeq =>
             /\ \E r \in entries : r.seq = NextBeforeSeq(page)
             /\ Elements(page) = {r \in entries : r.seq >= NextBeforeSeq(page)}
    BY <1>0, PageIsNewest DEF page
  <2>4. page \in Seq(Rows)
    BY <1>0, <2>3
  <2>5. /\ reader'.started = TRUE /\ reader'.shown = page
        /\ reader'.before_seq = NextBeforeSeq(page) /\ reader'.at_start = entries
        /\ DOMAIN reader' = {"started", "shown", "before_seq", "at_start"}
    BY <2>1
  <2>6. Elements(page) \subseteq entries
    BY <2>3
  <2>7. Descending(reader'.shown) /\ Elements(reader'.shown) = Elements(page)
    BY <2>3, <2>5
  <2> QED
    BY <2>2, <2>3, <2>4, <2>5, <2>6, <2>7
<1>3. CASE NextPage
  <2> DEFINE rest == Earlier(entries, reader.before_seq)
             page == Newest(rest)
             cursor == NextBeforeSeq(page)
             k == reader.before_seq
             start == reader.at_start
  <2>1. /\ k # NoSeq /\ entries' = entries
        /\ reader' = [reader EXCEPT !.shown = @ \o page, !.before_seq = cursor]
    BY <1>3 DEF NextPage, Turn, vars
  <2>2. /\ reader'.started = reader.started /\ reader'.shown = reader.shown \o page
        /\ reader'.before_seq = cursor /\ reader'.at_start = start
        /\ DOMAIN reader' = DOMAIN reader
    BY <2>1
  <2>3. PICK c \in start : c.seq = k
    BY <2>1
  <2>4. k \in Nat /\ start \in SUBSET Rows
    BY <1>0, <2>3 DEF Rows
  <2>5. rest = {r \in start : r.seq < k}
    <3>1. \A q \in entries \ start : ~(q.seq < k)
      BY <1>0, <2>3, <2>4 DEF Rows
    <3> QED
      BY <3>1 DEF Earlier
  <2>6. rest \in SUBSET Rows /\ Numbered(rest)
    BY <1>0, FS_Subset DEF Earlier, Numbered
  <2> HIDE DEF page, rest
  <2>7. /\ page \in Seq(rest) /\ Descending(page)
        /\ cursor = NoSeq => Elements(page) = rest
        /\ cursor # NoSeq => /\ \E r \in rest : r.seq = cursor
                             /\ Elements(page) = {r \in rest : r.seq >= cursor}
    BY <2>6, PageIsNewest DEF page
  <2> HIDE DEF cursor
  <2>8. page \in Seq(Rows) /\ Elements(page) \subseteq rest
    BY <2>6, <2>7
  <2>9. Elements(reader.shown) = {r \in start : r.seq >= k}
    BY <2>1
  <2>10. /\ reader.shown \o page \in Seq(Rows) /\ Descending(reader.shown \o page)
         /\ Elements(reader.shown \o page) = Elements(reader.shown) \union Elements(page)
    <3>1. \A r \in Elements(reader.shown) : r.seq >= k
      BY <2>9
    <3>2. \A r \in Elements(page) : r.seq < k
      BY <2>5, <2>8
    <3> QED
      BY <2>4, <2>7, <2>8, <3>1, <3>2, PagesJoin
  <2>11. cursor = NoSeq => Elements(reader.shown \o page) = start
    <3>1. \A r \in start : r.seq \in Nat
      BY <2>4 DEF Rows
    <3> QED
      BY <2>4, <2>5, <2>7, <2>9, <2>10, <3>1
  <2>12. cursor # NoSeq => /\ \E r \in start : r.seq = cursor
                           /\ Elements(reader.shown \o page) = {r \in start : r.seq >= cursor}
    <3> SUFFICES ASSUME cursor # NoSeq
                 PROVE  /\ \E r \in start : r.seq = cursor
                        /\ Elements(reader.shown \o page) = {r \in start : r.seq >= cursor}
      OBVIOUS
    <3>1. PICK e \in rest : e.seq = cursor
      BY <2>7
    <3>2. \A r \in start : r.seq \in Nat
      BY <2>4 DEF Rows
    <3>3. cursor < k /\ cursor \in Nat
      BY <2>5, <3>1, <3>2
    <3> QED
      BY <2>4, <2>5, <2>7, <2>9, <2>10, <3>1, <3>2, <3>3
  <2>13. Elements(reader.shown \o page) \subseteq start
    BY <2>11, <2>12
  <2> HIDE DEF k
  <2>14. /\ reader'.shown \in Seq(Rows) /\ Descending(reader'.shown)
         /\ Elements(reader'.shown) = Elements(reader.shown \o page)
    BY <2>2, <2>10
  <2> QED
    BY <2>1, <2>2, <2>11, <2>12, <2>13, <2>14 DEF k
<1>4. CASE StartOver
  <2>1. reader' = Unread /\ entries' = entries
    BY <1>4 DEF StartOver, vars
  <2>2. <<>> \in Seq(Rows) /\ DOMAIN <<>> = {}
    OBVIOUS
  <2> QED
    BY <2>1, <2>2 DEF Unread, Descending, Elements
<1>5. CASE UNCHANGED readervars
  BY <1>5 DEF readervars, vars, Descending, Elements
<1> QED
  BY <1>1, <1>2, <1>3, <1>4, <1>5 DEF ReaderNext

(* A client that follows the cursor is shown the ledger as it was at its   *)
(* first page, each row once and newest first, whatever is committed or    *)
(* rolled back while it reads: for any page size and any transactions.     *)
THEOREM PagesAreTheLedger == ReaderSpec => []PagesShowTheLedger
<1>1. ReaderInit => IInv /\ PagesInv
  BY InitInv, PagesInit DEF ReaderInit
<1>2. IInv /\ PagesInv /\ [ReaderNext]_readervars => (IInv /\ PagesInv)'
  <2> SUFFICES ASSUME IInv, PagesInv, [ReaderNext]_readervars PROVE IInv' /\ PagesInv'
    OBVIOUS
  <2>1. [Next]_vars
    BY DEF ReaderNext, readervars, FirstPage, NextPage, StartOver
  <2> QED
    BY <2>1, StepInv, PagesStep
<1>3. IInv /\ PagesInv => PagesShowTheLedger
  <2> SUFFICES ASSUME IInv, PagesInv PROVE PagesShowTheLedger
    OBVIOUS
  <2> DEFINE shown == reader.shown
  <2>1. shown \in Seq(Rows) /\ Descending(shown) /\ Elements(shown) \subseteq reader.at_start
    BY DEF PagesInv
  <2>2. \A i, j \in DOMAIN shown : i < j => shown[i].seq > shown[j].seq
    BY <2>1 DEF Descending
  <2>3. \A i \in DOMAIN shown : shown[i] \in reader.at_start
    BY <2>1 DEF Elements
  <2>4. ASSUME reader.started, reader.before_seq = NoSeq
        PROVE  Len(shown) = Cardinality(reader.at_start)
    <3>1. Elements(shown) = reader.at_start
      BY <2>4 DEF PagesInv
    <3> HIDE DEF shown
    <3>2. /\ Len(shown) \in Nat /\ DOMAIN shown = 1 .. Len(shown)
          /\ \A i \in 1 .. Len(shown) : shown[i].seq \in Nat
      <4>1. Len(shown) \in Nat /\ DOMAIN shown = 1 .. Len(shown)
        BY <2>1
      <4>2. \A i \in 1 .. Len(shown) : shown[i] \in Rows
        BY <2>1
      <4> QED
        BY <4>1, <4>2 DEF Rows
    <3>3. shown \in [1 .. Len(shown) -> reader.at_start]
      BY <2>1, <2>3, <3>2
    <3>4. \A i, j \in 1 .. Len(shown) : shown[i] = shown[j] => i = j
      <4> SUFFICES ASSUME NEW i \in 1 .. Len(shown), NEW j \in 1 .. Len(shown), shown[i] = shown[j], i # j
                   PROVE  FALSE
        OBVIOUS
      <4>1. i < j \/ j < i
        OBVIOUS
      <4> QED
        BY <2>2, <3>2, <4>1
    <3>5. \A r \in reader.at_start : \E i \in 1 .. Len(shown) : shown[i] = r
      BY <3>1, <3>2 DEF Elements
    <3>6. shown \in Bijection(1 .. Len(shown), reader.at_start)
      BY <3>3, <3>4, <3>5 DEF Bijection, Injection, Surjection, IsInjective
    <3> QED
      BY <3>2, <3>6, FS_CountingElements DEF ExistsBijection
  <2> QED
    BY <2>2, <2>3, <2>4 DEF PagesShowTheLedger
<1> QED
  BY <1>1, <1>2, <1>3, PTL DEF ReaderSpec
=============================================================================
