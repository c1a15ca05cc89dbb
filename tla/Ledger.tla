------------------------------- MODULE Ledger -------------------------------
(***************************************************************************)
(* The hash-chained audit ledger: src/ledger/writer.py, hashing.py and     *)
(* verify.py over the table of migrations/versions/0001.                   *)
(*                                                                         *)
(* Every component appends inside its own database transaction, so a       *)
(* session is a transaction that may append several rows before it         *)
(* commits.  append_entry is three database statements: take the advisory  *)
(* lock (held until the transaction ends, re-entrant), read the last hash, *)
(* insert.  The isolation level is READ COMMITTED: each statement sees the *)
(* rows committed before it and the session's own.  seq comes from a       *)
(* sequence, whose numbers a rollback does not return.                     *)
(***************************************************************************)
EXTENDS Integers

CONSTANTS Sessions,      \* database sessions: webhook handlers, dispatcher, diagnoser, detector
          Fields,        \* the hashed fields of a row
          Hash(_, _),    \* compute_hash(prev_hash, fields)
          Hashes,        \* the digests
          Genesis,       \* GENESIS_HASH
          NoSession,     \* the advisory lock is free
          MaxSeq         \* bound: sequence numbers handed out

ASSUME HashAssumption ==
  /\ Genesis \in Hashes
  /\ \A h \in Hashes, f \in Fields : Hash(h, f) \in Hashes
ASSUME SessionAssumption == NoSession \notin Sessions
ASSUME BoundAssumption == MaxSeq \in Nat

VARIABLES entries,    \* committed rows of ledger_entries
          inserted,   \* rows each open transaction has inserted
          lock,       \* holder of pg_advisory_xact_lock("retryable.ledger.append")
          prev_hash,  \* what each session last read as the previous hash
          next_seq,   \* the table's sequence
          pc          \* where each session is: between calls, or inside append_entry

vars == <<entries, inserted, lock, prev_hash, next_seq, pc>>

Rows == [seq : Nat, fields : Fields, prev_hash : Hashes, this_hash : Hashes]

TypeOK ==
  /\ entries \subseteq Rows
  /\ inserted \in [Sessions -> SUBSET Rows]
  /\ lock \in Sessions \union {NoSession}
  /\ prev_hash \in [Sessions -> Hashes]
  /\ next_seq \in Nat
  /\ pc \in [Sessions -> {"open", "locked", "read"}]

-----------------------------------------------------------------------------
(* ORDER BY seq DESC LIMIT 1                                               *)
Latest(rows) == CHOOSE r \in rows : \A q \in rows : q.seq <= r.seq

(* Mutant: no GENESIS_HASH for an empty table.                             *)
LastHash_none(rows) == IF rows = {} THEN NoSession ELSE Latest(rows).this_hash

LastHash(rows) == IF rows = {} THEN Genesis ELSE Latest(rows).this_hash

Earlier(rows, seq) == {q \in rows : q.seq < seq}

(* verify_chain: walk the rows in seq order, recompute, stop at the first  *)
(* row that does not match what precedes it or its own hash.               *)
(* Mutants: a verifier that trusts stored hashes, one that does not link rows. *)
Broken_trusts_hash(rows) ==
  {r \in rows : r.prev_hash # LastHash(Earlier(rows, r.seq))}
Broken_no_links(rows) ==
  {r \in rows : r.this_hash # Hash(r.prev_hash, r.fields)}

Broken(rows) ==
  {r \in rows : \/ r.prev_hash # LastHash(Earlier(rows, r.seq))
                \/ r.this_hash # Hash(r.prev_hash, r.fields)}

NoSeq == -1
verify_chain(rows) ==
  LET broken == Broken(rows)
  IN  [valid            |-> broken = {},
       first_broken_seq |-> IF broken = {} THEN NoSeq
                            ELSE (CHOOSE r \in broken : \A q \in broken : r.seq <= q.seq).seq]

-----------------------------------------------------------------------------
Visible(s) == entries \union inserted[s]

(* Mutant: the append does not wait for the lock.                          *)
AcquireLock_no_wait(s) ==
  /\ pc[s] = "open"
  /\ lock' = s
  /\ pc' = [pc EXCEPT ![s] = "locked"]
  /\ UNCHANGED <<entries, inserted, prev_hash, next_seq>>

AcquireLock(s) ==
  /\ pc[s] = "open"
  /\ lock \in {NoSession, s}
  /\ lock' = s
  /\ pc' = [pc EXCEPT ![s] = "locked"]
  /\ UNCHANGED <<entries, inserted, prev_hash, next_seq>>

ReadLastHash(s) ==
  /\ pc[s] = "locked"
  /\ prev_hash' = [prev_hash EXCEPT ![s] = LastHash(Visible(s))]
  /\ pc' = [pc EXCEPT ![s] = "read"]
  /\ UNCHANGED <<entries, inserted, lock, next_seq>>

(* Mutant: the lock is let go after the flush instead of at the commit.    *)
Insert_unlocks(s, f) ==
  /\ pc[s] = "read"
  /\ next_seq < MaxSeq
  /\ inserted' = [inserted EXCEPT ![s] = @ \union
                    {[seq |-> next_seq, fields |-> f, prev_hash |-> prev_hash[s],
                      this_hash |-> Hash(prev_hash[s], f)]}]
  /\ next_seq' = next_seq + 1
  /\ pc' = [pc EXCEPT ![s] = "open"]
  /\ lock' = NoSession
  /\ UNCHANGED <<entries, prev_hash>>

Insert(s, f) ==
  /\ pc[s] = "read"
  /\ next_seq < MaxSeq
  /\ inserted' = [inserted EXCEPT ![s] = @ \union
                    {[seq |-> next_seq, fields |-> f, prev_hash |-> prev_hash[s],
                      this_hash |-> Hash(prev_hash[s], f)]}]
  /\ next_seq' = next_seq + 1
  /\ pc' = [pc EXCEPT ![s] = "open"]
  /\ UNCHANGED <<entries, lock, prev_hash>>

Release(s) == IF lock = s THEN NoSession ELSE lock

(* The caller commits, between two calls of append_entry.                  *)
Commit(s) ==
  /\ pc[s] = "open"
  /\ inserted[s] # {}
  /\ entries' = entries \union inserted[s]
  /\ inserted' = [inserted EXCEPT ![s] = {}]
  /\ lock' = Release(s)
  /\ UNCHANGED <<prev_hash, next_seq, pc>>

(* An error, a lost connection or a crash at any point ends the            *)
(* transaction with nothing kept but the numbers it took.                  *)
Rollback(s) ==
  /\ pc[s] # "open" \/ inserted[s] # {}
  /\ inserted' = [inserted EXCEPT ![s] = {}]
  /\ pc' = [pc EXCEPT ![s] = "open"]
  /\ lock' = Release(s)
  /\ UNCHANGED <<entries, prev_hash, next_seq>>

Init ==
  /\ entries = {}
  /\ inserted = [s \in Sessions |-> {}]
  /\ lock = NoSession
  /\ prev_hash = [s \in Sessions |-> Genesis]
  /\ next_seq = 0
  /\ pc = [s \in Sessions |-> "open"]

Next ==
  \E s \in Sessions :
    \/ AcquireLock(s)
    \/ ReadLastHash(s)
    \/ \E f \in Fields : Insert(s, f)
    \/ Commit(s)
    \/ Rollback(s)

Spec == Init /\ [][Next]_vars

-----------------------------------------------------------------------------
(* Whatever the interleaving of appends, commits and rollbacks, the chain  *)
(* a reader sees at any moment verifies: no two rows ever chain to the     *)
(* same predecessor, and a rolled-back row is never anybody's predecessor. *)
CommittedChainValid == verify_chain(entries).valid

(* The ledger implements an append-only log: rows become visible in seq    *)
(* order even though seq is taken long before the commit, so a reader that *)
(* has seen a row will never see an earlier one appear behind it.          *)
Precedes(r, q) == r.seq < q.seq
Log == INSTANCE AppendOnlyLog WITH log <- entries, Before <- Precedes
AppendOnly == Log!Spec

(* "The first mismatch is reported with its sequence number; everything    *)
(* before it is proven intact" (verify.py:4): editing the fields of any    *)
(* committed row is reported at exactly that row.                          *)
EditPinpointed ==
  \A r \in entries : \A f \in Fields \ {r.fields} :
    verify_chain((entries \ {r}) \union {[r EXCEPT !.fields = f]}).first_broken_seq = r.seq

(* Taking out a row that has a successor is reported at the successor, and *)
(* exchanging the places of two rows is reported at the earlier place.     *)
MovesPinpointed ==
  /\ \A r \in entries : LET later == {q \in entries : q.seq > r.seq} IN
       later # {} => \E n \in later : /\ \A q \in later : n.seq <= q.seq
                                      /\ verify_chain(entries \ {r}).first_broken_seq = n.seq
  /\ \A r, q \in entries : r.seq < q.seq =>
       verify_chain((entries \ {r, q}) \union {[r EXCEPT !.seq = q.seq], [q EXCEPT !.seq = r.seq]})
         .first_broken_seq = r.seq
=============================================================================
