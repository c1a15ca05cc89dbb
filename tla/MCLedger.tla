------------------------------ MODULE MCLedger ------------------------------
(***************************************************************************)
(* The ledger with a hash that is perfect for as long as the run lasts: a  *)
(* digest is the sequence of fields it covers.  Like SHA-256 it has        *)
(* finitely many digests; the rows MaxSeq allows never reach a collision.  *)
(***************************************************************************)
EXTENDS LedgerReader

GenesisDigest == <<>>
Digests == UNION {[1 .. n -> Fields] : n \in 0 .. MaxSeq}
DigestOf(h, f) == IF Len(h) < MaxSeq THEN Append(h, f) ELSE GenesisDigest
=============================================================================
