---------------------------- MODULE LedgerReader ----------------------------
(***************************************************************************)
(* A reader that pages through the ledger while it grows: list_ledger() of *)
(* src/api/ledger.py and a client that follows next_before_seq until there *)
(* is none.  Each page is one query, newest rows first.                    *)
(***************************************************************************)
EXTENDS Ledger, Sequences, FiniteSets

CONSTANT Limit   \* rows on a page

ASSUME LimitAssumption == Limit \in Nat \ {0}

VARIABLE reader   \* the client: what it was shown, and its cursor

readervars == <<vars, reader>>

Newer(rows, r) == {q \in rows : q.seq > r.seq}

(* ORDER BY seq DESC LIMIT limit: the i-th row has i - 1 newer ones.       *)
Newest(rows) ==
  LET count == Cardinality(rows)
  IN  [i \in 1 .. IF count < Limit THEN count ELSE Limit |->
         CHOOSE r \in rows : Cardinality(Newer(rows, r)) = i - 1]

NextBeforeSeq(page) == IF Len(page) = Limit THEN page[Limit].seq ELSE NoSeq

Unread == [started |-> FALSE, shown |-> <<>>, before_seq |-> NoSeq, at_start |-> {}]

Turn(page) ==
  reader' = [reader EXCEPT !.shown = @ \o page, !.before_seq = NextBeforeSeq(page)]

FirstPage ==
  /\ ~reader.started
  /\ LET page == Newest(entries)
     IN  reader' = [started |-> TRUE, shown |-> page, before_seq |-> NextBeforeSeq(page),
                    at_start |-> entries]
  /\ UNCHANGED vars

(* Mutant: the next page begins after as many rows as were shown.          *)
NextPage_by_offset ==
  /\ reader.before_seq # NoSeq
  /\ LET before == {r \in entries : Cardinality({q \in entries : q.seq > r.seq}) >= Len(reader.shown)}
     IN  Turn(Newest(before))
  /\ UNCHANGED vars

NextPage ==
  /\ reader.before_seq # NoSeq
  /\ Turn(Newest(Earlier(entries, reader.before_seq)))
  /\ UNCHANGED vars

StartOver ==
  /\ reader.started /\ reader.before_seq = NoSeq
  /\ reader' = Unread
  /\ UNCHANGED vars

ReaderInit == Init /\ reader = Unread

ReaderNext ==
  \/ Next /\ UNCHANGED reader
  \/ FirstPage \/ NextPage \/ StartOver

ReaderSpec == ReaderInit /\ [][ReaderNext]_readervars

-----------------------------------------------------------------------------
(* Paging shows the ledger as it was when the first page was asked for:    *)
(* every row that was visible then once, newest first, none twice and none *)
(* that came later, whatever commits and rolls back between two pages.     *)
(* This needs rows to become visible in seq order, which is the ledger's   *)
(* lock and not its sequence.                                              *)
PagesShowTheLedger ==
  /\ \A i, j \in DOMAIN reader.shown : i < j => reader.shown[i].seq > reader.shown[j].seq
  /\ \A i \in DOMAIN reader.shown : reader.shown[i] \in reader.at_start
  /\ reader.started /\ reader.before_seq = NoSeq =>
       Len(reader.shown) = Cardinality(reader.at_start)
=============================================================================
