---------------------------- MODULE AppendOnlyLog ----------------------------
(***************************************************************************)
(* What the audit ledger promises its readers, and all they may rely on: a *)
(* set of rows ordered by seq that only ever grows at its end.  A step     *)
(* publishes the rows of one committed transaction, all of them later than *)
(* every row anyone has seen; no row changes and none disappears.          *)
(***************************************************************************)
VARIABLE log      \* the rows a reader can see
CONSTANT Before(_, _)   \* Before(r, q): row r precedes row q in the ledger

Init == log = {}

Publish ==
  /\ log # log'
  /\ log \subseteq log'
  /\ \A old \in log, new \in log' \ log : Before(old, new)

Spec == Init /\ [][Publish]_log
=============================================================================
