---------------------------- MODULE MCDispatcher ----------------------------
(***************************************************************************)
(* Instances of Dispatcher are small sets of model values given in the     *)
(* configurations: two dispatchers over two entries, where a claim that    *)
(* skips locked rows, a shared breaker and a second attempt all matter,    *)
(* and a single dispatcher over one entry that never gets anywhere.        *)
(***************************************************************************)
EXTENDS Dispatcher
=============================================================================
