------------------------------- MODULE Backoff -------------------------------
(***************************************************************************)
(* The retry delay of src/execute/backoff.py.                              *)
(*                                                                         *)
(* Time is a tick count that stops at MaxTime: from then on every wait is  *)
(* over at once, so that a run may go on for ever on finitely many states. *)
(***************************************************************************)
EXTENDS Integers

CONSTANTS BaseDelay,  \* base_seconds
          MaxDelay,   \* max_seconds
          MaxTime     \* bound: the clock

ASSUME BackoffAssumption ==
  BaseDelay \in Nat \ {0} /\ MaxDelay \in Nat \ {0} /\ MaxTime \in Nat

Earliest(a, b) == IF a <= b THEN a ELSE b
After(t, delay) == Earliest(t + delay, MaxTime)

(* attempts = 1 is the delay before the second try; jitter is a fifth      *)
(* either way.                                                             *)
DelayRange(attempts) ==
  LET raw == Earliest(BaseDelay * 2 ^ (attempts - 1), MaxDelay)
  IN  (raw - raw \div 5) .. (raw + raw \div 5)
=============================================================================
