--------------------------- MODULE CircuitBreaker ---------------------------
(***************************************************************************)
(* The three-state breaker of src/execute/circuit_breaker.py as functions  *)
(* over a snapshot.                                                        *)
(***************************************************************************)
EXTENDS Backoff

CONSTANTS Cooldown,          \* circuit_breaker_cooldown_seconds
          FailureThreshold   \* circuit_breaker_failure_threshold

ASSUME BreakerAssumption == Cooldown \in Nat \ {0} /\ FailureThreshold \in Nat \ {0}

NeverOpened == -1
Snapshots == [state : {"closed", "open", "half_open"}, consecutive_failures : Nat,
              opened_at : Nat \union {NeverOpened}]

Closed == [state |-> "closed", consecutive_failures |-> 0, opened_at |-> NeverOpened]

(* Mutant: an open breaker never lets a trial call through.                *)
should_allow_call_never(snapshot, now) == snapshot.state # "open"

should_allow_call(snapshot, now) ==
  snapshot.state = "open" =>
    snapshot.opened_at # NeverOpened /\ now >= After(snapshot.opened_at, Cooldown)

(* An open breaker past its cooldown admits one trial call.                *)
before_call(snapshot, now) ==
  IF snapshot.state = "open" /\ should_allow_call(snapshot, now)
    THEN [snapshot EXCEPT !.state = "half_open"] ELSE snapshot

record_success(snapshot) == Closed

(* Mutant: a failed trial call leaves the breaker half open.               *)
record_failure_stays_half_open(snapshot, now) ==
  LET failures == snapshot.consecutive_failures + 1
  IN  IF failures >= FailureThreshold /\ snapshot.state = "closed"
        THEN [state |-> "open", consecutive_failures |-> failures, opened_at |-> now]
        ELSE [snapshot EXCEPT !.consecutive_failures = failures]

record_failure(snapshot, now) ==
  LET failures == snapshot.consecutive_failures + 1
  IN  IF snapshot.state = "half_open" \/ failures >= FailureThreshold
        THEN [state |-> "open", consecutive_failures |-> failures, opened_at |-> now]
        ELSE [snapshot EXCEPT !.consecutive_failures = failures]
=============================================================================
