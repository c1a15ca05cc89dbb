----------------------------- MODULE MCRecovery -----------------------------
(***************************************************************************)
(* Two orders of one payer and a cap of one touch, so that the second      *)
(* order meets the cap or slips past it; the first is also paid.  The      *)
(* second hour is quiet, and the touch window is one hour, so that a touch *)
(* can leave it again.                                                     *)
(***************************************************************************)
EXTENDS Recovery, TLC

Event(kind, order, payment, reason) ==
  [kind |-> kind, order |-> order, payment |-> payment, payer |-> "asha",
   amount_paise |-> 900, reason |-> reason, code |-> "unlisted"]

TwoOrders == {Event("failed", "o1", "p1", "insufficient_funds"),
              Event("captured", "o1", "p2", "unlisted"),
              Event("failed", "o2", "p3", "auth_abandoned")}

ShortDays ==
  {[kill_switch_enabled |-> FALSE, min_diagnosis_confidence |-> 70, max_touches_per_payer_7d |-> 1,
    human_approval_threshold_paise |-> 2500, max_interventions_per_batch |-> 200,
    quiet_hours_start |-> 1, quiet_hours_end |-> 2]}

AnyDispatcher == Permutations(Dispatchers)
=============================================================================
