------------------------------ MODULE MCIngest ------------------------------
(***************************************************************************)
(* An instance of Ingest.  A failed attempt and a capture make deliveries  *)
(* fight over the order's lock and row.  The event of another type takes   *)
(* no lock of an order, so that only the claim of its event id keeps its   *)
(* redeliveries apart.                                                     *)
(***************************************************************************)
EXTENDS Ingest

Event(kind, payment, payer, amount_paise, reason) ==
  [kind |-> kind, order |-> "o1", payment |-> payment, payer |-> payer,
   amount_paise |-> amount_paise, reason |-> reason, code |-> "unlisted"]

Contended == {Event("failed", "p1", "asha", 900, "insufficient_funds"),
              Event("captured", "p2", "ravi", 800, "unlisted"),
              Event("unsupported", "p1", "asha", 900, "unlisted")}

DaySettings ==
  {[kill_switch_enabled |-> FALSE, min_diagnosis_confidence |-> 70, max_touches_per_payer_7d |-> 3,
    human_approval_threshold_paise |-> 2500, max_interventions_per_batch |-> 200,
    quiet_hours_start |-> 21, quiet_hours_end |-> 9]}
=============================================================================
