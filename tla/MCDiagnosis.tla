---------------------------- MODULE MCDiagnosis -----------------------------
(***************************************************************************)
(* Two orders that failed for a reason the table does not list.  The first *)
(* costs more than the approval threshold; the second fails once more, for *)
(* a listed reason and another amount.  The model fails, cites what it was *)
(* not shown, is unsure, or is sure of a failure to chase or of one the    *)
(* customer can do nothing about; it always suggests a link.               *)
(***************************************************************************)
EXTENDS Diagnosis

Failed(order, payment, amount_paise, reason) ==
  [kind |-> "failed", order |-> order, payment |-> payment, payer |-> "asha",
   amount_paise |-> amount_paise, reason |-> reason, code |-> "unlisted"]

LongTailOrders == {Failed("o1", "p1", 5000, "unlisted"), Failed("o2", "p2", 900, "unlisted"),
                   Failed("o2", "p3", 5000, "insufficient_funds")}

Output(grounded, category, confidence) ==
  [kind |-> "output", grounded |-> grounded, category |-> category, confidence |-> confidence,
   suggested_intervention |-> "send_payment_link"]

ModelAnswerKinds == {[kind |-> "error"], Output(FALSE, "auth_abandoned", 90), Output(TRUE, "auth_abandoned", 40),
                     Output(TRUE, "auth_abandoned", 90), Output(TRUE, "infra_outage", 90)}

DaySettings ==
  {[kill_switch_enabled |-> FALSE, min_diagnosis_confidence |-> 70, max_touches_per_payer_7d |-> 3,
    human_approval_threshold_paise |-> 2500, max_interventions_per_batch |-> 200,
    quiet_hours_start |-> 21, quiet_hours_end |-> 9]}
=============================================================================
