---------------------------- MODULE MCEvaluation ----------------------------
(***************************************************************************)
(* A batch of three failures: the treatment arm has one that the policy    *)
(* chases and one that it does not; the control arm has another order of   *)
(* the payer who is chased, so that together they exceed a cap of one.     *)
(***************************************************************************)
EXTENDS Evaluation

Failure(order, payer, reason) ==
  [kind |-> "failed", order |-> order, payment |-> order, payer |-> payer,
   amount_paise |-> 900, reason |-> reason, code |-> "unlisted"]

Batch == <<Failure("o1", "asha", "insufficient_funds"), Failure("o2", "ravi", "infra_outage"),
           Failure("o3", "asha", "instrument_blocked")>>

BatchEvents == {Batch[i] : i \in DOMAIN Batch}
Dated == [e \in BatchEvents |-> CASE e.order = "o1" -> 11 [] e.order = "o2" -> 12 [] OTHER -> 13]

DaySettings ==
  {[kill_switch_enabled |-> FALSE, min_diagnosis_confidence |-> 70, max_touches_per_payer_7d |-> 1,
    human_approval_threshold_paise |-> 2500, max_interventions_per_batch |-> 200,
    quiet_hours_start |-> 21, quiet_hours_end |-> 9]}
=============================================================================
