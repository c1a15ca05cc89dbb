--------------------------- MODULE MCPolicyEngine ---------------------------
(***************************************************************************)
(* Exercises decide() over every combination of gate conditions: one step  *)
(* takes a question that is still open to the decision the engine gives.   *)
(***************************************************************************)
EXTENDS PolicyEngine

CONSTANTS Confidences, Amounts, Touches, Batches, Settings

(* Counts, thresholds and paise are never negative, hours are of a day.    *)
ASSUME QuestionAssumption ==
  /\ Confidences \subseteq Nat /\ Amounts \subseteq Nat
  /\ Touches \subseteq Nat /\ Batches \subseteq Nat
  /\ \A s \in Settings :
       /\ s.min_diagnosis_confidence \in Nat /\ s.max_touches_per_payer_7d \in Nat
       /\ s.human_approval_threshold_paise \in Nat /\ s.max_interventions_per_batch \in Nat
       /\ s.quiet_hours_start \in 0 .. HoursPerDay - 1 /\ s.quiet_hours_end \in 0 .. HoursPerDay - 1

VARIABLES proposal, ctx, settings, decision
vars == <<proposal, ctx, settings, decision>>

Open == [rule_id |-> "none"]

Init ==
  /\ proposal \in Interventions \union {"send_whatsapp"}
  /\ ctx \in [category : FailureCategory, confidence : Confidences, amount_paise : Amounts,
              touches_in_window : Touches, interventions_dispatched_in_batch : Batches,
              now : 0 .. TicksPerDay - 1]
  /\ settings \in Settings
  /\ decision = Open

Decide ==
  /\ decision = Open
  /\ decision' = decide(proposal, ctx, settings)
  /\ UNCHANGED <<proposal, ctx, settings>>

Next == Decide
Spec == Init /\ [][Next]_vars

-----------------------------------------------------------------------------
(* An intervention that contacts the customer is authorized exactly when   *)
(* none of the nine reasons to stay silent holds: no fallback ever         *)
(* contacts anyone (three YAML tables have to agree for that), no gate is  *)
(* shadowed by an earlier one, and no gate blocks more than it says.       *)
ContactIffPermitted ==
  decision # Open =>
    ( decision.authorized_intervention \in RequiresContact
        <=> /\ proposal \in RequiresContact
            /\ ~settings.kill_switch_enabled
            /\ ctx.confidence >= settings.min_diagnosis_confidence
            /\ ctx.category \in Recoverable \intersect CustomerActionable
            /\ ctx.touches_in_window < settings.max_touches_per_payer_7d
            /\ ctx.amount_paise <= settings.human_approval_threshold_paise
            /\ ctx.interventions_dispatched_in_batch < settings.max_interventions_per_batch
            /\ ~InQuietHours(ctx.now, settings) )

(* A deferral names the first moment after now at which outreach is        *)
(* allowed again: the whole stretch up to retry_at is quiet, retry_at is   *)
(* not, and it is less than a day away, whichever way the window wraps.    *)
RetryAtFirstAllowedMoment ==
  decision.rule_id = "QUIET_HOURS" =>
    /\ ctx.now < decision.retry_at /\ decision.retry_at < ctx.now + TicksPerDay
    /\ ~InQuietHours(decision.retry_at, settings)
    /\ \A t \in ctx.now .. decision.retry_at - 1 : InQuietHours(t, settings)

-----------------------------------------------------------------------------
EverySwitchAndWindow ==
  [kill_switch_enabled : BOOLEAN,
   quiet_hours_start : 0 .. HoursPerDay - 1, quiet_hours_end : 0 .. HoursPerDay - 1,
   min_diagnosis_confidence : {70}, max_touches_per_payer_7d : {3},
   human_approval_threshold_paise : {2500}, max_interventions_per_batch : {200}]
=============================================================================
