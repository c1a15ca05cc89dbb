---------------------------- MODULE PolicyEngine ----------------------------
(***************************************************************************)
(* The pure core of the system: the failure taxonomy and its classifier    *)
(* (src/classify), the intervention catalog, the category rules table and  *)
(* the ordered gates of decide() (src/policy).  Nothing here has state;    *)
(* AtomicIngest and its implementation call it inside a transaction.       *)
(*                                                                         *)
(* Confidence is a percentage.  Time is a number of ticks since a midnight *)
(* and an hour has TicksPerHour of them, so that a moment can lie strictly *)
(* inside an hour.  Days have HoursPerDay hours (24 in the code; a smaller *)
(* day gives the same window arithmetic with fewer states).                *)
(***************************************************************************)
EXTENDS Integers, Sequences

CONSTANTS TicksPerHour,   \* resolution of the clock
          HoursPerDay     \* length of a day

ASSUME ClockAssumption == TicksPerHour \in Nat \ {0} /\ HoursPerDay \in Nat \ {0}

-----------------------------------------------------------------------------
(* The taxonomy: error_taxonomy.yaml                                       *)

Recoverable == {"insufficient_funds", "auth_abandoned", "input_error_retriable",
                "infra_outage", "ambiguous_verify_before_acting"}

CustomerActionable == {"insufficient_funds", "auth_abandoned", "input_error_retriable",
                       "instrument_blocked", "issuer_declined"}

FailureCategory == Recoverable \union CustomerActionable
                     \union {"merchant_config_error", "unknown"}

(* An error_reason the table lists is represented by the category it is    *)
(* listed under; "unlisted" stands for a missing or unrecognised one.      *)
ErrorReasons == FailureCategory \union {"unlisted"}
OutageCodes  == {"GATEWAY_ERROR", "SERVER_ERROR"}
ErrorCodes   == OutageCodes \union {"unlisted"}

classify(error_reason, error_code) ==
  IF error_reason \in FailureCategory
    THEN [category |-> error_reason, confidence |-> 100]
  ELSE IF error_code \in OutageCodes
    THEN [category |-> "infra_outage", confidence |-> 85]
    ELSE [category |-> "unknown", confidence |-> 0]

-----------------------------------------------------------------------------
(* The catalog and the rules table: interventions.yaml, rules.yaml         *)

Interventions == {"send_payment_link", "wait", "verify_status",
                  "escalate_to_human", "suppress"}

RequiresContact == {"send_payment_link"}

(* Mutant: the rules table nudges customers whose payment may have gone    *)
(* through, so the safe default of a gate is itself an outreach.           *)
propose_default_contacts_ambiguous(category) ==
  IF category \in Recoverable \ {"infra_outage"} THEN "send_payment_link" ELSE "suppress"

propose_default(category) ==
  CASE category \in Recoverable \intersect CustomerActionable -> "send_payment_link"
    [] category = "infra_outage"                               -> "wait"
    [] category = "ambiguous_verify_before_acting"             -> "verify_status"
    [] category = "unknown"                                    -> "escalate_to_human"
    [] OTHER                                                   -> "suppress"

-----------------------------------------------------------------------------
(* Quiet hours.  A window whose start is after its end wraps midnight.     *)

TicksPerDay == TicksPerHour * HoursPerDay
Hour(now)   == (now \div TicksPerHour) % HoursPerDay

InQuietHours(now, settings) ==
  LET start == settings.quiet_hours_start
      end   == settings.quiet_hours_end
  IN  IF start > end THEN Hour(now) >= start \/ Hour(now) < end
                     ELSE start <= Hour(now) /\ Hour(now) < end

(* Mutant: the end of today's window even when it already passed.          *)
NextAllowedHour_today(now, settings) ==
  (now - (now % TicksPerDay)) + settings.quiet_hours_end * TicksPerHour

NextAllowedHour(now, settings) ==
  LET candidate == (now - (now % TicksPerDay)) + settings.quiet_hours_end * TicksPerHour
  IN  IF candidate <= now THEN candidate + TicksPerDay ELSE candidate

-----------------------------------------------------------------------------
(* The gates of decide(), in the order it tries them.                      *)

(* Mutant: the cap on touches is left out.                                 *)
GateOrder_uncapped == <<"KILL_SWITCH", "LOW_CONFIDENCE", "UNRECOVERABLE_CATEGORY",
                        "HUMAN_APPROVAL_REQUIRED", "BATCH_INTERVENTION_CEILING", "OUT_OF_CATALOG",
                        "CATEGORY_NOT_CUSTOMER_ACTIONABLE", "QUIET_HOURS">>

GateOrder == <<"KILL_SWITCH", "LOW_CONFIDENCE", "UNRECOVERABLE_CATEGORY",
               "TOUCH_CAP_EXCEEDED", "HUMAN_APPROVAL_REQUIRED",
               "BATCH_INTERVENTION_CEILING", "OUT_OF_CATALOG",
               "CATEGORY_NOT_CUSTOMER_ACTIONABLE", "QUIET_HOURS">>

Fires(gate, proposal, ctx, settings) ==
  CASE gate = "KILL_SWITCH"                -> settings.kill_switch_enabled
    [] gate = "LOW_CONFIDENCE"             -> ctx.confidence < settings.min_diagnosis_confidence
    [] gate = "UNRECOVERABLE_CATEGORY"     -> ctx.category \notin Recoverable
    [] gate = "TOUCH_CAP_EXCEEDED"         -> ctx.touches_in_window >= settings.max_touches_per_payer_7d
    [] gate = "HUMAN_APPROVAL_REQUIRED"    -> ctx.amount_paise > settings.human_approval_threshold_paise
    [] gate = "BATCH_INTERVENTION_CEILING" ->
         ctx.interventions_dispatched_in_batch >= settings.max_interventions_per_batch
    [] gate = "OUT_OF_CATALOG"             -> proposal \notin Interventions
    [] gate = "CATEGORY_NOT_CUSTOMER_ACTIONABLE" ->
         proposal \in RequiresContact /\ ctx.category \notin CustomerActionable
    [] gate = "QUIET_HOURS"                ->
         proposal \in RequiresContact /\ InQuietHours(ctx.now, settings)

Fallback(gate, category) ==
  CASE gate \in {"LOW_CONFIDENCE", "HUMAN_APPROVAL_REQUIRED", "OUT_OF_CATALOG"} -> "escalate_to_human"
    [] gate = "CATEGORY_NOT_CUSTOMER_ACTIONABLE" -> propose_default(category)
    [] gate = "QUIET_HOURS"                      -> "wait"
    [] OTHER                                     -> "suppress"

NoRetry == -1   \* Decision.retry_at is None

Decision(proposal, authorized, rule_id, retry_at) ==
  [proposed_intervention |-> proposal, authorized_intervention |-> authorized,
   overridden |-> rule_id # "PROPOSAL_AUTHORIZED", rule_id |-> rule_id, retry_at |-> retry_at]

(* The first gate that fires overrides the proposal; the override is what  *)
(* is executed.                                                            *)
decide(proposal, ctx, settings) ==
  LET FiresAt(i) == Fires(GateOrder[i], proposal, ctx, settings)
      First(i)   == FiresAt(i) /\ \A j \in 1 .. i - 1 : ~FiresAt(j)
  IN  IF \A i \in DOMAIN GateOrder : ~FiresAt(i)
        THEN Decision(proposal, proposal, "PROPOSAL_AUTHORIZED", NoRetry)
        ELSE LET rule_id == GateOrder[CHOOSE i \in DOMAIN GateOrder : First(i)]
             IN  Decision(proposal, Fallback(rule_id, ctx.category), rule_id,
                          IF rule_id = "QUIET_HOURS" THEN NextAllowedHour(ctx.now, settings)
                                                     ELSE NoRetry)
=============================================================================
