---------------------------- MODULE AtomicIngest ----------------------------
(***************************************************************************)
(* What the webhook endpoint promises: every delivery acts as if it ran    *)
(* alone, all at once or not at all.  Ingest is shown to implement this,   *)
(* and Recovery composes it with the dispatcher.                           *)
(***************************************************************************)
EXTENDS WebhookTables

CONSTANTS Times,     \* when a delivery can arrive
          Settings   \* the settings the endpoint may run with

ASSUME SettingsAssumption ==
  /\ Settings # {}
  /\ \A s \in Settings : /\ s.min_diagnosis_confidence \in Nat /\ s.max_touches_per_payer_7d \in Nat
                         /\ s.human_approval_threshold_paise \in Nat
                         /\ s.max_interventions_per_batch \in Nat

Handle(e, now, settings) ==
  IF e.kind = "forged" THEN RecordForged(e)
  ELSE IF e \in webhook_events THEN RecordDuplicate(e)
  ELSE LET current == IF Supported(e) THEN payments[Subject(e)].status ELSE "none"
       IN  RecordEvent(e, Outcome(current, e), touches_in_window(e.payer, now), now, settings)

AtomicNext == \E e \in Events, now \in Times, settings \in Settings : Handle(e, now, settings)

AtomicSpec == TablesInit /\ [][AtomicNext]_tables
=============================================================================
