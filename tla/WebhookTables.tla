---------------------------- MODULE WebhookTables ----------------------------
(***************************************************************************)
(* The tables a webhook delivery reads and writes, and the rules that say  *)
(* what it writes: src/ingest/state_machine.py, the row builders of        *)
(* src/ingest/service.py, src/execute/outbox.py and src/policy/context.py. *)
(* AtomicIngest runs a whole delivery in one step; Ingest runs it as the   *)
(* database statements the handler issues.                                 *)
(*                                                                         *)
(* A webhook event is a record; its identity stands for the                *)
(* x-razorpay-event-id header, so redelivery is the same record again.     *)
(***************************************************************************)
EXTENDS PolicyEngine, FiniteSets

CONSTANTS Events,       \* everything Razorpay (or somebody else) will ever deliver
          NoOrder,      \* payment_entity.order_id is null
          NoPayer,      \* payment_entity.contact is null
          NoEntity,     \* the ledger's entity_id "unknown"
          TouchWindow   \* 7 days, in ticks

(* kind: payment.failed, payment.captured, an event type the service does  *)
(* not support, or a delivery whose signature does not verify.             *)
Kinds == {"failed", "captured", "unsupported", "forged"}

ASSUME EventAssumption ==
  \A e \in Events : /\ e.kind \in Kinds
                    /\ e.reason \in ErrorReasons /\ e.code \in ErrorCodes
                    /\ e.amount_paise \in Nat
ASSUME WindowAssumption == TouchWindow \in Nat

VARIABLES payments,        \* order -> the payments row
          webhook_events,  \* events claimed (primary key event_id)
          decisions,       \* rows of decisions
          outbox,          \* event whose decision was dispatchable -> outbox_entries row
          ledger           \* rows of ledger_entries in seq order, without their hashes

tables == <<payments, webhook_events, decisions, outbox, ledger>>

Supported(e) == e.kind \in {"failed", "captured"}
Subject(e)   == IF e.order = NoOrder THEN e.payment ELSE e.order
Subjects     == {Subject(e) : e \in {f \in Events : Supported(f)}}
Payers       == {e.payer : e \in Events}

NoPayment == [status |-> "none"]
NoEntry   == [status |-> "none"]

-----------------------------------------------------------------------------
(* The forward-only transition rule.                                       *)

(* Mutant: a late failure reopens a captured payment.                      *)
Allowed_reopens == [failed |-> {"failed", "captured"}, captured |-> {"captured", "failed"}]

Allowed == [failed |-> {"failed", "captured"}, captured |-> {"captured"}]

decide_transition(current, incoming) == current = "none" \/ incoming \in Allowed[current]

Outcome(current, e) ==
  IF ~Supported(e) THEN "ignored_unsupported_event"
  ELSE IF ~decide_transition(current, e.kind) THEN "rejected_backward_transition"
  ELSE IF current = "failed" /\ e.kind = "captured" THEN "recovered"
  ELSE "applied"

-----------------------------------------------------------------------------
(* Rows.  A captured payment has no classification of its own: it keeps    *)
(* the category the order already has, or has none.                        *)

(* Mutant: the event's own name is stored, not the status it stands for.   *)
Upsert_event_name(row, e) ==
  [status |-> "payment." \o e.kind, latest_payment_id |-> e.payment,
   payer_contact |-> e.payer, amount_paise |-> e.amount_paise, category |-> "none"]

(* Mutant: a capture clears the category that the failure was given.       *)
Upsert_clears_category(row, e) ==
  [status |-> e.kind, latest_payment_id |-> e.payment, payer_contact |-> e.payer,
   amount_paise |-> e.amount_paise,
   category |-> IF e.kind = "failed" THEN classify(e.reason, e.code).category ELSE "none"]

Upsert(row, e) ==
  [status |-> e.kind, latest_payment_id |-> e.payment, payer_contact |-> e.payer,
   amount_paise |-> e.amount_paise,
   category |-> IF e.kind = "failed" THEN classify(e.reason, e.code).category
                ELSE IF row = NoPayment THEN "none" ELSE row.category]

(* Mutant: the status column never holds this word.                        *)
touches_in_window_completed(payer, now) ==
  Cardinality({d \in decisions : /\ d.payer_contact = payer
                                  /\ outbox[d.event].status = "completed"})

(* Completed outbox entries of the payer inside the window.                *)
touches_in_window(payer, now) ==
  IF payer = NoPayer THEN 0
  ELSE Cardinality({d \in decisions : /\ d.payer_contact = payer
                                      /\ outbox[d.event].status = "complete"
                                      /\ outbox[d.event].updated_at >= now - TouchWindow})

DecisionFor(e, touches, now, settings) ==
  LET classification == classify(e.reason, e.code)
      ctx == [category |-> classification.category, confidence |-> classification.confidence,
              amount_paise |-> e.amount_paise, touches_in_window |-> touches,
              interventions_dispatched_in_batch |-> 0, now |-> now]
      verdict == decide(propose_default(ctx.category), ctx, settings)
  IN  [event |-> e, order_id |-> Subject(e), payer_contact |-> e.payer,
       authorized_intervention |-> verdict.authorized_intervention,
       rule_id |-> verdict.rule_id, retry_at |-> verdict.retry_at, decided_at |-> now]

Dispatchable == {"send_payment_link"}

(* Mutant: scheduled at retry_at, which an authorized decision lacks.      *)
OutboxRow_at_retry(d) == [status |-> "pending", attempts |-> 0,
                          next_attempt_at |-> d.retry_at, updated_at |-> d.decided_at]

OutboxRow(d) == [status |-> "pending", attempts |-> 0,
                 next_attempt_at |-> d.decided_at, updated_at |-> d.decided_at]

(* enqueue_if_needed: in the transaction of the decision itself.           *)
Enqueued(d) == IF d.authorized_intervention \in Dispatchable
                 THEN [outbox EXCEPT ![d.event] = OutboxRow(d)] ELSE outbox

WebhookEventType ==
  [applied                      |-> "webhook.applied",
   recovered                    |-> "webhook.recovered",
   rejected_backward_transition |-> "webhook.rejected_backward_transition",
   ignored_unsupported_event    |-> "webhook.ignored_unsupported_event"]

DecisionId(e) == <<"decision", e>>   \* the id of the decisions row
Entry(entity_id, event_type, e) == [entity_id |-> entity_id, event_type |-> event_type, event |-> e]

-----------------------------------------------------------------------------
(* What one delivery writes, given what its transaction read.              *)

RecordForged(e) ==
  /\ ledger' = Append(ledger, Entry(NoEntity, "webhook.signature_invalid", e))
  /\ UNCHANGED <<payments, webhook_events, decisions, outbox>>

RecordDuplicate(e) ==
  /\ ledger' = Append(ledger, Entry(IF Supported(e) THEN Subject(e) ELSE NoEntity,
                                    "webhook.duplicate_ignored", e))
  /\ UNCHANGED <<payments, webhook_events, decisions, outbox>>

(* A payment.failed that is applied is decided on; anything else is not.   *)
RecordEvent(e, outcome, touches, now, settings) ==
  LET applied  == outcome \in {"applied", "recovered"}
      decision == DecisionFor(e, touches, now, settings)
      decided  == outcome = "applied" /\ e.kind = "failed"
      webhook  == Entry(IF Supported(e) THEN Subject(e) ELSE NoEntity, WebhookEventType[outcome], e)
  IN  /\ webhook_events' = webhook_events \union {e}
      /\ payments' = IF applied THEN [payments EXCEPT ![Subject(e)] = Upsert(@, e)] ELSE payments
      /\ decisions' = IF decided THEN decisions \union {decision} ELSE decisions
      /\ outbox' = IF decided THEN Enqueued(decision) ELSE outbox
      /\ ledger' = ledger \o (IF decided THEN <<Entry(DecisionId(e), "decision", e)>> ELSE <<>>)
                          \o <<webhook>>

TablesInit ==
  /\ payments = [s \in Subjects |-> NoPayment]
  /\ webhook_events = {}
  /\ decisions = {}
  /\ outbox = [e \in Events |-> NoEntry]
  /\ ledger = <<>>
=============================================================================
