------------------------- MODULE AtomicIngestProofs -------------------------
(***************************************************************************)
(* What a delivery writes, whoever makes it and whatever else writes the   *)
(* same tables: facts about the operators of WebhookTables, and what they  *)
(* amount to for AtomicIngest.  The proofs about Ingest, Diagnosis and     *)
(* Recovery build on this module.                                          *)
(***************************************************************************)
EXTENDS AtomicIngest, SequenceTheorems, FiniteSetTheorems, TLAPS

-----------------------------------------------------------------------------
(* Outcomes and decisions.                                                 *)
LEMMA OutcomeKinds ==
  ASSUME NEW e, NEW current
  PROVE  /\ Outcome(current, e) # "duplicate_ignored"
         /\ Outcome(current, e) \in {"applied", "recovered"} =>
              Supported(e) /\ decide_transition(current, e.kind)
         /\ ~Supported(e) => Outcome(current, e) = "ignored_unsupported_event"
         /\ Outcome(current, e) \in DOMAIN WebhookEventType
BY DEF Outcome, WebhookEventType

(* A capture is always applied, and what was not applied is no capture.    *)
LEMMA CaptureIsApplied ==
  ASSUME NEW e, NEW current \in {"none", "failed", "captured"}, e.kind = "captured"
  PROVE  Outcome(current, e) \in {"applied", "recovered"}
BY DEF Outcome, Supported, decide_transition, Allowed

(* Every type a row of the ledger can have.                                *)
EventTypeNames == {WebhookEventType[o] : o \in DOMAIN WebhookEventType}
                    \union {"decision", "webhook.signature_invalid", "webhook.duplicate_ignored",
                            "outbox.completed", "outbox.recovered_from_conflict",
                            "outbox.attempt_failed", "outbox.failed_permanently"}

LEMMA EventTypes ==
  \A o \in DOMAIN WebhookEventType :
    /\ WebhookEventType[o] \in EventTypeNames
    /\ WebhookEventType[o] \notin {"decision", "webhook.duplicate_ignored",
                                   "outbox.completed", "outbox.recovered_from_conflict",
                                   "outbox.attempt_failed", "outbox.failed_permanently"}
    /\ WebhookEventType[o] \in {"webhook.applied", "webhook.recovered"}
         <=> o \in {"applied", "recovered"}
<1>1. DOMAIN WebhookEventType =
        {"applied", "recovered", "rejected_backward_transition", "ignored_unsupported_event"}
  BY DEF WebhookEventType
<1>2. /\ WebhookEventType["applied"] = "webhook.applied"
      /\ WebhookEventType["recovered"] = "webhook.recovered"
      /\ WebhookEventType["rejected_backward_transition"] = "webhook.rejected_backward_transition"
      /\ WebhookEventType["ignored_unsupported_event"] = "webhook.ignored_unsupported_event"
  BY DEF WebhookEventType
<1>3. \A o \in DOMAIN WebhookEventType : WebhookEventType[o] \in EventTypeNames
  BY DEF EventTypeNames
<1> QED
  BY <1>1, <1>2, <1>3

LEMMA InCatalog ==
  ASSUME NEW e, NEW touches, NEW now, NEW settings
  PROVE  DecisionFor(e, touches, now, settings).authorized_intervention \in Interventions
<1>1. \A c : propose_default(c) \in Interventions
  BY DEF propose_default, Interventions
<1>2. \A g, c : Fallback(g, c) \in Interventions
  BY <1>1 DEF Fallback, Interventions
<1>3. \A c, ctx : decide(propose_default(c), ctx, settings).authorized_intervention \in Interventions
  BY <1>1, <1>2 DEF decide, Decision
<1> QED
  BY <1>3 DEF DecisionFor

LEMMA DecisionIsOf ==
  ASSUME NEW e, NEW touches, NEW now, NEW settings
  PROVE  /\ DecisionFor(e, touches, now, settings).event = e
         /\ DecisionFor(e, touches, now, settings).order_id = Subject(e)
         /\ DecisionFor(e, touches, now, settings).payer_contact = e.payer
         /\ DecisionFor(e, touches, now, settings).decided_at = now
BY DEF DecisionFor

(* An override never contacts anyone, so a contact is one that no gate     *)
(* spoke against.                                                          *)
LEMMA FallbacksAreSilent ==
  ASSUME NEW gate, NEW p, NEW ctx, NEW settings, Fires(gate, p, ctx, settings)
  PROVE  Fallback(gate, ctx.category) \notin RequiresContact
<1>1. CASE gate = "CATEGORY_NOT_CUSTOMER_ACTIONABLE"
  BY <1>1 DEF Fires, Fallback, propose_default, RequiresContact
<1> QED
  BY <1>1 DEF Fallback, RequiresContact

LEMMA ContactIsPermitted ==
  ASSUME NEW p, NEW ctx, NEW settings \in Settings,
         ctx.touches_in_window \in Nat, ctx.amount_paise \in Nat,
         decide(p, ctx, settings).authorized_intervention \in RequiresContact
  PROVE  /\ ctx.category \in Recoverable \intersect CustomerActionable
         /\ ctx.touches_in_window < settings.max_touches_per_payer_7d
         /\ ctx.amount_paise <= settings.human_approval_threshold_paise
         /\ ~InQuietHours(ctx.now, settings)
<1> DEFINE FiresAt(i) == Fires(GateOrder[i], p, ctx, settings)
           Leads(i)   == FiresAt(i) /\ \A j \in 1 .. i - 1 : ~FiresAt(j)
           first      == CHOOSE i \in DOMAIN GateOrder : Leads(i)
<1>1. /\ DOMAIN GateOrder = 1 .. 9
      /\ GateOrder[3] = "UNRECOVERABLE_CATEGORY" /\ GateOrder[4] = "TOUCH_CAP_EXCEEDED"
      /\ GateOrder[5] = "HUMAN_APPROVAL_REQUIRED"
      /\ GateOrder[8] = "CATEGORY_NOT_CUSTOMER_ACTIONABLE" /\ GateOrder[9] = "QUIET_HOURS"
  BY DEF GateOrder
<1>2. \A i \in 1 .. 9 : ~FiresAt(i)
  <2> SUFFICES ASSUME NEW k \in 1 .. 9, FiresAt(k) PROVE FALSE
    OBVIOUS
  <2>1. \E i \in 1 .. 9 : Leads(i)
    <3> HIDE DEF FiresAt
    <3> QED
      OBVIOUS
  <2>2. first \in DOMAIN GateOrder /\ FiresAt(first)
    <3> HIDE DEF FiresAt
    <3> QED
      BY <1>1, <2>1
  <2>3. decide(p, ctx, settings) = Decision(p, Fallback(GateOrder[first], ctx.category), GateOrder[first],
                                     IF GateOrder[first] = "QUIET_HOURS"
                                       THEN NextAllowedHour(ctx.now, settings) ELSE NoRetry)
    BY <1>1, Zenon DEF decide
  <2> HIDE DEF first
  <2>4. decide(p, ctx, settings).authorized_intervention = Fallback(GateOrder[first], ctx.category)
    BY <2>3 DEF Decision
  <2> QED
    BY <2>2, <2>4, FallbacksAreSilent
<1>3. decide(p, ctx, settings).authorized_intervention = p
  BY <1>1, <1>2 DEF decide, Decision
<1>4. /\ ~Fires("UNRECOVERABLE_CATEGORY", p, ctx, settings)
      /\ ~Fires("TOUCH_CAP_EXCEEDED", p, ctx, settings)
      /\ ~Fires("HUMAN_APPROVAL_REQUIRED", p, ctx, settings)
      /\ ~Fires("CATEGORY_NOT_CUSTOMER_ACTIONABLE", p, ctx, settings)
      /\ ~Fires("QUIET_HOURS", p, ctx, settings)
  BY <1>1, <1>2
<1> QED
  BY <1>3, <1>4, SettingsAssumption DEF Fires

(* The same of a decision on an event.                                     *)
LEMMA ContactGuardrails ==
  ASSUME NEW e \in Events, NEW touches \in Nat, NEW now, NEW settings \in Settings,
         DecisionFor(e, touches, now, settings).authorized_intervention = "send_payment_link"
  PROVE  /\ classify(e.reason, e.code).category \in Recoverable \intersect CustomerActionable
         /\ touches < settings.max_touches_per_payer_7d
         /\ e.amount_paise <= settings.human_approval_threshold_paise
         /\ ~InQuietHours(now, settings)
<1> DEFINE classification == classify(e.reason, e.code)
           ctx == [category |-> classification.category, confidence |-> classification.confidence,
                   amount_paise |-> e.amount_paise, touches_in_window |-> touches,
                   interventions_dispatched_in_batch |-> 0, now |-> now]
<1>1. decide(propose_default(ctx.category), ctx, settings).authorized_intervention \in RequiresContact
  BY DEF DecisionFor, RequiresContact
<1>2. ctx.touches_in_window \in Nat /\ ctx.amount_paise \in Nat
  BY EventAssumption
<1> HIDE DEF ctx
<1>3. /\ ctx.category \in Recoverable \intersect CustomerActionable
      /\ ctx.touches_in_window < settings.max_touches_per_payer_7d
      /\ ctx.amount_paise <= settings.human_approval_threshold_paise
      /\ ~InQuietHours(ctx.now, settings)
  BY <1>1, <1>2, ContactIsPermitted
<1> QED
  BY <1>3 DEF ctx

-----------------------------------------------------------------------------
(* The ledger.                                                             *)

(* Where a log has rows of some types about an event.                      *)
RowsAbout(log, event, event_types) ==
  {i \in DOMAIN log : log[i].event = event /\ log[i].event_type \in event_types}

LEMMA AppendedRows ==
  ASSUME NEW S, NEW log \in Seq(S), NEW x \in S
  PROVE  /\ Len(log) \in Nat /\ DOMAIN log = 1 .. Len(log)
         /\ Append(log, x) \in Seq(S)
         /\ Len(Append(log, x)) = Len(log) + 1
         /\ DOMAIN Append(log, x) = 1 .. Len(log) + 1
         /\ \A i \in 1 .. Len(log) : Append(log, x)[i] = log[i]
         /\ Append(log, x)[Len(log) + 1] = x
OBVIOUS

LEMMA RowsAboutAppend ==
  ASSUME NEW S, NEW log \in Seq(S), NEW x \in S, NEW event, NEW event_types
  PROVE  /\ IsFiniteSet(RowsAbout(log, event, event_types))
         /\ \A i \in RowsAbout(log, event, event_types) : i \in 1 .. Len(log)
         /\ Len(log) + 1 \notin RowsAbout(log, event, event_types)
         /\ RowsAbout(Append(log, x), event, event_types) =
              IF x.event = event /\ x.event_type \in event_types
                THEN RowsAbout(log, event, event_types) \union {Len(log) + 1}
                ELSE RowsAbout(log, event, event_types)
<1>1. /\ Len(log) \in Nat /\ DOMAIN log = 1 .. Len(log)
      /\ DOMAIN Append(log, x) = 1 .. Len(log) + 1
      /\ \A i \in 1 .. Len(log) : Append(log, x)[i] = log[i]
      /\ Append(log, x)[Len(log) + 1] = x
  BY AppendedRows
<1>2. IsFiniteSet(DOMAIN log)
  BY <1>1, FS_Interval
<1>3. RowsAbout(log, event, event_types) \in SUBSET DOMAIN log
  BY DEF RowsAbout
<1>4. IsFiniteSet(RowsAbout(log, event, event_types))
  BY <1>2, <1>3, FS_Subset
<1>5. RowsAbout(Append(log, x), event, event_types) =
        IF x.event = event /\ x.event_type \in event_types
          THEN RowsAbout(log, event, event_types) \union {Len(log) + 1}
          ELSE RowsAbout(log, event, event_types)
  BY <1>1 DEF RowsAbout
<1> QED
  BY <1>1, <1>3, <1>4, <1>5

LEMMA RowCountAppend ==
  ASSUME NEW S, NEW log \in Seq(S), NEW x \in S, NEW event, NEW event_types
  PROVE  /\ Cardinality(RowsAbout(log, event, event_types)) \in Nat
         /\ Cardinality(RowsAbout(Append(log, x), event, event_types)) =
              Cardinality(RowsAbout(log, event, event_types))
                + IF x.event = event /\ x.event_type \in event_types THEN 1 ELSE 0
<1> DEFINE rows == RowsAbout(log, event, event_types)
<1>1. IsFiniteSet(rows) /\ Len(log) + 1 \notin rows
  BY RowsAboutAppend
<1>2. RowsAbout(Append(log, x), event, event_types) =
        IF x.event = event /\ x.event_type \in event_types THEN rows \union {Len(log) + 1} ELSE rows
  BY RowsAboutAppend
<1> HIDE DEF rows
<1>3. Cardinality(rows) \in Nat /\ Cardinality(rows \union {Len(log) + 1}) = Cardinality(rows) + 1
  BY <1>1, FS_CardinalityType, FS_AddElement
<1> QED
  BY <1>2, <1>3 DEF rows

(* What a delivery appends.                                                *)
WebhookRow(e, outcome) ==
  Entry(IF Supported(e) THEN Subject(e) ELSE NoEntity, WebhookEventType[outcome], e)
DecisionRow(e) == Entry(DecisionId(e), "decision", e)

LEMMA RecordEventAppends ==
  ASSUME NEW S, ledger \in Seq(S), NEW e, NEW outcome, NEW touches, NEW now, NEW settings,
         WebhookRow(e, outcome) \in S, DecisionRow(e) \in S,
         RecordEvent(e, outcome, touches, now, settings)
  PROVE  IF outcome = "applied" /\ e.kind = "failed"
           THEN Append(ledger, DecisionRow(e)) \in Seq(S)
                /\ ledger' = Append(Append(ledger, DecisionRow(e)), WebhookRow(e, outcome))
           ELSE ledger' = Append(ledger, WebhookRow(e, outcome))
<1> DEFINE webhook == WebhookRow(e, outcome)
           decided == DecisionRow(e)
<1>1. ledger' = ledger \o (IF outcome = "applied" /\ e.kind = "failed" THEN <<decided>> ELSE <<>>)
                       \o <<webhook>>
  BY DEF RecordEvent, WebhookRow, DecisionRow
<1> HIDE DEF webhook, decided
<1>2. \A log \in Seq(S) : log \o <<>> = log
  OBVIOUS
<1>3. \A log \in Seq(S), x \in S : log \o <<x>> = Append(log, x) /\ Append(log, x) \in Seq(S)
  OBVIOUS
<1> QED
  BY <1>1, <1>2, <1>3 DEF webhook, decided

-----------------------------------------------------------------------------
(* What the ledger of one delivery at a time says: each claimed event has  *)
(* its one effect, and the payments table is where the last applied        *)
(* delivery left it.                                                       *)
Effects == EventTypeNames \ {"decision", "webhook.duplicate_ignored"}
LedgerRows == [entity_id : Subjects \union {NoEntity} \union {DecisionId(e) : e \in Events},
               event_type : EventTypeNames, event : Events]

AppliedTo(log, s) == {i \in DOMAIN log : /\ log[i].event_type \in {"webhook.applied", "webhook.recovered"}
                                         /\ log[i].entity_id = s}

EffectsCounted(log, claimed) ==
  \A e \in {f \in Events : f.kind # "forged"} :
    Cardinality(RowsAbout(log, e, Effects)) = IF e \in claimed THEN 1 ELSE 0

FailuresOf(log, s) == {i \in AppliedTo(log, s) : log[i].event.kind = "failed"}

ShowsDelivery(row, e) == /\ row.status = e.kind /\ row.latest_payment_id = e.payment
                         /\ row.payer_contact = e.payer /\ row.amount_paise = e.amount_paise

CategoryExplained(log, s, category) ==
  IF FailuresOf(log, s) = {} THEN category = "none"
  ELSE \E i \in FailuresOf(log, s) :
         /\ \A k \in FailuresOf(log, s) : k <= i
         /\ category = classify(log[i].event.reason, log[i].event.code).category

PaymentExplained(log, s, row) ==
  IF AppliedTo(log, s) = {} THEN row = NoPayment
  ELSE /\ \E i \in AppliedTo(log, s) : /\ \A k \in AppliedTo(log, s) : k <= i
                                       /\ ShowsDelivery(row, log[i].event)
       /\ CategoryExplained(log, s, row.category)

Explains(log, claimed, rows) ==
  /\ log \in Seq(LedgerRows) /\ DOMAIN rows = Subjects /\ claimed \subseteq Events
  /\ EffectsCounted(log, claimed)
  /\ \A s \in Subjects : PaymentExplained(log, s, rows[s])

LedgerExplains == Explains(ledger, webhook_events, payments)

LEMMA RowTypes ==
  ASSUME NEW e \in Events
  PROVE  /\ DecisionRow(e) \in LedgerRows
         /\ \A o \in DOMAIN WebhookEventType : WebhookRow(e, o) \in LedgerRows
         /\ Entry(NoEntity, "webhook.signature_invalid", e) \in LedgerRows
         /\ Entry(IF Supported(e) THEN Subject(e) ELSE NoEntity, "webhook.duplicate_ignored", e)
              \in LedgerRows
<1>1. Supported(e) => Subject(e) \in Subjects
  BY DEF Subjects
<1>2. /\ "decision" \in EventTypeNames /\ "webhook.signature_invalid" \in EventTypeNames
      /\ "webhook.duplicate_ignored" \in EventTypeNames
  BY DEF EventTypeNames
<1>3. DecisionRow(e) \in LedgerRows
  BY <1>2 DEF LedgerRows, Entry, DecisionRow
<1>4. \A o \in DOMAIN WebhookEventType : WebhookRow(e, o) \in LedgerRows
  BY <1>1, EventTypes DEF LedgerRows, Entry, WebhookRow
<1> QED
  BY <1>1, <1>2, <1>3, <1>4 DEF LedgerRows, Entry

LEMMA AppliedToAppend ==
  ASSUME NEW S, NEW log \in Seq(S), NEW x \in S, NEW s
  PROVE  /\ \A i \in AppliedTo(log, s) : i \in 1 .. Len(log)
         /\ AppliedTo(Append(log, x), s) =
              IF x.event_type \in {"webhook.applied", "webhook.recovered"} /\ x.entity_id = s
                THEN AppliedTo(log, s) \union {Len(log) + 1} ELSE AppliedTo(log, s)
BY AppendedRows DEF AppliedTo

(* A row that is not about a payment that was applied changes nothing.     *)
LEMMA NoteExplains ==
  ASSUME NEW log, NEW claimed, NEW rows, Explains(log, claimed, rows), NEW x \in LedgerRows,
         x.event_type \notin Effects \/ x.event.kind = "forged",
         x.event_type \notin {"webhook.applied", "webhook.recovered"}
  PROVE  Explains(Append(log, x), claimed, rows)
<1> DEFINE longer == Append(log, x)
<1>1. /\ log \in Seq(LedgerRows) /\ longer \in Seq(LedgerRows) /\ Len(log) \in Nat
      /\ \A i \in 1 .. Len(log) : longer[i] = log[i]
  BY AppendedRows DEF Explains
<1>2. EffectsCounted(longer, claimed)
  <2> SUFFICES ASSUME NEW e \in Events, e.kind # "forged"
               PROVE  Cardinality(RowsAbout(longer, e, Effects)) = IF e \in claimed THEN 1 ELSE 0
    BY DEF EffectsCounted
  <2>1. RowsAbout(longer, e, Effects) = RowsAbout(log, e, Effects)
    BY <1>1, RowsAboutAppend
  <2> QED
    BY <2>1 DEF Explains, EffectsCounted
<1>3. ASSUME NEW s \in Subjects PROVE PaymentExplained(longer, s, rows[s])
  <2>1. AppliedTo(longer, s) = AppliedTo(log, s) /\ \A i \in AppliedTo(log, s) : i \in 1 .. Len(log)
    BY <1>1, AppliedToAppend
  <2>2. FailuresOf(longer, s) = FailuresOf(log, s)
    BY <1>1, <2>1 DEF FailuresOf
  <2>3. \A i \in FailuresOf(log, s) : longer[i] = log[i]
    BY <1>1, <2>1 DEF FailuresOf
  <2> QED
    BY <1>1, <2>1, <2>2, <2>3 DEF Explains, PaymentExplained, CategoryExplained
<1> QED
  BY <1>1, <1>2, <1>3 DEF Explains

(* The one row that records what an event did.                             *)
LEMMA EffectExplains ==
  ASSUME NEW log, NEW claimed, NEW rows, Explains(log, claimed, rows),
         NEW e \in Events, e \notin claimed, NEW outcome \in DOMAIN WebhookEventType,
         outcome \in {"applied", "recovered"} => Supported(e)
  PROVE  Explains(Append(log, WebhookRow(e, outcome)), claimed \union {e},
                  IF outcome \in {"applied", "recovered"}
                    THEN [rows EXCEPT ![Subject(e)] = Upsert(rows[Subject(e)], e)] ELSE rows)
<1> DEFINE x      == WebhookRow(e, outcome)
           longer == Append(log, x)
           after  == IF outcome \in {"applied", "recovered"}
                       THEN [rows EXCEPT ![Subject(e)] = Upsert(rows[Subject(e)], e)] ELSE rows
<1>1. /\ x \in LedgerRows /\ x.event = e /\ x.event_type = WebhookEventType[outcome]
      /\ Supported(e) => x.entity_id = Subject(e)
  BY RowTypes DEF WebhookRow, Entry
<1>2. x.event_type \in Effects
  BY <1>1, EventTypes DEF Effects
<1>3. x.event_type \in {"webhook.applied", "webhook.recovered"} <=> outcome \in {"applied", "recovered"}
  BY <1>1, EventTypes
<1> HIDE DEF x
<1>4. /\ log \in Seq(LedgerRows) /\ DOMAIN rows = Subjects /\ claimed \subseteq Events
      /\ EffectsCounted(log, claimed) /\ \A s \in Subjects : PaymentExplained(log, s, rows[s])
  BY DEF Explains
<1>5. /\ longer \in Seq(LedgerRows) /\ Len(log) \in Nat
      /\ \A i \in 1 .. Len(log) : longer[i] = log[i]
      /\ longer[Len(log) + 1] = x
  BY <1>1, <1>4, AppendedRows
<1>6. EffectsCounted(longer, claimed \union {e})
  <2> SUFFICES ASSUME NEW f \in Events, f.kind # "forged"
               PROVE  Cardinality(RowsAbout(longer, f, Effects)) = IF f \in claimed \union {e} THEN 1 ELSE 0
    BY DEF EffectsCounted
  <2>1. Cardinality(RowsAbout(longer, f, Effects)) =
          Cardinality(RowsAbout(log, f, Effects)) + IF f = e THEN 1 ELSE 0
    BY <1>1, <1>2, <1>4, RowCountAppend
  <2> QED
    BY <1>4, <2>1 DEF EffectsCounted
<1>7. ASSUME NEW s \in Subjects PROVE PaymentExplained(longer, s, after[s])
  <2>1. \A i \in AppliedTo(log, s) : i \in 1 .. Len(log)
    BY <1>1, <1>4, AppliedToAppend
  <2>2. AppliedTo(longer, s) = IF outcome \in {"applied", "recovered"} /\ x.entity_id = s
                                 THEN AppliedTo(log, s) \union {Len(log) + 1} ELSE AppliedTo(log, s)
    BY <1>1, <1>3, <1>4, AppliedToAppend
  <2> DEFINE failed == FailuresOf(log, s)
  <2>3. CASE outcome \in {"applied", "recovered"} /\ x.entity_id = s
    <3>1. after[s] = Upsert(rows[s], e)
      BY <1>1, <1>4, <2>3
    <3>2. ShowsDelivery(after[s], e)
      BY <3>1 DEF Upsert, ShowsDelivery
    <3>3. \A k \in AppliedTo(longer, s) : k <= Len(log) + 1
      BY <1>5, <2>1, <2>2, <2>3
    <3>4. FailuresOf(longer, s) = IF e.kind = "failed" THEN failed \union {Len(log) + 1} ELSE failed
      BY <1>1, <1>5, <2>1, <2>2, <2>3 DEF FailuresOf
    <3>5. CategoryExplained(longer, s, after[s].category)
      <4>1. CASE e.kind = "failed"
        <5>1. after[s].category = classify(e.reason, e.code).category
          BY <3>1, <4>1 DEF Upsert
        <5>2. \A k \in FailuresOf(longer, s) : k <= Len(log) + 1
          BY <3>3 DEF FailuresOf
        <5> QED
          BY <1>1, <1>5, <3>4, <4>1, <5>1, <5>2 DEF CategoryExplained
      <4>2. CASE e.kind # "failed"
        <5>1. FailuresOf(longer, s) = failed /\ \A i \in failed : longer[i] = log[i]
          BY <1>5, <2>1, <3>4, <4>2 DEF FailuresOf
        <5> DEFINE category == after[s].category
        <5>2. category = IF rows[s] = NoPayment THEN "none" ELSE rows[s].category
          BY <3>1, <4>2 DEF Upsert
        <5> HIDE DEF category
        <5> SUFFICES CategoryExplained(longer, s, category)
          BY DEF category
        <5>3. CASE AppliedTo(log, s) = {}
          <6>1. rows[s] = NoPayment /\ failed = {}
            BY <1>4, <5>3 DEF PaymentExplained, FailuresOf
          <6> QED
            BY <5>1, <5>2, <6>1 DEF CategoryExplained
        <5>4. CASE AppliedTo(log, s) # {}
          <6>1. CategoryExplained(log, s, rows[s].category)
            BY <1>4, <5>4 DEF PaymentExplained
          <6>2. PICK i \in AppliedTo(log, s) : rows[s].status = log[i].event.kind
            BY <1>4, <5>4 DEF PaymentExplained, ShowsDelivery
          <6>3. log[i] \in LedgerRows /\ log[i].event \in Events
            <7>1. i \in 1 .. Len(log)
              BY <2>1
            <7>2. log[i] \in LedgerRows
              BY <1>4, <7>1
            <7> QED
              BY <7>2 DEF LedgerRows
          <6>4. rows[s] # NoPayment
            BY <6>2, <6>3, EventAssumption DEF Kinds, NoPayment
          <6> QED
            BY <5>1, <5>2, <6>1, <6>4 DEF CategoryExplained
        <5> QED
          BY <5>3, <5>4
      <4> QED
        BY <4>1, <4>2
    <3> QED
      BY <1>1, <1>5, <2>2, <2>3, <3>2, <3>3, <3>5 DEF PaymentExplained
  <2>4. CASE ~(outcome \in {"applied", "recovered"} /\ x.entity_id = s)
    <3>1. after[s] = rows[s]
      BY <1>1, <1>4, <2>4
    <3>2. PaymentExplained(log, s, rows[s])
      BY <1>4
    <3> QED
      BY <1>5, <2>1, <2>2, <2>4, <3>1, <3>2 DEF PaymentExplained, CategoryExplained, FailuresOf
  <2> QED
    BY <2>3, <2>4
<1>8. DOMAIN after = Subjects /\ claimed \union {e} \subseteq Events
  BY <1>4
<1> QED
  BY <1>5, <1>6, <1>7, <1>8 DEF Explains, x

LEMMA HandleExplained ==
  ASSUME LedgerExplains, NEW e \in Events, NEW now, NEW settings, Handle(e, now, settings)
  PROVE  LedgerExplains'
<1>1. CASE e.kind = "forged"
  <2> DEFINE x == Entry(NoEntity, "webhook.signature_invalid", e)
  <2>1. x \in LedgerRows /\ x.event = e /\ x.event_type = "webhook.signature_invalid"
    BY RowTypes DEF Entry
  <2>2. ledger' = Append(ledger, x) /\ UNCHANGED <<payments, webhook_events>>
    BY <1>1 DEF Handle, RecordForged
  <2> HIDE DEF x
  <2> QED
    BY <1>1, <2>1, <2>2, NoteExplains DEF LedgerExplains
<1>2. CASE e.kind # "forged" /\ e \in webhook_events
  <2> DEFINE x == Entry(IF Supported(e) THEN Subject(e) ELSE NoEntity, "webhook.duplicate_ignored", e)
  <2>1. x \in LedgerRows /\ x.event_type = "webhook.duplicate_ignored"
    BY RowTypes DEF Entry
  <2>2. ledger' = Append(ledger, x) /\ UNCHANGED <<payments, webhook_events>>
    BY <1>2 DEF Handle, RecordDuplicate
  <2> HIDE DEF x
  <2> QED
    BY <2>1, <2>2, NoteExplains DEF LedgerExplains, Effects
<1>3. CASE e.kind # "forged" /\ e \notin webhook_events
  <2> DEFINE outcome == Outcome(IF Supported(e) THEN payments[Subject(e)].status ELSE "none", e)
  <2>1. RecordEvent(e, outcome, touches_in_window(e.payer, now), now, settings)
    BY <1>3, Zenon DEF Handle
  <2>2. outcome \in DOMAIN WebhookEventType /\ (outcome \in {"applied", "recovered"} => Supported(e))
    BY OutcomeKinds
  <2> HIDE DEF outcome
  <2>3. WebhookRow(e, outcome) \in LedgerRows /\ DecisionRow(e) \in LedgerRows
    BY <2>2, RowTypes
  <2>4. ledger \in Seq(LedgerRows)
    BY DEF LedgerExplains, Explains
  <2>5. /\ webhook_events' = webhook_events \union {e}
        /\ payments' = IF outcome \in {"applied", "recovered"}
                         THEN [payments EXCEPT ![Subject(e)] = Upsert(payments[Subject(e)], e)] ELSE payments
    BY <2>1 DEF RecordEvent
  <2>6. CASE outcome = "applied" /\ e.kind = "failed"
    <3>1. ledger' = Append(Append(ledger, DecisionRow(e)), WebhookRow(e, outcome))
      BY <2>1, <2>3, <2>4, <2>6, RecordEventAppends
    <3>2. DecisionRow(e).event_type = "decision"
      BY DEF DecisionRow, Entry
    <3>3. Explains(Append(ledger, DecisionRow(e)), webhook_events, payments)
      BY <2>3, <3>2, NoteExplains DEF LedgerExplains, Effects
    <3> QED
      BY <1>3, <2>2, <2>5, <3>1, <3>3, EffectExplains DEF LedgerExplains
  <2>7. CASE ~(outcome = "applied" /\ e.kind = "failed")
    <3>1. ledger' = Append(ledger, WebhookRow(e, outcome))
      BY <2>1, <2>3, <2>4, <2>7, RecordEventAppends
    <3> QED
      BY <1>3, <2>2, <2>5, <3>1, EffectExplains DEF LedgerExplains
  <2> QED
    BY <2>6, <2>7
<1> QED
  BY <1>1, <1>2, <1>3

LEMMA NothingExplained == TablesInit => LedgerExplains
<1> SUFFICES ASSUME TablesInit PROVE LedgerExplains
  OBVIOUS
<1>1. /\ ledger = <<>> /\ ledger \in Seq(LedgerRows) /\ webhook_events = {}
      /\ payments = [s \in Subjects |-> NoPayment]
  BY DEF TablesInit
<1>2. \A e : Cardinality(RowsAbout(ledger, e, Effects)) = 0
  BY <1>1, FS_EmptySet DEF RowsAbout
<1>3. \A s : AppliedTo(ledger, s) = {}
  BY <1>1 DEF AppliedTo
<1> QED
  BY <1>1, <1>2, <1>3 DEF LedgerExplains, Explains, EffectsCounted, PaymentExplained

(* One delivery at a time, each claimed event has exactly one row of the   *)
(* ledger that records its effect, and the payments table is what the last *)
(* applied delivery made of it.                                            *)
THEOREM AtomicLedgerExplains == AtomicSpec => []LedgerExplains
<1>1. LedgerExplains /\ [AtomicNext]_tables => LedgerExplains'
  <2> SUFFICES ASSUME LedgerExplains, [AtomicNext]_tables PROVE LedgerExplains'
    OBVIOUS
  <2>1. CASE AtomicNext
    BY <2>1, HandleExplained DEF AtomicNext
  <2>2. CASE UNCHANGED tables
    BY <2>2 DEF tables, LedgerExplains
  <2> QED
    BY <2>1, <2>2
<1> QED
  BY <1>1, NothingExplained, PTL DEF AtomicSpec
=============================================================================
