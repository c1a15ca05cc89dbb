----------------------------- MODULE Evaluation -----------------------------
(***************************************************************************)
(* The evaluation harness: eval/run_eval.py, control_arm.py, metrics.py    *)
(* and split_arms() of batch_generator.py, over the tables of the service. *)
(*                                                                         *)
(* An evaluation is one transaction: it ingests the failures of both arms, *)
(* those of the control arm past the policy engine, dispatches in rounds,  *)
(* computes its metrics, and only then commits.  The links it created at   *)
(* Razorpay are there even when it dies before that.  The batch is a       *)
(* function of the seed, so a repeated evaluation delivers the same events *)
(* again.  Between evaluations the ordinary dispatcher may run.            *)
(* How calls fail and when the breaker opens or closes is left open here.  *)
(***************************************************************************)
EXTENDS AtomicIngest

CONSTANTS Failures,          \* the shuffled batch of the seed, a sequence of events
          TreatmentShare,    \* percent
          OccurredAt,        \* event -> the moment it is dated with, before any dispatch
          Now,               \* the moment of dispatch
          MaxRounds,         \* _MAX_DISPATCH_ROUNDS
          MaxAttempts,       \* _MAX_ATTEMPTS of the dispatcher
          MaxEvaluations, MaxFaults   \* bounds: evaluations started, evaluations that die

(* generate_batch numbers the orders, so that each fails once.             *)
ASSUME BatchAssumption ==
  /\ Failures \in Seq(Events)
  /\ Events = {Failures[i] : i \in DOMAIN Failures}
  /\ \A i, k \in DOMAIN Failures : Subject(Failures[i]) = Subject(Failures[k]) => i = k
  /\ \A e \in Events : e.kind = "failed" /\ OccurredAt[e] + TicksPerHour <= Now
ASSUME RoundAssumption ==
  /\ TreatmentShare \in 0 .. 100 /\ MaxRounds \in Nat \ {0} /\ MaxAttempts \in Nat \ {0}
  /\ MaxEvaluations \in Nat /\ MaxFaults \in Nat

VARIABLES reference,     \* outbox row -> the evaluation that made its decision: its reference_id
          links,         \* payment links at Razorpay
          breaker_open,
          evaluation,    \* the evaluation in progress
          saved,         \* the tables as its transaction found them
          started, lost, \* evaluations started; the numbers of those that were rolled back
          results        \* eval/results/latest_run.json

database == <<payments, webhook_events, decisions, outbox, ledger, reference>>
Snapshot == [payments |-> payments, webhook_events |-> webhook_events, decisions |-> decisions,
             outbox |-> outbox, ledger |-> ledger, reference |-> reference]

vars == <<database, links, breaker_open, evaluation, saved, started, lost, results>>

NoResults == [committed |-> 0]
Idle == [pc |-> "idle", at |-> 0, round |-> 0, claimed |-> {}, metrics |-> NoResults]

-----------------------------------------------------------------------------
(* split_arms.                                                             *)
Split     == (Len(Failures) * TreatmentShare) \div 100
Treatment == SubSeq(Failures, 1, Split)
Control == SubSeq(Failures, Split + 1, Len(Failures))

Orders(arm) == {Subject(arm[i]) : i \in DOMAIN arm}

-----------------------------------------------------------------------------
Begin ==
  /\ evaluation = Idle
  /\ started < MaxEvaluations
  /\ started' = started + 1
  /\ saved' = Snapshot
  /\ evaluation' = [Idle EXCEPT !.pc = "treatment", !.at = 1]
  /\ UNCHANGED <<database, links, breaker_open, lost, results>>

At(pc, arm) == evaluation.pc = pc /\ evaluation.at <= Len(arm)
GoOn == evaluation' = [evaluation EXCEPT !.at = @ + 1]

(* Mutant: each evaluation gives its events new ids.                       *)
IngestTreatment_new_ids(settings) ==
  /\ At("treatment", Treatment)
  /\ LET e == Treatment[evaluation.at]
     IN  /\ RecordEvent(e, "applied", touches_in_window(e.payer, OccurredAt[e]), OccurredAt[e], settings)
         /\ reference' = [reference EXCEPT ![e] = started]
  /\ GoOn
  /\ UNCHANGED <<links, breaker_open, saved, started, lost, results>>

(* A delivery like any other, with an id that the seed determines.         *)
IngestTreatment(settings) ==
  /\ At("treatment", Treatment)
  /\ LET e == Treatment[evaluation.at]
     IN  /\ Handle(e, OccurredAt[e], settings)
         /\ reference' = [reference EXCEPT ![e] = IF e \in webhook_events THEN @ ELSE started]
  /\ GoOn
  /\ UNCHANGED <<links, breaker_open, saved, started, lost, results>>

TurnToControl ==
  /\ evaluation.pc = "treatment" /\ evaluation.at > Len(Treatment)
  /\ evaluation' = [evaluation EXCEPT !.pc = "control", !.at = 1]
  /\ UNCHANGED <<database, links, breaker_open, saved, started, lost, results>>

(* enqueue_control_arm_retry: in one hour, whatever the cause; its row is  *)
(* told apart from those of events.                                        *)
ControlRow(e, k) == [kind |-> "control", order |-> Subject(e), evaluation |-> k]

ControlDecision(e, k) ==
  [event |-> ControlRow(e, k), order_id |-> Subject(e), payer_contact |-> e.payer,
   authorized_intervention |-> "send_payment_link", rule_id |-> "CONTROL_ARM_NAIVE_RETRY",
   retry_at |-> OccurredAt[e] + TicksPerHour, decided_at |-> OccurredAt[e]]

Inserted(rows, o, row) ==
  [p \in DOMAIN rows \union {o} |-> IF p \in DOMAIN rows THEN rows[p] ELSE row]

(* The ingest with skip_policy decides nothing, of a duplicate as of a     *)
(* first delivery; the retry is enqueued after either.                     *)
IngestControl ==
  /\ At("control", Control)
  /\ LET e == Control[evaluation.at]
         fresh == e \notin webhook_events
         decision == ControlDecision(e, started)
     IN  /\ webhook_events' = webhook_events \union {e}
         /\ payments' = IF fresh THEN [payments EXCEPT ![Subject(e)] = Upsert(@, e)] ELSE payments
         /\ ledger' = Append(ledger, Entry(Subject(e), IF fresh THEN "webhook.applied"
                                                       ELSE "webhook.duplicate_ignored", e))
         /\ decisions' = decisions \union {decision}
         /\ outbox' = Inserted(outbox, decision.event,
                               [OutboxRow(decision) EXCEPT !.next_attempt_at = decision.retry_at])
         /\ reference' = Inserted(reference, decision.event, started)
  /\ GoOn
  /\ UNCHANGED <<links, breaker_open, saved, started, lost, results>>

-----------------------------------------------------------------------------
(* run_once, up to MaxRounds times or until it claims nothing.  Whether    *)
(* backoffs and the breaker's cooldown are over by the next round depends  *)
(* on how long the calls take.                                             *)
RoundOver ==
  \/ evaluation.pc = "control" /\ evaluation.at > Len(Control)
  \/ evaluation.pc = "round" /\ evaluation.claimed = {}

Due(waited) ==
  {o \in DOMAIN outbox : /\ outbox[o].status = "pending"
                         /\ outbox[o].next_attempt_at <= Now \/ waited}

(* Mutant: rounds until nothing is left to claim.                          *)
StartRound_no_cap(waited) ==
  /\ RoundOver
  /\ evaluation' = IF Due(waited) # {}
                     THEN [evaluation EXCEPT !.pc = "round", !.claimed = Due(waited)]
                     ELSE [evaluation EXCEPT !.pc = "measure"]
  /\ breaker_open' \in {breaker_open, FALSE}
  /\ UNCHANGED <<database, links, saved, started, lost, results>>

StartRound(waited) ==
  /\ RoundOver
  /\ evaluation' = IF Due(waited) # {} /\ evaluation.round < MaxRounds
                     THEN [evaluation EXCEPT !.pc = "round", !.claimed = Due(waited), !.round = @ + 1]
                     ELSE [evaluation EXCEPT !.pc = "measure"]
  /\ breaker_open' \in {breaker_open, FALSE}
  /\ UNCHANGED <<database, links, saved, started, lost, results>>

Link(o) == [row |-> o, evaluation |-> reference[o]]
OrderOf(o) == IF o.kind = "control" THEN o.order ELSE Subject(o)

Record(o, row, event_type) ==
  /\ outbox' = [outbox EXCEPT ![o] = row]
  /\ ledger' = Append(ledger, Entry(OrderOf(o), event_type, o))
  /\ UNCHANGED <<payments, webhook_events, decisions, reference>>

(* One row of a run of the dispatcher.  A call that fails may have created *)
(* the link all the same.                                                  *)
CallSucceeds(o) ==
  /\ ~breaker_open
  /\ links' = links \union {Link(o)}
  /\ Record(o, [outbox[o] EXCEPT !.status = "complete", !.updated_at = Now], "outbox.completed")
  /\ UNCHANGED breaker_open

CallFails(o) ==
  /\ ~breaker_open
  /\ links' \in {links, links \union {Link(o)}}
  /\ breaker_open' \in BOOLEAN
  /\ LET failed == [outbox[o] EXCEPT !.attempts = @ + 1, !.updated_at = Now]
     IN  IF failed.attempts >= MaxAttempts
           THEN Record(o, [failed EXCEPT !.status = "failed_permanently"], "outbox.failed_permanently")
           ELSE Record(o, [failed EXCEPT !.next_attempt_at = Now + 1], "outbox.attempt_failed")

Skipped(o) ==
  /\ breaker_open
  /\ UNCHANGED <<database, links, breaker_open>>

(* A run takes its rows in the order in which their decisions were made.   *)
CreatedAt(o) == (CHOOSE d \in decisions : d.event = o).decided_at

DispatchRow(o) ==
  /\ o \in evaluation.claimed
  /\ \A q \in evaluation.claimed : CreatedAt(o) <= CreatedAt(q)
  /\ CallSucceeds(o) \/ CallFails(o) \/ Skipped(o)
  /\ evaluation' = [evaluation EXCEPT !.claimed = @ \ {o}]
  /\ UNCHANGED <<saved, started, lost, results>>

(* "run make dispatch to pick up the rest": between evaluations, and when  *)
(* the breaker's cooldown is over.                                         *)
CoolDown ==
  /\ evaluation = Idle
  /\ breaker_open
  /\ breaker_open' = FALSE
  /\ UNCHANGED <<database, links, evaluation, saved, started, lost, results>>

DispatchLater(o) ==
  /\ evaluation = Idle
  /\ outbox[o].status = "pending"
  /\ CallSucceeds(o) \/ CallFails(o)
  /\ UNCHANGED <<evaluation, saved, started, lost, results>>

-----------------------------------------------------------------------------
(* metrics.py reads the outbox by order.                                   *)
RowsOf(orders, status) ==
  {o \in DOMAIN outbox : outbox[o].status = status /\ OrderOf(o) \in orders}

(* More than one completed send for the order.                             *)
double_charges(orders) == {s \in orders : Cardinality(RowsOf({s}, "complete")) > 1}

Contacted(payer) ==
  {d \in decisions : d.payer_contact = payer /\ outbox[d.event].status = "complete"}
touch_violations(settings) ==
  {payer \in Payers : Cardinality(Contacted(payer)) > settings.max_touches_per_payer_7d}

(* Mutant: a given-up row counts as a send too.                            *)
Attempted_failed_too(arm) ==
  Cardinality(RowsOf(Orders(arm), "complete")) + Cardinality(RowsOf(Orders(arm), "failed_permanently"))

Attempted(arm) == Cardinality(RowsOf(Orders(arm), "complete"))

unresolved_exceptions(orders) ==
  Cardinality({d \in decisions : /\ d.order_id \in orders
                                 /\ d.authorized_intervention = "escalate_to_human"})
    + Cardinality(RowsOf(orders, "failed_permanently"))

pending_count(orders) == Cardinality(RowsOf(orders, "pending"))

Committed == started - Cardinality(lost)

(* What main() publishes, and the cap that the violations were counted     *)
(* with, which settings give it: it is not in the file.                    *)
Metrics(settings) ==
  [committed  |-> Committed,
   treatment  |-> Attempted(Treatment),
   control    |-> Attempted(Control),
   unresolved |-> unresolved_exceptions(Subjects),
   cap        |-> settings.max_touches_per_payer_7d,
   violations |-> touch_violations(settings),
   doubles    |-> double_charges(Subjects),
   pending    |-> pending_count(Subjects)]

(* The metrics are computed, the transaction commits, and then the file is *)
(* written.                                                                *)
Commit(settings) ==
  /\ evaluation.pc = "measure"
  /\ evaluation' = [evaluation EXCEPT !.pc = "writing", !.metrics = Metrics(settings)]
  /\ UNCHANGED <<database, links, breaker_open, saved, started, lost, results>>

WriteResults ==
  /\ evaluation.pc = "writing"
  /\ results' = evaluation.metrics
  /\ evaluation' = Idle
  /\ UNCHANGED <<database, links, breaker_open, saved, started, lost>>

(* An exception run_once does not catch, a kill, a lost connection.        *)
Die ==
  /\ evaluation # Idle
  /\ Cardinality(lost) < MaxFaults
  /\ evaluation' = Idle
  /\ IF evaluation.pc = "writing" THEN UNCHANGED <<database, breaker_open, lost>>
     ELSE /\ payments' = saved.payments /\ webhook_events' = saved.webhook_events
          /\ decisions' = saved.decisions /\ outbox' = saved.outbox
          /\ ledger' = saved.ledger /\ reference' = saved.reference
          /\ breaker_open' \in BOOLEAN
          /\ lost' = lost \union {started}
  /\ UNCHANGED <<links, saved, started, results>>

Step ==
  \/ \E settings \in Settings : IngestTreatment(settings) \/ Commit(settings)
  \/ TurnToControl \/ IngestControl
  \/ \E waited \in BOOLEAN : StartRound(waited)
  \/ \E o \in DOMAIN outbox : DispatchRow(o)
  \/ WriteResults

EvaluationInit ==
  /\ TablesInit
  /\ reference = [e \in Events |-> 0]
  /\ links = {} /\ breaker_open = FALSE
  /\ evaluation = Idle /\ saved = Snapshot
  /\ started = 0 /\ lost = {} /\ results = NoResults

EvaluationNext == Begin \/ Step \/ Die \/ CoolDown \/ \E o \in DOMAIN outbox : DispatchLater(o)

EvaluationSpec == EvaluationInit /\ [][EvaluationNext]_vars

(* The script goes on with what it is doing.                               *)
EvaluationFairSpec == EvaluationSpec /\ WF_vars(Step)

-----------------------------------------------------------------------------
(* However often the evaluation is repeated and wherever it dies, every    *)
(* link at Razorpay is that of an outbox row, or was created by an         *)
(* evaluation whose rows were rolled back: an order of the treatment arm   *)
(* is chased once, plus once for each evaluation that died.                *)
TreatmentChasedOnce ==
  /\ \A l \in links : \/ l.evaluation \in lost
                      \/ l.row \in DOMAIN outbox /\ outbox[l.row] # NoEntry /\ reference[l.row] = l.evaluation
  /\ \A i \in DOMAIN Treatment :
       Cardinality({l \in links : OrderOf(l.row) = Subject(Treatment[i])}) <= 1 + Cardinality(lost)

(* What the published metrics say of the sends is never more than what was *)
(* sent, and a double charge they report comes of repeating the control    *)
(* arm: the first evaluation reports none, and none is ever reported of an *)
(* order of the treatment arm (EVALUATION.md:76, "must be 0").             *)
PayerOf(order) == (CHOOSE e \in Events : Subject(e) = order).payer
LinksTo(orders) == {l \in links : OrderOf(l.row) \in orders}

MetricsNeverOverstate ==
  results # NoResults =>
    /\ results.treatment <= Cardinality(LinksTo(Orders(Treatment)))
    /\ results.control <= Cardinality(LinksTo(Orders(Control)))
    /\ \A payer \in results.violations :
         Cardinality({l \in links : PayerOf(OrderOf(l.row)) = payer}) > results.cap
    /\ results.doubles # {} => results.committed >= 2
    /\ results.doubles \subseteq Orders(Control)

(* An evaluation ends, even when the breaker stays open: a round that only *)
(* skips its rows claims them again and again, up to the cap.              *)
EvaluationEnds == evaluation # Idle ~> evaluation = Idle
=============================================================================
