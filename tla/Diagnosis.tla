------------------------------ MODULE Diagnosis ------------------------------
(***************************************************************************)
(* The diagnosis pass beside the webhook endpoint: run_once() of           *)
(* src/diagnose/runner.py, diagnose_and_decide() of service.py and         *)
(* call_llm() of client.py, with Ingest's deliveries.                      *)
(*                                                                         *)
(* A pass is one database transaction (scripts/run_diagnose.py): it picks  *)
(* failed orders nobody could classify, asks the language model about each *)
(* and only its end publishes what came out.  The row of a diagnosis       *)
(* refers to its order, so PostgreSQL keeps a share lock on the order's    *)
(* row from then on; a delivery selects that row FOR UPDATE.  The ledger's *)
(* lock is taken by the first decision.  Both are kept while the model is  *)
(* asked about the next order.                                             *)
(***************************************************************************)
EXTENDS Ingest

CONSTANTS Passes,     \* processes that may run the diagnosis script
          Answers,    \* what can come of asking the model
          PassLimit   \* orders one pass takes at most

(* An answer is a failed call, or an output that cites evidence of the     *)
(* bundle (grounded) or makes some up; the schema leaves nothing else.     *)
ASSUME AnswerAssumption ==
  \A a \in Answers : a.kind = "error" \/
    a \in [kind : {"output"}, grounded : BOOLEAN, category : FailureCategory,
           confidence : 0 .. 100, suggested_intervention : Interventions]
ASSUME PassAssumption == Passes \cap (Workers \union {Free}) = {} /\ PassLimit \in Nat \ {0}

VARIABLES diagnoses,   \* committed rows of diagnoses
          pass         \* pass -> the transaction in progress

allvars == <<vars, diagnoses, pass>>

DiagnosisTypeOK ==
  /\ \A i \in DOMAIN diagnoses : diagnoses[i].order_id \in Subjects /\ diagnoses[i].by \in Passes
  /\ \A p \in Passes : pass[p] = Idle \/
       /\ pass[p].pc \in {"next", "asking", "recording", "deciding"}
       /\ pass[p].todo \subseteq Subjects
  /\ ledger_lock \in Workers \union Passes \union {Free}

-----------------------------------------------------------------------------
(* What a pass writes.  Its rows are private until it commits.             *)

LongTail(s)    == payments[s].status = "failed" /\ payments[s].category = "unknown"
DiagnosesOf(s) == {i \in DOMAIN diagnoses : diagnoses[i].order_id = s}

(* call_llm returns an output instead of raising DiagnosisFailed.          *)
Accepted(answer) == answer.kind = "output" /\ answer.grounded

NoOutput == [kind |-> "none"]   \* the columns of a failed diagnosis are null

(* A decision that comes of a diagnosis, told apart from those of events.  *)
Origin(p, s) == [kind |-> "diagnosis", order |-> s, by |-> p]

(* Mutant: the model's suggestion is executed, not the engine's verdict.   *)
DecisionOnDiagnosis_proposed(p, j) ==
  [event |-> Origin(p, j.order), order_id |-> j.order, payer_contact |-> j.payment.payer_contact,
   authorized_intervention |-> j.answer.suggested_intervention,
   rule_id |-> "PROPOSAL_AUTHORIZED", retry_at |-> NoRetry, decided_at |-> j.now]

(* Everything but the touches is of before the model was asked.            *)
DecisionOnDiagnosis(p, j) ==
  LET ctx == [category |-> j.answer.category, confidence |-> j.answer.confidence,
              amount_paise |-> j.payment.amount_paise,
              touches_in_window |-> touches_in_window(j.payment.payer_contact, j.now),
              interventions_dispatched_in_batch |-> 0, now |-> j.now]
      verdict == decide(j.answer.suggested_intervention, ctx, j.settings)
  IN  [event |-> Origin(p, j.order), order_id |-> j.order,
       payer_contact |-> j.payment.payer_contact,
       authorized_intervention |-> verdict.authorized_intervention,
       rule_id |-> verdict.rule_id, retry_at |-> verdict.retry_at, decided_at |-> j.now]

(* Mutant: the model's confidence is left to the engine's gate.            *)
Decides_unsure(j) == Accepted(j.answer)

Decides(j) == Accepted(j.answer) /\ j.answer.confidence >= j.settings.min_diagnosis_confidence

-----------------------------------------------------------------------------
(* Locks on the row of an order.                                           *)

SharesRow(p, s) == pass[p] # Idle /\ \E i \in DOMAIN pass[p].rows : pass[p].rows[i].order_id = s

(* The delivery that holds the order's lock has selected its row FOR       *)
(* UPDATE too, if there is a row.                                          *)
RowHeld(s) == /\ payments[s] # NoPayment
              /\ subject_lock[s] # Free
              /\ job[subject_lock[s]].pc # "locked"

-----------------------------------------------------------------------------
(* The pass, statement by statement.                                       *)

(* Mutant: orders that have a diagnosis are picked again.                  *)
Undiagnosed_any(s) == TRUE

Undiagnosed(s) == DiagnosesOf(s) = {}

(* The candidates come in no particular order.                             *)
StartPass(p, settings) ==
  /\ pass[p] = Idle
  /\ LET candidates == {s \in Subjects : LongTail(s) /\ Undiagnosed(s)}
     IN  /\ candidates # {}
         /\ \E todo \in SUBSET candidates :
              /\ Cardinality(todo) = PassLimit \/ (todo = candidates /\ Cardinality(todo) < PassLimit)
              /\ pass' = [pass EXCEPT ![p] = [pc |-> "next", settings |-> settings,
                                              todo |-> todo, rows |-> <<>>, made |-> <<>>]]
  /\ UNCHANGED <<vars, diagnoses>>

(* Both checks are made again, then the model is asked, about the row as   *)
(* it is now.  Two diagnoses of the order make scalar_one_or_none raise:   *)
(* then only AbortPass is left.                                            *)
TakeUp(p, s, now) ==
  /\ pass[p].pc = "next"
  /\ s \in pass[p].todo
  /\ LongTail(s) => Cardinality(DiagnosesOf(s)) <= 1
  /\ IF LongTail(s) /\ Undiagnosed(s)
       THEN pass' = [pass EXCEPT ![p] =
              [pc |-> "asking", settings |-> @.settings, todo |-> @.todo, rows |-> @.rows,
               made |-> @.made, order |-> s, now |-> now, payment |-> payments[s], answer |-> NoOutput]]
       ELSE pass' = [pass EXCEPT ![p].todo = @ \ {s}]
  /\ UNCHANGED <<vars, diagnoses>>

ModelAnswers(p, answer) ==
  /\ pass[p].pc = "asking"
  /\ pass' = [pass EXCEPT ![p].pc = "recording", ![p].answer = answer]
  /\ UNCHANGED <<vars, diagnoses>>

(* Mutant: the row names the payment, not the order.                       *)
Recorded_payment(p, j) ==
  Append(j.rows, [order_id |-> j.payment.latest_payment_id, by |-> p,
                  succeeded |-> Accepted(j.answer), output |-> NoOutput])

(* Mutant: a failed call leaves no row.                                    *)
Recorded_successes(p, j) ==
  IF Accepted(j.answer)
    THEN Append(j.rows, [order_id |-> j.order, by |-> p, succeeded |-> TRUE, output |-> j.answer])
    ELSE j.rows

Recorded(p, j) ==
  Append(j.rows, [order_id |-> j.order, by |-> p, succeeded |-> Accepted(j.answer),
                  output |-> IF Accepted(j.answer) THEN j.answer ELSE NoOutput])

(* The diagnosis is inserted, which waits for a delivery that holds the    *)
(* order's row; success or not, it is there to stay if the pass commits.   *)
RecordDiagnosis(p) ==
  /\ pass[p].pc = "recording"
  /\ ~RowHeld(pass[p].order)
  /\ pass' = [pass EXCEPT ![p] =
       [pc |-> IF Decides(@) THEN "deciding" ELSE "next", settings |-> @.settings,
        todo |-> @.todo \ {@.order}, rows |-> Recorded(p, @),
        made |-> IF Decides(@) THEN Append(@.made, DecisionOnDiagnosis(p, @)) ELSE @.made]]
  /\ UNCHANGED <<vars, diagnoses>>

(* The decision's ledger row needs the ledger, from now to the commit.     *)
LogDecision(p) ==
  /\ pass[p].pc = "deciding"
  /\ ledger_lock \in {Free, p}
  /\ ledger_lock' = p
  /\ pass' = [pass EXCEPT ![p].pc = "next"]
  /\ UNCHANGED <<tables, job, subject_lock, acked, faults, diagnoses>>

(* Mutant: a session-level lock on the ledger, kept by a pooled connection *)
ReleaseLedger_never(p) == UNCHANGED ledger_lock

ReleaseLedger(p) == ledger_lock' = IF ledger_lock = p THEN Free ELSE ledger_lock

CommitPass(p) ==
  /\ pass[p].pc = "next"
  /\ pass[p].todo = {}
  /\ LET made    == pass[p].made
         decided == {made[n] : n \in DOMAIN made}
         EntryOf(d) == IF d.authorized_intervention \in Dispatchable THEN OutboxRow(d) ELSE NoEntry
         new == {d.event : d \in decided}
     IN  /\ decisions' = decisions \union decided
         /\ outbox' = [o \in DOMAIN outbox \union new |->
                         IF o \in new THEN EntryOf(CHOOSE d \in decided : d.event = o) ELSE outbox[o]]
         /\ ledger' = ledger \o [n \in DOMAIN made |->
                         Entry(DecisionId(made[n].event), "decision", made[n].event)]
  /\ diagnoses' = diagnoses \o pass[p].rows
  /\ ReleaseLedger(p)
  /\ pass' = [pass EXCEPT ![p] = Idle]
  /\ UNCHANGED <<payments, webhook_events, job, subject_lock, acked, faults>>

EndPass(p) ==
  /\ ReleaseLedger(p)
  /\ pass' = [pass EXCEPT ![p] = Idle]
  /\ UNCHANGED <<tables, job, subject_lock, acked, diagnoses>>

(* The process dies, or an exception ends the pass: nothing is published,  *)
(* whatever the model was paid for.                                        *)
AbortPass(p) ==
  /\ pass[p] # Idle
  /\ faults < MaxFaults
  /\ faults' = faults + 1
  /\ EndPass(p)

-----------------------------------------------------------------------------
(* The deliveries of Ingest, which now also wait for the pass.             *)

DeliveryWork(w) ==
  /\ \/ LockSubject(w) \/ ClaimEvent(w) \/ Decide(w) \/ LockLedger(w) \/ Commit(w) \/ Answer(w)
     \/ LoadStatus(w) /\ \A p \in Passes : ~SharesRow(p, Subject(job[w].event))
  /\ UNCHANGED <<diagnoses, pass>>

(* The pass has the ledger and waits for the row of an order; a delivery   *)
(* has the row and waits for the ledger.  PostgreSQL notices after a       *)
(* second and ends one of them.                                            *)
Deadlocked(w, p) ==
  /\ pass[p].pc = "recording" /\ RowHeld(pass[p].order) /\ subject_lock[pass[p].order] = w
  /\ job[w].pc = "ready" /\ ledger_lock = p

EndDelivery(w) ==
  /\ job' = [job EXCEPT ![w] = Idle]
  /\ ReleaseLocks(w)
  /\ UNCHANGED <<tables, acked, faults, diagnoses, pass>>

BreakDeadlock(w, p) ==
  /\ Deadlocked(w, p)
  /\ EndDelivery(w) \/ (EndPass(p) /\ UNCHANGED faults)

-----------------------------------------------------------------------------
Arrives(e) == Deliver(e) /\ UNCHANGED <<diagnoses, pass>>

PassWork(p) ==
  \/ \E s \in Subjects, now \in Times : TakeUp(p, s, now)
  \/ \E answer \in Answers : ModelAnswers(p, answer)
  \/ RecordDiagnosis(p) \/ LogDecision(p) \/ CommitPass(p)

BeginPass(p) == \E settings \in Settings : StartPass(p, settings)

DiagnosisInit == Init /\ diagnoses = <<>> /\ pass = [p \in Passes |-> Idle]

DiagnosisNext ==
  \/ \E e \in Events : Arrives(e)
  \/ \E w \in Workers : DeliveryWork(w) \/ (Fail(w) /\ UNCHANGED <<diagnoses, pass>>)
  \/ \E p \in Passes : BeginPass(p) \/ PassWork(p) \/ AbortPass(p)
  \/ \E w \in Workers, p \in Passes : BreakDeadlock(w, p)
  \/ AtRest /\ UNCHANGED <<diagnoses, pass>>

DiagnosisSpec == DiagnosisInit /\ [][DiagnosisNext]_allvars

(* As in Ingest; the script is run again and again, the model answers or   *)
(* its client gives up, and deadlocks are noticed.  PostgreSQL hands a     *)
(* lock to whoever queues for it when its holder ends, before a new        *)
(* transaction can ask: hence strong fairness where one waits.             *)
DiagnosisFairSpec ==
  /\ DiagnosisSpec
  /\ \A e \in Events : WF_allvars(Arrives(e))
  /\ WF_allvars(\E w \in Workers : DeliveryWork(w))
  /\ WF_allvars(\E p \in Passes : BeginPass(p) \/ PassWork(p))
  /\ SF_allvars(\E p \in Passes : RecordDiagnosis(p))
  /\ SF_allvars((\E w \in Workers : LockLedger(w)) /\ UNCHANGED <<diagnoses, pass>>)
  /\ WF_allvars(\E w \in Workers, p \in Passes : BreakDeadlock(w, p))

-----------------------------------------------------------------------------
OfDiagnosis == {d \in decisions : d.event.kind = "diagnosis"}

(* A decision of a pass is never there without what it came of: it has its *)
(* diagnosis, an accepted one that was sure enough, its one row of the     *)
(* ledger, and an outbox entry exactly when it calls Razorpay; and a       *)
(* diagnosis that is there, accepted and sure enough, has its decision.    *)
DiagnosisExplainsDecision ==
  /\ \A d \in OfDiagnosis :
       /\ \E i \in DiagnosesOf(d.order_id), settings \in Settings :
            /\ diagnoses[i].by = d.event.by /\ diagnoses[i].output.kind = "output"
            /\ diagnoses[i].output.grounded
            /\ diagnoses[i].output.confidence >= settings.min_diagnosis_confidence
       /\ Cardinality({i \in DOMAIN ledger : ledger[i].event = d.event}) = 1
       /\ outbox[d.event] # NoEntry <=> d.authorized_intervention = "send_payment_link"
  /\ \A i \in DOMAIN diagnoses :
       diagnoses[i].succeeded => \/ \E settings \in Settings : diagnoses[i].output.confidence
                                                                < settings.min_diagnosis_confidence
                                 \/ \E d \in OfDiagnosis :
                                      d.event = Origin(diagnoses[i].by, diagnoses[i].order_id)

(* "the exact same decide()" (README.md:277): whatever the model suggests, *)
(* a customer is contacted only over a failure that it calls recoverable   *)
(* and the customer can act on, below the approval threshold of the amount *)
(* some failure of the order had, and outside quiet hours.                 *)
ModelCannotOverrideRules ==
  \A d \in OfDiagnosis : d.authorized_intervention \in RequiresContact =>
    \E settings \in Settings :
      /\ \E i \in DiagnosesOf(d.order_id) : /\ diagnoses[i].by = d.event.by
                                            /\ diagnoses[i].output.category \in
                                                 Recoverable \intersect CustomerActionable
      /\ \E e \in webhook_events : /\ e.kind = "failed" /\ Subject(e) = d.order_id
                                   /\ e.amount_paise <= settings.human_approval_threshold_paise
      /\ ~InQuietHours(d.decided_at, settings)

(* An order is not asked about again once it "has already been diagnosed"  *)
(* (runner.py:1), for whatever reason the first time ended: two diagnoses  *)
(* of an order are of two passes that overlapped.                          *)
DiagnosedOncePerPass ==
  \A s \in Subjects, p \in Passes :
    Cardinality({i \in DiagnosesOf(s) : diagnoses[i].by = p}) <= 1

(* Every order nobody could classify is diagnosed in the end, unless it is *)
(* paid or fails otherwise meanwhile; and, by Ingest's                     *)
(* EveryEventAcknowledged, every delivery is answered although deliveries  *)
(* wait for passes and some end in a deadlock.                             *)
EveryLongTailOrderDiagnosed ==
  \A s \in Subjects : LongTail(s) ~> (~LongTail(s) \/ DiagnosesOf(s) # {})

(* The orders the model was asked about, and had answered, in this pass.   *)
CallsMade(p) ==
  {pass[p].rows[i].order_id : i \in DOMAIN pass[p].rows}
    \union (IF pass[p].pc = "recording" THEN {pass[p].order} ELSE {})

(* "Every call, successful or not, is durably recorded in `diagnoses`"     *)
(* (README.md:258): when a pass is over, each of its calls that the model  *)
(* answered has its row.  The rows are committed with the whole pass.      *)
EveryCallRecorded ==
  [][\A p \in Passes : pass[p] # Idle /\ pass'[p] = Idle =>
       \A s \in CallsMade(p) : \E i \in DOMAIN diagnoses' :
         diagnoses'[i].order_id = s /\ diagnoses'[i].by = p]_allvars
=============================================================================
