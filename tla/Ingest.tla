------------------------------- MODULE Ingest -------------------------------
(***************************************************************************)
(* The webhook endpoint as concurrent database transactions:               *)
(* src/api/webhooks.py and ingest_webhook() of src/ingest/service.py.      *)
(*                                                                         *)
(* Each worker (a server process, or a test's thread) handles one delivery *)
(* at a time as the statements the handler issues, at READ COMMITTED.      *)
(* Razorpay delivers an event until it sees a 2xx answer, in any order,    *)
(* several times at once if it likes.  A worker can die, lose its database *)
(* connection or lose the connection it was to answer on at every point;   *)
(* what its transaction had written is then gone, its locks are free.      *)
(* Buffered writes are not stored: they are a function of what was read.   *)
(***************************************************************************)
EXTENDS AtomicIngest

CONSTANTS Workers,
          Free,         \* a lock nobody holds
          MaxFaults     \* bound: crashes and lost answers

ASSUME FreeAssumption == Free \notin Workers
ASSUME FaultAssumption == MaxFaults \in Nat

VARIABLES job,          \* worker -> the delivery in hand
          subject_lock, \* order -> holder of pg_advisory_xact_lock("retryable.payment.<order>")
          ledger_lock,  \* holder of the ledger's advisory lock
          acked,        \* events Razorpay has seen a 2xx for (or 400, when forged)
          faults        \* crashes and lost answers so far

vars == <<tables, job, subject_lock, ledger_lock, acked, faults>>

Idle == [pc |-> "idle"]

Steps == {"received", "locked", "loaded", "claimed", "ready", "writing", "answering"}

TypeOK ==
  /\ \A s \in Subjects : payments[s].status \in {"none", "failed", "captured"}
  /\ webhook_events \subseteq Events /\ acked \subseteq Events
  /\ \A d \in decisions : d.event \in Events /\ d.authorized_intervention \in Interventions
  /\ \A e \in Events : outbox[e] = NoEntry \/ outbox[e].status = "pending"
  /\ \A w \in Workers : job[w] = Idle \/ (job[w].pc \in Steps /\ job[w].event \in Events)
  /\ subject_lock \in [Subjects -> Workers \union {Free}]
  /\ ledger_lock \in Workers \union {Free}
  /\ faults \in 0 .. MaxFaults

-----------------------------------------------------------------------------
Advance(w, pc) == job' = [job EXCEPT ![w] = [@ EXCEPT !.pc = pc]]

(* The signature is checked and the body parsed.  Only a supported event   *)
(* has an order to lock; a forged one skips every table but the ledger.    *)
Receive(w, e, now, settings) ==
  /\ job[w] = Idle
  /\ e \notin acked
  /\ job' = [job EXCEPT ![w] =
       [pc |-> CASE Supported(e) -> "received" [] e.kind = "forged" -> "ready" [] OTHER -> "loaded",
        event |-> e, now |-> now, settings |-> settings,
        outcome |-> "ignored_unsupported_event", touches |-> 0]]
  /\ UNCHANGED <<tables, subject_lock, ledger_lock, acked, faults>>

(* Mutant: no lock, as before one was added: the order's row is only read. *)
LockSubject_no_wait(w) ==
  /\ job[w].pc = "received"
  /\ Advance(w, "locked")
  /\ UNCHANGED <<tables, subject_lock, ledger_lock, acked, faults>>

LockSubject(w) ==
  /\ job[w].pc = "received"
  /\ subject_lock[Subject(job[w].event)] = Free
  /\ subject_lock' = [subject_lock EXCEPT ![Subject(job[w].event)] = w]
  /\ Advance(w, "locked")
  /\ UNCHANGED <<tables, ledger_lock, acked, faults>>

LoadStatus(w) ==
  /\ job[w].pc = "locked"
  /\ LET e == job[w].event IN
       job' = [job EXCEPT ![w].pc = "loaded", ![w].outcome = Outcome(payments[Subject(e)].status, e)]
  /\ UNCHANGED <<tables, subject_lock, ledger_lock, acked, faults>>

(* INSERT ... ON CONFLICT DO NOTHING waits for an uncommitted insert of    *)
(* the same event_id to be committed or rolled back.  Whoever lost the     *)
(* claim only has the duplicate left to record.                            *)
HoldsClaim(w) == job[w].pc \in {"claimed", "ready", "writing"} /\ job[w].outcome # "duplicate_ignored"

(* Mutant: SELECT, then INSERT; two transactions both find nothing.        *)
ClaimEvent_no_wait(w) ==
  /\ job[w].pc = "loaded"
  /\ IF job[w].event \in webhook_events
       THEN job' = [job EXCEPT ![w].pc = "ready", ![w].outcome = "duplicate_ignored"]
       ELSE Advance(w, "claimed")
  /\ UNCHANGED <<tables, subject_lock, ledger_lock, acked, faults>>

ClaimEvent(w) ==
  /\ job[w].pc = "loaded"
  /\ \A v \in Workers \ {w} : HoldsClaim(v) => job[v].event # job[w].event
  /\ IF job[w].event \in webhook_events
       THEN job' = [job EXCEPT ![w].pc = "ready", ![w].outcome = "duplicate_ignored"]
       ELSE Advance(w, "claimed")
  /\ UNCHANGED <<tables, subject_lock, ledger_lock, acked, faults>>

(* The payment is upserted and, for an applied failure, the policy engine  *)
(* is asked; what it depends on is the payer's touches read here.          *)
Decide(w) ==
  /\ job[w].pc = "claimed"
  /\ job' = [job EXCEPT ![w].pc = "ready",
                        ![w].touches = touches_in_window(job[w].event.payer, job[w].now)]
  /\ UNCHANGED <<tables, subject_lock, ledger_lock, acked, faults>>

LockLedger(w) ==
  /\ job[w].pc = "ready"
  /\ ledger_lock = Free
  /\ ledger_lock' = w
  /\ Advance(w, "writing")
  /\ UNCHANGED <<tables, subject_lock, acked, faults>>

(* Mutant: a session-level lock on the order, kept by a pooled connection. *)
ReleaseLocks_keeps_subject(w) ==
  /\ UNCHANGED subject_lock
  /\ ledger_lock' = IF ledger_lock = w THEN Free ELSE ledger_lock

(* The end of a transaction, either way.                                   *)
ReleaseLocks(w) ==
  /\ subject_lock' = [s \in Subjects |-> IF subject_lock[s] = w THEN Free ELSE subject_lock[s]]
  /\ ledger_lock' = IF ledger_lock = w THEN Free ELSE ledger_lock

(* Everything the transaction wrote appears at once.                       *)
Commit(w) ==
  /\ job[w].pc = "writing"
  /\ LET j == job[w] IN
       IF j.event.kind = "forged" THEN RecordForged(j.event)
       ELSE IF j.outcome = "duplicate_ignored" THEN RecordDuplicate(j.event)
       ELSE RecordEvent(j.event, j.outcome, j.touches, j.now, j.settings)
  /\ ReleaseLocks(w)
  /\ Advance(w, "answering")
  /\ UNCHANGED <<acked, faults>>

Answer(w) ==
  /\ job[w].pc = "answering"
  /\ acked' = acked \union {job[w].event}
  /\ job' = [job EXCEPT ![w] = Idle]
  /\ UNCHANGED <<tables, subject_lock, ledger_lock, faults>>

(* The worker dies, its transaction fails, or its answer is lost: the      *)
(* event is not acknowledged and will come again.                          *)
Fail(w) ==
  /\ job[w] # Idle
  /\ faults < MaxFaults
  /\ faults' = faults + 1
  /\ job' = [job EXCEPT ![w] = Idle]
  /\ ReleaseLocks(w)
  /\ UNCHANGED <<tables, acked>>

Deliver(e) == \E w \in Workers, now \in Times, settings \in Settings : Receive(w, e, now, settings)

Work(w) == LockSubject(w) \/ LoadStatus(w) \/ ClaimEvent(w) \/ Decide(w) \/ LockLedger(w)
             \/ Commit(w) \/ Answer(w)

(* Every event answered and nothing in hand: the endpoint is at rest.      *)
AtRest ==
  /\ acked = Events
  /\ \A w \in Workers : job[w] = Idle
  /\ UNCHANGED vars

Init ==
  /\ TablesInit
  /\ job = [w \in Workers |-> Idle]
  /\ subject_lock = [s \in Subjects |-> Free]
  /\ ledger_lock = Free
  /\ acked = {}
  /\ faults = 0

Next ==
  \/ \E e \in Events : Deliver(e)
  \/ \E w \in Workers : Work(w) \/ Fail(w)
  \/ AtRest

Spec == Init /\ [][Next]_vars

(* Razorpay redelivers for a day, and PostgreSQL grants locks in the order *)
(* they were asked for, so neither a delivery nor a statement waits for    *)
(* ever while it can proceed.                                              *)
FairSpec == Spec /\ (\A e \in Events : WF_vars(Deliver(e))) /\ (\A w \in Workers : WF_vars(Work(w)))

-----------------------------------------------------------------------------
(* Every delivery acts as if it ran alone: the tables of all these         *)
(* interleaved, crashing, repeated deliveries go through states that one   *)
(* delivery at a time could produce.                                       *)
ActsAtomically == AtomicSpec

(* An event takes effect once however often it is delivered: exactly one   *)
(* row of the ledger records its effect once it is claimed, none before,   *)
(* and no event is acknowledged without being claimed.                     *)
EffectsOf(e) == {i \in DOMAIN ledger : /\ ledger[i].event = e
                                       /\ ledger[i].event_type \notin
                                            {"decision", "webhook.duplicate_ignored"}}

EffectOnce ==
  \A e \in {f \in Events : f.kind # "forged"} :
    /\ Cardinality(EffectsOf(e)) = IF e \in webhook_events THEN 1 ELSE 0
    /\ e \in acked => e \in webhook_events

(* The audit trail explains every column of the payments table: the last   *)
(* delivery the ledger says was applied to an order is the one its row     *)
(* shows, except that the category is that of the last applied failure,    *)
(* which a capture leaves alone.                                           *)
AuditExplainsPayments ==
  \A s \in Subjects :
    LET row     == payments[s]
        applied == {i \in DOMAIN ledger :
                      /\ ledger[i].event_type \in {"webhook.applied", "webhook.recovered"}
                      /\ ledger[i].entity_id = s}
        failed  == {i \in applied : ledger[i].event.kind = "failed"}
    IN  IF applied = {} THEN row = NoPayment
        ELSE /\ \E i \in applied : LET e == ledger[i].event IN
                  /\ \A k \in applied : k <= i
                  /\ row.status = e.kind /\ row.latest_payment_id = e.payment
                  /\ row.payer_contact = e.payer /\ row.amount_paise = e.amount_paise
             /\ IF failed = {} THEN row.category = "none"
                ELSE \E i \in failed : LET e == ledger[i].event IN
                       /\ \A k \in failed : k <= i
                       /\ row.category = classify(e.reason, e.code).category

(* A paid order stays paid, and from then on nothing new is decided for    *)
(* it: a late or reordered failure never starts outreach for it.           *)
PaidIsFinal ==
  [][ /\ \A s \in Subjects : payments[s].status = "captured" => payments'[s].status = "captured"
      /\ \A d \in decisions' \ decisions : payments[d.order_id].status # "captured" ]_tables

(* Every event is acknowledged in the end: deliveries of one order wait    *)
(* for each other and all wait for the ledger, but never in a circle.      *)
EveryEventAcknowledged == \A e \in Events : <>(e \in acked)
=============================================================================
