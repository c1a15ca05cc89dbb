------------------------------ MODULE Recovery ------------------------------
(***************************************************************************)
(* The whole path of an outreach while time passes: webhooks decide on it  *)
(* and enqueue it (the deliveries of AtomicIngest), runs of the dispatcher *)
(* execute it.                                                             *)
(*                                                                         *)
(* Two pairs of moments are kept apart because each side reads what the    *)
(* other wrote some time ago.  A delivery dates its decision with the      *)
(* moment it began, counts touches later and commits later still.  A run   *)
(* dates everything with the moment it began, and what it did becomes      *)
(* visible when it commits.  The rest of a delivery is one step, which     *)
(* Ingest implements; which rows a run takes, in what order, and which the *)
(* breaker refuses is left open: Dispatcher has it.                        *)
(***************************************************************************)
EXTENDS AtomicIngest, Backoff

CONSTANTS Dispatchers,   \* processes that may run the dispatcher
          MaxAttempts    \* _MAX_ATTEMPTS

ASSUME AttemptsAssumption == MaxAttempts \in Nat \ {0}

VARIABLES clock,
          delivery,      \* event -> the delivery in hand
          run,           \* dispatcher -> the run in progress
          link,          \* event -> what Razorpay knows of its payment link
          visible_since  \* history: event -> when its completed row became visible

vars == <<tables, clock, delivery, run, link, visible_since>>

Uncounted  == -1
NoDelivery == [now |-> -1, touches |-> Uncounted]
Idle       == [now |-> -1]

InHand(e)  == delivery[e] # NoDelivery
Counted(e) == delivery[e].touches # Uncounted
Running(d) == run[d] # Idle

OutboxRows == [status : {"pending", "complete", "failed_permanently"}, attempts : 0 .. MaxAttempts,
               next_attempt_at : 0 .. MaxTime, updated_at : 0 .. MaxTime]

RecoveryTypeOK ==
  /\ clock \in 0 .. MaxTime
  /\ link \in [Events -> {"none", "requested", "created"}]
  /\ visible_since \in [Events -> 0 .. clock]
  /\ \A e \in Events : outbox[e] \in OutboxRows \union {NoEntry}
  /\ \A e \in Events : InHand(e) =>
       delivery[e].now \in 0 .. clock /\ delivery[e].touches \in Nat \union {Uncounted}
  /\ \A d \in Dispatchers : Running(d) =>
       /\ run[d].now \in 0 .. clock
       /\ run[d].todo \subseteq DOMAIN run[d].rows /\ DOMAIN run[d].rows \subseteq Events
       /\ \A e \in DOMAIN run[d].rows : run[d].rows[e] \in OutboxRows

-----------------------------------------------------------------------------
(* Deliveries.  A redelivered event only adds a row to the ledger          *)
(* (RecordDuplicate), so an event that took effect is not delivered again. *)
OutcomeNow(e) == Outcome(IF Supported(e) THEN payments[Subject(e)].status ELSE "none", e)
Decides(e)    == e.kind = "failed" /\ OutcomeNow(e) = "applied"

(* The order's advisory lock, in the hands of a delivery that has counted: *)
(* what OutcomeNow was then it still is when the delivery commits.         *)
OrderLocked(s) == \E e \in Events : InHand(e) /\ Counted(e) /\ Subject(e) = s

(* From its first call to its commit a run has the breaker's row, and from *)
(* its first outcome the ledger, so that other runs and deliveries wait.   *)
HoldsLedger(d) == Running(d) /\ run[d].log # <<>>

Receive(e) ==
  /\ ~InHand(e)
  /\ e \notin webhook_events
  /\ delivery' = [delivery EXCEPT ![e] = [now |-> clock, touches |-> Uncounted]]
  /\ UNCHANGED <<tables, clock, run, link, visible_since>>

(* A failure about to be decided on: the order is locked and stays so.     *)
CountTouches(e) ==
  /\ InHand(e) /\ ~Counted(e)
  /\ Decides(e) /\ ~OrderLocked(Subject(e))
  /\ delivery' = [delivery EXCEPT ![e].touches = touches_in_window(e.payer, delivery[e].now)]
  /\ UNCHANGED <<tables, clock, run, link, visible_since>>

CommitDelivery(e, settings) ==
  /\ InHand(e)
  /\ Counted(e) \/ (~Decides(e) /\ (Supported(e) => ~OrderLocked(Subject(e))))
  /\ \A d \in Dispatchers : ~HoldsLedger(d)
  /\ IF e.kind = "forged" THEN RecordForged(e)
     ELSE RecordEvent(e, OutcomeNow(e), delivery[e].touches, delivery[e].now, settings)
  /\ delivery' = [delivery EXCEPT ![e] = NoDelivery]
  /\ UNCHANGED <<clock, run, link, visible_since>>

(* The worker dies or its transaction fails; the event will come again.    *)
AbandonDelivery(e) ==
  /\ InHand(e)
  /\ delivery' = [delivery EXCEPT ![e] = NoDelivery]
  /\ UNCHANGED <<tables, clock, run, link, visible_since>>

Deliver(e) ==
  \/ Receive(e)
  \/ CountTouches(e)
  \/ \E settings \in Settings : CommitDelivery(e, settings)
  \/ AbandonDelivery(e)

-----------------------------------------------------------------------------
(* Runs of the dispatcher.                                                 *)
Claimed == UNION {DOMAIN run[d].rows : d \in {x \in Dispatchers : Running(x)}}
Due(e)  == outbox[e].status = "pending" /\ outbox[e].next_attempt_at <= clock

StartRun(d) ==
  /\ ~Running(d)
  /\ \E rows \in SUBSET {e \in Events \ Claimed : Due(e)} :
       /\ rows # {}
       /\ run' = [run EXCEPT ![d] = [now |-> clock, todo |-> rows,
                                     rows |-> [e \in rows |-> outbox[e]], log |-> <<>>]]
  /\ UNCHANGED <<tables, clock, delivery, link, visible_since>>

(* The breaker is open.                                                    *)
SkipRow(d, e) ==
  /\ Running(d) /\ e \in run[d].todo
  /\ run' = [run EXCEPT ![d].todo = @ \ {e}]
  /\ UNCHANGED <<tables, clock, delivery, link, visible_since>>

MayCall(d, e) ==
  /\ Running(d) /\ e \in run[d].todo
  /\ \A c \in Dispatchers \ {d} : ~HoldsLedger(c)

(* What a run writes about a call stays its own until it commits.          *)
Record(d, e, row, event_type) ==
  run' = [run EXCEPT ![d].todo = @ \ {e}, ![d].rows[e] = row,
                     ![d].log = Append(@, Entry(Subject(e), event_type, e))]

(* The link is created, or the duplicate error shows that it already was.  *)
CallSucceeds(d, e) ==
  /\ MayCall(d, e)
  /\ link' = [link EXCEPT ![e] = "created"]
  /\ Record(d, e, [run[d].rows[e] EXCEPT !.status = "complete", !.updated_at = run[d].now],
            IF link[e] = "created" THEN "outbox.recovered_from_conflict" ELSE "outbox.completed")
  /\ UNCHANGED <<tables, clock, delivery, visible_since>>

(* A RazorpayClientError, with three fates of the request.                 *)
CallFails(d, e) ==
  /\ MayCall(d, e)
  /\ link' \in {link, [link EXCEPT ![e] = "created"],
                [link EXCEPT ![e] = IF @ = "created" THEN @ ELSE "requested"]}
  /\ LET attempts == run[d].rows[e].attempts + 1
         failed   == [run[d].rows[e] EXCEPT !.attempts = attempts, !.updated_at = run[d].now]
     IN  IF attempts >= MaxAttempts
           THEN Record(d, e, [failed EXCEPT !.status = "failed_permanently"], "outbox.failed_permanently")
           ELSE \E delay \in DelayRange(attempts) :
                  Record(d, e, [failed EXCEPT !.next_attempt_at = After(run[d].now, delay)],
                         "outbox.attempt_failed")
  /\ UNCHANGED <<tables, clock, delivery, visible_since>>

(* Any other error ends the run, whether or not the link was created.      *)
CallAborts(d, e) ==
  /\ MayCall(d, e)
  /\ link' \in {link, [link EXCEPT ![e] = "created"]}
  /\ run' = [run EXCEPT ![d] = Idle]
  /\ UNCHANGED <<tables, clock, delivery, visible_since>>

Crash(d) ==
  /\ Running(d)
  /\ run' = [run EXCEPT ![d] = Idle]
  /\ UNCHANGED <<tables, clock, delivery, link, visible_since>>

CommitRun(d) ==
  /\ Running(d) /\ run[d].todo = {}
  /\ LET rows == run[d].rows IN
       /\ outbox' = [e \in Events |-> IF e \in DOMAIN rows THEN rows[e] ELSE outbox[e]]
       /\ visible_since' = [e \in Events |-> IF e \in DOMAIN rows /\ rows[e].status = "complete"
                                               THEN clock ELSE visible_since[e]]
  /\ ledger' = ledger \o run[d].log
  /\ run' = [run EXCEPT ![d] = Idle]
  /\ UNCHANGED <<payments, webhook_events, decisions, clock, delivery, link>>

Handles(d, e) == SkipRow(d, e) \/ CallSucceeds(d, e) \/ CallFails(d, e) \/ CallAborts(d, e)
Dispatch(d) ==
  \/ StartRun(d)
  \/ \E e \in Events : Handles(d, e)
  \/ CommitRun(d)
  \/ Crash(d)

(* A request that timed out reaches Razorpay after all.                    *)
LateArrival(e) ==
  /\ link[e] = "requested"
  /\ link' = [link EXCEPT ![e] = "created"]
  /\ UNCHANGED <<tables, clock, delivery, run, visible_since>>

Tick ==
  /\ clock < MaxTime
  /\ clock' = clock + 1
  /\ UNCHANGED <<tables, delivery, run, link, visible_since>>

RecoveryInit ==
  /\ TablesInit
  /\ clock = 0
  /\ delivery = [e \in Events |-> NoDelivery]
  /\ run = [d \in Dispatchers |-> Idle]
  /\ link = [e \in Events |-> "none"]
  /\ visible_since = [e \in Events |-> 0]

RecoveryNext ==
  \/ \E e \in Events : Deliver(e) \/ LateArrival(e)
  \/ \E d \in Dispatchers : Dispatch(d)
  \/ Tick

RecoverySpec == RecoveryInit /\ [][RecoveryNext]_vars

-----------------------------------------------------------------------------
(* Every link asked for, however late it came to exist, was authorized     *)
(* under the guardrails of the moment of decision: a recoverable failure   *)
(* the customer can act on, an amount the engine may act on alone, outside *)
(* quiet hours, for a payer below the touch cap then.  What is visible     *)
(* only later does not count as a touch, however early it is dated.        *)
TouchesBefore(d) == {p \in decisions : /\ p.payer_contact = d.payer_contact
                                       /\ outbox[p.event].status = "complete"
                                       /\ visible_since[p.event] < d.decided_at
                                       /\ outbox[p.event].updated_at >= d.decided_at - TouchWindow}

LinksHeldGuardrails ==
  \A e \in Events : link[e] # "none" =>
    \E d \in decisions, settings \in Settings :
      /\ d.event = e /\ d.authorized_intervention = "send_payment_link"
      /\ classify(e.reason, e.code).category \in Recoverable \intersect CustomerActionable
      /\ e.amount_paise <= settings.human_approval_threshold_paise
      /\ ~InQuietHours(d.decided_at, settings)
      /\ d.payer_contact # NoPayer =>
           Cardinality(TouchesBefore(d)) < settings.max_touches_per_payer_7d

(* The touch cap is exceeded only by touches that overlapped: each of two  *)
(* was decided on before the other could be seen.                          *)
Touches(payer) == {d \in decisions : /\ d.payer_contact = payer
                                     /\ outbox[d.event].status = "complete"
                                     /\ outbox[d.event].updated_at >= clock - TouchWindow}

CapExceededByOverlapOnly ==
  \A payer \in Payers :
    (\A settings \in Settings : touches_in_window(payer, clock) > settings.max_touches_per_payer_7d)
      => \E p, q \in Touches(payer) : /\ p # q
                                      /\ visible_since[p.event] >= q.decided_at
                                      /\ visible_since[q.event] >= p.decided_at

(* The ledger explains every outreach, in order: the decision on it comes  *)
(* first, no capture of the order comes before that, the attempts and the  *)
(* one final outcome follow, and the outbox row and Razorpay agree.        *)
Positions(e, event_types) ==
  {i \in DOMAIN ledger : ledger[i].event = e /\ ledger[i].event_type \in event_types}
Captures(s) == {i \in DOMAIN ledger : /\ ledger[i].event_type \in {"webhook.applied", "webhook.recovered"}
                                      /\ ledger[i].event.kind = "captured" /\ ledger[i].entity_id = s}
Completions == {"outbox.completed", "outbox.recovered_from_conflict"}
Failures    == {"outbox.attempt_failed", "outbox.failed_permanently"}

AuditExplainsOutreach ==
  \A e \in Events : outbox[e] # NoEntry =>
    \E i \in Positions(e, {"decision"}) :
      /\ Positions(e, {"decision"}) = {i}
      /\ \A k \in Captures(Subject(e)) \union Positions(e, Completions \union Failures) : i < k
      /\ Cardinality(Positions(e, Failures)) = outbox[e].attempts
      /\ Cardinality(Positions(e, Completions)) = IF outbox[e].status = "complete" THEN 1 ELSE 0
      /\ outbox[e].status = "complete" => link[e] = "created"

-----------------------------------------------------------------------------
(* "A late payment.captured arrives for a payment already queued ...       *)
(* forward-only state machine cancels the queued outreach before it fires" *)
(* (README.md:99): an entry not yet tried stays without a link once the    *)
(* order is paid.                                                          *)
PaidOrderIsLeftAlone ==
  [][\A s \in Subjects : payments[s].status = "captured" =>
       \A e \in Events : Supported(e) /\ Subject(e) = s /\ outbox[e] # NoEntry /\ outbox[e].attempts = 0
                           => link'[e] = link[e]]_vars

(* "A single payer may not be contacted more than this many times in 7     *)
(* days" (.env.example:32), counted as the policy engine counts.           *)
TouchCapHolds ==
  \A payer \in Payers, settings \in Settings :
    touches_in_window(payer, clock) <= settings.max_touches_per_payer_7d
=============================================================================
