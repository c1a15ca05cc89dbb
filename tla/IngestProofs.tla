---------------------------- MODULE IngestProofs ----------------------------
(***************************************************************************)
(* Theorems about Ingest: interleaved, crashing, repeated deliveries act   *)
(* as if one at a time, for any workers, events, settings and moments.     *)
(* Theorems about Diagnosis, the same endpoint beside the passes that ask  *)
(* a language model: no pass overlapping any deliveries sends a touch or   *)
(* gives a failure an action the policy engine refused.                    *)
(***************************************************************************)
EXTENDS Diagnosis, AtomicIngestProofs

JobFields == {"pc", "event", "now", "settings", "outcome", "touches"}

(* A worker is idle or has a delivery in hand.                             *)
Delivering(w) ==
  /\ job[w].pc \in Steps
  /\ DOMAIN job[w] = JobFields
  /\ job[w].event \in Events /\ job[w].now \in Times /\ job[w].settings \in Settings
  /\ job[w].touches = 0

Shaped ==
  /\ DOMAIN job = Workers
  /\ \A w \in Workers : job[w] = Idle \/ Delivering(w)
  /\ subject_lock \in [Subjects -> Workers \union {Free}]
  /\ ledger_lock \in Workers \union {Free}

(* The endpoint itself never completes an outbox entry, so it finds no     *)
(* touches.                                                                *)
TablesShaped ==
  /\ DOMAIN payments = Subjects /\ DOMAIN outbox = Events
  /\ \A e \in Events : outbox[e] = NoEntry \/ outbox[e].status = "pending"
  /\ \A d \in decisions : d.event \in Events /\ d.authorized_intervention \in Interventions
  /\ \A s \in Subjects : payments[s].status \in {"none", "failed", "captured"}
  /\ webhook_events \subseteq Events

InTransaction(w) == job[w].pc \in {"locked", "loaded", "claimed", "ready", "writing"}
Judged(w)        == job[w].pc \in {"loaded", "claimed", "ready", "writing"}
Claimed(w)       == job[w].pc \in {"claimed", "ready", "writing"}

(* What a worker has read still holds when it commits: the order's lock    *)
(* keeps its status, and the claim keeps others from taking the event.     *)
ReadsOf(w) ==
  LET e == job[w].event IN
    /\ Supported(e) /\ InTransaction(w) => subject_lock[Subject(e)] = w
    /\ Judged(w) /\ job[w].outcome # "duplicate_ignored" =>
         job[w].outcome = Outcome(IF Supported(e) THEN payments[Subject(e)].status ELSE "none", e)
    /\ job[w].pc \in {"received", "locked"} => Supported(e)
    /\ job[w].pc \in {"received", "locked", "loaded", "claimed"} =>
         job[w].outcome # "duplicate_ignored"
    /\ e.kind = "forged" => job[w].pc \in {"ready", "writing", "answering"}
    /\ Claimed(w) /\ e.kind # "forged" =>
         (job[w].outcome = "duplicate_ignored" <=> e \in webhook_events)

ReadsHold == \A w \in Workers : Delivering(w) => ReadsOf(w)

ClaimsApart ==
  \A v, w \in Workers :
    /\ v # w /\ Delivering(v) /\ Delivering(w)
    /\ HoldsClaim(v) /\ HoldsClaim(w) /\ job[v].event = job[w].event
    => job[w].event.kind = "forged"

IInv == Shaped /\ TablesShaped /\ ReadsHold /\ ClaimsApart

Keeps(w) == DOMAIN job' = Workers /\ \A v \in Workers \ {w} : job'[v] = job[v]

-----------------------------------------------------------------------------
LEMMA NoTouches ==
  ASSUME TablesShaped, NEW payer, NEW now
  PROVE  touches_in_window(payer, now) = 0
<1>1. {d \in decisions : /\ d.payer_contact = payer
                         /\ outbox[d.event].status = "complete"
                         /\ outbox[d.event].updated_at >= now - TouchWindow} = {}
  BY DEF TablesShaped, NoEntry
<1>2. Cardinality({}) = 0
  BY FS_EmptySet
<1> QED
  BY <1>1, <1>2 DEF touches_in_window

-----------------------------------------------------------------------------
(* A whole delivery keeps the tables well formed.                          *)
LEMMA RecordEventTables ==
  ASSUME TablesShaped, NEW e \in Events, NEW current, NEW touches, NEW now, NEW settings,
         RecordEvent(e, Outcome(current, e), touches, now, settings)
  PROVE  /\ TablesShaped'
         /\ webhook_events' = webhook_events \union {e}
         /\ \A s \in Subjects : Supported(e) => s = Subject(e) \/ payments'[s] = payments[s]
         /\ ~Supported(e) => payments' = payments
<1> DEFINE decision == DecisionFor(e, touches, now, settings)
<1> HIDE DEF decision
<1>1. decision.event = e /\ decision.authorized_intervention \in Interventions
  BY InCatalog, DecisionIsOf DEF decision
<1>2. /\ webhook_events' = webhook_events \union {e}
      /\ \/ payments' = payments
         \/ Supported(e) /\ payments' = [payments EXCEPT ![Subject(e)] = Upsert(payments[Subject(e)], e)]
      /\ decisions' = decisions \/ decisions' = decisions \union {decision}
      /\ outbox' = outbox \/ outbox' = Enqueued(decision)
  BY OutcomeKinds DEF RecordEvent, decision
<1>3. DOMAIN outbox' = Events /\ \A f \in Events : outbox'[f] = NoEntry \/ outbox'[f].status = "pending"
  BY <1>1, <1>2 DEF TablesShaped, Enqueued, OutboxRow
<1>4. \A d \in decisions' : d.event \in Events /\ d.authorized_intervention \in Interventions
  BY <1>1, <1>2 DEF TablesShaped
<1>5. /\ DOMAIN payments' = Subjects
      /\ \A s \in Subjects : payments'[s].status \in {"none", "failed", "captured"}
      /\ \A s \in Subjects : Supported(e) => s = Subject(e) \/ payments'[s] = payments[s]
      /\ ~Supported(e) => payments' = payments
  <2>1. Upsert(payments[Subject(e)], e).status = e.kind
    BY DEF Upsert
  <2> QED
    BY <1>2, <2>1 DEF TablesShaped, Supported
<1> QED
  BY <1>2, <1>3, <1>4, <1>5 DEF TablesShaped

-----------------------------------------------------------------------------
LEMMA IdleIsNotDelivering == ASSUME NEW w, job[w] = Idle PROVE ~Delivering(w) /\ job[w].pc = "idle"
BY DEF Idle, Delivering, Steps

LEMMA InitInv == Init => IInv
<1> SUFFICES ASSUME Init PROVE IInv
  OBVIOUS
<1>1. \A w \in Workers : job[w] = Idle /\ ~Delivering(w)
  BY IdleIsNotDelivering DEF Init
<1>2. Shaped
  BY <1>1 DEF Init, Shaped
<1>3. TablesShaped
  BY DEF Init, TablesInit, TablesShaped, NoPayment
<1> QED
  BY <1>1, <1>2, <1>3 DEF IInv, ReadsHold, ClaimsApart

(* A step of w that leaves the tables and the others' locks alone.         *)
LEMMA OthersUndisturbed ==
  ASSUME IInv, NEW w \in Workers, Keeps(w), UNCHANGED tables,
         NEW v \in Workers \ {w}, \A s \in Subjects : subject_lock[s] = v => subject_lock'[s] = v
  PROVE  /\ job'[v] = Idle \/ Delivering(v)'
         /\ Delivering(v)' => Delivering(v) /\ ReadsOf(v)'
         /\ HoldsClaim(v)' <=> HoldsClaim(v)
<1>1. job'[v] = job[v]
  BY DEF Keeps
<1>2. Delivering(v)' <=> Delivering(v)
  BY <1>1 DEF Delivering
<1>3. ASSUME Delivering(v) PROVE ReadsOf(v)'
  <2>1. ReadsOf(v) /\ job[v].event \in Events
    BY <1>3 DEF IInv, ReadsHold, Delivering
  <2>2. Supported(job[v].event) => Subject(job[v].event) \in Subjects
    BY <2>1 DEF Subjects
  <2> QED
    BY <1>1, <2>1, <2>2 DEF ReadsOf, InTransaction, Judged, Claimed, tables
<1> QED
  BY <1>1, <1>2, <1>3 DEF IInv, Shaped, HoldsClaim

LEMMA LocalStep ==
  ASSUME IInv, NEW w \in Workers, Keeps(w), UNCHANGED tables,
         subject_lock' \in [Subjects -> Workers \union {Free}],
         \A v \in Workers \ {w}, s \in Subjects : subject_lock[s] = v => subject_lock'[s] = v,
         ledger_lock' \in Workers \union {Free},
         job'[w] = Idle \/ (Delivering(w)' /\ ReadsOf(w)'),
         \A v \in Workers \ {w} :
           Delivering(v) /\ Delivering(w)' /\ HoldsClaim(v) /\ HoldsClaim(w)'
             /\ job[v].event = job'[w].event => job'[w].event.kind = "forged"
  PROVE  IInv'
<1>1. Shaped'
  BY OthersUndisturbed DEF Shaped, Keeps
<1>2. TablesShaped'
  BY DEF IInv, TablesShaped, tables
<1>3. ReadsHold'
  BY OthersUndisturbed, IdleIsNotDelivering DEF ReadsHold, Idle, Delivering, Steps
<1>4. ClaimsApart'
  <2> SUFFICES ASSUME NEW u \in Workers, NEW v \in Workers, u # v, Delivering(u)', Delivering(v)',
                      HoldsClaim(u)', HoldsClaim(v)', job'[u].event = job'[v].event
               PROVE  job'[v].event.kind = "forged"
    BY DEF ClaimsApart
  <2>1. CASE u = w
    BY <2>1, OthersUndisturbed DEF Keeps
  <2>2. CASE v = w
    BY <2>2, OthersUndisturbed DEF Keeps
  <2>3. CASE u # w /\ v # w
    <3>1. Delivering(u) /\ Delivering(v) /\ HoldsClaim(u) /\ HoldsClaim(v)
      BY <2>3, OthersUndisturbed
    <3>2. job'[u] = job[u] /\ job'[v] = job[v]
      BY <2>3 DEF Keeps
    <3> QED
      BY <3>1, <3>2 DEF IInv, ClaimsApart
  <2> QED
    BY <2>1, <2>2, <2>3
<1> QED
  BY <1>1, <1>2, <1>3, <1>4 DEF IInv

-----------------------------------------------------------------------------
(* What every step of a worker but its commit comes to.                    *)
LEMMA Advanced ==
  ASSUME IInv, NEW w \in Workers, Delivering(w), NEW pc \in Steps, Advance(w, pc)
  PROVE  /\ Keeps(w) /\ Delivering(w)' /\ job'[w].pc = pc
         /\ job'[w].event = job[w].event /\ job'[w].outcome = job[w].outcome
<1>1. DOMAIN job = Workers /\ DOMAIN job[w] = JobFields
  BY DEF IInv, Shaped, Delivering
<1>2. Keeps(w) /\ job'[w] = [job[w] EXCEPT !.pc = pc]
  BY <1>1 DEF Advance, Keeps
<1> QED
  BY <1>1, <1>2 DEF Delivering, JobFields

LEMMA ReceiveInv ==
  ASSUME IInv, NEW w \in Workers, NEW e \in Events, NEW now \in Times, NEW settings \in Settings,
         Receive(w, e, now, settings)
  PROVE  IInv'
<1>1. /\ Keeps(w) /\ Delivering(w)' /\ job'[w].event = e
      /\ job'[w].outcome = "ignored_unsupported_event"
      /\ job'[w].pc = CASE Supported(e) -> "received" [] e.kind = "forged" -> "ready" [] OTHER -> "loaded"
  BY DEF Receive, IInv, Shaped, Keeps, Delivering, JobFields, Steps
<1>2. Supported(e) => e.kind # "forged"
  BY DEF Supported
<1>3. ReadsOf(w)'
  BY <1>1, <1>2, OutcomeKinds DEF ReadsOf, InTransaction, Judged, Claimed
<1>4. HoldsClaim(w)' => job'[w].event.kind = "forged"
  BY <1>1 DEF HoldsClaim
<1> QED
  BY <1>1, <1>3, <1>4, LocalStep DEF Receive, IInv, Shaped, tables

LEMMA LockSubjectInv ==
  ASSUME IInv, NEW w \in Workers, LockSubject(w)
  PROVE  IInv'
<1>1. Delivering(w) /\ job[w].pc = "received"
  BY IdleIsNotDelivering DEF LockSubject, IInv, Shaped
<1>2. ReadsOf(w) /\ Subject(job[w].event) \in Subjects
  BY <1>1 DEF IInv, ReadsHold, ReadsOf, Delivering, Subjects
<1>3. /\ Keeps(w) /\ Delivering(w)' /\ job'[w].pc = "locked"
      /\ job'[w].event = job[w].event /\ job'[w].outcome = job[w].outcome
  BY <1>1, Advanced DEF LockSubject, Steps
<1>4. /\ subject_lock' \in [Subjects -> Workers \union {Free}]
      /\ subject_lock'[Subject(job[w].event)] = w
      /\ \A v \in Workers \ {w}, s \in Subjects : subject_lock[s] = v => subject_lock'[s] = v
  BY <1>2, FreeAssumption DEF LockSubject, IInv, Shaped
<1>5. ReadsOf(w)'
  BY <1>1, <1>2, <1>3, <1>4 DEF ReadsOf, InTransaction, Judged, Claimed
<1>6. ~HoldsClaim(w)'
  BY <1>3 DEF HoldsClaim
<1> QED
  BY <1>3, <1>4, <1>5, <1>6, LocalStep DEF LockSubject, IInv, Shaped, tables

LEMMA LoadStatusInv ==
  ASSUME IInv, NEW w \in Workers, LoadStatus(w)
  PROVE  IInv'
<1>1. Delivering(w) /\ job[w].pc = "locked"
  BY IdleIsNotDelivering DEF LoadStatus, IInv, Shaped
<1>2. ReadsOf(w) /\ Supported(job[w].event)
  BY <1>1 DEF IInv, ReadsHold, ReadsOf
<1>3. /\ Keeps(w) /\ Delivering(w)' /\ job'[w].pc = "loaded"
      /\ job'[w].event = job[w].event
      /\ job'[w].outcome = Outcome(payments[Subject(job[w].event)].status, job[w].event)
  BY <1>1 DEF LoadStatus, IInv, Shaped, Keeps, Delivering, JobFields, Steps
<1>4. ReadsOf(w)'
  BY <1>1, <1>2, <1>3, OutcomeKinds DEF LoadStatus, ReadsOf, InTransaction, Judged, Claimed, tables
<1>5. ~HoldsClaim(w)'
  BY <1>3 DEF HoldsClaim
<1> QED
  BY <1>3, <1>4, <1>5, LocalStep DEF LoadStatus, IInv, Shaped, tables

LEMMA ClaimEventInv ==
  ASSUME IInv, NEW w \in Workers, ClaimEvent(w)
  PROVE  IInv'
<1>1. Delivering(w) /\ job[w].pc = "loaded"
  BY IdleIsNotDelivering DEF ClaimEvent, IInv, Shaped
<1>2. ReadsOf(w) /\ job[w].event.kind # "forged"
  BY <1>1 DEF IInv, ReadsHold, ReadsOf
<1>3. CASE job[w].event \in webhook_events
  <2>1. /\ Keeps(w) /\ Delivering(w)' /\ job'[w].pc = "ready"
        /\ job'[w].event = job[w].event /\ job'[w].outcome = "duplicate_ignored"
    BY <1>1, <1>3 DEF ClaimEvent, IInv, Shaped, Keeps, Delivering, JobFields, Steps
  <2>2. ReadsOf(w)' /\ ~HoldsClaim(w)'
    BY <1>1, <1>2, <1>3, <2>1
       DEF ClaimEvent, ReadsOf, InTransaction, Judged, Claimed, tables, HoldsClaim
  <2> QED
    BY <2>1, <2>2, LocalStep DEF ClaimEvent, IInv, Shaped, tables
<1>4. CASE job[w].event \notin webhook_events
  <2>1. Advance(w, "claimed")
    BY <1>4 DEF ClaimEvent
  <2>2. /\ Keeps(w) /\ Delivering(w)' /\ job'[w].pc = "claimed"
        /\ job'[w].event = job[w].event /\ job'[w].outcome = job[w].outcome
    BY <1>1, <2>1, Advanced DEF Steps
  <2>3. ReadsOf(w)'
    BY <1>1, <1>2, <1>4, <2>2 DEF ClaimEvent, ReadsOf, InTransaction, Judged, Claimed, tables
  <2>4. \A v \in Workers \ {w} : HoldsClaim(v) => job[v].event # job'[w].event
    BY <2>2 DEF ClaimEvent
  <2> QED
    BY <2>2, <2>3, <2>4, LocalStep DEF ClaimEvent, IInv, Shaped, tables
<1> QED
  BY <1>3, <1>4

LEMMA DecideInv ==
  ASSUME IInv, NEW w \in Workers, Decide(w)
  PROVE  IInv'
<1>1. Delivering(w) /\ job[w].pc = "claimed"
  BY IdleIsNotDelivering DEF Decide, IInv, Shaped
<1>2. ReadsOf(w) /\ HoldsClaim(w)
  BY <1>1 DEF IInv, ReadsHold, ReadsOf, HoldsClaim
<1>3. touches_in_window(job[w].event.payer, job[w].now) = 0
  BY NoTouches DEF IInv
<1>4. /\ Keeps(w) /\ Delivering(w)' /\ job'[w].pc = "ready"
      /\ job'[w].event = job[w].event /\ job'[w].outcome = job[w].outcome
  BY <1>1, <1>3 DEF Decide, IInv, Shaped, Keeps, Delivering, JobFields, Steps
<1>5. ReadsOf(w)'
  BY <1>1, <1>2, <1>4 DEF Decide, ReadsOf, InTransaction, Judged, Claimed, tables
<1> QED
  BY <1>1, <1>2, <1>4, <1>5, LocalStep DEF Decide, IInv, Shaped, tables, ClaimsApart

LEMMA LockLedgerInv ==
  ASSUME IInv, NEW w \in Workers, LockLedger(w)
  PROVE  IInv'
<1>1. Delivering(w) /\ job[w].pc = "ready"
  BY IdleIsNotDelivering DEF LockLedger, IInv, Shaped
<1>2. ReadsOf(w)
  BY <1>1 DEF IInv, ReadsHold
<1>3. /\ Keeps(w) /\ Delivering(w)' /\ job'[w].pc = "writing"
      /\ job'[w].event = job[w].event /\ job'[w].outcome = job[w].outcome
  BY <1>1, Advanced DEF LockLedger, Steps
<1>4. ReadsOf(w)' /\ (HoldsClaim(w)' => HoldsClaim(w))
  BY <1>1, <1>2, <1>3 DEF LockLedger, ReadsOf, InTransaction, Judged, Claimed, tables, HoldsClaim
<1> QED
  BY <1>1, <1>3, <1>4, LocalStep DEF LockLedger, IInv, Shaped, tables, ClaimsApart

LEMMA AnswerInv ==
  ASSUME IInv, NEW w \in Workers, Answer(w)
  PROVE  IInv'
<1>1. Keeps(w) /\ job'[w] = Idle
  BY DEF Answer, IInv, Shaped, Keeps
<1>2. ~Delivering(w)'
  BY <1>1 DEF Idle, Delivering, Steps
<1> QED
  BY <1>1, <1>2, LocalStep DEF Answer, IInv, Shaped, tables

LEMMA LocksReleased ==
  ASSUME IInv, NEW w \in Workers, ReleaseLocks(w)
  PROVE  /\ subject_lock' \in [Subjects -> Workers \union {Free}]
         /\ \A v \in Workers \ {w}, s \in Subjects : subject_lock[s] = v => subject_lock'[s] = v
         /\ ledger_lock' \in Workers \union {Free}
BY DEF ReleaseLocks, IInv, Shaped

LEMMA FailInv ==
  ASSUME IInv, NEW w \in Workers, Fail(w)
  PROVE  IInv'
<1>1. Keeps(w) /\ job'[w] = Idle
  BY DEF Fail, IInv, Shaped, Keeps
<1>2. ~Delivering(w)'
  BY <1>1 DEF Idle, Delivering, Steps
<1> QED
  BY <1>1, <1>2, LocksReleased, LocalStep DEF Fail, tables

(* The commit: the delivery is one step of AtomicIngest.                   *)
LEMMA CommitHandles ==
  ASSUME IInv, NEW w \in Workers, Commit(w)
  PROVE  /\ Delivering(w) /\ ReadsOf(w) /\ job[w].pc = "writing"
         /\ Handle(job[w].event, job[w].now, job[w].settings)
<1>1. Delivering(w) /\ job[w].pc = "writing"
  BY IdleIsNotDelivering DEF Commit, IInv, Shaped
<1>2. ReadsOf(w)
  BY <1>1 DEF IInv, ReadsHold
<1>3. CASE job[w].event.kind = "forged"
  <2>1. Handle(job[w].event, job[w].now, job[w].settings)
    BY <1>3 DEF Commit, Handle
  <2> QED
    BY <1>1, <1>2, <2>1
<1>4. CASE job[w].event.kind # "forged" /\ job[w].outcome = "duplicate_ignored"
  <2>1. Handle(job[w].event, job[w].now, job[w].settings)
    BY <1>1, <1>2, <1>4 DEF Commit, Handle, ReadsOf, Claimed
  <2> QED
    BY <1>1, <1>2, <2>1
<1>5. CASE job[w].event.kind # "forged" /\ job[w].outcome # "duplicate_ignored"
  <2> DEFINE e == job[w].event
             current == IF Supported(e) THEN payments[Subject(e)].status ELSE "none"
  <2>1. e \notin webhook_events
    BY <1>1, <1>2, <1>5 DEF ReadsOf, Claimed
  <2>2. job[w].outcome = Outcome(current, e)
    BY <1>1, <1>2, <1>5 DEF ReadsOf, Judged
  <2>3. job[w].touches = touches_in_window(e.payer, job[w].now)
    BY <1>1, NoTouches DEF Delivering, IInv
  <2>4. RecordEvent(e, job[w].outcome, job[w].touches, job[w].now, job[w].settings)
    BY <1>5 DEF Commit
  <2>5. RecordEvent(e, Outcome(current, e), touches_in_window(e.payer, job[w].now), job[w].now, job[w].settings)
    BY <2>2, <2>3, <2>4
  <2>6. Handle(e, job[w].now, job[w].settings)
    <3> HIDE DEF e
    <3> QED
      BY <1>5, <2>1, <2>5, Zenon DEF Handle, e
  <2> QED
    BY <1>1, <1>2, <2>6
<1> QED
  BY <1>3, <1>4, <1>5

LEMMA CommitInv ==
  ASSUME IInv, NEW w \in Workers, Commit(w)
  PROVE  IInv'
<1> DEFINE e == job[w].event
<1>1. Delivering(w) /\ ReadsOf(w) /\ job[w].pc = "writing" /\ e \in Events
  BY CommitHandles DEF Delivering
<1>2. /\ Keeps(w) /\ Delivering(w)' /\ job'[w].pc = "answering"
      /\ job'[w].event = e /\ job'[w].outcome = job[w].outcome
  BY <1>1, Advanced DEF Commit, Steps
<1>3. /\ subject_lock' \in [Subjects -> Workers \union {Free}]
      /\ \A v \in Workers \ {w}, s \in Subjects : subject_lock[s] = v => subject_lock'[s] = v
      /\ ledger_lock' \in Workers \union {Free}
  BY LocksReleased DEF Commit
<1>4. /\ TablesShaped'
      /\ \/ payments' = payments /\ webhook_events' = webhook_events
         \/ /\ e.kind # "forged" /\ job[w].outcome # "duplicate_ignored"
            /\ webhook_events' = webhook_events \union {e}
            /\ \A s \in Subjects : Supported(e) => s = Subject(e) \/ payments'[s] = payments[s]
            /\ ~Supported(e) => payments' = payments
  <2>1. CASE e.kind = "forged"
    BY <2>1 DEF Commit, RecordForged, IInv, TablesShaped
  <2>2. CASE e.kind # "forged" /\ job[w].outcome = "duplicate_ignored"
    BY <2>2 DEF Commit, RecordDuplicate, IInv, TablesShaped
  <2>3. CASE e.kind # "forged" /\ job[w].outcome # "duplicate_ignored"
    <3>1. job[w].outcome = Outcome(IF Supported(e) THEN payments[Subject(e)].status ELSE "none", e)
      BY <1>1, <2>3 DEF ReadsOf, Judged
    <3>2. RecordEvent(e, job[w].outcome, job[w].touches, job[w].now, job[w].settings)
      BY <2>3 DEF Commit
    <3> QED
      BY <1>1, <2>3, <3>1, <3>2, RecordEventTables DEF IInv
  <2> QED
    BY <2>1, <2>2, <2>3
<1>5. Shaped'
  BY <1>2, <1>3 DEF Shaped, Keeps, IInv, Delivering, Idle
<1>6. ReadsOf(w)'
  BY <1>1, <1>2 DEF ReadsOf, InTransaction, Judged, Claimed
<1>7. ASSUME NEW v \in Workers, v # w, Delivering(v)'
      PROVE  Delivering(v) /\ ReadsOf(v)'
  <2>1. job'[v] = job[v]
    BY <1>2, <1>7 DEF Keeps
  <2>2. Delivering(v)
    BY <1>7, <2>1 DEF Delivering
  <2>3. ReadsOf(v) /\ job[v].event \in Events
    BY <2>2 DEF IInv, ReadsHold, Delivering
  <2> DEFINE f == job[v].event
  <2>4. Supported(f) => Subject(f) \in Subjects
    BY <2>3 DEF Subjects
  <2>5. Supported(f) /\ InTransaction(v) => payments'[Subject(f)] = payments[Subject(f)]
    <3> SUFFICES ASSUME Supported(f), InTransaction(v) PROVE payments'[Subject(f)] = payments[Subject(f)]
      OBVIOUS
    <3>1. subject_lock[Subject(f)] = v
      BY <2>3 DEF ReadsOf
    <3>2. Supported(e) => subject_lock[Subject(e)] = w
      BY <1>1 DEF ReadsOf, InTransaction
    <3> QED
      BY <1>4, <1>7, <2>4, <3>1, <3>2
  <2>6. Claimed(v) /\ f.kind # "forged" => (f \in webhook_events' <=> f \in webhook_events)
    <3> SUFFICES ASSUME Claimed(v), f.kind # "forged", f = e, e.kind # "forged",
                        job[w].outcome # "duplicate_ignored", f \notin webhook_events
                 PROVE  FALSE
      BY <1>4
    <3>1. HoldsClaim(v) /\ HoldsClaim(w)
      BY <1>1, <2>3 DEF HoldsClaim, ReadsOf, Claimed
    <3> QED
      BY <1>1, <1>7, <2>2, <3>1 DEF IInv, ClaimsApart
  <2>7. Judged(v) => InTransaction(v)
    BY DEF Judged, InTransaction
  <2>8. ReadsOf(v)'
    BY <1>3, <1>7, <2>1, <2>3, <2>4, <2>5, <2>6, <2>7 DEF ReadsOf, InTransaction, Judged, Claimed
  <2> QED
    BY <2>2, <2>8
<1>8. ReadsHold'
  BY <1>6, <1>7 DEF ReadsHold
<1>9. ClaimsApart'
  <2> SUFFICES ASSUME NEW u \in Workers, NEW v \in Workers, u # v, Delivering(u)', Delivering(v)',
                      HoldsClaim(u)', HoldsClaim(v)', job'[u].event = job'[v].event
               PROVE  job'[v].event.kind = "forged"
    BY DEF ClaimsApart
  <2>1. u # w /\ v # w
    BY <1>2 DEF HoldsClaim
  <2>2. job'[u] = job[u] /\ job'[v] = job[v] /\ Delivering(u) /\ Delivering(v)
    BY <1>2, <1>7, <2>1 DEF Keeps
  <2> QED
    BY <2>2 DEF HoldsClaim, IInv, ClaimsApart
<1> QED
  BY <1>4, <1>5, <1>8, <1>9 DEF IInv

LEMMA StepInv == IInv /\ [Next]_vars => IInv'
<1> SUFFICES ASSUME IInv, [Next]_vars PROVE IInv'
  OBVIOUS
<1>1. ASSUME NEW e \in Events, Deliver(e) PROVE IInv'
  BY <1>1, ReceiveInv DEF Deliver
<1>2. ASSUME NEW w \in Workers, Work(w) PROVE IInv'
  BY <1>2, LockSubjectInv, LoadStatusInv, ClaimEventInv, DecideInv, LockLedgerInv, CommitInv, AnswerInv
     DEF Work
<1>3. ASSUME NEW w \in Workers, Fail(w) PROVE IInv'
  BY <1>3, FailInv
<1>4. ASSUME UNCHANGED vars PROVE IInv'
  BY <1>4 DEF vars, tables, IInv, Shaped, TablesShaped, ReadsHold, ReadsOf, ClaimsApart, Delivering,
              InTransaction, Judged, Claimed, HoldsClaim
<1> QED
  BY <1>1, <1>2, <1>3, <1>4 DEF Next, AtRest

LEMMA Inductive == Spec => []IInv
<1>1. Init => IInv
  BY InitInv
<1>2. IInv /\ [Next]_vars => IInv'
  BY StepInv
<1> QED
  BY <1>1, <1>2, PTL DEF Spec

-----------------------------------------------------------------------------
(* Refinement: whatever the workers interleave, crash or repeat, the       *)
(* tables take only steps of a single delivery handled alone.              *)
LEMMA TablesStep == IInv /\ [Next]_vars => [AtomicNext]_tables
<1> SUFFICES ASSUME IInv, [Next]_vars PROVE [AtomicNext]_tables
  OBVIOUS
<1>1. ASSUME NEW w \in Workers, Commit(w) PROVE AtomicNext
  BY <1>1, CommitHandles DEF Delivering, AtomicNext
<1>2. ASSUME NEW e \in Events, Deliver(e) PROVE UNCHANGED tables
  BY <1>2 DEF Deliver, Receive
<1>3. ASSUME NEW w \in Workers, Fail(w) PROVE UNCHANGED tables
  BY <1>3 DEF Fail
<1>4. ASSUME NEW w \in Workers, Work(w), ~Commit(w) PROVE UNCHANGED tables
  BY <1>4 DEF Work, LockSubject, LoadStatus, ClaimEvent, Decide, LockLedger, Answer
<1>5. ASSUME UNCHANGED vars PROVE UNCHANGED tables
  BY <1>5 DEF vars
<1> QED
  BY <1>1, <1>2, <1>3, <1>4, <1>5 DEF Next, AtRest

(* Every behaviour of the endpoint - however many workers, deliveries of   *)
(* the same event, crashes and lost answers - shows its tables as one      *)
(* delivery at a time would (handle_razorpay_webhook, ingest_webhook).     *)
THEOREM ImplementsAtomicIngest == Spec => ActsAtomically
<1>1. Init => TablesInit
  BY DEF Init
<1>2. IInv /\ [Next]_vars => [AtomicNext]_tables
  BY TablesStep
<1> QED
  BY <1>1, <1>2, Inductive, PTL DEF Spec, ActsAtomically, AtomicSpec

-----------------------------------------------------------------------------
(* One delivery handled alone keeps a paid order paid and decides nothing  *)
(* for it.                                                                 *)
LEMMA HandleLeavesPaid ==
  ASSUME TablesShaped, NEW e \in Events, NEW now, NEW settings, Handle(e, now, settings)
  PROVE  /\ \A s \in Subjects : payments[s].status = "captured" => payments'[s].status = "captured"
         /\ \A d \in decisions' \ decisions : payments[d.order_id].status # "captured"
<1>1. CASE e.kind = "forged" \/ e \in webhook_events
  BY <1>1 DEF Handle, RecordForged, RecordDuplicate
<1>2. CASE e.kind # "forged" /\ e \notin webhook_events
  <2> DEFINE current == IF Supported(e) THEN payments[Subject(e)].status ELSE "none"
             outcome == Outcome(current, e)
             decision == DecisionFor(e, touches_in_window(e.payer, now), now, settings)
  <2>1. RecordEvent(e, outcome, touches_in_window(e.payer, now), now, settings)
    BY <1>2, Zenon DEF Handle
  <2> HIDE DEF decision, outcome
  <2>2. decision.order_id = Subject(e)
    BY DecisionIsOf DEF decision
  <2>3. outcome \in {"applied", "recovered"} => Supported(e) /\ decide_transition(current, e.kind)
    BY OutcomeKinds DEF outcome
  <2>4. /\ payments' = IF outcome \in {"applied", "recovered"}
                         THEN [payments EXCEPT ![Subject(e)] = Upsert(payments[Subject(e)], e)]
                         ELSE payments
        /\ decisions' = IF outcome = "applied" /\ e.kind = "failed"
                          THEN decisions \union {decision} ELSE decisions
    BY <2>1 DEF RecordEvent, decision
  <2>5. outcome \in {"applied", "recovered"} /\ payments[Subject(e)].status = "captured"
          => e.kind = "captured"
    BY <2>3 DEF decide_transition, Allowed
  <2>6. Upsert(payments[Subject(e)], e).status = e.kind
    BY DEF Upsert
  <2>7. \A s \in Subjects : payments[s].status = "captured" => payments'[s].status = "captured"
    BY <2>4, <2>5, <2>6 DEF TablesShaped
  <2> QED
    BY <2>2, <2>4, <2>5, <2>7
<1> QED
  BY <1>1, <1>2

(* A paid order stays paid, and nothing new is decided for it, in whatever *)
(* order its events come and are interleaved (decide_transition and the    *)
(* order's advisory lock).                                                 *)
THEOREM PaidStaysFinal == Spec => PaidIsFinal
<1> DEFINE Final == /\ \A s \in Subjects : payments[s].status = "captured" => payments'[s].status = "captured"
                    /\ \A d \in decisions' \ decisions : payments[d.order_id].status # "captured"
<1>1. IInv /\ [Next]_vars => [Final]_tables
  BY TablesStep, HandleLeavesPaid DEF IInv, AtomicNext
<1> QED
  BY <1>1, Inductive, PTL DEF Spec, PaidIsFinal

-----------------------------------------------------------------------------
(* What the ledger of single deliveries says, that of concurrent ones says *)
(* too.                                                                    *)
LEMMA LedgerStaysExplained == Spec => []LedgerExplains
BY ImplementsAtomicIngest, AtomicLedgerExplains, PTL DEF ActsAtomically

(* The payments table shows the last delivery the ledger says was applied  *)
(* to each order, with no delivery lost, repeated or overtaken in between  *)
(* (record_webhook and the ledger's append in one transaction).            *)
THEOREM PaymentsAreExplained == Spec => []AuditExplainsPayments
<1>1. LedgerExplains => AuditExplainsPayments
  <2> SUFFICES ASSUME LedgerExplains, NEW s \in Subjects PROVE AuditExplainsPayments!(s)
    BY DEF AuditExplainsPayments
  <2>1. PaymentExplained(ledger, s, payments[s])
    BY DEF LedgerExplains, Explains
  <2> QED
    BY <2>1, Zenon DEF PaymentExplained, ShowsDelivery, CategoryExplained, FailuresOf, AppliedTo
<1> QED
  BY <1>1, LedgerStaysExplained, PTL

(* An answer is given only for what was committed: a claim outlives its    *)
(* worker.                                                                 *)
AnswersCommitted ==
  /\ \A w \in Workers : Delivering(w) /\ job[w].pc = "answering" /\ job[w].event.kind # "forged"
                          => job[w].event \in webhook_events
  /\ \A e \in acked : e.kind # "forged" => e \in webhook_events

LEMMA CommitAnswers ==
  ASSUME IInv, AnswersCommitted, NEW w \in Workers, Commit(w)
  PROVE  AnswersCommitted'
<1> DEFINE e == job[w].event
<1>1. Delivering(w) /\ ReadsOf(w) /\ job[w].pc = "writing"
  BY CommitHandles
<1>2. Keeps(w) /\ job'[w].event = e
  BY <1>1, Advanced DEF Commit, Steps
<1>3. /\ \A f \in webhook_events : f \in webhook_events'
      /\ e.kind # "forged" => e \in webhook_events'
  <2>1. CASE e.kind = "forged"
    BY <2>1 DEF Commit, RecordForged
  <2>2. CASE e.kind # "forged" /\ job[w].outcome = "duplicate_ignored"
    BY <1>1, <2>2 DEF Commit, RecordDuplicate, ReadsOf, Claimed
  <2>3. CASE e.kind # "forged" /\ job[w].outcome # "duplicate_ignored"
    BY <2>3 DEF Commit, RecordEvent
  <2> QED
    BY <2>1, <2>2, <2>3
<1>4. acked' = acked
  BY DEF Commit
<1>5. ASSUME NEW v \in Workers, Delivering(v)', job'[v].pc = "answering", job'[v].event.kind # "forged"
      PROVE  job'[v].event \in webhook_events'
  <2>1. CASE v = w
    BY <1>2, <1>3, <1>5, <2>1
  <2>2. CASE v # w
    <3>1. job'[v] = job[v]
      BY <1>2, <2>2 DEF Keeps
    <3> QED
      BY <1>3, <1>5, <3>1 DEF AnswersCommitted, Delivering
  <2> QED
    BY <2>1, <2>2
<1> QED
  BY <1>3, <1>4, <1>5 DEF AnswersCommitted

LEMMA AnswersStep == IInv /\ AnswersCommitted /\ [Next]_vars => AnswersCommitted'
<1> SUFFICES ASSUME IInv, AnswersCommitted, [Next]_vars PROVE AnswersCommitted'
  OBVIOUS
<1>1. ASSUME NEW w \in Workers, Keeps(w), UNCHANGED tables, job'[w] = Idle \/ job'[w].pc # "answering",
             acked' = acked \/ (acked' = acked \union {job[w].event} /\ Delivering(w) /\ job[w].pc = "answering")
      PROVE  AnswersCommitted'
  <2>1. webhook_events' = webhook_events
    BY <1>1 DEF tables
  <2>2. ASSUME NEW v \in Workers, Delivering(v)', job'[v].pc = "answering", job'[v].event.kind # "forged"
        PROVE  job'[v].event \in webhook_events
    <3>1. v # w
      BY <1>1, <2>2 DEF Idle
    <3>2. job'[v] = job[v]
      BY <1>1, <3>1 DEF Keeps
    <3> QED
      BY <2>2, <3>2 DEF AnswersCommitted, Delivering
  <2> QED
    BY <1>1, <2>1, <2>2 DEF AnswersCommitted
<1>2. ASSUME NEW w \in Workers, Commit(w) PROVE AnswersCommitted'
  BY <1>2, CommitAnswers
<1>3. ASSUME NEW w \in Workers, Answer(w) PROVE AnswersCommitted'
  <2>1. Delivering(w) /\ job[w].pc = "answering"
    BY <1>3, IdleIsNotDelivering DEF Answer, IInv, Shaped
  <2>2. Keeps(w) /\ job'[w] = Idle /\ acked' = acked \union {job[w].event} /\ UNCHANGED tables
    BY <1>3 DEF Answer, IInv, Shaped, Keeps
  <2> QED
    BY <1>1, <2>1, <2>2
<1>4. ASSUME NEW w \in Workers, Fail(w) PROVE AnswersCommitted'
  <2>1. Keeps(w) /\ job'[w] = Idle /\ acked' = acked /\ UNCHANGED tables
    BY <1>4 DEF Fail, IInv, Shaped, Keeps
  <2> QED
    BY <1>1, <2>1
<1>5. ASSUME NEW w \in Workers, LockSubject(w) \/ LoadStatus(w) \/ ClaimEvent(w) \/ Decide(w) \/ LockLedger(w)
      PROVE  AnswersCommitted'
  <2>1. Delivering(w)
    BY <1>5, IdleIsNotDelivering
       DEF LockSubject, LoadStatus, ClaimEvent, Decide, LockLedger, IInv, Shaped
  <2>2. Keeps(w) /\ job'[w].pc # "answering" /\ acked' = acked /\ UNCHANGED tables
    BY <1>5, <2>1 DEF LockSubject, LoadStatus, ClaimEvent, Decide, LockLedger, Advance, IInv, Shaped,
                      Delivering, JobFields, Keeps
  <2> QED
    BY <1>1, <2>2
<1>6. ASSUME NEW e \in Events, Deliver(e) PROVE AnswersCommitted'
  <2>1. PICK w \in Workers, now \in Times, settings \in Settings : Receive(w, e, now, settings)
    BY <1>6 DEF Deliver
  <2>2. Keeps(w) /\ job'[w].pc # "answering" /\ acked' = acked /\ UNCHANGED tables
    BY <2>1 DEF Receive, IInv, Shaped, Keeps
  <2> QED
    BY <1>1, <2>2
<1>7. ASSUME UNCHANGED vars PROVE AnswersCommitted'
  BY <1>7 DEF vars, tables, AnswersCommitted, Delivering
<1> QED
  BY <1>2, <1>3, <1>4, <1>5, <1>6, <1>7 DEF Next, AtRest, Work

(* An event takes effect exactly once, however often it is delivered and   *)
(* whichever workers die on it, and Razorpay is told so only when it has   *)
(* (INSERT ... ON CONFLICT DO NOTHING on webhook_events).                  *)
THEOREM EffectsOnce == Spec => []EffectOnce
<1>1. Init => AnswersCommitted
  BY IdleIsNotDelivering DEF Init, AnswersCommitted
<1>2. LedgerExplains /\ AnswersCommitted => EffectOnce
  <2> SUFFICES ASSUME LedgerExplains, AnswersCommitted, NEW e \in Events, e.kind # "forged"
               PROVE  /\ Cardinality(EffectsOf(e)) = IF e \in webhook_events THEN 1 ELSE 0
                      /\ e \in acked => e \in webhook_events
    BY DEF EffectOnce
  <2>1. \A i \in DOMAIN ledger : ledger[i].event_type \in EventTypeNames
    <3>1. ledger \in Seq(LedgerRows)
      BY DEF LedgerExplains, Explains
    <3>2. \A row \in LedgerRows : row.event_type \in EventTypeNames
      BY DEF LedgerRows
    <3> QED
      BY <3>1, <3>2
  <2>2. EffectsOf(e) = RowsAbout(ledger, e, Effects)
    BY <2>1 DEF EffectsOf, RowsAbout, Effects
  <2> QED
    BY <2>2 DEF LedgerExplains, Explains, EffectsCounted, AnswersCommitted
<1> QED
  BY <1>1, <1>2, AnswersStep, Inductive, LedgerStaysExplained, PTL DEF Spec

-----------------------------------------------------------------------------
Counted == acked \subseteq Events /\ faults \in 0 .. MaxFaults

LEMMA CountedStep == IInv /\ Counted /\ [Next]_vars => Counted'
<1> SUFFICES ASSUME IInv, Counted, [Next]_vars PROVE Counted'
  OBVIOUS
<1>1. ASSUME NEW w \in Workers, Answer(w) PROVE Counted'
  BY <1>1, IdleIsNotDelivering DEF Answer, Counted, IInv, Shaped, Delivering
<1>2. ASSUME NEW w \in Workers, Fail(w) PROVE Counted'
  BY <1>2, FaultAssumption DEF Fail, Counted
<1>3. ASSUME NEW w \in Workers, Work(w), ~Answer(w) PROVE Counted'
  BY <1>3 DEF Work, LockSubject, LoadStatus, ClaimEvent, Decide, LockLedger, Commit, Counted
<1>4. ASSUME NEW e \in Events, Deliver(e) PROVE Counted'
  BY <1>4 DEF Deliver, Receive, Counted
<1>5. ASSUME UNCHANGED vars PROVE Counted'
  BY <1>5 DEF vars, Counted
<1> QED
  BY <1>1, <1>2, <1>3, <1>4, <1>5 DEF Next, AtRest

(* Every table, lock and worker of the endpoint keeps its type.            *)
THEOREM TypeCorrect == Spec => []TypeOK
<1>1. Init => Counted
  BY FaultAssumption DEF Init, Counted
<1>2. IInv /\ Counted /\ [Next]_vars => Counted'
  BY CountedStep
<1>3. IInv /\ Counted => TypeOK
  BY DEF IInv, Shaped, TablesShaped, Delivering, Counted, TypeOK
<1> QED
  BY <1>1, <1>2, <1>3, Inductive, PTL DEF Spec

-----------------------------------------------------------------------------
(* The second half: what a language model can and cannot bring about, for  *)
(* any number of passes that overlap with each other and with any          *)
(* deliveries, for any answers, settings and faults.                       *)
(* Sequences of whatever is in them.                                       *)
IsSeq(s) == s \in Seq({s[i] : i \in DOMAIN s})

LEMMA SeqFacts ==
  ASSUME NEW S, NEW s \in Seq(S)
  PROVE  IsSeq(s) /\ Len(s) \in Nat /\ DOMAIN s = 1 .. Len(s)
<1>1. Len(s) \in Nat /\ DOMAIN s = 1 .. Len(s) /\ s = [i \in 1 .. Len(s) |-> s[i]]
  OBVIOUS
<1>2. s \in [1 .. Len(s) -> {s[i] : i \in DOMAIN s}]
  BY <1>1
<1> QED
  BY <1>1, <1>2, SeqDef DEF IsSeq

LEMMA AppendSeq ==
  ASSUME NEW s, IsSeq(s), NEW x
  PROVE  /\ IsSeq(Append(s, x)) /\ Len(s) \in Nat /\ DOMAIN s = 1 .. Len(s)
         /\ Len(Append(s, x)) = Len(s) + 1 /\ DOMAIN Append(s, x) = 1 .. Len(s) + 1
         /\ \A i \in 1 .. Len(s) : Append(s, x)[i] = s[i]
         /\ Append(s, x)[Len(s) + 1] = x
<1> DEFINE S == {s[i] : i \in DOMAIN s} \union {x}
<1>1. s \in Seq(S) /\ x \in S
  <2>1. Len(s) \in Nat /\ DOMAIN s = 1 .. Len(s) /\ s = [i \in 1 .. Len(s) |-> s[i]]
    BY DEF IsSeq
  <2>2. s \in [1 .. Len(s) -> S]
    BY <2>1
  <2> QED
    BY <2>1, <2>2, SeqDef
<1> HIDE DEF S
<1>2. Append(s, x) \in Seq(S)
  BY <1>1
<1>3. IsSeq(Append(s, x))
  BY <1>2, SeqFacts
<1>4. /\ Len(s) \in Nat /\ DOMAIN s = 1 .. Len(s)
      /\ Len(Append(s, x)) = Len(s) + 1 /\ DOMAIN Append(s, x) = 1 .. Len(s) + 1
      /\ \A i \in 1 .. Len(s) : Append(s, x)[i] = s[i]
      /\ Append(s, x)[Len(s) + 1] = x
  BY <1>1, AppendedRows
<1> QED
  BY <1>3, <1>4

LEMMA ConcatSeq ==
  ASSUME NEW s, IsSeq(s), NEW t, IsSeq(t)
  PROVE  /\ IsSeq(s \o t) /\ Len(s) \in Nat /\ Len(t) \in Nat
         /\ DOMAIN s = 1 .. Len(s) /\ DOMAIN t = 1 .. Len(t)
         /\ DOMAIN (s \o t) = 1 .. Len(s) + Len(t)
         /\ \A i \in 1 .. Len(s) : (s \o t)[i] = s[i]
         /\ \A i \in 1 .. Len(t) : (s \o t)[Len(s) + i] = t[i]
<1> DEFINE S == {s[i] : i \in DOMAIN s} \union {t[i] : i \in DOMAIN t}
<1>1. /\ Len(s) \in Nat /\ DOMAIN s = 1 .. Len(s) /\ s = [i \in 1 .. Len(s) |-> s[i]]
      /\ Len(t) \in Nat /\ DOMAIN t = 1 .. Len(t) /\ t = [i \in 1 .. Len(t) |-> t[i]]
  BY DEF IsSeq
<1>2. s \in [1 .. Len(s) -> S] /\ t \in [1 .. Len(t) -> S]
  BY <1>1
<1>3. s \in Seq(S) /\ t \in Seq(S)
  BY <1>1, <1>2, SeqDef
<1> HIDE DEF S
<1>4. s \o t \in Seq(S)
  BY <1>3
<1>5. IsSeq(s \o t) /\ DOMAIN (s \o t) = 1 .. Len(s) + Len(t)
  <2>1. Len(s \o t) = Len(s) + Len(t)
    BY <1>3
  <2>2. IsSeq(s \o t) /\ DOMAIN (s \o t) = 1 .. Len(s \o t)
    BY <1>4, SeqFacts
  <2> QED
    BY <2>1, <2>2
<1>6. \A i \in 1 .. Len(s) : (s \o t)[i] = s[i]
  BY <1>1, <1>3
<1>7. \A i \in 1 .. Len(t) : (s \o t)[Len(s) + i] = t[i]
  <2> SUFFICES ASSUME NEW i \in 1 .. Len(t) PROVE (s \o t)[Len(s) + i] = t[i]
    OBVIOUS
  <2>1. Len(s) + i \in 1 .. Len(s) + Len(t) /\ Len(s) + i > Len(s) /\ (Len(s) + i) - Len(s) = i
    BY <1>1
  <2> QED
    BY <1>1, <1>3, <2>1
<1> QED
  BY <1>1, <1>5, <1>6, <1>7

(* A name for it keeps the provers from rewriting with what it says.       *)
Joined(whole, s, t) == whole = s \o t

LEMMA Concatenated ==
  ASSUME NEW s, NEW t, NEW whole, IsSeq(s), IsSeq(t), Joined(whole, s, t)
  PROVE  /\ IsSeq(whole) /\ Len(s) \in Nat /\ Len(t) \in Nat
         /\ \A i \in DOMAIN whole : i \in DOMAIN s \/ \E n \in DOMAIN t : i = Len(s) + n
         /\ \A i \in DOMAIN s : i \in Nat /\ i <= Len(s) /\ i \in DOMAIN whole /\ whole[i] = s[i]
         /\ \A n \in DOMAIN t : n \in Nat /\ n > 0 /\ Len(s) + n \in DOMAIN whole /\ whole[Len(s) + n] = t[n]
<1>1. IsSeq(whole) /\ Len(s) \in Nat /\ Len(t) \in Nat
  BY ConcatSeq DEF Joined
<1>2. DOMAIN s = 1 .. Len(s) /\ DOMAIN t = 1 .. Len(t)
  BY ConcatSeq DEF Joined
<1>3. DOMAIN whole = 1 .. Len(s) + Len(t)
  BY ConcatSeq DEF Joined
<1>4. \A i \in 1 .. Len(s) : whole[i] = s[i]
  BY ConcatSeq DEF Joined
<1>5. \A i \in 1 .. Len(t) : whole[Len(s) + i] = t[i]
  BY ConcatSeq DEF Joined
<1> DEFINE S == Len(s)
           T == Len(t)
<1>6. /\ S \in Nat /\ T \in Nat /\ DOMAIN s = 1 .. S /\ DOMAIN t = 1 .. T /\ DOMAIN whole = 1 .. S + T
      /\ \A i \in 1 .. S : whole[i] = s[i]
      /\ \A n \in 1 .. T : whole[S + n] = t[n]
  BY <1>1, <1>2, <1>3, <1>4, <1>5
<1> HIDE DEF S, T
<1>7. \A i \in DOMAIN whole : i \in DOMAIN s \/ \E n \in DOMAIN t : i = S + n
  <2> SUFFICES ASSUME NEW i \in 1 .. S + T PROVE i \in 1 .. S \/ \E n \in 1 .. T : i = S + n
    BY <1>6
  <2>1. CASE i <= S
    BY <1>6, <2>1
  <2>2. CASE i > S
    <3>1. i - S \in 1 .. T /\ i = S + (i - S)
      BY <1>6, <2>2
    <3> QED
      BY <3>1
  <2> QED
    BY <1>6, <2>1, <2>2
<1>8. /\ \A i \in DOMAIN s : i \in Nat /\ i <= S /\ i \in DOMAIN whole /\ whole[i] = s[i]
      /\ \A n \in DOMAIN t : n \in Nat /\ n > 0 /\ S + n \in DOMAIN whole /\ whole[S + n] = t[n]
  BY <1>6
<1> QED
  BY <1>1, <1>7, <1>8 DEF S

LEMMA ConcatenatedTail ==
  ASSUME NEW s, NEW t, NEW whole, IsSeq(s), IsSeq(t), Joined(whole, s, t), NEW n \in DOMAIN t
  PROVE  /\ Len(s) + n \in DOMAIN whole
         /\ whole[Len(s) + n] = t[n]
BY Concatenated

(* The rows a log has about an origin.                                     *)
RowsOf(log, o) == {i \in DOMAIN log : log[i].event = o}

LEMMA RowsOfAppend ==
  ASSUME NEW log, IsSeq(log), NEW x, NEW o, x.event # o
  PROVE  RowsOf(Append(log, x), o) = RowsOf(log, o)
BY AppendSeq DEF RowsOf

-----------------------------------------------------------------------------
(* The inductive invariant.                                                *)
Jobs ==
  /\ DOMAIN job = Workers
  /\ \A w \in Workers : job[w] = Idle \/ (/\ DOMAIN job[w] = JobFields
                                          /\ job[w].pc \in Steps /\ job[w].event \in Events)
  /\ ledger_lock \in Workers \union Passes \union {Free}

Origins == {Origin(p, s) : p \in Passes, s \in Subjects}

(* The amount of a failed order is that of a failure that happened.        *)
FailedWith(s, row, events) ==
  \E e \in events : e.kind = "failed" /\ Subject(e) = s /\ row.amount_paise = e.amount_paise

Tables ==
  /\ IsSeq(ledger) /\ DOMAIN payments = Subjects /\ webhook_events \subseteq Events
  /\ \A e \in Events : e \in DOMAIN outbox
  /\ \A o \in DOMAIN outbox : outbox[o] = NoEntry \/ outbox[o].status = "pending"
  /\ \A d \in decisions : d.event \in DOMAIN outbox
  /\ \A s \in Subjects : payments[s].status = "failed" => FailedWith(s, payments[s], webhook_events)

(* A diagnosis that bears out a decision: it was accepted and sure enough, *)
(* and where the decision contacts the customer the rules permitted that.  *)
Backs(row, d, events) ==
  /\ row.order_id = d.order_id /\ row.by = d.event.by
  /\ row.output.kind = "output" /\ row.output.grounded
  /\ \E settings \in Settings :
       /\ row.output.confidence >= settings.min_diagnosis_confidence
       /\ d.authorized_intervention \in RequiresContact =>
            /\ row.output.category \in Recoverable \intersect CustomerActionable
            /\ \E e \in events : /\ e.kind = "failed" /\ Subject(e) = d.order_id
                                 /\ e.amount_paise <= settings.human_approval_threshold_paise
            /\ ~InQuietHours(d.decided_at, settings)

Unsure(row) == \E settings \in Settings : row.output.confidence < settings.min_diagnosis_confidence

(* Pass p has no published diagnosis of order s.                           *)
Fresh(p, s, published) ==
  \A i \in DOMAIN published : ~(published[i].by = p /\ published[i].order_id = s)

(* What a pass has done so far is private, about orders it has no          *)
(* published diagnosis of and will not take up again.                      *)
PrivateRows(p, j, published) ==
  /\ IsSeq(j.rows)
  /\ \A n \in DOMAIN j.rows : /\ j.rows[n].by = p /\ j.rows[n].order_id \in Subjects \ j.todo
                              /\ Fresh(p, j.rows[n].order_id, published)
  /\ \A m, n \in DOMAIN j.rows : j.rows[m].order_id = j.rows[n].order_id => m = n

PrivateDecisions(p, j, events) ==
  /\ IsSeq(j.made)
  /\ \A n \in DOMAIN j.made : /\ j.made[n].event = Origin(p, j.made[n].order_id)
                              /\ \E k \in DOMAIN j.rows : Backs(j.rows[k], j.made[n], events)
  /\ \A m, n \in DOMAIN j.made : j.made[m].event = j.made[n].event => m = n
  /\ \A k \in DOMAIN j.rows : j.rows[k].succeeded =>
       Unsure(j.rows[k]) \/ \E n \in DOMAIN j.made : j.made[n].event = Origin(p, j.rows[k].order_id)

Asking(p, j, published, events) ==
  j.pc \in {"asking", "recording"} =>
    /\ j.order \in j.todo /\ Fresh(p, j.order, published) /\ FailedWith(j.order, j.payment, events)
    /\ j.pc = "recording" => j.answer \in Answers

PassShaped(j) ==
  /\ j.pc \in {"next", "asking", "recording", "deciding"}
  /\ DOMAIN j = IF j.pc \in {"asking", "recording"}
                  THEN {"pc", "settings", "todo", "rows", "made", "order", "now", "payment", "answer"}
                  ELSE {"pc", "settings", "todo", "rows", "made"}
  /\ j.settings \in Settings /\ j.todo \subseteq Subjects

InPass(p, j, published, events) ==
  /\ PassShaped(j)
  /\ PrivateRows(p, j, published)
  /\ PrivateDecisions(p, j, events)
  /\ Asking(p, j, published, events)

(* What is published.                                                      *)
Published ==
  /\ IsSeq(diagnoses)
  /\ \A i \in DOMAIN diagnoses :
       /\ diagnoses[i].order_id \in Subjects /\ diagnoses[i].by \in Passes
       /\ diagnoses[i].succeeded =>
            Unsure(diagnoses[i]) \/ \E d \in OfDiagnosis :
                                      d.event = Origin(diagnoses[i].by, diagnoses[i].order_id)
  /\ \A i, k \in DOMAIN diagnoses :
       diagnoses[i].order_id = diagnoses[k].order_id /\ diagnoses[i].by = diagnoses[k].by => i = k

Explained(d) ==
  /\ d.event = Origin(d.event.by, d.order_id) /\ d.event.by \in Passes
  /\ \E i \in DOMAIN diagnoses : Backs(diagnoses[i], d, webhook_events)
  /\ \E i \in DOMAIN ledger : RowsOf(ledger, d.event) = {i}
  /\ outbox[d.event] # NoEntry <=> d.authorized_intervention = "send_payment_link"

DiagnosisInv ==
  /\ Jobs /\ Tables /\ Published
  /\ \A d \in OfDiagnosis : Explained(d)
  /\ \A p \in Passes, s \in Subjects : Fresh(p, s, diagnoses) => RowsOf(ledger, Origin(p, s)) = {}
  /\ DOMAIN pass = Passes
  /\ \A p \in Passes : pass[p] = Idle \/ InPass(p, pass[p], diagnoses, webhook_events)

-----------------------------------------------------------------------------
LEMMA EmptyIsSeq == \A s : s = <<>> => IsSeq(s) /\ DOMAIN s = {}
<1> SUFFICES ASSUME NEW s, s = <<>> PROVE IsSeq(s) /\ DOMAIN s = {}
  OBVIOUS
<1>1. s \in Seq({}) /\ DOMAIN s = {}
  OBVIOUS
<1>2. IsSeq(s)
  BY <1>1, SeqFacts
<1> QED
  BY <1>1, <1>2

LEMMA DiagnosisInitInv == DiagnosisInit => DiagnosisInv
<1> SUFFICES ASSUME DiagnosisInit PROVE DiagnosisInv
  OBVIOUS
<1>1. /\ ledger = <<>> /\ decisions = {} /\ webhook_events = {}
      /\ outbox = [e \in Events |-> NoEntry] /\ payments = [s \in Subjects |-> NoPayment]
      /\ job = [w \in Workers |-> Idle] /\ ledger_lock = Free
      /\ diagnoses = <<>> /\ pass = [p \in Passes |-> Idle]
  BY DEF DiagnosisInit, Init, TablesInit
<1>2. Jobs
  BY <1>1 DEF Jobs
<1>3. Tables
  BY <1>1, EmptyIsSeq DEF Tables, NoPayment
<1>4. Published
  BY <1>1, EmptyIsSeq DEF Published
<1>5. OfDiagnosis = {} /\ \A o : RowsOf(ledger, o) = {}
  BY <1>1, EmptyIsSeq DEF OfDiagnosis, RowsOf
<1> QED
  BY <1>1, <1>2, <1>3, <1>4, <1>5 DEF DiagnosisInv

(* A pass sees no touches: nobody completes an outreach here.              *)
LEMMA NoTouchesYet ==
  ASSUME Tables, NEW payer, NEW now
  PROVE  touches_in_window(payer, now) = 0
<1>1. {d \in decisions : /\ d.payer_contact = payer
                         /\ outbox[d.event].status = "complete"
                         /\ outbox[d.event].updated_at >= now - TouchWindow} = {}
  BY DEF Tables, NoEntry
<1>2. Cardinality({}) = 0
  BY FS_EmptySet
<1> QED
  BY <1>1, <1>2 DEF touches_in_window

-----------------------------------------------------------------------------
(* The steps of one pass before its end.                                   *)
LEMMA PrivateStep ==
  ASSUME DiagnosisInv, NEW p \in Passes, UNCHANGED <<tables, job, diagnoses>>,
         ledger_lock' \in Workers \union Passes \union {Free},
         NEW j, pass' = [pass EXCEPT ![p] = j],
         j = Idle \/ InPass(p, j, diagnoses, webhook_events)
  PROVE  DiagnosisInv'
<1>1. UNCHANGED <<payments, webhook_events, decisions, outbox, ledger, job, diagnoses>>
  BY DEF tables
<1>2. DOMAIN pass' = Passes /\ \A q \in Passes : pass'[q] = IF q = p THEN j ELSE pass[q]
  BY DEF DiagnosisInv
<1>3. OfDiagnosis' = OfDiagnosis
  BY <1>1 DEF OfDiagnosis
<1>4. Jobs' /\ Tables' /\ Published'
  BY <1>1, <1>3 DEF DiagnosisInv, Jobs, Tables, Published
<1>5. \A d \in OfDiagnosis' : Explained(d)'
  BY <1>1, <1>3 DEF DiagnosisInv, Explained
<1> QED
  BY <1>1, <1>2, <1>4, <1>5 DEF DiagnosisInv

LEMMA InHand ==
  ASSUME DiagnosisInv, NEW p \in Passes, pass[p] # Idle
  PROVE  InPass(p, pass[p], diagnoses, webhook_events)
BY DEF DiagnosisInv

LEMMA StartPassInv ==
  ASSUME DiagnosisInv, NEW p \in Passes, NEW settings \in Settings, StartPass(p, settings)
  PROVE  DiagnosisInv'
<1>1. PICK todo \in SUBSET Subjects :
        pass' = [pass EXCEPT ![p] = [pc |-> "next", settings |-> settings, todo |-> todo,
                                     rows |-> <<>>, made |-> <<>>]]
  BY DEF StartPass
<1> DEFINE j == [pc |-> "next", settings |-> settings, todo |-> todo, rows |-> <<>>, made |-> <<>>]
<1>2. /\ j.pc = "next" /\ j.settings = settings /\ j.todo = todo /\ j.rows = <<>> /\ j.made = <<>>
      /\ DOMAIN j = {"pc", "settings", "todo", "rows", "made"}
  OBVIOUS
<1> HIDE DEF j
<1>3. InPass(p, j, diagnoses, webhook_events)
  BY <1>2, EmptyIsSeq DEF InPass, PassShaped, PrivateRows, PrivateDecisions, Asking
<1>4. UNCHANGED <<tables, job, diagnoses, ledger_lock>> /\ ledger_lock \in Workers \union Passes \union {Free}
  BY DEF StartPass, vars, DiagnosisInv, Jobs
<1>5. pass' = [pass EXCEPT ![p] = j]
  BY <1>1 DEF j
<1> QED
  BY <1>3, <1>4, <1>5, PrivateStep

LEMMA TakeUpInv ==
  ASSUME DiagnosisInv, NEW p \in Passes, NEW s \in Subjects, NEW now, TakeUp(p, s, now)
  PROVE  DiagnosisInv'
<1> DEFINE asked == [pc |-> "asking", settings |-> pass[p].settings, todo |-> pass[p].todo,
                     rows |-> pass[p].rows, made |-> pass[p].made, order |-> s, now |-> now,
                     payment |-> payments[s], answer |-> NoOutput]
           skipped == [pass[p] EXCEPT !.todo = pass[p].todo \ {s}]
<1>1. pass[p].pc = "next" /\ s \in pass[p].todo /\ pass[p] # Idle
  BY DEF TakeUp, Idle
<1>2. InPass(p, pass[p], diagnoses, webhook_events)
  BY <1>1, InHand
<1>3. UNCHANGED <<tables, job, diagnoses, ledger_lock>> /\ ledger_lock \in Workers \union Passes \union {Free}
  BY DEF TakeUp, vars, DiagnosisInv, Jobs
<1>4. CASE LongTail(s) /\ Undiagnosed(s)
  <2>1. pass' = [pass EXCEPT ![p] = asked]
    BY <1>4 DEF TakeUp, DiagnosisInv
  <2>2. /\ asked.pc = "asking" /\ asked.settings = pass[p].settings /\ asked.todo = pass[p].todo
        /\ asked.rows = pass[p].rows /\ asked.made = pass[p].made /\ asked.order = s
        /\ asked.payment = payments[s]
        /\ DOMAIN asked = {"pc", "settings", "todo", "rows", "made", "order", "now", "payment", "answer"}
    OBVIOUS
  <2>3. FailedWith(s, payments[s], webhook_events)
    BY <1>4 DEF LongTail, DiagnosisInv, Tables
  <2>4. Fresh(p, s, diagnoses)
    BY <1>4 DEF Undiagnosed, DiagnosesOf, Fresh
  <2> HIDE DEF asked
  <2>5. PassShaped(asked)
    BY <1>2, <2>2 DEF InPass, PassShaped
  <2>6. PrivateRows(p, asked, diagnoses) /\ PrivateDecisions(p, asked, webhook_events)
    BY <1>2, <2>2 DEF InPass, PrivateRows, PrivateDecisions
  <2>7. Asking(p, asked, diagnoses, webhook_events)
    BY <1>1, <2>2, <2>3, <2>4 DEF Asking
  <2> QED
    BY <1>3, <2>1, <2>5, <2>6, <2>7, PrivateStep DEF InPass
<1>5. CASE ~(LongTail(s) /\ Undiagnosed(s))
  <2>1. pass' = [pass EXCEPT ![p] = skipped]
    BY <1>5 DEF TakeUp, DiagnosisInv
  <2>2. /\ skipped.pc = "next" /\ skipped.settings = pass[p].settings
        /\ skipped.todo = pass[p].todo \ {s}
        /\ skipped.rows = pass[p].rows /\ skipped.made = pass[p].made
        /\ DOMAIN skipped = {"pc", "settings", "todo", "rows", "made"}
    BY <1>1, <1>2 DEF InPass, PassShaped
  <2> HIDE DEF skipped
  <2>3. PassShaped(skipped)
    BY <1>2, <2>2 DEF InPass, PassShaped
  <2>4. PrivateRows(p, skipped, diagnoses)
    BY <1>2, <2>2 DEF InPass, PrivateRows
  <2>5. PrivateDecisions(p, skipped, webhook_events)
    BY <1>2, <2>2 DEF InPass, PrivateDecisions
  <2>6. Asking(p, skipped, diagnoses, webhook_events)
    BY <2>2 DEF Asking
  <2> QED
    BY <1>3, <2>1, <2>3, <2>4, <2>5, <2>6, PrivateStep DEF InPass
<1> QED
  BY <1>4, <1>5

LEMMA ModelAnswersInv ==
  ASSUME DiagnosisInv, NEW p \in Passes, NEW answer \in Answers, ModelAnswers(p, answer)
  PROVE  DiagnosisInv'
<1> DEFINE j == [pass[p] EXCEPT !.pc = "recording", !.answer = answer]
<1>1. pass[p].pc = "asking" /\ pass[p] # Idle
  BY DEF ModelAnswers, Idle
<1>2. InPass(p, pass[p], diagnoses, webhook_events)
  BY <1>1, InHand
<1>3. UNCHANGED <<tables, job, diagnoses, ledger_lock>> /\ ledger_lock \in Workers \union Passes \union {Free}
  BY DEF ModelAnswers, vars, DiagnosisInv, Jobs
<1>4. pass' = [pass EXCEPT ![p] = j]
  BY DEF ModelAnswers, DiagnosisInv
<1>5. DOMAIN pass[p] = {"pc", "settings", "todo", "rows", "made", "order", "now", "payment", "answer"}
  BY <1>1, <1>2 DEF InPass, PassShaped
<1>6. /\ j.pc = "recording" /\ j.settings = pass[p].settings /\ j.todo = pass[p].todo
      /\ j.rows = pass[p].rows /\ j.made = pass[p].made /\ j.order = pass[p].order
      /\ j.payment = pass[p].payment /\ j.answer = answer
      /\ DOMAIN j = {"pc", "settings", "todo", "rows", "made", "order", "now", "payment", "answer"}
  BY <1>5
<1> HIDE DEF j
<1>7. PassShaped(j) /\ PrivateRows(p, j, diagnoses)
  BY <1>2, <1>6 DEF InPass, PassShaped, PrivateRows
<1>8. PrivateDecisions(p, j, webhook_events) /\ Asking(p, j, diagnoses, webhook_events)
  BY <1>1, <1>2, <1>6 DEF InPass, PrivateDecisions, Asking
<1> QED
  BY <1>3, <1>4, <1>7, <1>8, PrivateStep DEF InPass

LEMMA LogDecisionInv ==
  ASSUME DiagnosisInv, NEW p \in Passes, LogDecision(p)
  PROVE  DiagnosisInv'
<1> DEFINE j == [pass[p] EXCEPT !.pc = "next"]
<1>1. pass[p].pc = "deciding" /\ pass[p] # Idle
  BY DEF LogDecision, Idle
<1>2. InPass(p, pass[p], diagnoses, webhook_events)
  BY <1>1, InHand
<1>3. UNCHANGED <<tables, job, diagnoses>> /\ ledger_lock' \in Workers \union Passes \union {Free}
  BY DEF LogDecision
<1>4. pass' = [pass EXCEPT ![p] = j]
  BY DEF LogDecision, DiagnosisInv
<1>5. /\ j.pc = "next" /\ j.settings = pass[p].settings /\ j.todo = pass[p].todo
      /\ j.rows = pass[p].rows /\ j.made = pass[p].made
      /\ DOMAIN j = {"pc", "settings", "todo", "rows", "made"}
  BY <1>1, <1>2 DEF InPass, PassShaped
<1> HIDE DEF j
<1>6. PassShaped(j) /\ PrivateRows(p, j, diagnoses)
  BY <1>2, <1>5 DEF InPass, PassShaped, PrivateRows
<1>7. PrivateDecisions(p, j, webhook_events) /\ Asking(p, j, diagnoses, webhook_events)
  BY <1>2, <1>5 DEF InPass, PrivateDecisions, Asking
<1> QED
  BY <1>3, <1>4, <1>6, <1>7, PrivateStep DEF InPass

(* A pass that ends early leaves nothing behind.                           *)
LEMMA EndPassInv ==
  ASSUME DiagnosisInv, NEW p \in Passes, EndPass(p)
  PROVE  DiagnosisInv'
<1>1. /\ pass' = [pass EXCEPT ![p] = Idle] /\ UNCHANGED <<tables, job, diagnoses>>
      /\ ledger_lock' \in Workers \union Passes \union {Free}
  BY DEF EndPass, ReleaseLedger, DiagnosisInv, Jobs
<1> QED
  BY <1>1, PrivateStep

-----------------------------------------------------------------------------
(* A decision on a diagnosis is backed by it: the engine's gates hold for  *)
(* whatever intervention the model suggests.                               *)
LEMMA DecisionBacked ==
  ASSUME Tables, NEW p, NEW j, j.settings \in Settings, j.answer \in Answers, Decides(j),
         FailedWith(j.order, j.payment, webhook_events),
         NEW row, row.order_id = j.order, row.by = p, row.output = j.answer
  PROVE  /\ Backs(row, DecisionOnDiagnosis(p, j), webhook_events)
         /\ DecisionOnDiagnosis(p, j).event = Origin(p, j.order)
         /\ DecisionOnDiagnosis(p, j).order_id = j.order
<1> DEFINE touches == touches_in_window(j.payment.payer_contact, j.now)
           ctx == [category |-> j.answer.category, confidence |-> j.answer.confidence,
                   amount_paise |-> j.payment.amount_paise, touches_in_window |-> touches,
                   interventions_dispatched_in_batch |-> 0, now |-> j.now]
           verdict == decide(j.answer.suggested_intervention, ctx, j.settings)
           d == DecisionOnDiagnosis(p, j)
<1>1. /\ d.event = Origin(p, j.order) /\ d.event.by = p /\ d.order_id = j.order
      /\ d.authorized_intervention = verdict.authorized_intervention /\ d.decided_at = j.now
  BY DEF DecisionOnDiagnosis, Origin
<1>2. /\ j.answer.kind = "output" /\ j.answer.grounded
      /\ j.answer.confidence >= j.settings.min_diagnosis_confidence
  BY DEF Decides, Accepted
<1>3. PICK e \in webhook_events : /\ e.kind = "failed" /\ Subject(e) = j.order
                                  /\ j.payment.amount_paise = e.amount_paise
  BY DEF FailedWith
<1>4. e.amount_paise \in Nat
  BY EventAssumption DEF Tables
<1>5. touches \in Nat
  BY NoTouchesYet
<1> HIDE DEF touches
<1>6. /\ ctx.touches_in_window \in Nat /\ ctx.amount_paise \in Nat
      /\ ctx.category = j.answer.category /\ ctx.amount_paise = e.amount_paise /\ ctx.now = j.now
  BY <1>3, <1>4, <1>5
<1> HIDE DEF ctx
<1>7. verdict.authorized_intervention \in RequiresContact =>
        /\ j.answer.category \in Recoverable \intersect CustomerActionable
        /\ e.amount_paise <= j.settings.human_approval_threshold_paise
        /\ ~InQuietHours(j.now, j.settings)
  BY <1>6, ContactIsPermitted
<1> HIDE DEF verdict, d
<1>8. Backs(row, d, webhook_events)
  BY <1>1, <1>2, <1>3, <1>7 DEF Backs
<1> QED
  BY <1>1, <1>8 DEF d

LEMMA RecordedRow ==
  ASSUME NEW p, NEW j, j.answer \in Answers
  PROVE  \E row : /\ Recorded(p, j) = Append(j.rows, row)
                  /\ row.order_id = j.order /\ row.by = p
                  /\ row.succeeded => Accepted(j.answer) /\ row.output = j.answer
                  /\ Accepted(j.answer) => row.output = j.answer
<1> DEFINE row == [order_id |-> j.order, by |-> p, succeeded |-> Accepted(j.answer),
                   output |-> IF Accepted(j.answer) THEN j.answer ELSE NoOutput]
<1>1. Recorded(p, j) = Append(j.rows, row)
  BY DEF Recorded
<1>2. row.order_id = j.order /\ row.by = p
  OBVIOUS
<1>3. row.succeeded => Accepted(j.answer)
  BY Zenon
<1>4. Accepted(j.answer) => row.output = j.answer
  OBVIOUS
<1> QED
  BY <1>1, <1>2, <1>3, <1>4

(* One more key that is none of those before keeps them distinct.          *)
LEMMA OneMoreKey ==
  ASSUME NEW L \in Nat, NEW key, \A m, n \in 1 .. L : key[m] = key[n] => m = n,
         \A n \in 1 .. L : key[n] # key[L + 1]
  PROVE  \A m, n \in 1 .. L + 1 : key[m] = key[n] => m = n
<1> SUFFICES ASSUME NEW m \in 1 .. L + 1, NEW n \in 1 .. L + 1, key[m] = key[n] PROVE m = n
  OBVIOUS
<1>1. CASE m = L + 1
  BY <1>1
<1>2. CASE n = L + 1
  BY <1>2
<1>3. CASE m # L + 1 /\ n # L + 1
  BY <1>3
<1> QED
  BY <1>1, <1>2, <1>3

LEMMA OriginsDiffer == \A p, q, s, t : Origin(p, s) = Origin(q, t) => p = q /\ s = t
<1> SUFFICES ASSUME NEW p, NEW q, NEW s, NEW t, Origin(p, s) = Origin(q, t) PROVE p = q /\ s = t
  OBVIOUS
<1>1. Origin(p, s).by = p /\ Origin(q, t).by = q /\ Origin(p, s).order = s /\ Origin(q, t).order = t
  BY DEF Origin
<1> QED
  BY <1>1

LEMMA RecordDiagnosisInv ==
  ASSUME DiagnosisInv, NEW p \in Passes, RecordDiagnosis(p)
  PROVE  DiagnosisInv'
<1> DEFINE old  == pass[p]
           made == IF Decides(old) THEN Append(old.made, DecisionOnDiagnosis(p, old)) ELSE old.made
           j    == [pc |-> IF Decides(old) THEN "deciding" ELSE "next", settings |-> old.settings,
                    todo |-> old.todo \ {old.order}, rows |-> Recorded(p, old), made |-> made]
<1>1. old.pc = "recording" /\ old # Idle
  BY DEF RecordDiagnosis, Idle
<1>2. InPass(p, old, diagnoses, webhook_events)
  BY <1>1, InHand
<1>3. UNCHANGED <<tables, job, diagnoses, ledger_lock>> /\ ledger_lock \in Workers \union Passes \union {Free}
  BY DEF RecordDiagnosis, vars, DiagnosisInv, Jobs
<1>4. pass' = [pass EXCEPT ![p] = j]
  BY DEF RecordDiagnosis, DiagnosisInv
<1>5. /\ j.pc \in {"next", "deciding"} /\ j.settings = old.settings
      /\ j.todo = old.todo \ {old.order} /\ j.rows = Recorded(p, old) /\ j.made = made
      /\ DOMAIN j = {"pc", "settings", "todo", "rows", "made"}
  OBVIOUS
<1>6. /\ old.order \in old.todo /\ old.todo \subseteq Subjects /\ old.answer \in Answers
      /\ Fresh(p, old.order, diagnoses) /\ FailedWith(old.order, old.payment, webhook_events)
      /\ old.settings \in Settings
  BY <1>1, <1>2 DEF InPass, PassShaped, Asking
<1>7. PICK row : /\ Recorded(p, old) = Append(old.rows, row)
                 /\ row.order_id = old.order /\ row.by = p
                 /\ row.succeeded => Accepted(old.answer) /\ row.output = old.answer
                 /\ Accepted(old.answer) => row.output = old.answer
  BY <1>6, RecordedRow
<1>8. Decides(old) =>
        /\ Backs(row, DecisionOnDiagnosis(p, old), webhook_events)
        /\ DecisionOnDiagnosis(p, old).event = Origin(p, old.order)
        /\ DecisionOnDiagnosis(p, old).order_id = old.order
  BY <1>6, <1>7, DecisionBacked DEF Decides, DiagnosisInv
<1>9. row.succeeded /\ ~Decides(old) => Unsure(row)
  <2> SUFFICES ASSUME row.succeeded, ~Decides(old) PROVE Unsure(row)
    OBVIOUS
  <2>1. Accepted(old.answer) /\ row.output = old.answer
    BY <1>7
  <2>2. ~(old.answer.confidence >= old.settings.min_diagnosis_confidence)
    BY <2>1 DEF Decides
  <2>3. old.answer.confidence \in 0 .. 100 /\ old.settings.min_diagnosis_confidence \in Nat
    BY <1>6, <2>1, AnswerAssumption, SettingsAssumption DEF Accepted
  <2> QED
    BY <1>6, <2>1, <2>2, <2>3 DEF Unsure
<1> DEFINE decision == DecisionOnDiagnosis(p, old)
<1> HIDE DEF decision
<1>10. made = IF Decides(old) THEN Append(old.made, decision) ELSE old.made
  BY DEF decision
<1>11. /\ Decides(old) => /\ Backs(row, decision, webhook_events)
                          /\ decision.event = Origin(p, old.order) /\ decision.order_id = old.order
  BY <1>8 DEF decision
<1> HIDE DEF j, made, old
<1>12. PassShaped(j)
  BY <1>2, <1>5 DEF InPass, PassShaped
<1>13. /\ IsSeq(old.rows) /\ IsSeq(j.rows) /\ Len(old.rows) \in Nat
       /\ DOMAIN old.rows = 1 .. Len(old.rows) /\ DOMAIN j.rows = 1 .. Len(old.rows) + 1
       /\ \A i \in 1 .. Len(old.rows) : j.rows[i] = old.rows[i]
       /\ j.rows[Len(old.rows) + 1] = row
  BY <1>2, <1>5, <1>7, AppendSeq DEF InPass, PrivateRows
<1>14. PrivateRows(p, j, diagnoses)
  <2>1. \A n \in DOMAIN old.rows : /\ old.rows[n].by = p /\ old.rows[n].order_id \in Subjects \ old.todo
                                   /\ Fresh(p, old.rows[n].order_id, diagnoses)
    BY <1>2 DEF InPass, PrivateRows
  <2>2. \A n \in DOMAIN j.rows : /\ j.rows[n].by = p /\ j.rows[n].order_id \in Subjects \ j.todo
                                 /\ Fresh(p, j.rows[n].order_id, diagnoses)
    BY <1>5, <1>6, <1>7, <1>13, <2>1
  <2>3. \A m, n \in DOMAIN j.rows : j.rows[m].order_id = j.rows[n].order_id => m = n
    <3>1. \A n \in DOMAIN old.rows : old.rows[n].order_id # old.order
      BY <1>6, <2>1
    <3>2. \A m, n \in DOMAIN old.rows : old.rows[m].order_id = old.rows[n].order_id => m = n
      BY <1>2 DEF InPass, PrivateRows
    <3> DEFINE key == [n \in DOMAIN j.rows |-> j.rows[n].order_id]
    <3>3. \A n \in 1 .. Len(old.rows) : key[n] = old.rows[n].order_id
      BY <1>13
    <3>4. key[Len(old.rows) + 1] = old.order
      BY <1>7, <1>13
    <3>5. \A n \in DOMAIN j.rows : key[n] = j.rows[n].order_id
      OBVIOUS
    <3> HIDE DEF key
    <3>6. \A m, n \in 1 .. Len(old.rows) : key[m] = key[n] => m = n
      BY <1>13, <3>2, <3>3
    <3>7. \A n \in 1 .. Len(old.rows) : key[n] # key[Len(old.rows) + 1]
      BY <1>13, <3>1, <3>3, <3>4
    <3>8. \A m, n \in 1 .. Len(old.rows) + 1 : key[m] = key[n] => m = n
      BY <1>13, <3>6, <3>7, OneMoreKey
    <3> QED
      BY <1>13, <3>5, <3>8
  <2> QED
    BY <1>13, <2>2, <2>3 DEF PrivateRows
<1>15. PrivateDecisions(p, j, webhook_events)
  <2>1. /\ IsSeq(old.made)
        /\ \A n \in DOMAIN old.made :
             /\ old.made[n].event = Origin(p, old.made[n].order_id)
             /\ \E k \in DOMAIN old.rows : Backs(old.rows[k], old.made[n], webhook_events)
        /\ \A m, n \in DOMAIN old.made : old.made[m].event = old.made[n].event => m = n
        /\ \A k \in DOMAIN old.rows : old.rows[k].succeeded =>
             Unsure(old.rows[k])
               \/ \E n \in DOMAIN old.made : old.made[n].event = Origin(p, old.rows[k].order_id)
    BY <1>2 DEF InPass, PrivateDecisions
  <2>2. \A n \in DOMAIN old.made : \E k \in DOMAIN j.rows : Backs(j.rows[k], old.made[n], webhook_events)
    <3> SUFFICES ASSUME NEW n \in DOMAIN old.made
                 PROVE  \E k \in DOMAIN j.rows : Backs(j.rows[k], old.made[n], webhook_events)
      OBVIOUS
    <3>1. PICK k \in DOMAIN old.rows : Backs(old.rows[k], old.made[n], webhook_events)
      BY <2>1
    <3>2. k \in DOMAIN j.rows /\ j.rows[k] = old.rows[k]
      BY <1>13
    <3> QED
      BY <3>1, <3>2
  <2>3. CASE ~Decides(old)
    <3>1. j.made = old.made
      BY <1>5, <1>10, <2>3
    <3>2. \A k \in DOMAIN j.rows : j.rows[k].succeeded =>
            Unsure(j.rows[k]) \/ \E n \in DOMAIN j.made : j.made[n].event = Origin(p, j.rows[k].order_id)
      BY <1>9, <1>13, <2>1, <2>3, <3>1
    <3> QED
      BY <2>1, <2>2, <3>1, <3>2 DEF PrivateDecisions
  <2>4. CASE Decides(old)
    <3>1. /\ IsSeq(j.made) /\ Len(old.made) \in Nat
          /\ DOMAIN old.made = 1 .. Len(old.made) /\ DOMAIN j.made = 1 .. Len(old.made) + 1
          /\ \A i \in 1 .. Len(old.made) : j.made[i] = old.made[i]
          /\ j.made[Len(old.made) + 1] = decision
      BY <1>5, <1>10, <2>1, <2>4, AppendSeq
    <3>2. \A n \in DOMAIN j.made : /\ j.made[n].event = Origin(p, j.made[n].order_id)
                                   /\ \E k \in DOMAIN j.rows : Backs(j.rows[k], j.made[n], webhook_events)
      <4>1. /\ Backs(j.rows[Len(old.rows) + 1], decision, webhook_events)
            /\ Len(old.rows) + 1 \in DOMAIN j.rows
        BY <1>11, <1>13, <2>4
      <4> QED
        BY <1>11, <2>1, <2>2, <2>4, <3>1, <4>1
    <3>3. \A n \in DOMAIN old.made : old.made[n].event # decision.event
      <4> SUFFICES ASSUME NEW n \in DOMAIN old.made, old.made[n].event = decision.event PROVE FALSE
        OBVIOUS
      <4>1. old.made[n].order_id = old.order
        BY <1>11, <2>1, <2>4, OriginsDiffer
      <4>2. PICK k \in DOMAIN old.rows : old.rows[k].order_id = old.order
        BY <2>1, <4>1 DEF Backs
      <4> QED
        BY <1>2, <1>6, <4>2 DEF InPass, PrivateRows
    <3>4. \A m, n \in DOMAIN j.made : j.made[m].event = j.made[n].event => m = n
      <4> DEFINE key == [n \in DOMAIN j.made |-> j.made[n].event]
      <4>1. \A n \in DOMAIN j.made : key[n] = j.made[n].event
        OBVIOUS
      <4> HIDE DEF key
      <4>2. \A m, n \in 1 .. Len(old.made) : key[m] = key[n] => m = n
        BY <2>1, <3>1, <4>1
      <4>3. \A n \in 1 .. Len(old.made) : key[n] # key[Len(old.made) + 1]
        BY <3>1, <3>3, <4>1
      <4>4. \A m, n \in 1 .. Len(old.made) + 1 : key[m] = key[n] => m = n
        BY <3>1, <4>2, <4>3, OneMoreKey
      <4> QED
        BY <3>1, <4>1, <4>4
    <3>5. \A k \in DOMAIN j.rows : j.rows[k].succeeded =>
            Unsure(j.rows[k]) \/ \E n \in DOMAIN j.made : j.made[n].event = Origin(p, j.rows[k].order_id)
      <4> SUFFICES ASSUME NEW k \in DOMAIN j.rows, j.rows[k].succeeded, ~Unsure(j.rows[k])
                   PROVE  \E n \in DOMAIN j.made : j.made[n].event = Origin(p, j.rows[k].order_id)
        OBVIOUS
      <4>1. CASE k \in DOMAIN old.rows
        <5>1. PICK n \in DOMAIN old.made : old.made[n].event = Origin(p, old.rows[k].order_id)
          BY <1>13, <2>1, <4>1
        <5>2. n \in DOMAIN j.made /\ j.made[n] = old.made[n]
          BY <3>1, <5>1
        <5>3. j.rows[k].order_id = old.rows[k].order_id
          BY <1>13, <4>1
        <5> QED
          BY <5>1, <5>2, <5>3
      <4>2. CASE k = Len(old.rows) + 1
        <5>1. j.made[Len(old.made) + 1].event = Origin(p, j.rows[k].order_id)
          BY <1>7, <1>11, <1>13, <2>4, <3>1, <4>2
        <5> QED
          BY <3>1, <5>1
      <4> QED
        BY <1>13, <4>1, <4>2
    <3> QED
      BY <3>1, <3>2, <3>4, <3>5 DEF PrivateDecisions
  <2> QED
    BY <2>3, <2>4
<1>16. Asking(p, j, diagnoses, webhook_events)
  BY <1>5 DEF Asking
<1>17. InPass(p, j, diagnoses, webhook_events)
  BY <1>12, <1>14, <1>15, <1>16 DEF InPass
<1> QED
  BY <1>3, <1>4, <1>17, PrivateStep

-----------------------------------------------------------------------------
(* The end of a pass publishes all of it.                                  *)
LEMMA OtherRows ==
  ASSUME NEW log, NEW rows, NEW whole, NEW o, IsSeq(log), IsSeq(rows), Joined(whole, log, rows),
         \A n \in DOMAIN rows : rows[n].event # o
  PROVE  RowsOf(whole, o) = RowsOf(log, o)
<1> DEFINE L == Len(log)
<1>1. /\ \A i \in DOMAIN whole : i \in DOMAIN log \/ \E n \in DOMAIN rows : i = L + n
      /\ \A i \in DOMAIN log : i \in DOMAIN whole /\ whole[i] = log[i]
      /\ \A n \in DOMAIN rows : L + n \in DOMAIN whole /\ whole[L + n] = rows[n]
  <2>1. \A i \in DOMAIN whole : i \in DOMAIN log \/ \E n \in DOMAIN rows : i = L + n
    BY Concatenated
  <2>2. \A i \in DOMAIN log : i \in DOMAIN whole /\ whole[i] = log[i]
    BY Concatenated
  <2>3. \A n \in DOMAIN rows : L + n \in DOMAIN whole /\ whole[L + n] = rows[n]
    BY ConcatenatedTail
  <2> QED
    BY <2>1, <2>2, <2>3
<1> HIDE DEF L
<1> QED
  BY <1>1 DEF RowsOf

LEMMA OneNewRow ==
  ASSUME NEW log, NEW rows, NEW whole, NEW o, IsSeq(log), IsSeq(rows), Joined(whole, log, rows),
         RowsOf(log, o) = {}, NEW n \in DOMAIN rows, \A m \in DOMAIN rows : rows[m].event = o <=> m = n
  PROVE  RowsOf(whole, o) = {Len(log) + n}
<1> DEFINE L == Len(log)
<1>1. /\ \A i \in DOMAIN whole : i \in DOMAIN log \/ \E k \in DOMAIN rows : i = L + k
      /\ \A i \in DOMAIN log : i \in DOMAIN whole /\ whole[i] = log[i]
      /\ \A k \in DOMAIN rows : L + k \in DOMAIN whole /\ whole[L + k] = rows[k]
  <2>1. \A i \in DOMAIN whole : i \in DOMAIN log \/ \E k \in DOMAIN rows : i = L + k
    BY Concatenated
  <2>2. \A i \in DOMAIN log : i \in DOMAIN whole /\ whole[i] = log[i]
    BY Concatenated
  <2>3. \A k \in DOMAIN rows : L + k \in DOMAIN whole /\ whole[L + k] = rows[k]
    BY ConcatenatedTail
  <2> QED
    BY <2>1, <2>2, <2>3
<1> HIDE DEF L
<1>2. RowsOf(whole, o) = {L + n}
  BY <1>1 DEF RowsOf
<1> QED
  BY <1>2 DEF L

LEMMA CommitPassInv ==
  ASSUME DiagnosisInv, NEW p \in Passes, CommitPass(p)
  PROVE  DiagnosisInv'
<1> DEFINE j       == pass[p]
           made    == j.made
           decided == {made[n] : n \in DOMAIN made}
           new     == {d.event : d \in decided}
           EntryOf(d) == IF d.authorized_intervention \in Dispatchable THEN OutboxRow(d) ELSE NoEntry
           rows    == [n \in DOMAIN made |-> Entry(DecisionId(made[n].event), "decision", made[n].event)]
<1>1. j.pc = "next" /\ j # Idle
  BY DEF CommitPass, Idle
<1>2. InPass(p, j, diagnoses, webhook_events)
  BY <1>1, InHand
<1>3. /\ decisions' = decisions \union decided
      /\ outbox' = [o \in DOMAIN outbox \union new |->
                      IF o \in new THEN EntryOf(CHOOSE d \in decided : d.event = o) ELSE outbox[o]]
      /\ ledger' = ledger \o rows
      /\ diagnoses' = diagnoses \o j.rows
      /\ pass' = [pass EXCEPT ![p] = Idle]
      /\ UNCHANGED <<payments, webhook_events, job>>
      /\ ledger_lock' \in Workers \union Passes \union {Free}
  BY DEF CommitPass, ReleaseLedger, DiagnosisInv, Jobs
<1>4. /\ IsSeq(made) /\ IsSeq(j.rows) /\ IsSeq(ledger) /\ IsSeq(diagnoses)
  BY <1>2 DEF InPass, PrivateRows, PrivateDecisions, DiagnosisInv, Tables, Published
<1>5. IsSeq(rows) /\ DOMAIN rows = DOMAIN made /\ \A n \in DOMAIN made : rows[n].event = made[n].event
  <2>1. DOMAIN rows = DOMAIN made /\ \A n \in DOMAIN made : rows[n].event = made[n].event
    BY DEF Entry
  <2>2. Len(made) \in Nat /\ DOMAIN made = 1 .. Len(made)
    BY <1>4, EmptyIsSeq, ConcatSeq
  <2>3. rows \in [1 .. Len(made) -> {rows[i] : i \in DOMAIN rows}]
    BY <2>1, <2>2
  <2>4. rows \in Seq({rows[i] : i \in DOMAIN rows})
    BY <2>2, <2>3, SeqDef
  <2> QED
    BY <2>1, <2>4 DEF IsSeq
<1>6. \A n \in DOMAIN made :
        /\ made[n].event = Origin(p, made[n].order_id)
        /\ made[n].order_id \in Subjects /\ Fresh(p, made[n].order_id, diagnoses)
        /\ \E k \in DOMAIN j.rows : Backs(j.rows[k], made[n], webhook_events)
  BY <1>2 DEF InPass, PrivateRows, PrivateDecisions, Backs
<1>7. \A m, n \in DOMAIN made : made[m].event = made[n].event => m = n
  BY <1>2 DEF InPass, PrivateDecisions
<1>8. /\ \A o : o \in new <=> \E n \in DOMAIN made : made[n].event = o
      /\ \A d : d \in decided <=> \E n \in DOMAIN made : made[n] = d
  OBVIOUS
<1>9. \A n \in DOMAIN made : (CHOOSE d \in decided : d.event = made[n].event) = made[n]
  <2> SUFFICES ASSUME NEW n \in DOMAIN made
               PROVE  (CHOOSE d \in decided : d.event = made[n].event) = made[n]
    OBVIOUS
  <2> DEFINE d == CHOOSE d \in decided : d.event = made[n].event
  <2>1. d \in decided /\ d.event = made[n].event
    BY <1>8
  <2> HIDE DEF d
  <2>2. d = made[n]
    BY <1>7, <1>8, <2>1
  <2> QED
    BY <2>2 DEF d
<1>10. /\ DOMAIN outbox' = DOMAIN outbox \union new
       /\ \A n \in DOMAIN made : outbox'[made[n].event] = EntryOf(made[n])
       /\ \A o \in DOMAIN outbox : o \notin new => outbox'[o] = outbox[o]
  <2>1. \A n \in DOMAIN made : outbox'[made[n].event] = EntryOf(CHOOSE d \in decided : d.event = made[n].event)
    BY <1>3, <1>8
  <2>2. \A n \in DOMAIN made : outbox'[made[n].event] = EntryOf(made[n])
    BY <1>9, <2>1
  <2> QED
    BY <1>3, <2>2
<1> DEFINE D == Len(diagnoses)
<1>10a. Joined(diagnoses', diagnoses, j.rows) /\ Joined(ledger', ledger, rows)
  BY <1>3 DEF Joined
<1>11. /\ IsSeq(diagnoses') /\ D \in Nat
       /\ \A i \in DOMAIN diagnoses' : i \in DOMAIN diagnoses \/ \E k \in DOMAIN j.rows : i = D + k
       /\ \A i \in DOMAIN diagnoses : i \in DOMAIN diagnoses' /\ diagnoses'[i] = diagnoses[i]
       /\ \A k \in DOMAIN j.rows : D + k \in DOMAIN diagnoses' /\ diagnoses'[D + k] = j.rows[k]
  <2>1. IsSeq(diagnoses') /\ D \in Nat
    BY <1>4, <1>10a, Concatenated
  <2>2. \A i \in DOMAIN diagnoses' : i \in DOMAIN diagnoses \/ \E k \in DOMAIN j.rows : i = D + k
    BY <1>4, <1>10a, Concatenated
  <2>3. \A i \in DOMAIN diagnoses : i \in DOMAIN diagnoses' /\ diagnoses'[i] = diagnoses[i]
    BY <1>4, <1>10a, Concatenated
  <2>4. \A k \in DOMAIN j.rows : D + k \in DOMAIN diagnoses' /\ diagnoses'[D + k] = j.rows[k]
    BY <1>4, <1>10a, ConcatenatedTail
  <2> QED
    BY <2>1, <2>2, <2>3, <2>4
<1>12. IsSeq(ledger')
  BY <1>3, <1>4, <1>5, ConcatSeq
<1>13. /\ \A i \in DOMAIN diagnoses' : i \in DOMAIN diagnoses \/ \E k \in DOMAIN j.rows : i = D + k
       /\ \A i \in DOMAIN diagnoses : i \in DOMAIN diagnoses' /\ diagnoses'[i] = diagnoses[i]
       /\ \A k \in DOMAIN j.rows : D + k \in DOMAIN diagnoses' /\ diagnoses'[D + k] = j.rows[k]
  BY <1>11
<1> HIDE DEF D
<1>14. OfDiagnosis' = OfDiagnosis \union decided
  <2>1. \A d \in decided : d.event.kind = "diagnosis"
    <3>1. \A s : Origin(p, s).kind = "diagnosis"
      BY DEF Origin
    <3> QED
      BY <1>6, <1>8, <3>1
  <2> QED
    BY <1>3, <2>1 DEF OfDiagnosis
<1>15. \A o : o \notin new => RowsOf(ledger', o) = RowsOf(ledger, o)
  <2> SUFFICES ASSUME NEW o, o \notin new PROVE RowsOf(ledger', o) = RowsOf(ledger, o)
    OBVIOUS
  <2>1. \A n \in DOMAIN rows : rows[n].event # o
    BY <1>5, <1>8
  <2> HIDE DEF rows
  <2> QED
    BY <1>4, <1>5, <1>10a, <2>1, OtherRows
<1>16. \A n \in DOMAIN made : \E i \in DOMAIN ledger' : RowsOf(ledger', made[n].event) = {i}
  <2> SUFFICES ASSUME NEW n \in DOMAIN made
               PROVE  \E i \in DOMAIN ledger' : RowsOf(ledger', made[n].event) = {i}
    OBVIOUS
  <2>1. RowsOf(ledger, made[n].event) = {}
    BY <1>6 DEF DiagnosisInv
  <2>2. \A m \in DOMAIN rows : rows[m].event = made[n].event <=> m = n
    BY <1>5, <1>7
  <2>3. RowsOf(ledger', made[n].event) = {Len(ledger) + n}
    <3> HIDE DEF rows, made
    <3> QED
      BY <1>4, <1>5, <1>10a, <2>1, <2>2, OneNewRow
  <2> QED
    BY <2>3 DEF RowsOf
<1>17. \A d \in OfDiagnosis : d.event \notin new
  <2> SUFFICES ASSUME NEW d \in OfDiagnosis, NEW n \in DOMAIN made, d.event = made[n].event PROVE FALSE
    BY <1>8
  <2>1. Explained(d)
    BY DEF DiagnosisInv
  <2>2. d.event.by = p /\ d.order_id = made[n].order_id
    BY <1>6, <2>1, OriginsDiffer DEF Explained
  <2>3. PICK i \in DOMAIN diagnoses : Backs(diagnoses[i], d, webhook_events)
    BY <2>1 DEF Explained
  <2> QED
    BY <1>6, <2>2, <2>3 DEF Backs, Fresh
<1> HIDE DEF decided, new, rows, EntryOf, made
<1>18. ASSUME NEW q \in Passes, NEW s \in Subjects, Fresh(q, s, diagnoses')
       PROVE  Fresh(q, s, diagnoses) /\ Origin(q, s) \notin new
  <2>1. Fresh(q, s, diagnoses)
    BY <1>13, <1>18 DEF Fresh
  <2>2. ASSUME NEW n \in DOMAIN made, made[n].event = Origin(q, s) PROVE FALSE
    <3>1. q = p /\ s = made[n].order_id
      BY <1>6, <2>2, OriginsDiffer
    <3>2. PICK k \in DOMAIN j.rows : j.rows[k].order_id = s
      BY <1>6, <3>1 DEF Backs
    <3>3. j.rows[k].by = p
      BY <1>2 DEF InPass, PrivateRows
    <3> QED
      BY <1>13, <1>18, <3>1, <3>2, <3>3 DEF Fresh
  <2> QED
    BY <1>8, <2>1, <2>2
<1>19. Jobs'
  BY <1>3 DEF DiagnosisInv, Jobs
<1>20. Tables'
  <2>1. \A n \in DOMAIN made : outbox'[made[n].event] = NoEntry \/ outbox'[made[n].event].status = "pending"
    <3>1. \A d : EntryOf(d) = NoEntry \/ EntryOf(d).status = "pending"
      BY DEF EntryOf, OutboxRow
    <3> QED
      BY <1>10, <3>1
  <2>2. \A o \in DOMAIN outbox' : outbox'[o] = NoEntry \/ outbox'[o].status = "pending"
    BY <1>8, <1>10, <2>1 DEF DiagnosisInv, Tables
  <2>3. \A d \in decisions' : d.event \in DOMAIN outbox'
    BY <1>3, <1>8, <1>10 DEF DiagnosisInv, Tables
  <2> QED
    BY <1>3, <1>10, <1>12, <2>2, <2>3 DEF DiagnosisInv, Tables
<1>21. Published'
  <2>1. \A i \in DOMAIN diagnoses' :
          /\ diagnoses'[i].order_id \in Subjects /\ diagnoses'[i].by \in Passes
          /\ diagnoses'[i].succeeded =>
               Unsure(diagnoses'[i]) \/ \E d \in OfDiagnosis' :
                                          d.event = Origin(diagnoses'[i].by, diagnoses'[i].order_id)
    <3>1. ASSUME NEW i \in DOMAIN diagnoses
          PROVE  /\ diagnoses[i].order_id \in Subjects /\ diagnoses[i].by \in Passes
                 /\ diagnoses[i].succeeded =>
                      Unsure(diagnoses[i]) \/ \E d \in OfDiagnosis' :
                                                d.event = Origin(diagnoses[i].by, diagnoses[i].order_id)
      BY <1>14 DEF DiagnosisInv, Published
    <3>2. ASSUME NEW k \in DOMAIN j.rows
          PROVE  /\ j.rows[k].order_id \in Subjects /\ j.rows[k].by \in Passes
                 /\ j.rows[k].succeeded =>
                      Unsure(j.rows[k]) \/ \E d \in OfDiagnosis' :
                                             d.event = Origin(j.rows[k].by, j.rows[k].order_id)
      <4>1. j.rows[k].order_id \in Subjects /\ j.rows[k].by = p
        BY <1>2 DEF InPass, PrivateRows
      <4>2. j.rows[k].succeeded => Unsure(j.rows[k])
              \/ \E n \in DOMAIN made : made[n].event = Origin(p, j.rows[k].order_id)
        BY <1>2 DEF InPass, PrivateDecisions, made
      <4> QED
        BY <1>8, <1>14, <4>1, <4>2
    <3> QED
      BY <1>13, <3>1, <3>2
  <2>2. \A i, k \in DOMAIN diagnoses' :
          diagnoses'[i].order_id = diagnoses'[k].order_id /\ diagnoses'[i].by = diagnoses'[k].by => i = k
    <3>1. \A i, k \in DOMAIN diagnoses :
            diagnoses[i].order_id = diagnoses[k].order_id /\ diagnoses[i].by = diagnoses[k].by => i = k
      BY DEF DiagnosisInv, Published
    <3>2. \A i, k \in DOMAIN j.rows : j.rows[i].order_id = j.rows[k].order_id => i = k
      BY <1>2 DEF InPass, PrivateRows
    <3>3. \A i \in DOMAIN diagnoses, k \in DOMAIN j.rows :
            ~(diagnoses[i].order_id = j.rows[k].order_id /\ diagnoses[i].by = j.rows[k].by)
      BY <1>2 DEF InPass, PrivateRows, Fresh
    <3> QED
      BY <1>13, <3>1, <3>2, <3>3
  <2> QED
    BY <1>11, <2>1, <2>2 DEF Published
<1>22. \A d \in OfDiagnosis' : Explained(d)'
  <2>1. ASSUME NEW d \in OfDiagnosis PROVE Explained(d)'
    <3>1. Explained(d) /\ d.event \notin new /\ d.event \in DOMAIN outbox
      BY <1>17 DEF DiagnosisInv, Tables, OfDiagnosis
    <3>2. \E i \in DOMAIN diagnoses' : Backs(diagnoses'[i], d, webhook_events)
      BY <1>13, <3>1 DEF Explained
    <3>3. \E i \in DOMAIN ledger' : RowsOf(ledger', d.event) = {i}
      BY <1>15, <3>1 DEF Explained, RowsOf
    <3>4. outbox'[d.event] = outbox[d.event]
      BY <1>10, <3>1
    <3> QED
      BY <1>3, <3>1, <3>2, <3>3, <3>4 DEF Explained
  <2>2. ASSUME NEW n \in DOMAIN made, NEW d, d = made[n] PROVE Explained(d)'
    <3>1. d.event = Origin(d.event.by, d.order_id) /\ d.event.by = p
      <4>1. \A s : Origin(p, s).by = p
        BY DEF Origin
      <4> QED
        BY <1>6, <2>2, <4>1
    <3>2. \E i \in DOMAIN diagnoses' : Backs(diagnoses'[i], d, webhook_events)
      BY <1>6, <1>13, <2>2
    <3>3. outbox'[d.event] # NoEntry <=> d.authorized_intervention = "send_payment_link"
      <4>1. outbox'[d.event] = EntryOf(d)
        BY <1>10, <2>2
      <4>2. OutboxRow(d).status = "pending" /\ NoEntry.status = "none"
        BY DEF OutboxRow, NoEntry
      <4>3. EntryOf(d) # NoEntry <=> d.authorized_intervention = "send_payment_link"
        BY <4>2 DEF EntryOf, Dispatchable
      <4> QED
        BY <4>1, <4>3
    <3>4. \E i \in DOMAIN ledger' : RowsOf(ledger', d.event) = {i}
      BY <1>16, <2>2
    <3> QED
      BY <1>3, <3>1, <3>2, <3>3, <3>4 DEF Explained
  <2> QED
    <3> SUFFICES ASSUME NEW d \in OfDiagnosis' PROVE Explained(d)'
      OBVIOUS
    <3>1. d \in OfDiagnosis \/ \E n \in DOMAIN made : d = made[n]
      BY <1>8, <1>14
    <3> QED
      BY <2>1, <2>2, <3>1
<1>23. \A q \in Passes, s \in Subjects : Fresh(q, s, diagnoses') => RowsOf(ledger', Origin(q, s)) = {}
  BY <1>15, <1>18 DEF DiagnosisInv
<1>24. \A q \in Passes : pass'[q] = Idle \/ InPass(q, pass'[q], diagnoses', webhook_events')
  <2> SUFFICES ASSUME NEW q \in Passes, q # p, pass[q] # Idle
               PROVE  InPass(q, pass[q], diagnoses', webhook_events)
    BY <1>3 DEF DiagnosisInv
  <2>1. InPass(q, pass[q], diagnoses, webhook_events)
    BY InHand
  <2>2. \A s : Fresh(q, s, diagnoses) => Fresh(q, s, diagnoses')
    BY <1>2, <1>13 DEF InPass, PrivateRows, Fresh
  <2> QED
    BY <2>1, <2>2 DEF InPass, PrivateRows, Asking
<1>25. DOMAIN pass' = Passes
  BY <1>3 DEF DiagnosisInv
<1> QED
  BY <1>19, <1>20, <1>21, <1>22, <1>23, <1>24, <1>25 DEF DiagnosisInv

-----------------------------------------------------------------------------
(* The deliveries beside the passes.                                       *)
LEMMA NotOfDiagnosis == \A p, s : Origin(p, s) \notin Events
<1> SUFFICES ASSUME NEW p, NEW s, Origin(p, s) \in Events PROVE FALSE
  OBVIOUS
<1>1. Origin(p, s).kind = "diagnosis"
  BY DEF Origin
<1>2. "diagnosis" \notin Kinds
  BY DEF Kinds
<1> QED
  BY <1>1, <1>2, EventAssumption

LEMMA QuietDelivery ==
  ASSUME DiagnosisInv, UNCHANGED <<tables, diagnoses, pass>>, Jobs'
  PROVE  DiagnosisInv'
<1>1. UNCHANGED <<payments, webhook_events, decisions, outbox, ledger>>
  BY DEF tables
<1>2. OfDiagnosis' = OfDiagnosis
  BY <1>1 DEF OfDiagnosis
<1>3. Tables' /\ Published' /\ \A d \in OfDiagnosis' : Explained(d)'
  BY <1>1, <1>2 DEF DiagnosisInv, Tables, Published, Explained
<1> QED
  BY <1>1, <1>3 DEF DiagnosisInv

(* What a delivery does to the jobs and to the ledger's lock.              *)
LEMMA JobStep ==
  ASSUME Jobs, NEW w \in Workers, NEW j, job' = [job EXCEPT ![w] = j],
         j = Idle \/ (DOMAIN j = JobFields /\ j.pc \in Steps /\ j.event \in Events),
         ledger_lock' \in {ledger_lock, w, Free}
  PROVE  Jobs'
BY DEF Jobs

LEMMA DeliverInv ==
  ASSUME DiagnosisInv, NEW e \in Events, Arrives(e)
  PROVE  DiagnosisInv'
<1>1. PICK w \in Workers, now \in Times, settings \in Settings : Receive(w, e, now, settings)
  BY DEF Arrives, Deliver
<1> DEFINE pc == CASE Supported(e) -> "received" [] e.kind = "forged" -> "ready" [] OTHER -> "loaded"
           j  == [pc |-> pc, event |-> e, now |-> now, settings |-> settings,
                  outcome |-> "ignored_unsupported_event", touches |-> 0]
<1>2. /\ job' = [job EXCEPT ![w] = j]
      /\ UNCHANGED <<tables, ledger_lock, diagnoses, pass>>
  BY <1>1 DEF Receive, Arrives
<1>3. pc \in Steps
  BY DEF Steps
<1> HIDE DEF pc
<1>4. DOMAIN j = JobFields /\ j.pc \in Steps /\ j.event \in Events
  BY <1>3 DEF JobFields
<1> HIDE DEF j
<1> QED
  BY <1>2, <1>4, JobStep, QuietDelivery DEF DiagnosisInv

(* The statements before the commit, and the answer after it.              *)
LEMMA StatementInv ==
  ASSUME DiagnosisInv, NEW w \in Workers, UNCHANGED <<diagnoses, pass>>,
         \/ LockSubject(w) \/ LoadStatus(w) \/ ClaimEvent(w) \/ Decide(w) \/ LockLedger(w)
         \/ Answer(w) \/ Fail(w) \/ EndDelivery(w)
  PROVE  DiagnosisInv'
<1>1. ASSUME job[w] # Idle, NEW j, DOMAIN j = DOMAIN job[w], j.pc \in Steps, j.event = job[w].event,
             job' = [job EXCEPT ![w] = j], ledger_lock' \in {ledger_lock, w, Free}, UNCHANGED tables
      PROVE  DiagnosisInv'
  <2>1. DOMAIN j = JobFields /\ j.event \in Events
    BY <1>1 DEF DiagnosisInv, Jobs
  <2>2. Jobs'
    BY <1>1, <2>1, JobStep DEF DiagnosisInv
  <2> QED
    BY <1>1, <2>2, QuietDelivery
<1>2. ASSUME job' = [job EXCEPT ![w] = Idle], ledger_lock' \in {ledger_lock, w, Free}, UNCHANGED tables
      PROVE  DiagnosisInv'
  <2>1. Jobs'
    BY <1>2, JobStep DEF DiagnosisInv
  <2> QED
    BY <1>2, <2>1, QuietDelivery
<1>3. job[w] # Idle => DOMAIN job[w] = JobFields
  BY DEF DiagnosisInv, Jobs
<1>4. ASSUME NEW pc \in Steps, job[w] # Idle, Advance(w, pc),
             ledger_lock' \in {ledger_lock, w, Free}, UNCHANGED tables
      PROVE  DiagnosisInv'
  <2> DEFINE j == [job[w] EXCEPT !.pc = pc]
  <2>1. job' = [job EXCEPT ![w] = j]
    BY <1>4 DEF Advance, DiagnosisInv, Jobs
  <2>2. DOMAIN j = DOMAIN job[w] /\ j.pc = pc /\ j.event = job[w].event
    BY <1>3, <1>4 DEF JobFields
  <2> HIDE DEF j
  <2> QED
    BY <1>1, <1>4, <2>1, <2>2
<1>5. CASE LockSubject(w)
  BY <1>4, <1>5 DEF LockSubject, Idle, Steps, tables
<1>6. CASE LoadStatus(w)
  <2> DEFINE outcome == Outcome(payments[Subject(job[w].event)].status, job[w].event)
             j == [job[w] EXCEPT !.pc = "loaded", !.outcome = outcome]
  <2>1. /\ job[w] # Idle /\ UNCHANGED <<tables, ledger_lock>>
        /\ job' = [job EXCEPT ![w].pc = "loaded", ![w].outcome = outcome]
    BY <1>6 DEF LoadStatus, Idle
  <2> HIDE DEF outcome
  <2>3. job' = [job EXCEPT ![w] = j]
    BY <2>1 DEF DiagnosisInv, Jobs
  <2>2. DOMAIN j = DOMAIN job[w] /\ j.pc = "loaded" /\ j.event = job[w].event
    BY <1>3, <2>1 DEF JobFields
  <2> HIDE DEF j
  <2> QED
    BY <1>1, <2>1, <2>2, <2>3 DEF Steps
<1>7. CASE ClaimEvent(w)
  <2> DEFINE j == [job[w] EXCEPT !.pc = "ready", !.outcome = "duplicate_ignored"]
  <2>1. job[w] # Idle /\ UNCHANGED <<tables, ledger_lock>>
    BY <1>7 DEF ClaimEvent, Idle
  <2>2. job' = [job EXCEPT ![w] = j] \/ Advance(w, "claimed")
    BY <1>7 DEF ClaimEvent, DiagnosisInv, Jobs
  <2>3. DOMAIN j = DOMAIN job[w] /\ j.pc = "ready" /\ j.event = job[w].event
    BY <1>3, <2>1 DEF JobFields
  <2> HIDE DEF j
  <2> QED
    BY <1>1, <1>4, <2>1, <2>2, <2>3 DEF Steps
<1>8. CASE Decide(w)
  <2> DEFINE touches == touches_in_window(job[w].event.payer, job[w].now)
             j == [job[w] EXCEPT !.pc = "ready", !.touches = touches]
  <2>1. /\ job[w] # Idle /\ UNCHANGED <<tables, ledger_lock>>
        /\ job' = [job EXCEPT ![w].pc = "ready", ![w].touches = touches]
    BY <1>8 DEF Decide, Idle
  <2> HIDE DEF touches
  <2>3. job' = [job EXCEPT ![w] = j]
    BY <2>1 DEF DiagnosisInv, Jobs
  <2>2. DOMAIN j = DOMAIN job[w] /\ j.pc = "ready" /\ j.event = job[w].event
    BY <1>3, <2>1 DEF JobFields
  <2> HIDE DEF j
  <2> QED
    BY <1>1, <2>1, <2>2, <2>3 DEF Steps
<1>9. CASE LockLedger(w)
  BY <1>4, <1>9 DEF LockLedger, Idle, Steps, tables
<1>10. CASE Answer(w)
  BY <1>2, <1>10 DEF Answer
<1>11. CASE Fail(w)
  BY <1>2, <1>11 DEF Fail, ReleaseLocks
<1>12. CASE EndDelivery(w)
  BY <1>2, <1>12 DEF EndDelivery, ReleaseLocks
<1> QED
  BY <1>5, <1>6, <1>7, <1>8, <1>9, <1>10, <1>11, <1>12

(* A delivery's commit: its rows are about its event, and so are the       *)
(* decision it may make and the outbox entry it may write.                 *)
LEMMA CommitAppends ==
  ASSUME IsSeq(ledger), NEW w, Commit(w), job[w].event \in Events
  PROVE  IsSeq(ledger') /\ \A o : o \notin Events => RowsOf(ledger', o) = RowsOf(ledger, o)
<1> DEFINE e == job[w].event
           outcome == job[w].outcome
           forged == Entry(NoEntity, "webhook.signature_invalid", e)
           duplicate == Entry(IF Supported(e) THEN Subject(e) ELSE NoEntity, "webhook.duplicate_ignored", e)
<1>1. \/ ledger' = Append(ledger, forged)
      \/ ledger' = Append(ledger, duplicate)
      \/ RecordEvent(e, outcome, job[w].touches, job[w].now, job[w].settings)
  BY DEF Commit, RecordForged, RecordDuplicate
<1>2. /\ forged.event = e /\ duplicate.event = e
      /\ WebhookRow(e, outcome).event = e /\ DecisionRow(e).event = e
  BY DEF Entry, WebhookRow, DecisionRow
<1>3. ASSUME NEW x, x.event = e, ledger' = Append(ledger, x)
      PROVE  IsSeq(ledger') /\ \A o : o \notin Events => RowsOf(ledger', o) = RowsOf(ledger, o)
  BY <1>3, AppendSeq, RowsOfAppend
<1> HIDE DEF forged, duplicate
<1>4. CASE RecordEvent(e, outcome, job[w].touches, job[w].now, job[w].settings)
  <2> DEFINE S == {ledger[i] : i \in DOMAIN ledger} \union {WebhookRow(e, outcome), DecisionRow(e)}
  <2>1. ledger \in Seq(S)
    <3>1. Len(ledger) \in Nat /\ DOMAIN ledger = 1 .. Len(ledger) /\ ledger = [i \in 1 .. Len(ledger) |-> ledger[i]]
      BY DEF IsSeq
    <3>2. ledger \in [1 .. Len(ledger) -> S]
      BY <3>1
    <3> QED
      BY <3>1, <3>2, SeqDef
  <2>2. WebhookRow(e, outcome) \in S /\ DecisionRow(e) \in S
    OBVIOUS
  <2> HIDE DEF S, e, outcome
  <2>3. \/ ledger' = Append(Append(ledger, DecisionRow(e)), WebhookRow(e, outcome))
        \/ ledger' = Append(ledger, WebhookRow(e, outcome))
    BY <1>4, <2>1, <2>2, RecordEventAppends
  <2>4. ASSUME ledger' = Append(Append(ledger, DecisionRow(e)), WebhookRow(e, outcome))
        PROVE  IsSeq(ledger') /\ \A o : o \notin Events => RowsOf(ledger', o) = RowsOf(ledger, o)
    <3> DEFINE mid == Append(ledger, DecisionRow(e))
    <3>1. IsSeq(mid) /\ \A o : o \notin Events => RowsOf(mid, o) = RowsOf(ledger, o)
      BY <1>2, AppendSeq, RowsOfAppend DEF e
    <3>2. ledger' = Append(mid, WebhookRow(e, outcome))
      BY <2>4
    <3> HIDE DEF mid
    <3> QED
      BY <1>2, <3>1, <3>2, AppendSeq, RowsOfAppend DEF e
  <2> QED
    BY <1>2, <1>3, <2>3, <2>4
<1> QED
  BY <1>1, <1>2, <1>3, <1>4

LEMMA CommitTables ==
  ASSUME Tables, NEW w, Commit(w), job[w].event \in Events
  PROVE  /\ Tables' /\ webhook_events \subseteq webhook_events'
         /\ OfDiagnosis' = OfDiagnosis
         /\ \A o : o \in DOMAIN outbox /\ o \notin Events => outbox'[o] = outbox[o]
<1> DEFINE e == job[w].event
           d == DecisionFor(e, job[w].touches, job[w].now, job[w].settings)
<1>1. IsSeq(ledger')
  BY CommitAppends DEF Tables
<1>2. d.event = e
  BY DEF DecisionFor
<1> HIDE DEF d
<1>3. \/ UNCHANGED <<payments, webhook_events, decisions, outbox>>
      \/ /\ webhook_events' = webhook_events \union {e}
         /\ payments' = payments \/ payments' = [payments EXCEPT ![Subject(e)] = Upsert(payments[Subject(e)], e)]
         /\ decisions' = decisions \/ decisions' = decisions \union {d}
         /\ outbox' = outbox \/ outbox' = [outbox EXCEPT ![e] = OutboxRow(d)]
  BY <1>2 DEF Commit, RecordForged, RecordDuplicate, RecordEvent, Enqueued, d
<1>4. e \in Events /\ e.kind # "diagnosis"
  BY EventAssumption DEF Kinds
<1> HIDE DEF e
<1>5. CASE UNCHANGED <<payments, webhook_events, decisions, outbox>>
  BY <1>1, <1>5 DEF Tables, OfDiagnosis
<1>6. CASE /\ webhook_events' = webhook_events \union {e}
           /\ payments' = payments \/ payments' = [payments EXCEPT ![Subject(e)] = Upsert(payments[Subject(e)], e)]
           /\ decisions' = decisions \/ decisions' = decisions \union {d}
           /\ outbox' = outbox \/ outbox' = [outbox EXCEPT ![e] = OutboxRow(d)]
  <2>1. webhook_events' \subseteq Events /\ webhook_events \subseteq webhook_events'
    BY <1>4, <1>6 DEF Tables
  <2>2. OfDiagnosis' = OfDiagnosis
    BY <1>2, <1>4, <1>6 DEF OfDiagnosis
  <2>3. e \in DOMAIN outbox /\ OutboxRow(d).status = "pending"
    BY <1>4 DEF Tables, OutboxRow
  <2>4. /\ DOMAIN outbox' = DOMAIN outbox
        /\ \A o \in DOMAIN outbox : outbox'[o] = outbox[o] \/ (o = e /\ outbox'[o] = OutboxRow(d))
    BY <1>6
  <2>5. \A o \in DOMAIN outbox' : outbox'[o] = NoEntry \/ outbox'[o].status = "pending"
    BY <2>3, <2>4 DEF Tables
  <2>6. \A c \in decisions' : c.event \in DOMAIN outbox'
    BY <1>2, <1>6, <2>3, <2>4 DEF Tables
  <2>7. DOMAIN payments' = Subjects
    BY <1>6 DEF Tables
  <2>8. \A s \in Subjects : payments'[s].status = "failed" => FailedWith(s, payments'[s], webhook_events')
    <3> SUFFICES ASSUME NEW s \in Subjects, payments'[s].status = "failed"
                 PROVE  FailedWith(s, payments'[s], webhook_events')
      OBVIOUS
    <3> DEFINE row == Upsert(payments[Subject(e)], e)
    <3>1. row.status = e.kind /\ row.amount_paise = e.amount_paise
      BY DEF Upsert
    <3> HIDE DEF row
    <3>2. payments'[s] = payments[s] \/ (s = Subject(e) /\ payments'[s] = row)
      BY <1>6 DEF Tables, row
    <3>3. CASE payments'[s] = payments[s]
      BY <2>1, <3>3 DEF Tables, FailedWith
    <3>4. CASE s = Subject(e) /\ payments'[s] = row
      BY <1>6, <3>1, <3>4 DEF FailedWith
    <3> QED
      BY <3>2, <3>3, <3>4
  <2>9. \A f \in Events : f \in DOMAIN outbox'
    BY <2>4 DEF Tables
  <2>10. Tables'
    BY <1>1, <2>1, <2>5, <2>6, <2>7, <2>8, <2>9 DEF Tables
  <2> QED
    BY <1>4, <2>1, <2>2, <2>4, <2>10
<1> QED
  BY <1>3, <1>5, <1>6

LEMMA DeliveryCommitInv ==
  ASSUME DiagnosisInv, NEW w \in Workers, Commit(w), UNCHANGED <<diagnoses, pass>>
  PROVE  DiagnosisInv'
<1> DEFINE j == [job[w] EXCEPT !.pc = "answering"]
<1>1. job[w] # Idle /\ job[w].event \in Events /\ DOMAIN job[w] = JobFields
  BY DEF Commit, Idle, DiagnosisInv, Jobs
<1>2. Jobs'
  <2>1. job' = [job EXCEPT ![w] = j] /\ ledger_lock' \in {ledger_lock, w, Free}
    BY DEF Commit, Advance, ReleaseLocks, DiagnosisInv, Jobs
  <2>2. DOMAIN j = JobFields /\ j.pc \in Steps /\ j.event \in Events
    BY <1>1 DEF JobFields, Steps
  <2> HIDE DEF j
  <2> QED
    BY <2>1, <2>2, JobStep DEF DiagnosisInv
<1>3. \A o : o \notin Events => RowsOf(ledger', o) = RowsOf(ledger, o)
  BY <1>1, CommitAppends DEF DiagnosisInv, Tables
<1>4. /\ Tables' /\ webhook_events \subseteq webhook_events' /\ OfDiagnosis' = OfDiagnosis
      /\ \A o : o \in DOMAIN outbox /\ o \notin Events => outbox'[o] = outbox[o]
  BY <1>1, CommitTables DEF DiagnosisInv
<1>5. \A row, d : Backs(row, d, webhook_events) => Backs(row, d, webhook_events')
  BY <1>4 DEF Backs
<1>6. \A s, row : FailedWith(s, row, webhook_events) => FailedWith(s, row, webhook_events')
  BY <1>4 DEF FailedWith
<1>7. Published'
  BY <1>4 DEF DiagnosisInv, Published
<1>8. ASSUME NEW d \in OfDiagnosis PROVE Explained(d)'
  <2>1. Explained(d) /\ d.event \in DOMAIN outbox
    BY DEF DiagnosisInv, Tables, OfDiagnosis
  <2>2. d.event \notin Events
    BY <2>1, NotOfDiagnosis DEF Explained
  <2>3. \E i \in DOMAIN ledger' : RowsOf(ledger', d.event) = {i}
    BY <1>3, <2>1, <2>2 DEF Explained, RowsOf
  <2>4. outbox'[d.event] = outbox[d.event]
    BY <1>4, <2>1, <2>2
  <2> QED
    BY <1>5, <2>1, <2>3, <2>4 DEF Explained
<1>9. \A p \in Passes, s \in Subjects : Fresh(p, s, diagnoses') => RowsOf(ledger', Origin(p, s)) = {}
  BY <1>3, NotOfDiagnosis DEF DiagnosisInv
<1>10. \A p \in Passes : pass'[p] = Idle \/ InPass(p, pass'[p], diagnoses', webhook_events')
  <2> SUFFICES ASSUME NEW p \in Passes, pass[p] # Idle
               PROVE  InPass(p, pass[p], diagnoses, webhook_events')
    OBVIOUS
  <2>1. InPass(p, pass[p], diagnoses, webhook_events)
    BY InHand
  <2>2. PrivateDecisions(p, pass[p], webhook_events')
    BY <1>5, <2>1 DEF InPass, PrivateDecisions
  <2>3. Asking(p, pass[p], diagnoses, webhook_events')
    BY <1>6, <2>1 DEF InPass, Asking
  <2> QED
    BY <2>1, <2>2, <2>3 DEF InPass
<1> QED
  BY <1>2, <1>4, <1>7, <1>8, <1>9, <1>10 DEF DiagnosisInv

-----------------------------------------------------------------------------
(* The step of the induction: one case for each kind of action.            *)
LEMMA DiagnosisStepInv == DiagnosisInv /\ [DiagnosisNext]_allvars => DiagnosisInv'
<1> SUFFICES ASSUME DiagnosisInv, [DiagnosisNext]_allvars PROVE DiagnosisInv'
  OBVIOUS
<1>1. ASSUME NEW e \in Events, Arrives(e) PROVE DiagnosisInv'
  BY <1>1, DeliverInv
<1>2. ASSUME NEW w \in Workers, DeliveryWork(w) PROVE DiagnosisInv'
  BY <1>2, StatementInv, DeliveryCommitInv DEF DeliveryWork
<1>3. ASSUME NEW w \in Workers, Fail(w), UNCHANGED <<diagnoses, pass>> PROVE DiagnosisInv'
  BY <1>3, StatementInv
<1>4. ASSUME NEW p \in Passes, BeginPass(p) PROVE DiagnosisInv'
  BY <1>4, StartPassInv DEF BeginPass
<1>5. ASSUME NEW p \in Passes, PassWork(p) PROVE DiagnosisInv'
  BY <1>5, TakeUpInv, ModelAnswersInv, RecordDiagnosisInv, LogDecisionInv, CommitPassInv DEF PassWork
<1>6. ASSUME NEW p \in Passes, AbortPass(p) PROVE DiagnosisInv'
  BY <1>6, EndPassInv DEF AbortPass
<1>7. ASSUME NEW w \in Workers, NEW p \in Passes, BreakDeadlock(w, p) PROVE DiagnosisInv'
  <2>1. CASE EndDelivery(w)
    BY <2>1, StatementInv DEF EndDelivery
  <2> QED
    BY <1>7, <2>1, EndPassInv DEF BreakDeadlock
<1>8. CASE UNCHANGED allvars
  BY <1>8, QuietDelivery DEF allvars, vars, DiagnosisInv, Jobs
<1> QED
  BY <1>1, <1>2, <1>3, <1>4, <1>5, <1>6, <1>7, <1>8 DEF DiagnosisNext, AtRest, allvars

THEOREM DiagnosisInductive == DiagnosisSpec => []DiagnosisInv
<1>1. DiagnosisInit => DiagnosisInv
  BY DiagnosisInitInv
<1>2. DiagnosisInv /\ [DiagnosisNext]_allvars => DiagnosisInv'
  BY DiagnosisStepInv
<1> QED
  BY <1>1, <1>2, PTL DEF DiagnosisSpec

-----------------------------------------------------------------------------
(* A pass holds only what its statements put there, about known orders.    *)
THEOREM DiagnosisTypeCorrect == DiagnosisSpec => []DiagnosisTypeOK
<1>1. DiagnosisInv => DiagnosisTypeOK
  BY DEF DiagnosisInv, Jobs, Published, InPass, PassShaped, DiagnosisTypeOK
<1> QED
  BY <1>1, DiagnosisInductive, PTL

(* Every decision of a pass has its diagnosis, accepted and sure enough,   *)
(* one row of the ledger and an outbox entry exactly if it calls Razorpay; *)
(* every accepted and sure diagnosis has its decision.                     *)
THEOREM DecisionsAreExplained == DiagnosisSpec => []DiagnosisExplainsDecision
<1>1. ASSUME DiagnosisInv, NEW d \in OfDiagnosis
      PROVE  /\ \E i \in DiagnosesOf(d.order_id), settings \in Settings :
                  /\ diagnoses[i].by = d.event.by /\ diagnoses[i].output.kind = "output"
                  /\ diagnoses[i].output.grounded
                  /\ diagnoses[i].output.confidence >= settings.min_diagnosis_confidence
             /\ Cardinality({i \in DOMAIN ledger : ledger[i].event = d.event}) = 1
             /\ outbox[d.event] # NoEntry <=> d.authorized_intervention = "send_payment_link"
  <2>1. Explained(d)
    BY <1>1 DEF DiagnosisInv
  <2>2. \E i \in DiagnosesOf(d.order_id), settings \in Settings :
          /\ diagnoses[i].by = d.event.by /\ diagnoses[i].output.kind = "output"
          /\ diagnoses[i].output.grounded
          /\ diagnoses[i].output.confidence >= settings.min_diagnosis_confidence
    BY <2>1 DEF Explained, Backs, DiagnosesOf
  <2>3. Cardinality({i \in DOMAIN ledger : ledger[i].event = d.event}) = 1
    <3>1. PICK i : RowsOf(ledger, d.event) = {i}
      BY <2>1 DEF Explained
    <3>2. Cardinality({i}) = 1
      BY FS_Singleton
    <3> QED
      BY <3>1, <3>2 DEF RowsOf
  <2> QED
    BY <2>1, <2>2, <2>3 DEF Explained
<1>2. ASSUME DiagnosisInv, NEW i \in DOMAIN diagnoses, diagnoses[i].succeeded
      PROVE  \/ \E settings \in Settings : diagnoses[i].output.confidence
                                             < settings.min_diagnosis_confidence
             \/ \E d \in OfDiagnosis : d.event = Origin(diagnoses[i].by, diagnoses[i].order_id)
  BY <1>2 DEF DiagnosisInv, Published, Unsure
<1>3. DiagnosisInv => DiagnosisExplainsDecision
  BY <1>1, <1>2 DEF DiagnosisExplainsDecision
<1> QED
  BY <1>3, DiagnosisInductive, PTL

(* Whatever the model suggests, a customer is contacted over a diagnosis   *)
(* only if the engine's rules permit it.                                   *)
THEOREM RulesBindTheModel == DiagnosisSpec => []ModelCannotOverrideRules
<1>1. DiagnosisInv => ModelCannotOverrideRules
  <2> SUFFICES ASSUME DiagnosisInv, NEW d \in OfDiagnosis, d.authorized_intervention \in RequiresContact
               PROVE  \E settings \in Settings :
                        /\ \E i \in DiagnosesOf(d.order_id) :
                             /\ diagnoses[i].by = d.event.by
                             /\ diagnoses[i].output.category \in Recoverable \intersect CustomerActionable
                        /\ \E e \in webhook_events :
                             /\ e.kind = "failed" /\ Subject(e) = d.order_id
                             /\ e.amount_paise <= settings.human_approval_threshold_paise
                        /\ ~InQuietHours(d.decided_at, settings)
    BY DEF ModelCannotOverrideRules
  <2>1. PICK i \in DOMAIN diagnoses : Backs(diagnoses[i], d, webhook_events)
    BY DEF DiagnosisInv, Explained
  <2> QED
    BY <2>1 DEF Backs, DiagnosesOf
<1> QED
  BY <1>1, DiagnosisInductive, PTL

(* Two diagnoses of an order are of two passes that overlapped.            *)
THEOREM OncePerPass == DiagnosisSpec => []DiagnosedOncePerPass
<1>1. DiagnosisInv => DiagnosedOncePerPass
  <2> SUFFICES ASSUME DiagnosisInv, NEW s \in Subjects, NEW p \in Passes
               PROVE  Cardinality({i \in DiagnosesOf(s) : diagnoses[i].by = p}) <= 1
    BY DEF DiagnosedOncePerPass
  <2> DEFINE rows == {i \in DiagnosesOf(s) : diagnoses[i].by = p}
  <2>1. \A i, k \in rows : i = k
    BY DEF DiagnosisInv, Published, DiagnosesOf
  <2> HIDE DEF rows
  <2>2. CASE rows = {}
    <3>1. Cardinality({}) = 0
      BY FS_EmptySet
    <3> QED
      BY <2>2, <3>1 DEF rows
  <2>3. CASE rows # {}
    <3>1. PICK i \in rows : TRUE
      BY <2>3
    <3>2. rows = {i}
      BY <2>1
    <3>3. Cardinality(rows) = 1
      BY <3>2, FS_Singleton
    <3> QED
      BY <3>3 DEF rows
  <2> QED
    BY <2>2, <2>3
<1> QED
  BY <1>1, DiagnosisInductive, PTL
=============================================================================
