--------------------------- MODULE RecoveryProofs ---------------------------
(***************************************************************************)
(* From the webhook to the payment link: theorems about Recovery, for any  *)
(* events, settings, dispatchers, attempts, backoff, window and clock.     *)
(***************************************************************************)
EXTENDS Recovery, AtomicIngestProofs, WellFoundedInduction

-----------------------------------------------------------------------------
(* What a log says of an outreach whose row is given.                      *)
CapturesIn(log, s) == {i \in DOMAIN log : /\ log[i].event_type \in {"webhook.applied", "webhook.recovered"}
                                          /\ log[i].event.kind = "captured" /\ log[i].entity_id = s}

Attempts == Completions \union Failures

OutreachExplained(log, e, row) ==
  \E i \in RowsAbout(log, e, {"decision"}) :
    /\ RowsAbout(log, e, {"decision"}) = {i}
    /\ \A k \in CapturesIn(log, Subject(e)) \union RowsAbout(log, e, Attempts) : i < k
    /\ Cardinality(RowsAbout(log, e, Failures)) = row.attempts
    /\ Cardinality(RowsAbout(log, e, Completions)) = IF row.status = "complete" THEN 1 ELSE 0

(* No order is paid in the log and not in the payments table.              *)
PaidAsLogged(log, paid) == \A s \in Subjects : CapturesIn(log, s) # {} => paid[s].status = "captured"

LEMMA CapturesAppend ==
  ASSUME NEW S, NEW log \in Seq(S), NEW x \in S, NEW s
  PROVE  /\ \A i \in CapturesIn(log, s) : i \in 1 .. Len(log)
         /\ CapturesIn(Append(log, x), s) =
              IF /\ x.event_type \in {"webhook.applied", "webhook.recovered"}
                 /\ x.event.kind = "captured" /\ x.entity_id = s
                THEN CapturesIn(log, s) \union {Len(log) + 1} ELSE CapturesIn(log, s)
BY AppendedRows DEF CapturesIn

(* A row about something else leaves the explanation of an outreach alone, *)
(* a capture of its order included.                                        *)
LEMMA OtherRow ==
  ASSUME NEW log \in Seq(LedgerRows), NEW x \in LedgerRows, NEW e, NEW row,
         OutreachExplained(log, e, row),
         x.event # e \/ x.event_type \notin {"decision"} \union Attempts
  PROVE  OutreachExplained(Append(log, x), e, row)
<1> DEFINE longer == Append(log, x)
<1>1. PICK i \in RowsAbout(log, e, {"decision"}) :
        /\ RowsAbout(log, e, {"decision"}) = {i}
        /\ \A k \in CapturesIn(log, Subject(e)) \union RowsAbout(log, e, Attempts) : i < k
        /\ Cardinality(RowsAbout(log, e, Failures)) = row.attempts
        /\ Cardinality(RowsAbout(log, e, Completions)) = IF row.status = "complete" THEN 1 ELSE 0
  BY DEF OutreachExplained
<1>2. ASSUME NEW types \in SUBSET ({"decision"} \union Attempts)
      PROVE  RowsAbout(longer, e, types) = RowsAbout(log, e, types)
  <2>1. ~(x.event = e /\ x.event_type \in types)
    BY <1>2
  <2>2. RowsAbout(longer, e, types) =
          IF x.event = e /\ x.event_type \in types
            THEN RowsAbout(log, e, types) \union {Len(log) + 1} ELSE RowsAbout(log, e, types)
    BY RowsAboutAppend
  <2> QED
    BY <2>1, <2>2
<1>3. /\ RowsAbout(longer, e, {"decision"}) = RowsAbout(log, e, {"decision"})
      /\ RowsAbout(longer, e, Attempts) = RowsAbout(log, e, Attempts)
      /\ RowsAbout(longer, e, Failures) = RowsAbout(log, e, Failures)
      /\ RowsAbout(longer, e, Completions) = RowsAbout(log, e, Completions)
  BY <1>2 DEF Attempts
<1>4. i \in 1 .. Len(log) /\ Len(log) \in Nat
  BY RowsAboutAppend, AppendedRows
<1>5. \A k \in CapturesIn(longer, Subject(e)) : i < k
  BY <1>1, <1>4, CapturesAppend
<1> QED
  BY <1>1, <1>3, <1>5 DEF OutreachExplained

(* A decision that is the first row about its event, before any capture.   *)
LEMMA FirstRow ==
  ASSUME NEW log \in Seq(LedgerRows), NEW x \in LedgerRows, NEW e, NEW row,
         x.event = e, x.event_type = "decision",
         RowsAbout(log, e, {"decision"}) = {}, RowsAbout(log, e, Attempts) = {},
         CapturesIn(log, Subject(e)) = {}, row.attempts = 0, row.status # "complete"
  PROVE  OutreachExplained(Append(log, x), e, row)
<1> DEFINE longer == Append(log, x)
<1>1. RowsAbout(longer, e, {"decision"}) = {Len(log) + 1}
  BY RowsAboutAppend
<1>2. RowsAbout(longer, e, Attempts) = {}
  BY RowsAboutAppend DEF Attempts, Completions, Failures
<1>3. RowsAbout(longer, e, Failures) = {} /\ RowsAbout(longer, e, Completions) = {}
  BY <1>2 DEF RowsAbout, Attempts
<1>4. CapturesIn(longer, Subject(e)) = {}
  BY CapturesAppend
<1>5. Cardinality({}) = 0
  BY FS_EmptySet
<1> QED
  BY <1>1, <1>2, <1>3, <1>4, <1>5 DEF OutreachExplained

(* One more attempt of an outreach that is not complete.                   *)
LEMMA AttemptRow ==
  ASSUME NEW log \in Seq(LedgerRows), NEW x \in LedgerRows, NEW e, NEW row, NEW after,
         OutreachExplained(log, e, row), row.status # "complete",
         x.event = e, x.event_type \in Attempts,
         after.attempts = row.attempts + IF x.event_type \in Completions THEN 0 ELSE 1,
         after.status = "complete" <=> x.event_type \in Completions
  PROVE  OutreachExplained(Append(log, x), e, after)
<1> DEFINE longer == Append(log, x)
<1>1. PICK i \in RowsAbout(log, e, {"decision"}) :
        /\ RowsAbout(log, e, {"decision"}) = {i}
        /\ \A k \in CapturesIn(log, Subject(e)) \union RowsAbout(log, e, Attempts) : i < k
        /\ Cardinality(RowsAbout(log, e, Failures)) = row.attempts
        /\ Cardinality(RowsAbout(log, e, Completions)) = IF row.status = "complete" THEN 1 ELSE 0
  BY DEF OutreachExplained
<1>2. i \in 1 .. Len(log) /\ Len(log) \in Nat
  BY RowsAboutAppend, AppendedRows
<1>3. RowsAbout(longer, e, {"decision"}) = {i}
  BY <1>1, RowsAboutAppend DEF Attempts, Completions, Failures
<1>4. \A k \in CapturesIn(longer, Subject(e)) : i < k
  BY <1>1, <1>2, CapturesAppend
<1>5. \A k \in RowsAbout(longer, e, Attempts) : i < k
  BY <1>1, <1>2, RowsAboutAppend
<1>6. x.event_type \in Failures <=> x.event_type \notin Completions
  BY DEF Attempts, Completions, Failures
<1>7. Cardinality(RowsAbout(longer, e, Failures)) = after.attempts
  <2>1. Cardinality(RowsAbout(longer, e, Failures)) =
          Cardinality(RowsAbout(log, e, Failures))
            + IF x.event = e /\ x.event_type \in Failures THEN 1 ELSE 0
    BY RowCountAppend
  <2> QED
    BY <1>1, <1>6, <2>1
<1>8. Cardinality(RowsAbout(longer, e, Completions)) = IF after.status = "complete" THEN 1 ELSE 0
  <2>1. Cardinality(RowsAbout(longer, e, Completions)) =
          Cardinality(RowsAbout(log, e, Completions))
            + IF x.event = e /\ x.event_type \in Completions THEN 1 ELSE 0
    BY RowCountAppend
  <2> QED
    BY <1>1, <2>1
<1> QED
  BY <1>3, <1>4, <1>5, <1>7, <1>8 DEF OutreachExplained

(* What a delivery adds keeps the payments table as paid as the ledger.    *)
LEMMA NotCaptured ==
  ASSUME NEW log \in Seq(LedgerRows), NEW x \in LedgerRows, NEW rows, PaidAsLogged(log, rows),
         x.event_type \notin {"webhook.applied", "webhook.recovered"}
  PROVE  PaidAsLogged(Append(log, x), rows)
BY CapturesAppend DEF PaidAsLogged

LEMMA DeliveryCaptured ==
  ASSUME NEW log \in Seq(LedgerRows), NEW rows, DOMAIN rows = Subjects, PaidAsLogged(log, rows),
         NEW e \in Events, NEW outcome,
         outcome = Outcome(IF Supported(e) THEN rows[Subject(e)].status ELSE "none", e)
  PROVE  PaidAsLogged(Append(log, WebhookRow(e, outcome)),
                      IF outcome \in {"applied", "recovered"}
                        THEN [rows EXCEPT ![Subject(e)] = Upsert(rows[Subject(e)], e)] ELSE rows)
<1> DEFINE x      == WebhookRow(e, outcome)
           after  == IF outcome \in {"applied", "recovered"}
                       THEN [rows EXCEPT ![Subject(e)] = Upsert(rows[Subject(e)], e)] ELSE rows
<1>1. /\ outcome \in DOMAIN WebhookEventType
      /\ outcome \in {"applied", "recovered"} => Supported(e)
           /\ decide_transition(IF Supported(e) THEN rows[Subject(e)].status ELSE "none", e.kind)
  BY OutcomeKinds
<1>2. /\ x \in LedgerRows /\ x.event = e /\ x.event_type = WebhookEventType[outcome]
      /\ Supported(e) => x.entity_id = Subject(e)
  BY <1>1, RowTypes DEF WebhookRow, Entry
<1>3. x.event_type \in {"webhook.applied", "webhook.recovered"} <=> outcome \in {"applied", "recovered"}
  BY <1>1, <1>2, EventTypes
<1> HIDE DEF x
<1> SUFFICES ASSUME NEW s \in Subjects, CapturesIn(Append(log, x), s) # {}
             PROVE  after[s].status = "captured"
  BY DEF PaidAsLogged, x
<1>4. CASE x.event_type \in {"webhook.applied", "webhook.recovered"} /\ x.event.kind = "captured"
             /\ x.entity_id = s
  <2>1. after[s].status = e.kind
    BY <1>1, <1>2, <1>3, <1>4 DEF Upsert
  <2> QED
    BY <1>2, <1>4, <2>1
<1>5. CASE ~(x.event_type \in {"webhook.applied", "webhook.recovered"} /\ x.event.kind = "captured"
               /\ x.entity_id = s)
  <2>1. rows[s].status = "captured"
    BY <1>2, <1>5, CapturesAppend DEF PaidAsLogged
  <2>2. CASE after[s] = rows[s]
    BY <2>1, <2>2
  <2>3. CASE after[s] # rows[s]
    <3>1. outcome \in {"applied", "recovered"} /\ s = Subject(e) /\ Supported(e)
      BY <1>1, <2>3
    <3>2. e.kind = "captured"
      BY <1>1, <2>1, <3>1 DEF decide_transition, Allowed
    <3> QED
      BY <1>2, <1>3, <1>5, <3>1, <3>2
  <2> QED
    BY <2>2, <2>3
<1> QED
  BY <1>4, <1>5

-----------------------------------------------------------------------------
(* The inductive invariant.                                                *)
Tables ==
  /\ clock \in 0 .. MaxTime
  /\ link \in [Events -> {"none", "requested", "created"}]
  /\ visible_since \in [Events -> 0 .. clock]
  /\ outbox = [e \in Events |-> outbox[e]] /\ DOMAIN payments = Subjects
  /\ DOMAIN delivery = Events /\ DOMAIN run = Dispatchers
  /\ ledger \in Seq(LedgerRows)
  /\ webhook_events \subseteq Events
  /\ IsFiniteSet(decisions)
  /\ \A d \in decisions : d.event \in webhook_events /\ d.decided_at \in 0 .. clock

(* An event has one decision, and its outreach becomes visible as complete *)
(* no earlier than the decision was made.                                  *)
DecisionsDated ==
  /\ \A p, q \in decisions : p.event = q.event => p = q
  /\ \A d \in decisions : outbox[d.event].status = "complete" => d.decided_at <= visible_since[d.event]

(* What a log, rows of the outbox, the payments, the claimed events and    *)
(* the links have to do with each other.  Before its delivery nothing is   *)
(* known of an event; before its outreach is authorized nothing is tried.  *)
EventInBooks(e, log, rows, claimed, links) ==
  /\ e \notin claimed => rows[e] = NoEntry /\ RowsAbout(log, e, {"decision"}) = {}
  /\ rows[e] = NoEntry => links[e] = "none" /\ RowsAbout(log, e, Attempts) = {}
  /\ rows[e] # NoEntry =>
       /\ e.kind = "failed"
       /\ rows[e] \in OutboxRows
       /\ rows[e].status = "pending" => rows[e].attempts < MaxAttempts
       /\ rows[e].status = "complete" => links[e] = "created"
       /\ OutreachExplained(log, e, rows[e])

Books(log, rows, paid, claimed, links) ==
  /\ log \in Seq(LedgerRows)
  /\ PaidAsLogged(log, paid)
  /\ \A e \in Events : EventInBooks(e, log, rows, claimed, links)

(* The touches of a payer that could be seen, in the window, at a moment.  *)
VisibleIn(decided, rows, since, payer, t) ==
  {p \in decided : /\ p.payer_contact = payer
                   /\ rows[p.event].status = "complete"
                   /\ since[p.event] < t
                   /\ rows[p.event].updated_at >= t - TouchWindow}

GuardrailsHeld(d, settings) ==
  /\ d.authorized_intervention = "send_payment_link"
  /\ classify(d.event.reason, d.event.code).category \in Recoverable \intersect CustomerActionable
  /\ d.event.amount_paise <= settings.human_approval_threshold_paise
  /\ ~InQuietHours(d.decided_at, settings)
  /\ d.payer_contact # NoPayer =>
       Cardinality(VisibleIn(decisions, outbox, visible_since, d.payer_contact, d.decided_at))
         < settings.max_touches_per_payer_7d

WasAuthorized(e) == \E d \in decisions, settings \in Settings : d.event = e /\ GuardrailsHeld(d, settings)

(* What a delivery has counted is at least what could be seen when it      *)
(* began: whatever becomes visible now was not visible then.               *)
DeliverySound(e) ==
  InHand(e) =>
    /\ delivery[e] \in [now : 0 .. clock, touches : Nat \union {Uncounted}]
    /\ e \notin webhook_events
    /\ Counted(e) /\ e.payer # NoPayer =>
         Cardinality(VisibleIn(decisions, outbox, visible_since, e.payer, delivery[e].now))
           <= delivery[e].touches

(* The outbox as a run sees it.                                            *)
SeenBy(d) == [e \in Events |-> IF e \in DOMAIN run[d].rows THEN run[d].rows[e] ELSE outbox[e]]

RunTyped(d) ==
  /\ run[d] = [now |-> run[d].now, todo |-> run[d].todo,
               rows |-> run[d].rows, log |-> run[d].log]
  /\ run[d].now \in 0 .. clock
  /\ run[d].todo \subseteq DOMAIN run[d].rows /\ DOMAIN run[d].rows \subseteq Events
  /\ run[d].rows \in [DOMAIN run[d].rows -> OutboxRows]
  /\ run[d].log \in Seq(LedgerRows)

(* A run holds pending rows; until its first outcome it has changed none   *)
(* of them, and from then on its log continues the ledger.                 *)
RunSound(d) ==
  Running(d) =>
    /\ RunTyped(d)
    /\ \A e \in DOMAIN run[d].rows : outbox[e] # NoEntry /\ outbox[e].status = "pending"
    /\ \A e \in run[d].todo : run[d].rows[e].status = "pending"
    /\ run[d].log = <<>> => SeenBy(d) = outbox
    /\ run[d].log # <<>> => Books(ledger \o run[d].log, SeenBy(d), payments, webhook_events, link)

RunsApart(c, d) ==
  Running(c) /\ Running(d) =>
    /\ DOMAIN run[c].rows \intersect DOMAIN run[d].rows = {}
    /\ run[c].log = <<>> \/ run[d].log = <<>>

IInv ==
  /\ Tables
  /\ DecisionsDated
  /\ Books(ledger, outbox, payments, webhook_events, link)
  /\ \A e \in Events : outbox[e] # NoEntry => WasAuthorized(e)
  /\ \A e \in Events : DeliverySound(e)
  /\ \A d \in Dispatchers : RunSound(d)
  /\ \A c, d \in Dispatchers : c # d => RunsApart(c, d)

LEMMA RowIsEntry ==
  ASSUME NEW row \in OutboxRows
  PROVE  row # NoEntry /\ row.status \in {"pending", "complete", "failed_permanently"}
BY DEF OutboxRows, NoEntry

LEMMA InitInv == RecoveryInit => IInv
<1> SUFFICES ASSUME RecoveryInit PROVE IInv
  OBVIOUS
<1>1. /\ ledger = <<>> /\ decisions = {} /\ webhook_events = {} /\ clock = 0
      /\ outbox = [e \in Events |-> NoEntry] /\ payments = [s \in Subjects |-> NoPayment]
      /\ link = [e \in Events |-> "none"] /\ visible_since = [e \in Events |-> 0]
      /\ delivery = [e \in Events |-> NoDelivery] /\ run = [d \in Dispatchers |-> Idle]
  BY DEF RecoveryInit, TablesInit
<1>2. Tables /\ DecisionsDated
  BY <1>1, BackoffAssumption, FS_EmptySet DEF Tables, DecisionsDated
<1>3. Books(ledger, outbox, payments, webhook_events, link)
  BY <1>1 DEF Books, EventInBooks, PaidAsLogged, CapturesIn, RowsAbout
<1>4. \A e \in Events : outbox[e] = NoEntry /\ ~InHand(e)
  BY <1>1 DEF InHand
<1>5. \A d \in Dispatchers : ~Running(d)
  BY <1>1 DEF Running
<1> QED
  BY <1>2, <1>3, <1>4, <1>5 DEF IInv, DeliverySound, RunSound, RunsApart

-----------------------------------------------------------------------------
(* Books under the changes made to them.                                   *)

(* Links come to exist for entries that are there, and stay.               *)
LinksGrow(rows, links, more) ==
  \A e \in Events : more[e] # links[e] => rows[e] # NoEntry /\ links[e] # "created"

LEMMA BooksLink ==
  ASSUME NEW log, NEW rows, NEW paid, NEW claimed, NEW links, NEW more,
         Books(log, rows, paid, claimed, links), LinksGrow(rows, links, more)
  PROVE  Books(log, rows, paid, claimed, more)
BY DEF Books, EventInBooks, LinksGrow

(* An outcome of an outreach that was pending.                             *)
LEMMA BooksSettle ==
  ASSUME NEW log, NEW rows, NEW paid, NEW claimed, NEW links,
         Books(log, rows, paid, claimed, links), DOMAIN rows = Events,
         NEW e \in Events, rows[e] # NoEntry, rows[e].status = "pending",
         NEW row \in OutboxRows, NEW event_type \in Attempts,
         row.attempts = rows[e].attempts + IF event_type \in Completions THEN 0 ELSE 1,
         row.status = "complete" <=> event_type \in Completions,
         row.status = "pending" => row.attempts < MaxAttempts,
         row.status = "complete" => links[e] = "created"
  PROVE  /\ Entry(Subject(e), event_type, e) \in LedgerRows
         /\ Books(Append(log, Entry(Subject(e), event_type, e)), [rows EXCEPT ![e] = row],
                  paid, claimed, links)
<1> DEFINE x == Entry(Subject(e), event_type, e)
           after == [rows EXCEPT ![e] = row]
<1>1. x \in LedgerRows /\ x.event = e /\ x.event_type = event_type
  <2>1. e.kind = "failed"
    BY DEF Books, EventInBooks
  <2>2. Subject(e) \in Subjects
    BY <2>1 DEF Subjects, Supported
  <2>3. event_type \in EventTypeNames
    BY DEF EventTypeNames, Attempts, Completions, Failures
  <2> QED
    BY <2>2, <2>3 DEF Entry, LedgerRows
<1> HIDE DEF x
<1>2. /\ log \in Seq(LedgerRows) /\ PaidAsLogged(log, paid)
      /\ \A f \in Events : EventInBooks(f, log, rows, claimed, links)
  BY DEF Books
<1>3. x.event_type \notin {"decision", "webhook.applied", "webhook.recovered"}
  BY <1>1 DEF Attempts, Completions, Failures
<1>4. PaidAsLogged(Append(log, x), paid)
  BY <1>1, <1>2, <1>3, NotCaptured
<1>5. Append(log, x) \in Seq(LedgerRows)
  BY <1>1, <1>2, AppendedRows
<1>6. ASSUME NEW f \in Events PROVE EventInBooks(f, Append(log, x), after, claimed, links)
  <2>1. RowsAbout(Append(log, x), f, {"decision"}) = RowsAbout(log, f, {"decision"})
    BY <1>1, <1>2, <1>3, RowsAboutAppend
  <2>2. CASE f = e
    <3>1. after[f] = row /\ row # NoEntry /\ e.kind = "failed" /\ e \in claimed
      BY <1>2, <2>2, RowIsEntry DEF EventInBooks
    <3>2. OutreachExplained(Append(log, x), f, row)
      BY <1>1, <1>2, <2>2, AttemptRow DEF EventInBooks
    <3> QED
      BY <1>2, <2>1, <2>2, <3>1, <3>2 DEF EventInBooks
  <2>3. CASE f # e
    <3>1. after[f] = rows[f]
      BY <2>3
    <3>2. RowsAbout(Append(log, x), f, Attempts) = RowsAbout(log, f, Attempts)
      BY <1>1, <1>2, <2>3, RowsAboutAppend
    <3>3. OutreachExplained(log, f, rows[f]) => OutreachExplained(Append(log, x), f, rows[f])
      BY <1>1, <1>2, <2>3, OtherRow
    <3> QED
      BY <1>2, <2>1, <3>1, <3>2, <3>3 DEF EventInBooks
  <2> QED
    BY <2>2, <2>3
<1> QED
  BY <1>1, <1>4, <1>5, <1>6 DEF Books, x

(* A delivery that decides nothing adds one row to the log.                *)
LEMMA BooksSilent ==
  ASSUME NEW log, NEW rows, NEW paid, NEW claimed, NEW links,
         Books(log, rows, paid, claimed, links),
         NEW e \in Events, NEW x \in LedgerRows, x.event_type \notin {"decision"} \union Attempts,
         NEW paid_after, PaidAsLogged(Append(log, x), paid_after),
         NEW claimed_after, claimed \subseteq claimed_after
  PROVE  Books(Append(log, x), rows, paid_after, claimed_after, links)
<1>1. log \in Seq(LedgerRows) /\ \A f \in Events : EventInBooks(f, log, rows, claimed, links)
  BY DEF Books
<1>2. Append(log, x) \in Seq(LedgerRows)
  BY <1>1, AppendedRows
<1>3. ASSUME NEW f \in Events PROVE EventInBooks(f, Append(log, x), rows, claimed_after, links)
  <2>1. RowsAbout(Append(log, x), f, {"decision"}) = RowsAbout(log, f, {"decision"})
    BY <1>1, RowsAboutAppend
  <2>2. RowsAbout(Append(log, x), f, Attempts) = RowsAbout(log, f, Attempts)
    BY <1>1, RowsAboutAppend
  <2>3. OutreachExplained(log, f, rows[f]) => OutreachExplained(Append(log, x), f, rows[f])
    BY <1>1, OtherRow
  <2> QED
    BY <1>1, <2>1, <2>2, <2>3 DEF EventInBooks
<1> QED
  BY <1>2, <1>3 DEF Books

(* A delivery that decides adds the decision's row first, and the outbox   *)
(* entry when a link is to be sent.                                        *)
LEMMA BooksDecide ==
  ASSUME NEW log, NEW rows, NEW paid, NEW claimed, NEW links,
         Books(log, rows, paid, claimed, links), DOMAIN rows = Events,
         NEW e \in Events, e \notin claimed, e.kind = "failed", CapturesIn(log, Subject(e)) = {},
         NEW x \in LedgerRows, x.event_type \notin {"decision"} \union Attempts,
         NEW rows_after, \A f \in Events \ {e} : rows_after[f] = rows[f],
         \/ rows_after[e] = NoEntry
         \/ rows_after[e] \in OutboxRows /\ rows_after[e].status = "pending" /\ rows_after[e].attempts = 0,
         NEW paid_after, PaidAsLogged(Append(Append(log, DecisionRow(e)), x), paid_after)
  PROVE  Books(Append(Append(log, DecisionRow(e)), x), rows_after, paid_after, claimed \union {e}, links)
<1> DEFINE y == DecisionRow(e)
           longer == Append(log, y)
<1>1. log \in Seq(LedgerRows) /\ \A f \in Events : EventInBooks(f, log, rows, claimed, links)
  BY DEF Books
<1>2. y \in LedgerRows /\ y.event = e /\ y.event_type = "decision"
  BY RowTypes DEF DecisionRow, Entry
<1> HIDE DEF y
<1>3. longer \in Seq(LedgerRows) /\ Append(longer, x) \in Seq(LedgerRows)
  BY <1>1, <1>2, AppendedRows
<1>4. ASSUME NEW f \in Events
      PROVE  EventInBooks(f, Append(longer, x), rows_after, claimed \union {e}, links)
  <2>1. RowsAbout(Append(longer, x), f, Attempts) = RowsAbout(log, f, Attempts)
    <3>1. RowsAbout(longer, f, Attempts) = RowsAbout(log, f, Attempts)
      BY <1>1, <1>2, RowsAboutAppend DEF Attempts, Completions, Failures
    <3> HIDE DEF longer
    <3> QED
      BY <1>3, <3>1, RowsAboutAppend
  <2>2. CASE f # e
    <3>1. RowsAbout(Append(longer, x), f, {"decision"}) = RowsAbout(log, f, {"decision"})
      <4>1. RowsAbout(longer, f, {"decision"}) = RowsAbout(log, f, {"decision"})
        BY <1>1, <1>2, <2>2, RowsAboutAppend
      <4> HIDE DEF longer
      <4> QED
        BY <1>3, <4>1, RowsAboutAppend
    <3>2. OutreachExplained(log, f, rows[f]) => OutreachExplained(Append(longer, x), f, rows[f])
      <4>1. OutreachExplained(log, f, rows[f]) => OutreachExplained(longer, f, rows[f])
        BY <1>1, <1>2, <2>2, OtherRow
      <4> HIDE DEF longer
      <4> QED
        BY <1>3, <4>1, OtherRow
    <3> QED
      BY <1>1, <2>1, <2>2, <3>1, <3>2 DEF EventInBooks
  <2>3. CASE f = e
    <3>1. links[e] = "none" /\ RowsAbout(log, e, Attempts) = {} /\ RowsAbout(log, e, {"decision"}) = {}
      BY <1>1 DEF EventInBooks
    <3>2. CASE rows_after[e] = NoEntry
      BY <2>1, <2>3, <3>1, <3>2 DEF EventInBooks
    <3>3. CASE rows_after[e] # NoEntry
      <4>1. /\ rows_after[e] \in OutboxRows /\ rows_after[e].status = "pending"
            /\ rows_after[e].attempts = 0 /\ 0 < MaxAttempts
        BY <3>3, AttemptsAssumption
      <4>2. OutreachExplained(longer, e, rows_after[e])
        BY <1>1, <1>2, <3>1, <4>1, FirstRow
      <4>3. OutreachExplained(Append(longer, x), e, rows_after[e])
        <5> HIDE DEF longer
        <5> QED
          BY <1>3, <4>2, OtherRow
      <4> QED
        BY <2>3, <3>3, <4>1, <4>3 DEF EventInBooks
    <3> QED
      BY <3>2, <3>3
  <2> QED
    BY <2>2, <2>3
<1> QED
  BY <1>3, <1>4 DEF Books, y

-----------------------------------------------------------------------------
(* What was visible before a moment becomes only less: an outreach that    *)
(* becomes visible as complete does so now, however early it is dated.     *)
OnlyAppearsNow ==
  /\ decisions \subseteq decisions'
  /\ \A p \in decisions' : outbox'[p.event].status = "complete" =>
       \/ /\ p \in decisions
          /\ outbox'[p.event] = outbox[p.event] /\ visible_since'[p.event] = visible_since[p.event]
       \/ visible_since'[p.event] = clock

LEMMA VisibleFades ==
  ASSUME Tables, OnlyAppearsNow, NEW payer, NEW t \in 0 .. clock
  PROVE  /\ Cardinality(VisibleIn(decisions, outbox, visible_since, payer, t)) \in Nat
         /\ Cardinality(VisibleIn(decisions', outbox', visible_since', payer, t)) \in Nat
         /\ Cardinality(VisibleIn(decisions', outbox', visible_since', payer, t))
              <= Cardinality(VisibleIn(decisions, outbox, visible_since, payer, t))
<1> DEFINE before == VisibleIn(decisions, outbox, visible_since, payer, t)
           after  == VisibleIn(decisions', outbox', visible_since', payer, t)
<1>1. before \subseteq decisions
  BY DEF VisibleIn
<1>2. IsFiniteSet(before)
  BY <1>1, FS_Subset DEF Tables
<1>3. after \subseteq before
  <2> SUFFICES ASSUME NEW p \in after PROVE p \in before
    OBVIOUS
  <2>1. /\ p \in decisions' /\ p.payer_contact = payer /\ outbox'[p.event].status = "complete"
        /\ visible_since'[p.event] < t /\ outbox'[p.event].updated_at >= t - TouchWindow
    BY DEF VisibleIn
  <2>2. visible_since'[p.event] # clock
    BY <2>1 DEF Tables
  <2>3. /\ p \in decisions
        /\ outbox'[p.event] = outbox[p.event] /\ visible_since'[p.event] = visible_since[p.event]
    BY <2>1, <2>2 DEF OnlyAppearsNow
  <2> QED
    BY <2>1, <2>3 DEF VisibleIn
<1> HIDE DEF before, after
<1>4. Cardinality(before) \in Nat
  BY <1>2, FS_CardinalityType
<1>5. IsFiniteSet(after) /\ Cardinality(after) <= Cardinality(before)
  BY <1>2, <1>3, FS_Subset
<1>6. Cardinality(after) \in Nat
  BY <1>5, FS_CardinalityType
<1> QED
  BY <1>4, <1>5, <1>6 DEF before, after

LEMMA StillAuthorized ==
  ASSUME Tables, OnlyAppearsNow, NEW e, WasAuthorized(e)
  PROVE  WasAuthorized(e)'
<1>1. PICK d \in decisions, settings \in Settings : d.event = e /\ GuardrailsHeld(d, settings)
  BY DEF WasAuthorized
<1> DEFINE before == Cardinality(VisibleIn(decisions, outbox, visible_since, d.payer_contact, d.decided_at))
           after  == Cardinality(VisibleIn(decisions', outbox', visible_since', d.payer_contact, d.decided_at))
<1>2. d.decided_at \in 0 .. clock
  BY DEF Tables
<1>3. before \in Nat /\ after \in Nat /\ after <= before
  BY <1>2, VisibleFades
<1>4. settings.max_touches_per_payer_7d \in Nat
  BY SettingsAssumption
<1>5. d.payer_contact # NoPayer => before < settings.max_touches_per_payer_7d
  BY <1>1 DEF GuardrailsHeld
<1> HIDE DEF before, after
<1>6. d.payer_contact # NoPayer => after < settings.max_touches_per_payer_7d
  BY <1>3, <1>4, <1>5
<1>7. GuardrailsHeld(d, settings)'
  BY <1>1, <1>6 DEF GuardrailsHeld, after
<1>8. d \in decisions'
  BY DEF OnlyAppearsNow
<1> QED
  BY <1>1, <1>7, <1>8 DEF WasAuthorized

LEMMA DeliveryStaysSound ==
  ASSUME Tables, OnlyAppearsNow, NEW e \in Events, DeliverySound(e),
         delivery'[e] = delivery[e], e \in webhook_events' => e \in webhook_events,
         clock' \in Int, clock <= clock'
  PROVE  DeliverySound(e)'
<1> SUFFICES ASSUME InHand(e)' PROVE DeliverySound(e)'
  BY DEF DeliverySound
<1>1. /\ delivery[e].now \in 0 .. clock /\ delivery[e].touches \in Nat \union {Uncounted}
      /\ e \notin webhook_events
      /\ Counted(e) /\ e.payer # NoPayer =>
           Cardinality(VisibleIn(decisions, outbox, visible_since, e.payer, delivery[e].now))
             <= delivery[e].touches
  BY DEF DeliverySound, InHand
<1>2. PICK t \in 0 .. clock : t = delivery[e].now
  BY <1>1
<1> DEFINE before == Cardinality(VisibleIn(decisions, outbox, visible_since, e.payer, t))
           after  == Cardinality(VisibleIn(decisions', outbox', visible_since', e.payer, t))
<1>3. before \in Nat /\ after \in Nat /\ after <= before
  BY VisibleFades
<1>4. Counted(e) /\ e.payer # NoPayer => before <= delivery[e].touches
  BY <1>1, <1>2
<1>5. Counted(e)' <=> Counted(e)
  BY DEF Counted
<1>6. Counted(e) => delivery[e].touches \in Nat
  BY <1>1 DEF Counted
<1> HIDE DEF before, after
<1>7. Counted(e)' /\ e.payer # NoPayer => after <= delivery'[e].touches
  BY <1>3, <1>4, <1>5, <1>6
<1>8. delivery'[e] \in [now : 0 .. clock', touches : Nat \union {Uncounted}]
  <2>1. 0 .. clock \subseteq 0 .. clock'
    BY DEF Tables
  <2> QED
    BY <2>1 DEF DeliverySound, InHand
<1> QED
  BY <1>1, <1>2, <1>7, <1>8 DEF DeliverySound, after

(* Steps that write no table: what holds of the tables goes on holding.    *)
LEMMA TablesRest ==
  ASSUME IInv, UNCHANGED <<tables, visible_since>>,
         clock' \in clock .. MaxTime, link' \in [Events -> {"none", "requested", "created"}],
         DOMAIN delivery' = Events, DOMAIN run' = Dispatchers
  PROVE  /\ Tables' /\ DecisionsDated' /\ OnlyAppearsNow
         /\ \A e \in Events : outbox'[e] # NoEntry => WasAuthorized(e)'
<1>1. UNCHANGED <<payments, webhook_events, decisions, outbox, ledger, visible_since>>
  BY DEF tables
<1>2. Tables /\ DecisionsDated /\ clock \in 0 .. MaxTime
  BY DEF IInv, Tables
<1>3. clock' \in 0 .. MaxTime /\ \A n \in 0 .. clock : n \in 0 .. clock'
  BY <1>2
<1>4. visible_since' \in [Events -> 0 .. clock']
  BY <1>1, <1>2, <1>3 DEF Tables
<1>5. Tables'
  BY <1>1, <1>2, <1>3, <1>4 DEF Tables
<1>6. DecisionsDated'
  BY <1>1, <1>2 DEF DecisionsDated
<1>7. OnlyAppearsNow
  BY <1>1 DEF OnlyAppearsNow
<1> QED
  BY <1>1, <1>2, <1>5, <1>6, <1>7, StillAuthorized DEF IInv

(* A run nothing has happened to, beside links that came to exist.         *)
LEMMA RunStaysSound ==
  ASSUME Tables, NEW d \in Dispatchers, RunSound(d), run'[d] = run[d],
         UNCHANGED tables, LinksGrow(outbox, link, link'),
         clock' \in Int, clock <= clock'
  PROVE  RunSound(d)'
<1>1. UNCHANGED <<payments, webhook_events, outbox, ledger>>
  BY DEF tables
<1>2. SeenBy(d)' = SeenBy(d)
  BY <1>1 DEF SeenBy
<1> SUFFICES ASSUME Running(d) PROVE RunSound(d)'
  BY DEF RunSound, Running
<1>3. RunTyped(d)'
  BY DEF RunSound, RunTyped, Tables
<1>4. LinksGrow(SeenBy(d), link, link')
  BY RowIsEntry DEF RunSound, RunTyped, SeenBy, LinksGrow
<1>5. ASSUME run[d].log # <<>>
      PROVE  Books(ledger \o run[d].log, SeenBy(d), payments, webhook_events, link')
  <2>1. Books(ledger \o run[d].log, SeenBy(d), payments, webhook_events, link)
    BY <1>5 DEF RunSound
  <2> QED
    BY <1>4, <2>1, BooksLink
<1> QED
  BY <1>1, <1>2, <1>3, <1>5 DEF RunSound

(* Steps of runs that leave deliveries and tables alone.                   *)
LEMMA RunsStep ==
  ASSUME IInv, UNCHANGED <<tables, clock, delivery, visible_since>>,
         link' \in [Events -> {"none", "requested", "created"}], LinksGrow(outbox, link, link'),
         NEW d \in Dispatchers, DOMAIN run' = Dispatchers, RunSound(d)',
         \A c \in Dispatchers \ {d} : run'[c] = run[c] /\ RunsApart(c, d)'
  PROVE  IInv'
<1>1. Tables /\ clock' \in Int /\ clock <= clock' /\ clock' \in clock .. MaxTime
  BY DEF IInv, Tables
<1>2. /\ Tables' /\ DecisionsDated' /\ OnlyAppearsNow
      /\ \A e \in Events : outbox'[e] # NoEntry => WasAuthorized(e)'
  BY <1>1, TablesRest DEF Tables
<1>3. Books(ledger, outbox, payments, webhook_events, link)'
  <2>1. Books(ledger, outbox, payments, webhook_events, link')
    BY BooksLink DEF IInv
  <2> QED
    BY <2>1 DEF tables
<1>4. \A e \in Events : DeliverySound(e)'
  BY <1>1, <1>2, DeliveryStaysSound DEF IInv, tables
<1>5. \A c \in Dispatchers : RunSound(c)'
  BY <1>1, RunStaysSound DEF IInv
<1>6. ASSUME NEW a \in Dispatchers, NEW b \in Dispatchers, a # b PROVE RunsApart(a, b)'
  <2>1. CASE a = d \/ b = d
    BY <1>6, <2>1 DEF RunsApart
  <2>2. CASE a # d /\ b # d
    <3>1. run'[a] = run[a] /\ run'[b] = run[b] /\ RunsApart(a, b)
      BY <1>6, <2>2 DEF IInv
    <3> QED
      BY <3>1 DEF RunsApart, Running
  <2> QED
    BY <2>1, <2>2
<1> QED
  BY <1>2, <1>3, <1>4, <1>5, <1>6 DEF IInv

-----------------------------------------------------------------------------
(* The steps of a run.                                                     *)
LEMMA IdleRun ==
  ASSUME IInv, NEW d \in Dispatchers, UNCHANGED <<tables, clock, delivery, visible_since>>,
         link' \in [Events -> {"none", "requested", "created"}], LinksGrow(outbox, link, link'),
         run' = [run EXCEPT ![d] = Idle]
  PROVE  IInv'
<1>1. /\ DOMAIN run' = Dispatchers /\ run'[d] = Idle
      /\ \A c \in Dispatchers \ {d} : run'[c] = run[c]
  BY DEF IInv, Tables
<1>2. ~Running(d)'
  BY <1>1 DEF Running
<1>3. RunSound(d)' /\ \A c \in Dispatchers \ {d} : RunsApart(c, d)'
  BY <1>2 DEF RunSound, RunsApart
<1> QED
  BY <1>1, <1>3, RunsStep

LEMMA LongerLog ==
  ASSUME NEW log \in Seq(LedgerRows), NEW more \in Seq(LedgerRows), NEW x \in LedgerRows
  PROVE  /\ Append(more, x) \in Seq(LedgerRows) /\ Append(more, x) # <<>>
         /\ Append(log \o more, x) = log \o Append(more, x)
OBVIOUS

LEMMA SameLinks ==
  ASSUME IInv
  PROVE  link \in [Events -> {"none", "requested", "created"}] /\ LinksGrow(outbox, link, link)
BY DEF IInv, Tables, LinksGrow

LEMMA CrashInv == ASSUME IInv, NEW d \in Dispatchers, Crash(d) PROVE IInv'
BY SameLinks, IdleRun DEF Crash

LEMMA StartRunInv ==
  ASSUME IInv, NEW d \in Dispatchers, StartRun(d)
  PROVE  IInv'
<1>1. PICK rows \in SUBSET {e \in Events \ Claimed : Due(e)} :
        run' = [run EXCEPT ![d] = [now |-> clock, todo |-> rows,
                                   rows |-> [e \in rows |-> outbox[e]], log |-> <<>>]]
  BY DEF StartRun
<1> DEFINE begun == [now |-> clock, todo |-> rows,
                     rows |-> [e \in rows |-> outbox[e]], log |-> <<>>]
<1>2. UNCHANGED <<tables, clock, delivery, link, visible_since>> /\ UNCHANGED <<outbox, ledger>>
  BY DEF StartRun, tables
<1>3. /\ DOMAIN run' = Dispatchers /\ run'[d] = begun
      /\ \A c \in Dispatchers \ {d} : run'[c] = run[c]
  BY <1>1 DEF IInv, Tables
<1>4. \A e \in rows : /\ e \in Events /\ e \notin Claimed
                      /\ outbox[e].status = "pending" /\ outbox[e] # NoEntry /\ outbox[e] \in OutboxRows
  BY DEF Due, NoEntry, IInv, Books, EventInBooks
<1>5. RunTyped(d)'
  <2>1. <<>> \in Seq(LedgerRows) /\ clock \in 0 .. clock
    BY DEF IInv, Tables
  <2>2. [e \in rows |-> outbox[e]] \in [rows -> OutboxRows]
    BY <1>4
  <2> QED
    BY <1>2, <1>3, <1>4, <2>1, <2>2 DEF RunTyped
<1>6. SeenBy(d)' = outbox'
  <2>1. SeenBy(d)' = [e \in Events |-> IF e \in rows THEN [f \in rows |-> outbox[f]][e] ELSE outbox[e]]
    BY <1>2, <1>3 DEF SeenBy
  <2>2. SeenBy(d)' = [e \in Events |-> outbox[e]]
    BY <2>1
  <2> QED
    BY <1>2, <2>2 DEF IInv, Tables
<1>7. RunSound(d)'
  BY <1>2, <1>3, <1>4, <1>5, <1>6 DEF RunSound
<1>8. ASSUME NEW c \in Dispatchers \ {d} PROVE RunsApart(c, d)'
  <2>1. Running(c) => DOMAIN run[c].rows \subseteq Claimed
    BY DEF Claimed
  <2>2. Running(c)' <=> Running(c)
    BY <1>3 DEF Running
  <2>3. DOMAIN run'[d].rows = rows /\ run'[d].log = <<>>
    BY <1>3
  <2> QED
    BY <1>3, <1>4, <2>1, <2>2, <2>3 DEF RunsApart
<1> QED
  BY <1>2, <1>3, <1>7, <1>8, SameLinks, RunsStep

LEMMA SkipRowInv ==
  ASSUME IInv, NEW d \in Dispatchers, NEW e \in Events, SkipRow(d, e)
  PROVE  IInv'
<1>1. /\ Running(d) /\ UNCHANGED <<tables, clock, delivery, link, visible_since>>
      /\ UNCHANGED <<outbox, ledger, payments, webhook_events>>
      /\ run' = [run EXCEPT ![d].todo = run[d].todo \ {e}]
  BY DEF SkipRow, tables
<1>2. RunSound(d) /\ RunTyped(d) /\ DOMAIN run = Dispatchers
  BY <1>1 DEF IInv, RunSound, Tables
<1>3. /\ DOMAIN run' = Dispatchers
      /\ \A c \in Dispatchers \ {d} : run'[c] = run[c]
      /\ run'[d] = [run[d] EXCEPT !.todo = run[d].todo \ {e}]
  BY <1>1, <1>2
<1>4. run'[d] = [now |-> run[d].now, todo |-> run[d].todo \ {e},
                 rows |-> run[d].rows, log |-> run[d].log]
  BY <1>2, <1>3 DEF RunTyped
<1>5. RunTyped(d)'
  BY <1>1, <1>2, <1>4 DEF RunTyped
<1>6. SeenBy(d)' = SeenBy(d)
  BY <1>1, <1>4 DEF SeenBy
<1>7. RunSound(d)'
  BY <1>1, <1>2, <1>4, <1>5, <1>6 DEF RunSound
<1>8. ASSUME NEW c \in Dispatchers \ {d} PROVE RunsApart(c, d)'
  <2>1. RunsApart(c, d) /\ run'[c] = run[c]
    BY <1>3 DEF IInv
  <2>2. run'[d].rows = run[d].rows /\ run'[d].log = run[d].log
    BY <1>4
  <2> QED
    BY <1>1, <2>1, <2>2 DEF RunsApart, Running
<1> QED
  BY <1>1, <1>3, <1>7, <1>8, SameLinks, RunsStep

(* The rows of a run are outreach.                                         *)
LEMMA RowInHand ==
  ASSUME IInv, NEW d \in Dispatchers, NEW e \in Events, MayCall(d, e)
  PROVE  /\ Running(d) /\ RunTyped(d) /\ e \in DOMAIN run[d].rows
         /\ run[d].rows[e] \in OutboxRows /\ run[d].rows[e].status = "pending"
         /\ outbox[e] # NoEntry /\ run[d].now \in 0 .. MaxTime
         /\ Books(ledger \o run[d].log, SeenBy(d), payments, webhook_events, link)
         /\ run[d].rows[e].attempts < MaxAttempts
<1>1. Running(d) /\ e \in run[d].todo /\ RunSound(d)
  BY DEF MayCall, IInv
<1>2. /\ RunTyped(d) /\ e \in DOMAIN run[d].rows /\ run[d].rows[e] \in OutboxRows
      /\ run[d].rows[e].status = "pending" /\ outbox[e] # NoEntry
  BY <1>1 DEF RunSound, RunTyped
<1>3. run[d].now \in 0 .. MaxTime
  <2>1. run[d].now \in 0 .. clock /\ clock \in 0 .. MaxTime /\ MaxTime \in Nat
    BY <1>2, BackoffAssumption DEF RunTyped, IInv, Tables
  <2> QED
    BY <2>1
<1>4. Books(ledger \o run[d].log, SeenBy(d), payments, webhook_events, link)
  <2>1. CASE run[d].log = <<>>
    <3>1. ledger \o run[d].log = ledger
      BY <2>1 DEF IInv, Tables
    <3> QED
      BY <1>1, <2>1, <3>1 DEF IInv, RunSound
  <2>2. CASE run[d].log # <<>>
    BY <1>1, <2>2 DEF RunSound
  <2> QED
    BY <2>1, <2>2
<1>5. SeenBy(d)[e] = run[d].rows[e]
  BY <1>2 DEF SeenBy
<1>6. run[d].rows[e].attempts < MaxAttempts
  BY <1>2, <1>4, <1>5, RowIsEntry DEF Books, EventInBooks
<1> QED
  BY <1>1, <1>2, <1>3, <1>4, <1>6

(* What a run writes of a call.                                            *)
LEMMA RecordInv ==
  ASSUME IInv, NEW d \in Dispatchers, NEW e \in Events, MayCall(d, e),
         UNCHANGED <<tables, clock, delivery, visible_since>>,
         link' \in [Events -> {"none", "requested", "created"}], LinksGrow(outbox, link, link'),
         NEW row \in OutboxRows, NEW event_type \in Attempts, Record(d, e, row, event_type),
         row.attempts = run[d].rows[e].attempts + IF event_type \in Completions THEN 0 ELSE 1,
         row.status = "complete" <=> event_type \in Completions,
         row.status = "pending" => row.attempts < MaxAttempts,
         row.status = "complete" => link'[e] = "created"
  PROVE  IInv'
<1> DEFINE x == Entry(Subject(e), event_type, e)
           log == ledger \o run[d].log
<1>1. /\ Running(d) /\ RunTyped(d) /\ e \in DOMAIN run[d].rows
      /\ run[d].rows[e].status = "pending" /\ outbox[e] # NoEntry
      /\ Books(log, SeenBy(d), payments, webhook_events, link)
  BY RowInHand
<1>2. /\ UNCHANGED <<outbox, ledger, payments, webhook_events>>
      /\ DOMAIN run = Dispatchers /\ ledger \in Seq(LedgerRows)
  BY DEF tables, IInv, Tables
<1>3. /\ DOMAIN run' = Dispatchers
      /\ \A c \in Dispatchers \ {d} : run'[c] = run[c]
      /\ run'[d] = [now |-> run[d].now, todo |-> run[d].todo \ {e},
                    rows |-> [run[d].rows EXCEPT ![e] = row], log |-> Append(run[d].log, x)]
  <2>1. run'[d] = [run[d] EXCEPT !.todo = run[d].todo \ {e}, !.rows = [run[d].rows EXCEPT ![e] = row],
                                 !.log = Append(run[d].log, x)]
    BY <1>2 DEF Record
  <2>2. run'[d] = [now |-> run[d].now, todo |-> run[d].todo \ {e},
                   rows |-> [run[d].rows EXCEPT ![e] = row], log |-> Append(run[d].log, x)]
    <3> HIDE DEF x
    <3> QED
      BY <1>1, <2>1 DEF RunTyped
  <2> QED
    BY <1>2, <2>2 DEF Record
<1>4. SeenBy(d) = [f \in Events |-> SeenBy(d)[f]] /\ SeenBy(d)[e] = run[d].rows[e] /\ DOMAIN SeenBy(d) = Events
  BY <1>1 DEF SeenBy
<1>5. SeenBy(d)' = [SeenBy(d) EXCEPT ![e] = row]
  <2>1. SeenBy(d)' = [f \in Events |-> IF f \in DOMAIN run[d].rows
                                         THEN [run[d].rows EXCEPT ![e] = row][f] ELSE outbox[f]]
    BY <1>2, <1>3 DEF SeenBy
  <2>2. e \in DOMAIN run[d].rows
    BY <1>1
  <2> QED
    BY <2>1, <2>2 DEF SeenBy
<1>6. LinksGrow(SeenBy(d), link, link')
  BY <1>1, RowIsEntry DEF RunTyped, SeenBy, LinksGrow
<1>7. Books(log, SeenBy(d), payments, webhook_events, link')
  <2> HIDE DEF log
  <2> QED
    BY <1>1, <1>6, BooksLink
<1>8. /\ x \in LedgerRows
      /\ Books(Append(log, x), [SeenBy(d) EXCEPT ![e] = row], payments, webhook_events, link')
  <2>1. SeenBy(d)[e] # NoEntry
    BY <1>1, <1>4, RowIsEntry DEF RunTyped
  <2> HIDE DEF log
  <2> QED
    BY <1>1, <1>4, <1>7, <2>1, BooksSettle
<1> HIDE DEF x
<1>9. Append(log, x) = ledger \o Append(run[d].log, x) /\ Append(run[d].log, x) # <<>>
      /\ Append(run[d].log, x) \in Seq(LedgerRows)
  <2>1. run[d].log \in Seq(LedgerRows)
    BY <1>1 DEF RunTyped
  <2>2. x \in LedgerRows /\ ledger \in Seq(LedgerRows)
    BY <1>2, <1>8
  <2>3. /\ Append(run[d].log, x) \in Seq(LedgerRows) /\ Append(run[d].log, x) # <<>>
        /\ Append(ledger \o run[d].log, x) = ledger \o Append(run[d].log, x)
    BY ONLY <2>1, <2>2, LongerLog
  <2> QED
    BY <2>3
<1>10. RunTyped(d)'
  BY <1>1, <1>3, <1>9 DEF RunTyped
<1>11. RunSound(d)'
  <2>1. \A f \in DOMAIN run[d].rows : outbox[f] # NoEntry /\ outbox[f].status = "pending"
    BY <1>1 DEF IInv, RunSound
  <2>2. \A f \in run[d].todo \ {e} : run[d].rows[f].status = "pending" /\ f \in DOMAIN run[d].rows
    BY <1>1 DEF IInv, RunSound, RunTyped
  <2>3. Books(ledger \o run[d].log, SeenBy(d), payments, webhook_events, link)'
    <3> HIDE DEF log
    <3> QED
      BY <1>2, <1>3, <1>5, <1>8, <1>9
  <2> QED
    BY <1>2, <1>3, <1>9, <1>10, <2>1, <2>2, <2>3 DEF RunSound
<1>12. ASSUME NEW c \in Dispatchers \ {d} PROVE RunsApart(c, d)'
  <2>1. Running(c) => run[c].log = <<>>
    BY DEF MayCall, HoldsLedger
  <2>2. RunsApart(c, d) /\ (Running(c)' <=> Running(c))
    BY <1>3 DEF IInv, Running
  <2>3. DOMAIN run'[d].rows = DOMAIN run[d].rows
    BY <1>3
  <2> QED
    BY <1>1, <1>3, <2>1, <2>2, <2>3 DEF RunsApart
<1> QED
  BY <1>3, <1>11, <1>12, RunsStep

(* A request that a run makes leads to a link, in time or late.            *)
LEMMA RequestGrows ==
  ASSUME IInv, NEW e \in Events, outbox[e] # NoEntry,
         NEW state \in {"requested", "created"}, link[e] = "created" => state = "created"
  PROVE  /\ [link EXCEPT ![e] = state] \in [Events -> {"none", "requested", "created"}]
         /\ LinksGrow(outbox, link, [link EXCEPT ![e] = state])
<1>1. link \in [Events -> {"none", "requested", "created"}]
  BY DEF IInv, Tables
<1> QED
  BY <1>1 DEF LinksGrow

LEMMA LateArrivalInv ==
  ASSUME IInv, NEW e \in Events, LateArrival(e)
  PROVE  IInv'
<1>1. /\ link' = [link EXCEPT ![e] = "created"] /\ link[e] = "requested"
      /\ UNCHANGED <<tables, clock, delivery, run, visible_since>>
  BY DEF LateArrival
<1>2. outbox[e] # NoEntry
  BY <1>1 DEF IInv, Books, EventInBooks
<1>3. link' \in [Events -> {"none", "requested", "created"}] /\ LinksGrow(outbox, link, link')
  BY <1>1, <1>2, RequestGrows
<1>4. Tables /\ clock' \in Int /\ clock <= clock' /\ clock' \in clock .. MaxTime
  BY <1>1 DEF IInv, Tables
<1>5. /\ Tables' /\ DecisionsDated' /\ OnlyAppearsNow
      /\ \A f \in Events : outbox'[f] # NoEntry => WasAuthorized(f)'
  BY <1>1, <1>3, <1>4, TablesRest DEF Tables
<1>6. Books(ledger, outbox, payments, webhook_events, link)'
  <2>1. Books(ledger, outbox, payments, webhook_events, link')
    BY <1>3, BooksLink DEF IInv
  <2> QED
    BY <1>1, <2>1 DEF tables
<1>7. \A f \in Events : DeliverySound(f)'
  BY <1>1, <1>4, <1>5, DeliveryStaysSound DEF IInv, tables
<1>8. \A d \in Dispatchers : RunSound(d)'
  BY <1>1, <1>3, <1>4, RunStaysSound DEF IInv
<1>9. \A c, d \in Dispatchers : c # d => RunsApart(c, d)'
  BY <1>1 DEF IInv, RunsApart, Running
<1> QED
  BY <1>5, <1>6, <1>7, <1>8, <1>9 DEF IInv


RowSet(statuses, counts, moments) ==
  [status : statuses, attempts : counts, next_attempt_at : moments, updated_at : moments]

LEMMA RowsAreRecords ==
  OutboxRows = RowSet({"pending", "complete", "failed_permanently"}, 0 .. MaxAttempts, 0 .. MaxTime)
BY DEF OutboxRows, RowSet

(* The rows a call may leave.                                              *)
LEMMA CompletedRow ==
  ASSUME NEW row \in OutboxRows, NEW now \in 0 .. MaxTime
  PROVE  LET after == [row EXCEPT !.status = "complete", !.updated_at = now]
         IN  after \in OutboxRows /\ after.status = "complete" /\ after.attempts = row.attempts
<1>1. ASSUME NEW statuses, NEW counts, NEW moments, row \in RowSet(statuses, counts, moments),
             "complete" \in statuses, now \in moments
      PROVE  LET after == [row EXCEPT !.status = "complete", !.updated_at = now]
             IN  /\ after \in RowSet(statuses, counts, moments)
                 /\ after.status = "complete" /\ after.attempts = row.attempts
  BY <1>1 DEF RowSet
<1> QED
  BY <1>1, RowsAreRecords

LEMMA EndedRow ==
  ASSUME NEW tried \in OutboxRows
  PROVE  LET after == [tried EXCEPT !.status = "failed_permanently"]
         IN  /\ after \in OutboxRows /\ after.status = "failed_permanently"
             /\ after.attempts = tried.attempts
<1>1. ASSUME NEW statuses, NEW counts, NEW moments, tried \in RowSet(statuses, counts, moments),
             "failed_permanently" \in statuses
      PROVE  LET after == [tried EXCEPT !.status = "failed_permanently"]
             IN  /\ after \in RowSet(statuses, counts, moments)
                 /\ after.status = "failed_permanently" /\ after.attempts = tried.attempts
  BY <1>1 DEF RowSet
<1> QED
  BY <1>1, RowsAreRecords

LEMMA RetriedRow ==
  ASSUME NEW tried \in OutboxRows, NEW next \in 0 .. MaxTime
  PROVE  LET after == [tried EXCEPT !.next_attempt_at = next]
         IN  after \in OutboxRows /\ after.status = tried.status /\ after.attempts = tried.attempts
<1>1. ASSUME NEW statuses, NEW counts, NEW moments, tried \in RowSet(statuses, counts, moments),
             next \in moments
      PROVE  LET after == [tried EXCEPT !.next_attempt_at = next]
             IN  /\ after \in RowSet(statuses, counts, moments)
                 /\ after.status = tried.status /\ after.attempts = tried.attempts
  BY <1>1 DEF RowSet
<1> QED
  BY <1>1, RowsAreRecords

LEMMA RetryIsDated ==
  ASSUME NEW attempts \in Nat \ {0}, NEW delay \in DelayRange(attempts), NEW t \in 0 .. MaxTime
  PROVE  After(t, delay) \in 0 .. MaxTime
<1>1. delay \in Nat
  BY BackoffAssumption DEF DelayRange, Earliest
<1> QED
  BY <1>1, BackoffAssumption DEF After, Earliest

LEMMA CallSucceedsInv ==
  ASSUME IInv, NEW d \in Dispatchers, NEW e \in Events, CallSucceeds(d, e)
  PROVE  IInv'
<1> DEFINE before == run[d].rows[e]
           row == [before EXCEPT !.status = "complete", !.updated_at = run[d].now]
           event_type == IF link[e] = "created" THEN "outbox.recovered_from_conflict"
                         ELSE "outbox.completed"
<1>1. /\ MayCall(d, e) /\ link' = [link EXCEPT ![e] = "created"]
      /\ Record(d, e, row, event_type)
      /\ UNCHANGED <<tables, clock, delivery, visible_since>>
  BY DEF CallSucceeds
<1>2. /\ before \in OutboxRows /\ outbox[e] # NoEntry /\ run[d].now \in 0 .. MaxTime
  BY <1>1, RowInHand
<1>3. before.attempts \in 0 .. MaxAttempts
  BY <1>2 DEF OutboxRows
<1>4. row \in OutboxRows /\ row.status = "complete" /\ row.attempts = before.attempts
  BY <1>2, CompletedRow
<1>5. event_type \in Attempts /\ event_type \in Completions
  BY DEF Attempts, Completions
<1>6. /\ link' \in [Events -> {"none", "requested", "created"}] /\ LinksGrow(outbox, link, link')
      /\ link'[e] = "created"
  BY <1>1, <1>2, RequestGrows DEF IInv, Tables
<1> HIDE DEF row, event_type
<1>7. row.attempts = before.attempts + IF event_type \in Completions THEN 0 ELSE 1
  BY <1>3, <1>4, <1>5
<1> QED
  BY <1>1, <1>4, <1>5, <1>6, <1>7, RecordInv

LEMMA CallFailsInv ==
  ASSUME IInv, NEW d \in Dispatchers, NEW e \in Events, CallFails(d, e)
  PROVE  IInv'
<1> DEFINE before == run[d].rows[e]
           attempts == before.attempts + 1
           failed == [before EXCEPT !.attempts = attempts, !.updated_at = run[d].now]
           ended == [failed EXCEPT !.status = "failed_permanently"]
           again(delay) == [failed EXCEPT !.next_attempt_at = After(run[d].now, delay)]
<1>1. MayCall(d, e) /\ UNCHANGED <<tables, clock, delivery, visible_since>>
  BY DEF CallFails
<1>2. /\ before \in OutboxRows /\ outbox[e] # NoEntry /\ run[d].now \in 0 .. MaxTime
      /\ before.status = "pending" /\ before.attempts < MaxAttempts
  BY <1>1, RowInHand
<1>3. before.attempts \in 0 .. MaxAttempts /\ attempts \in 0 .. MaxAttempts
  <2>1. before.attempts \in 0 .. MaxAttempts
    BY <1>2 DEF OutboxRows
  <2> QED
    BY <1>2, <2>1, AttemptsAssumption
<1>4. link' \in [Events -> {"none", "requested", "created"}] /\ LinksGrow(outbox, link, link')
  <2>1. \/ link' = link
        \/ link' = [link EXCEPT ![e] = "created"]
        \/ link' = [link EXCEPT ![e] = "requested"] /\ link[e] # "created"
        \/ link' = [link EXCEPT ![e] = "created"] /\ link[e] = "created"
    BY DEF CallFails
  <2> QED
    BY <1>2, <2>1, SameLinks, RequestGrows
<1>5. /\ failed \in OutboxRows /\ failed.status = "pending" /\ failed.attempts = attempts
      /\ ended \in OutboxRows /\ ended.status = "failed_permanently" /\ ended.attempts = attempts
  <2>1. failed \in OutboxRows /\ failed.status = "pending" /\ failed.attempts = attempts
    <3> DEFINE Statuses == {"pending", "complete", "failed_permanently"}
               Counts   == 0 .. MaxAttempts
               Moments  == 0 .. MaxTime
               now      == run[d].now
    <3>1. /\ OutboxRows = RowSet(Statuses, Counts, Moments)
          /\ before \in OutboxRows /\ attempts \in Counts /\ now \in Moments
      BY <1>2, <1>3, RowsAreRecords
    <3> HIDE DEF before, attempts, Statuses, Counts, Moments, now
    <3>2. LET tried == [before EXCEPT !.attempts = attempts, !.updated_at = now]
          IN  tried \in OutboxRows /\ tried.status = before.status /\ tried.attempts = attempts
      BY <3>1 DEF RowSet
    <3> QED
      BY <1>2, <3>2 DEF now
  <2> HIDE DEF failed
  <2> QED
    BY <2>1, EndedRow
<1>6. CASE attempts >= MaxAttempts
  <2>1. Record(d, e, ended, "outbox.failed_permanently")
    BY <1>6 DEF CallFails
  <2>2. ended \in OutboxRows /\ ended.status = "failed_permanently" /\ ended.attempts = attempts
    BY <1>5
  <2>3. "outbox.failed_permanently" \in Attempts /\ "outbox.failed_permanently" \notin Completions
    BY DEF Attempts, Completions, Failures
  <2> HIDE DEF ended
  <2> QED
    BY <1>1, <1>4, <2>1, <2>2, <2>3, RecordInv
<1>7. CASE ~(attempts >= MaxAttempts)
  <2>1. PICK delay \in DelayRange(attempts) : Record(d, e, again(delay), "outbox.attempt_failed")
    BY <1>7 DEF CallFails
  <2>2. After(run[d].now, delay) \in 0 .. MaxTime
    BY <1>2, <1>3, <2>1, RetryIsDated
  <2> DEFINE row == again(delay)
  <2>3. row \in OutboxRows /\ row.status = "pending" /\ row.attempts = attempts
    <3> HIDE DEF failed
    <3> QED
      BY <1>5, <2>2, RetriedRow
  <2>4. "outbox.attempt_failed" \in Attempts /\ "outbox.attempt_failed" \notin Completions
    BY DEF Attempts, Completions, Failures
  <2>5. attempts < MaxAttempts
    BY <1>3, <1>7, AttemptsAssumption
  <2>6. Record(d, e, row, "outbox.attempt_failed")
    BY <2>1
  <2> HIDE DEF row
  <2> QED
    BY <1>1, <1>4, <2>3, <2>4, <2>5, <2>6, RecordInv
<1> QED
  BY <1>6, <1>7

LEMMA CallAbortsInv ==
  ASSUME IInv, NEW d \in Dispatchers, NEW e \in Events, CallAborts(d, e)
  PROVE  IInv'
<1>1. /\ MayCall(d, e) /\ link' \in {link, [link EXCEPT ![e] = "created"]}
      /\ run' = [run EXCEPT ![d] = Idle] /\ UNCHANGED <<tables, clock, delivery, visible_since>>
  BY DEF CallAborts
<1>2. outbox[e] # NoEntry
  BY <1>1, RowInHand
<1>3. link' \in [Events -> {"none", "requested", "created"}] /\ LinksGrow(outbox, link, link')
  BY <1>1, <1>2, SameLinks, RequestGrows
<1> QED
  BY <1>1, <1>3, IdleRun

LEMMA TickInv ==
  ASSUME IInv, Tick
  PROVE  IInv'
<1>1. /\ clock' = clock + 1 /\ clock < MaxTime /\ clock \in 0 .. MaxTime /\ MaxTime \in Nat
      /\ UNCHANGED <<tables, delivery, run, link, visible_since>>
  BY BackoffAssumption DEF Tick, IInv, Tables
<1>2. clock' \in Int /\ clock <= clock' /\ clock' \in clock .. MaxTime
  BY <1>1
<1>3. /\ Tables /\ LinksGrow(outbox, link, link')
      /\ link' \in [Events -> {"none", "requested", "created"}]
  BY <1>1, SameLinks DEF IInv
<1>4. /\ Tables' /\ DecisionsDated' /\ OnlyAppearsNow
      /\ \A f \in Events : outbox'[f] # NoEntry => WasAuthorized(f)'
  BY <1>1, <1>2, <1>3, TablesRest DEF Tables
<1>5. Books(ledger, outbox, payments, webhook_events, link)'
  BY <1>1 DEF IInv, tables
<1>6. \A f \in Events : DeliverySound(f)'
  BY <1>1, <1>2, <1>4, DeliveryStaysSound DEF IInv, tables
<1>7. \A d \in Dispatchers : RunSound(d)'
  BY <1>1, <1>2, <1>3, RunStaysSound DEF IInv
<1>8. \A c, d \in Dispatchers : c # d => RunsApart(c, d)'
  BY <1>1 DEF IInv, RunsApart, Running
<1> QED
  BY <1>4, <1>5, <1>6, <1>7, <1>8 DEF IInv

-----------------------------------------------------------------------------
(* The steps of a delivery.                                                *)
LEMMA DeliveryStep ==
  ASSUME IInv, UNCHANGED <<tables, clock, run, link, visible_since>>,
         NEW e \in Events, NEW hand, delivery' = [delivery EXCEPT ![e] = hand], DeliverySound(e)'
  PROVE  IInv'
<1>1. /\ UNCHANGED <<payments, webhook_events, decisions, outbox, ledger>>
      /\ DOMAIN delivery' = Events /\ \A f \in Events \ {e} : delivery'[f] = delivery[f]
  BY DEF IInv, Tables, tables
<1>2. Tables /\ clock' \in Int /\ clock <= clock' /\ clock' \in clock .. MaxTime
  BY DEF IInv, Tables
<1>3. LinksGrow(outbox, link, link') /\ link' \in [Events -> {"none", "requested", "created"}]
  BY SameLinks
<1>4. /\ Tables' /\ DecisionsDated' /\ OnlyAppearsNow
      /\ \A f \in Events : outbox'[f] # NoEntry => WasAuthorized(f)'
  BY <1>1, <1>2, <1>3, TablesRest DEF Tables
<1>5. \A f \in Events : DeliverySound(f)'
  BY <1>1, <1>2, <1>4, DeliveryStaysSound DEF IInv
<1>6. \A d \in Dispatchers : RunSound(d)'
  BY <1>2, <1>3, RunStaysSound DEF IInv
<1>7. Books(ledger, outbox, payments, webhook_events, link)'
  BY <1>1 DEF IInv
<1>8. \A c, d \in Dispatchers : c # d => RunsApart(c, d)'
  BY DEF IInv, RunsApart, Running
<1> QED
  BY <1>4, <1>5, <1>6, <1>7, <1>8 DEF IInv

LEMMA ReceiveInv == ASSUME IInv, NEW e \in Events, Receive(e) PROVE IInv'
<1> DEFINE hand == [now |-> clock, touches |-> Uncounted]
<1>1. /\ e \notin webhook_events /\ delivery' = [delivery EXCEPT ![e] = hand]
      /\ UNCHANGED <<tables, clock, run, link, visible_since>>
  BY DEF Receive
<1>2. delivery'[e] = hand /\ e \notin webhook_events' /\ clock' = clock /\ clock \in 0 .. clock
  BY <1>1 DEF IInv, Tables, tables
<1>3. hand \in [now : 0 .. clock, touches : Nat \union {Uncounted}]
  BY <1>2
<1>4. ~Counted(e)'
  BY <1>2 DEF Counted
<1>5. DeliverySound(e)'
  BY <1>2, <1>3, <1>4 DEF DeliverySound
<1> QED
  BY <1>1, <1>5, DeliveryStep

LEMMA AbandonDeliveryInv == ASSUME IInv, NEW e \in Events, AbandonDelivery(e) PROVE IInv'
<1>1. /\ delivery' = [delivery EXCEPT ![e] = NoDelivery]
      /\ UNCHANGED <<tables, clock, run, link, visible_since>>
  BY DEF AbandonDelivery
<1>2. ~InHand(e)'
  BY <1>1 DEF IInv, Tables, InHand
<1> QED
  BY <1>1, <1>2, DeliveryStep DEF DeliverySound

(* Whoever is counted now includes whoever could be seen earlier.          *)
LEMMA CountCovers ==
  ASSUME Tables, NEW payer, NEW t
  PROVE  /\ touches_in_window(payer, t) \in Nat
         /\ payer # NoPayer =>
              Cardinality(VisibleIn(decisions, outbox, visible_since, payer, t)) <= touches_in_window(payer, t)
<1> DEFINE counted == {d \in decisions : /\ d.payer_contact = payer
                                          /\ outbox[d.event].status = "complete"
                                          /\ outbox[d.event].updated_at >= t - TouchWindow}
           visible == VisibleIn(decisions, outbox, visible_since, payer, t)
<1>1. counted \subseteq decisions /\ visible \subseteq counted
  BY DEF VisibleIn
<1>2. touches_in_window(payer, t) = IF payer = NoPayer THEN 0 ELSE Cardinality(counted)
  BY DEF touches_in_window
<1> HIDE DEF counted, visible
<1>3. IsFiniteSet(counted)
  BY <1>1, FS_Subset DEF Tables
<1>4. Cardinality(counted) \in Nat /\ Cardinality(visible) <= Cardinality(counted)
  BY <1>1, <1>3, FS_Subset, FS_CardinalityType
<1> QED
  BY <1>2, <1>4 DEF visible

LEMMA CountTouchesInv == ASSUME IInv, NEW e \in Events, CountTouches(e) PROVE IInv'
<1> DEFINE touches == touches_in_window(e.payer, delivery[e].now)
           hand == [delivery[e] EXCEPT !.touches = touches]
<1>1. /\ InHand(e) /\ delivery' = [delivery EXCEPT ![e] = hand]
      /\ UNCHANGED <<tables, clock, run, link, visible_since>>
  BY DEF CountTouches
<1>2. Tables /\ DeliverySound(e)
  BY DEF IInv
<1>3. /\ delivery[e] \in [now : 0 .. clock, touches : Nat \union {Uncounted}]
      /\ e \notin webhook_events
  BY <1>1, <1>2 DEF DeliverySound
<1>4. touches \in Nat
  BY <1>2, CountCovers
<1>5. e.payer # NoPayer =>
        Cardinality(VisibleIn(decisions, outbox, visible_since, e.payer, delivery[e].now)) <= touches
  BY <1>2, CountCovers
<1>6. /\ delivery'[e] = hand /\ hand.now = delivery[e].now /\ hand.touches = touches
      /\ hand \in [now : 0 .. clock, touches : Nat \union {Uncounted}]
  <2> HIDE DEF touches
  <2> QED
    BY <1>1, <1>2, <1>3, <1>4 DEF Tables
<1> HIDE DEF touches, hand
<1>7. DeliverySound(e)'
  BY <1>1, <1>3, <1>5, <1>6 DEF DeliverySound, tables
<1> QED
  BY <1>1, <1>7, DeliveryStep

(* A delivery that commits while no run holds the ledger.                  *)
LEMMA DeliveryCommitted ==
  ASSUME IInv, NEW e \in Events, e \notin webhook_events,
         \A d \in Dispatchers : ~HoldsLedger(d),
         delivery' = [delivery EXCEPT ![e] = NoDelivery], UNCHANGED <<clock, run, link, visible_since>>,
         webhook_events' \subseteq webhook_events \union {e},
         Tables', DecisionsDated', OnlyAppearsNow,
         \A f \in Events \ {e} : outbox'[f] = outbox[f],
         Books(ledger, outbox, payments, webhook_events, link)',
         outbox'[e] # NoEntry => WasAuthorized(e)'
  PROVE  IInv'
<1>1. Tables /\ outbox[e] = NoEntry
  BY DEF IInv, Books, EventInBooks
<1>2. \A f \in Events : outbox'[f] # NoEntry => WasAuthorized(f)'
  <2> SUFFICES ASSUME NEW f \in Events, f # e, outbox'[f] # NoEntry PROVE WasAuthorized(f)'
    OBVIOUS
  <2>1. WasAuthorized(f)
    BY DEF IInv
  <2> QED
    BY <1>1, <2>1, StillAuthorized
<1>3. ASSUME NEW f \in Events PROVE DeliverySound(f)'
  <2>1. CASE f = e
    BY <1>1, <2>1 DEF DeliverySound, InHand, Tables
  <2>2. CASE f # e
    <3>1. delivery'[f] = delivery[f] /\ (f \in webhook_events' => f \in webhook_events)
      BY <1>1, <2>2 DEF Tables
    <3>2. DeliverySound(f) /\ clock' \in Int /\ clock <= clock'
      BY <1>1 DEF IInv, Tables
    <3> QED
      BY <1>1, <3>1, <3>2, DeliveryStaysSound
  <2> QED
    BY <2>1, <2>2
<1>4. ASSUME NEW d \in Dispatchers, Running(d) PROVE RunSound(d)'
  <2>1. run[d].log = <<>> /\ RunSound(d) /\ RunTyped(d)
    BY <1>4 DEF HoldsLedger, IInv, RunSound
  <2>2. /\ \A f \in DOMAIN run[d].rows : outbox[f] # NoEntry /\ outbox[f].status = "pending" /\ f # e
        /\ SeenBy(d) = outbox
    BY <1>1, <1>4, <2>1 DEF RunSound
  <2>3. RunTyped(d)'
    BY <1>1, <2>1 DEF RunTyped, Tables
  <2>4. \A f \in DOMAIN run[d].rows : f \in Events /\ outbox'[f] = outbox[f]
    BY <2>1, <2>2 DEF RunTyped
  <2>5. SeenBy(d)' = outbox'
    <3>1. \A f \in Events : SeenBy(d)[f] = outbox[f]
      BY <2>2
    <3>2. \A f \in DOMAIN run[d].rows : run[d].rows[f] = outbox'[f]
      BY <2>1, <2>4, <3>1 DEF SeenBy, RunTyped
    <3>3. SeenBy(d)' = [f \in Events |-> IF f \in DOMAIN run[d].rows THEN run[d].rows[f] ELSE outbox'[f]]
      BY DEF SeenBy
    <3>4. SeenBy(d)' = [f \in Events |-> outbox'[f]]
      BY <3>2, <3>3
    <3> QED
      BY <3>4 DEF Tables
  <2> QED
    BY <1>4, <2>1, <2>2, <2>3, <2>4, <2>5 DEF RunSound
<1>5. \A d \in Dispatchers : RunSound(d)'
  BY <1>4 DEF RunSound, Running
<1>6. \A c, d \in Dispatchers : c # d => RunsApart(c, d)'
  BY DEF IInv, RunsApart, Running
<1> QED
  BY <1>2, <1>3, <1>5, <1>6 DEF IInv

(* A delivery that decides nothing.                                        *)
LEMMA SilentDelivery ==
  ASSUME IInv, NEW e \in Events, e \notin webhook_events, \A d \in Dispatchers : ~HoldsLedger(d),
         delivery' = [delivery EXCEPT ![e] = NoDelivery], UNCHANGED <<clock, run, link, visible_since>>,
         NEW x \in LedgerRows, x.event_type \notin {"decision"} \union Attempts,
         ledger' = Append(ledger, x),
         webhook_events \subseteq webhook_events', webhook_events' \subseteq webhook_events \union {e},
         UNCHANGED <<decisions, outbox>>,
         DOMAIN payments' = Subjects, PaidAsLogged(ledger, payments)'
  PROVE  IInv'
<1>1. Tables /\ ledger \in Seq(LedgerRows)
  BY DEF IInv, Tables
<1>2. Tables'
  BY <1>1, AppendedRows DEF Tables
<1>3. DecisionsDated' /\ OnlyAppearsNow
  BY DEF IInv, DecisionsDated, OnlyAppearsNow
<1>4. Books(ledger, outbox, payments, webhook_events, link)'
  <2>1. Books(Append(ledger, x), outbox, payments', webhook_events', link)
    BY BooksSilent DEF IInv
  <2> QED
    BY <2>1
<1>5. outbox'[e] = NoEntry
  BY DEF IInv, Books, EventInBooks
<1> QED
  BY <1>2, <1>3, <1>4, <1>5, DeliveryCommitted

(* A payment link is authorized by a decision that had counted every touch *)
(* that could be seen when its delivery began.                             *)
LEMMA NewlyAuthorized ==
  ASSUME IInv, NEW e \in Events, e \notin webhook_events, NEW settings \in Settings, NEW d,
         InHand(e), Counted(e),
         d = DecisionFor(e, delivery[e].touches, delivery[e].now, settings),
         d.authorized_intervention = "send_payment_link",
         d \in decisions', OnlyAppearsNow
  PROVE  WasAuthorized(e)'
<1>1. d.event = e /\ d.payer_contact = e.payer /\ d.decided_at = delivery[e].now
  BY DecisionIsOf
<1>2. PICK t \in 0 .. clock, touches \in Nat : delivery[e] = [now |-> t, touches |-> touches]
  BY DEF IInv, DeliverySound, Counted
<1>3. Tables
  BY DEF IInv
<1> DEFINE seen  == Cardinality(VisibleIn(decisions, outbox, visible_since, e.payer, t))
           later == Cardinality(VisibleIn(decisions', outbox', visible_since', e.payer, t))
<1>4. e.payer # NoPayer => seen <= touches
  BY <1>2 DEF IInv, DeliverySound
<1>5. seen \in Nat /\ later \in Nat /\ later <= seen
  BY <1>3, VisibleFades
<1> HIDE DEF seen, later
<1>6. /\ classify(e.reason, e.code).category \in Recoverable \intersect CustomerActionable
      /\ touches < settings.max_touches_per_payer_7d
      /\ e.amount_paise <= settings.human_approval_threshold_paise
      /\ ~InQuietHours(t, settings)
  BY <1>2, ContactGuardrails
<1>7. e.payer # NoPayer => later < settings.max_touches_per_payer_7d
  BY <1>4, <1>5, <1>6, SettingsAssumption
<1>8. GuardrailsHeld(d, settings)'
  BY <1>1, <1>2, <1>6, <1>7 DEF GuardrailsHeld, later
<1> QED
  BY <1>1, <1>8 DEF WasAuthorized

(* A delivery that decides adds the decision and its row of the ledger,    *)
(* and the outbox entry when a link is to be sent.                         *)
LEMMA DecidingDelivery ==
  ASSUME IInv, NEW e \in Events, e \notin webhook_events, \A c \in Dispatchers : ~HoldsLedger(c),
         InHand(e), Counted(e),
         delivery' = [delivery EXCEPT ![e] = NoDelivery], UNCHANGED <<clock, run, link, visible_since>>,
         NEW settings \in Settings, NEW d,
         d = DecisionFor(e, delivery[e].touches, delivery[e].now, settings),
         e.kind = "failed", CapturesIn(ledger, Subject(e)) = {},
         NEW x \in LedgerRows, x.event_type \notin {"decision"} \union Attempts,
         ledger' = Append(Append(ledger, DecisionRow(e)), x),
         webhook_events' = webhook_events \union {e},
         decisions' = decisions \union {d}, outbox' = Enqueued(d),
         DOMAIN payments' = Subjects, PaidAsLogged(ledger, payments)'
  PROVE  IInv'
<1>1. Tables /\ ledger \in Seq(LedgerRows)
  BY DEF IInv, Tables
<1>2. d.event = e /\ d.decided_at \in 0 .. clock /\ d.decided_at = delivery[e].now
  BY DecisionIsOf DEF IInv, DeliverySound
<1>3. /\ outbox' = [f \in Events |-> outbox'[f]]
      /\ \A f \in Events \ {e} : outbox'[f] = outbox[f]
      /\ outbox[e] = NoEntry
  BY <1>1, <1>2 DEF Enqueued, Tables, IInv, Books, EventInBooks
<1>4. \/ outbox'[e] = NoEntry
      \/ d.authorized_intervention = "send_payment_link" /\ outbox'[e] = OutboxRow(d)
  BY <1>1, <1>2, <1>3 DEF Enqueued, Dispatchable, Tables
<1>5. /\ OutboxRow(d) \in OutboxRows
      /\ OutboxRow(d).status = "pending" /\ OutboxRow(d).attempts = 0
  <2>1. d.decided_at \in 0 .. MaxTime /\ 0 \in 0 .. MaxAttempts
    BY <1>1, <1>2, BackoffAssumption, AttemptsAssumption DEF Tables
  <2> QED
    BY <2>1 DEF OutboxRow, OutboxRows
<1>6. outbox'[e].status # "complete"
  BY <1>4, <1>5 DEF NoEntry
<1>7. ledger' \in Seq(LedgerRows)
  <2>1. Append(ledger, DecisionRow(e)) \in Seq(LedgerRows)
    BY <1>1, AppendedRows, RowTypes
  <2> QED
    BY <2>1, AppendedRows
<1>8. Tables'
  <2>1. IsFiniteSet(decisions')
    BY <1>1, FS_AddElement DEF Tables
  <2>2. \A p \in decisions' : p.event \in webhook_events' /\ p.decided_at \in 0 .. clock'
    BY <1>1, <1>2 DEF Tables
  <2> QED
    BY <1>1, <1>3, <1>7, <2>1, <2>2 DEF Tables
<1>9. \A p \in decisions : p.event \in Events /\ p.event # e /\ outbox'[p.event] = outbox[p.event]
  BY <1>1, <1>3 DEF Tables
<1>10. OnlyAppearsNow
  BY <1>2, <1>6, <1>9 DEF OnlyAppearsNow
<1>11. DecisionsDated'
  BY <1>2, <1>6, <1>9 DEF IInv, DecisionsDated
<1>12. Books(ledger, outbox, payments, webhook_events, link)'
  <2>1. Books(ledger, outbox, payments, webhook_events, link)
    BY DEF IInv
  <2>2. PaidAsLogged(Append(Append(ledger, DecisionRow(e)), x), payments')
    OBVIOUS
  <2>3. DOMAIN outbox = Events
    BY <1>1 DEF Tables
  <2>4. Books(Append(Append(ledger, DecisionRow(e)), x), outbox', payments', webhook_events \union {e}, link)
    BY <1>3, <1>4, <1>5, <2>1, <2>2, <2>3, BooksDecide
  <2> QED
    BY <2>4
<1>13. outbox'[e] # NoEntry => WasAuthorized(e)'
  BY <1>4, <1>10, NewlyAuthorized
<1> QED
  BY <1>3, <1>8, <1>10, <1>11, <1>12, <1>13, DeliveryCommitted

LEMMA CommitDeliveryInv ==
  ASSUME IInv, NEW e \in Events, NEW settings \in Settings, CommitDelivery(e, settings)
  PROVE  IInv'
<1>1. /\ InHand(e)
      /\ Counted(e) \/ ~Decides(e)
      /\ \A d \in Dispatchers : ~HoldsLedger(d)
      /\ delivery' = [delivery EXCEPT ![e] = NoDelivery] /\ UNCHANGED <<clock, run, link, visible_since>>
  BY DEF CommitDelivery
<1>2. e \notin webhook_events
  BY <1>1 DEF IInv, DeliverySound
<1>3. /\ ledger \in Seq(LedgerRows) /\ DOMAIN payments = Subjects /\ PaidAsLogged(ledger, payments)
  BY DEF IInv, Tables, Books
<1>4. CASE e.kind = "forged"
  <2> DEFINE x == Entry(NoEntity, "webhook.signature_invalid", e)
  <2>1. x \in LedgerRows /\ x.event_type = "webhook.signature_invalid"
    BY RowTypes DEF Entry
  <2>2. ledger' = Append(ledger, x) /\ UNCHANGED <<payments, webhook_events, decisions, outbox>>
    BY <1>4 DEF CommitDelivery, RecordForged
  <2> HIDE DEF x
  <2>3. x.event_type \notin {"decision"} \union Attempts \union {"webhook.applied", "webhook.recovered"}
    BY <2>1 DEF Attempts, Completions, Failures
  <2>4. PaidAsLogged(ledger, payments)'
    BY <1>3, <2>1, <2>2, <2>3, NotCaptured
  <2> QED
    BY <1>1, <1>2, <1>3, <2>1, <2>2, <2>3, <2>4, SilentDelivery
<1>5. CASE e.kind # "forged"
  <2> DEFINE current == IF Supported(e) THEN payments[Subject(e)].status ELSE "none"
             outcome == Outcome(current, e)
             d       == DecisionFor(e, delivery[e].touches, delivery[e].now, settings)
             x       == WebhookRow(e, outcome)
             decided == outcome = "applied" /\ e.kind = "failed"
  <2>1. RecordEvent(e, outcome, delivery[e].touches, delivery[e].now, settings)
    BY <1>5, Zenon DEF CommitDelivery, OutcomeNow
  <2>2. /\ outcome \in DOMAIN WebhookEventType
        /\ outcome \in {"applied", "recovered"} => decide_transition(current, e.kind) /\ Supported(e)
    BY OutcomeKinds
  <2>3. DecisionRow(e) \in LedgerRows /\ DecisionRow(e).event_type = "decision"
    BY RowTypes DEF DecisionRow, Entry
  <2>4. x \in LedgerRows /\ x.event = e /\ x.event_type = WebhookEventType[outcome]
    BY <2>2, RowTypes DEF WebhookRow, Entry
  <2>5. x.event_type \notin {"decision"} \union Attempts
    <3> HIDE DEF x, outcome
    <3> QED
      BY <2>2, <2>4, EventTypes DEF Attempts, Completions, Failures
  <2>6. PaidAsLogged(Append(ledger, x), IF outcome \in {"applied", "recovered"}
                                          THEN [payments EXCEPT ![Subject(e)] = Upsert(payments[Subject(e)], e)]
                                          ELSE payments)
    BY <1>3, DeliveryCaptured
  <2>7. /\ webhook_events' = webhook_events \union {e}
        /\ payments' = IF outcome \in {"applied", "recovered"}
                         THEN [payments EXCEPT ![Subject(e)] = Upsert(payments[Subject(e)], e)] ELSE payments
        /\ decisions' = IF decided THEN decisions \union {d} ELSE decisions
        /\ outbox' = IF decided THEN Enqueued(d) ELSE outbox
    BY <2>1 DEF RecordEvent
  <2>8. DOMAIN payments' = Subjects
    BY <1>3, <2>7
  <2>9. CASE ~decided
    <3>1. ledger' = Append(ledger, x)
      BY <1>3, <2>1, <2>3, <2>4, <2>9, RecordEventAppends
    <3> HIDE DEF x, d, outcome
    <3> QED
      BY <1>1, <1>2, <2>4, <2>5, <2>6, <2>7, <2>8, <2>9, <3>1, SilentDelivery
  <2>10. CASE decided
    <3>1. ledger' = Append(Append(ledger, DecisionRow(e)), x)
      BY <1>3, <2>1, <2>3, <2>4, <2>10, RecordEventAppends
    <3>2. CapturesIn(ledger, Subject(e)) = {}
      <4>1. Supported(e) /\ current # "captured"
        BY <2>2, <2>10 DEF decide_transition, Allowed
      <4>2. Subject(e) \in Subjects
        BY <4>1 DEF Subjects
      <4> QED
        BY <1>3, <4>1, <4>2 DEF PaidAsLogged
    <3>3. PaidAsLogged(ledger, payments)'
      <4>1. PaidAsLogged(Append(ledger, DecisionRow(e)), payments)
        BY <1>3, <2>3, NotCaptured
      <4>2. Append(ledger, DecisionRow(e)) \in Seq(LedgerRows)
        BY <1>3, <2>3, AppendedRows
      <4>3. PaidAsLogged(Append(Append(ledger, DecisionRow(e)), x),
                         IF outcome \in {"applied", "recovered"}
                           THEN [payments EXCEPT ![Subject(e)] = Upsert(payments[Subject(e)], e)]
                           ELSE payments)
        BY <1>3, <4>1, <4>2, DeliveryCaptured
      <4> QED
        BY <2>7, <3>1, <4>3
    <3>4. /\ e.kind = "failed" /\ decisions' = decisions \union {d} /\ outbox' = Enqueued(d)
          /\ webhook_events' = webhook_events \union {e}
      BY <2>7, <2>10
    <3>5. Counted(e)
      BY <1>1, <2>10 DEF Decides, OutcomeNow
    <3>6. d = DecisionFor(e, delivery[e].touches, delivery[e].now, settings)
      OBVIOUS
    <3> HIDE DEF x, d, outcome
    <3> QED
      BY <1>1, <1>2, <2>4, <2>5, <2>8, <3>1, <3>2, <3>3, <3>4, <3>5, <3>6, DecidingDelivery
  <2> QED
    BY <2>9, <2>10
<1> QED
  BY <1>4, <1>5

-----------------------------------------------------------------------------
(* The commit of a run: what it saw becomes the outbox, and its log, which *)
(* continues the ledger, joins it.                                         *)
LEMMA CommitRunInv ==
  ASSUME IInv, NEW d \in Dispatchers, CommitRun(d)
  PROVE  IInv'
<1> DEFINE rows == run[d].rows
<1>1. /\ Running(d)
      /\ outbox' = SeenBy(d)
      /\ visible_since' = [e \in Events |-> IF e \in DOMAIN rows /\ rows[e].status = "complete"
                                              THEN clock ELSE visible_since[e]]
      /\ ledger' = ledger \o run[d].log
      /\ run' = [run EXCEPT ![d] = Idle]
      /\ UNCHANGED <<payments, webhook_events, decisions, clock, delivery, link>>
  BY DEF CommitRun, SeenBy
<1>2. Tables /\ RunSound(d) /\ RunTyped(d)
  BY <1>1 DEF IInv, RunSound
<1>3. /\ DOMAIN run' = Dispatchers /\ ~Running(d)'
      /\ \A c \in Dispatchers \ {d} : run'[c] = run[c]
  BY <1>1, <1>2 DEF Tables, Running
<1>4. \A e \in DOMAIN rows : /\ e \in Events /\ outbox[e] # NoEntry /\ outbox[e].status = "pending"
                             /\ SeenBy(d)[e] = rows[e]
  BY <1>1, <1>2 DEF RunSound, RunTyped, SeenBy
<1>5. \A e \in Events \ DOMAIN rows : SeenBy(d)[e] = outbox[e]
  BY DEF SeenBy
<1>6. CASE run[d].log = <<>>
  <2>1. outbox' = outbox
    BY <1>1, <1>2, <1>6 DEF RunSound
  <2>2. ledger' = ledger
    BY <1>1, <1>2, <1>6 DEF Tables
  <2>3. visible_since' = visible_since
    <3>1. \A e \in DOMAIN rows : rows[e].status = "pending"
      BY <1>1, <1>4, <2>1
    <3>2. visible_since' = [e \in Events |-> visible_since[e]]
      BY <1>1, <3>1
    <3> QED
      BY <1>2, <3>2 DEF Tables
  <2> QED
    BY <1>1, <2>1, <2>2, <2>3, SameLinks, IdleRun DEF tables
<1>7. CASE run[d].log # <<>>
  <2>1. Books(ledger, outbox, payments, webhook_events, link)'
    BY <1>1, <1>2, <1>7 DEF RunSound
  <2>2. \A e \in Events : \/ outbox'[e] = outbox[e] /\ visible_since'[e] = visible_since[e]
                          \/ outbox'[e].status = "complete" /\ visible_since'[e] = clock
                          \/ outbox'[e].status # "complete"
    BY <1>1, <1>4, <1>5
  <2>3. OnlyAppearsNow
    BY <1>1, <1>2, <2>2 DEF OnlyAppearsNow, Tables
  <2>4. Tables'
    <3>1. visible_since' \in [Events -> 0 .. clock']
      BY <1>1, <1>2 DEF Tables
    <3>2. outbox' = [e \in Events |-> outbox'[e]]
      BY <1>1 DEF SeenBy
    <3>3. ledger' \in Seq(LedgerRows)
      BY <2>1 DEF Books
    <3> QED
      BY <1>1, <1>2, <1>3, <3>1, <3>2, <3>3 DEF Tables
  <2>5. DecisionsDated'
    BY <1>1, <1>2, <2>2 DEF IInv, DecisionsDated, Tables
  <2>6. ASSUME NEW f \in Events, outbox'[f] # NoEntry PROVE WasAuthorized(f)'
    <3>1. outbox[f] # NoEntry
      BY <1>1, <1>4, <1>5, <2>6
    <3> QED
      BY <1>2, <2>3, <3>1, StillAuthorized DEF IInv
  <2>7. \A f \in Events : DeliverySound(f)'
    BY <1>1, <1>2, <2>3, DeliveryStaysSound DEF IInv, Tables
  <2>8. ASSUME NEW c \in Dispatchers, Running(c)' PROVE RunSound(c)'
    <3>1. c # d /\ run'[c] = run[c] /\ Running(c)
      BY <1>3, <2>8 DEF Running
    <3>2. RunsApart(c, d) /\ RunSound(c)
      BY <3>1 DEF IInv
    <3>3. /\ RunTyped(c) /\ run[c].log = <<>> /\ SeenBy(c) = outbox
          /\ \A e \in run[c].todo : run[c].rows[e].status = "pending"
      BY <1>1, <1>7, <3>1, <3>2 DEF RunsApart, RunSound
    <3>4. \A e \in DOMAIN run[c].rows : /\ e \in Events /\ outbox'[e] = outbox[e]
                                        /\ outbox[e] # NoEntry /\ outbox[e].status = "pending"
      BY <1>1, <1>5, <3>1, <3>2, <3>3 DEF RunsApart, RunSound, RunTyped
    <3>5. RunTyped(c)'
      BY <1>1, <3>1, <3>3 DEF RunTyped
    <3>6. SeenBy(c)' = outbox'
      <4>1. \A e \in DOMAIN run[c].rows : run[c].rows[e] = outbox'[e]
        <5>1. \A e \in DOMAIN run[c].rows : SeenBy(c)[e] = run[c].rows[e]
          BY <3>4 DEF SeenBy
        <5> QED
          BY <3>3, <3>4, <5>1
      <4>2. SeenBy(c)' = [e \in Events |-> IF e \in DOMAIN run[c].rows THEN run[c].rows[e] ELSE outbox'[e]]
        BY <3>1 DEF SeenBy
      <4>3. SeenBy(c)' = [e \in Events |-> outbox'[e]]
        BY <4>1, <4>2
      <4> QED
        BY <2>4, <4>3 DEF Tables
    <3> QED
      BY <3>1, <3>3, <3>4, <3>5, <3>6 DEF RunSound
  <2>9. \A c \in Dispatchers : RunSound(c)'
    BY <2>8 DEF RunSound
  <2>10. ASSUME NEW a \in Dispatchers, NEW b \in Dispatchers, a # b PROVE RunsApart(a, b)'
    <3>1. CASE a = d \/ b = d
      BY <1>3, <3>1 DEF RunsApart
    <3>2. CASE a # d /\ b # d
      <4>1. run'[a] = run[a] /\ run'[b] = run[b] /\ RunsApart(a, b)
        BY <1>3, <2>10, <3>2 DEF IInv
      <4> QED
        BY <4>1 DEF RunsApart, Running
    <3> QED
      BY <3>1, <3>2
  <2> QED
    BY <2>1, <2>4, <2>5, <2>6, <2>7, <2>9, <2>10 DEF IInv
<1> QED
  BY <1>6, <1>7

LEMMA StepInv == IInv /\ [RecoveryNext]_vars => IInv'
<1> SUFFICES ASSUME IInv, [RecoveryNext]_vars PROVE IInv'
  OBVIOUS
<1>1. CASE \E e \in Events : Deliver(e) \/ LateArrival(e)
  <2>1. PICK e \in Events : Deliver(e) \/ LateArrival(e)
    BY <1>1
  <2>2. CASE Deliver(e)
    BY <2>2, ReceiveInv, CountTouchesInv, CommitDeliveryInv, AbandonDeliveryInv DEF Deliver
  <2>3. CASE LateArrival(e)
    BY <2>3, LateArrivalInv
  <2> QED
    BY <2>1, <2>2, <2>3
<1>2. CASE \E d \in Dispatchers : Dispatch(d)
  <2>1. PICK d \in Dispatchers : Dispatch(d)
    BY <1>2
  <2>2. CASE StartRun(d)
    BY <2>2, StartRunInv
  <2>3. CASE \E e \in Events : Handles(d, e)
    BY <2>3, SkipRowInv, CallSucceedsInv, CallFailsInv, CallAbortsInv DEF Handles
  <2>4. CASE CommitRun(d)
    BY <2>4, CommitRunInv
  <2>5. CASE Crash(d)
    BY <2>5, CrashInv
  <2> QED
    BY <2>1, <2>2, <2>3, <2>4, <2>5 DEF Dispatch
<1>3. CASE Tick
  BY <1>3, TickInv
<1>4. CASE UNCHANGED vars
  <2>1. UNCHANGED <<tables, clock, run, link, visible_since>> /\ UNCHANGED delivery
    BY <1>4 DEF vars
  <2>2. /\ UNCHANGED <<payments, webhook_events, decisions, outbox, ledger>>
    BY <2>1 DEF tables
  <2>3. Tables' /\ DecisionsDated'
    BY <2>1, <2>2 DEF IInv, Tables, DecisionsDated
  <2>4. Books(ledger, outbox, payments, webhook_events, link)'
    BY <2>1, <2>2 DEF IInv
  <2>5. \A e \in Events : outbox'[e] # NoEntry => WasAuthorized(e)'
    BY <2>1, <2>2 DEF IInv, WasAuthorized, GuardrailsHeld
  <2>6. \A e \in Events : DeliverySound(e)'
    BY <2>1, <2>2 DEF IInv, DeliverySound, InHand, Counted
  <2>7. \A d \in Dispatchers : RunSound(d)'
    <3>1. \A d \in Dispatchers : SeenBy(d)' = SeenBy(d)
      BY <2>1, <2>2 DEF SeenBy
    <3> QED
      BY <2>1, <2>2, <3>1 DEF IInv, RunSound, RunTyped, Running
  <2>8. \A c, d \in Dispatchers : c # d => RunsApart(c, d)'
    BY <2>1 DEF IInv, RunsApart, Running
  <2> QED
    BY <2>3, <2>4, <2>5, <2>6, <2>7, <2>8 DEF IInv
<1> QED
  BY <1>1, <1>2, <1>3, <1>4 DEF RecoveryNext

(* The inductive invariant that the theorems below rest on.                *)
THEOREM Inductive == RecoverySpec => []IInv
BY InitInv, StepInv, PTL DEF RecoverySpec

(* A row's attempts never pass MaxAttempts and no moment its end, in the   *)
(* outbox or in the hands of a run (outbox_entries, dispatch_due).         *)
THEOREM TypeCorrect == RecoverySpec => []RecoveryTypeOK
<1>1. IInv => RecoveryTypeOK
  <2> SUFFICES ASSUME IInv PROVE RecoveryTypeOK
    OBVIOUS
  <2>1. Tables /\ \A e \in Events : outbox[e] \in OutboxRows \union {NoEntry}
    BY DEF IInv, Books, EventInBooks
  <2>2. \A e \in Events : InHand(e) =>
          delivery[e].now \in 0 .. clock /\ delivery[e].touches \in Nat \union {Uncounted}
    BY DEF IInv, DeliverySound
  <2>3. \A d \in Dispatchers : Running(d) =>
          /\ run[d].now \in 0 .. clock
          /\ run[d].todo \subseteq DOMAIN run[d].rows /\ DOMAIN run[d].rows \subseteq Events
          /\ \A e \in DOMAIN run[d].rows : run[d].rows[e] \in OutboxRows
    BY DEF IInv, RunSound, RunTyped
  <2> QED
    BY <2>1, <2>2, <2>3 DEF RecoveryTypeOK, Tables
<1> QED
  BY <1>1, Inductive, PTL

(* Every payment link asked for was authorized by a decision under the     *)
(* rules of its moment.  Touches are counted after that moment, and runs   *)
(* date them before they show them, yet the count covers every touch that  *)
(* was visible when the delivery began (decide, touches_in_window).        *)
THEOREM LinksWereAuthorized == RecoverySpec => []LinksHeldGuardrails
<1>1. IInv => LinksHeldGuardrails
  <2> SUFFICES ASSUME IInv, NEW e \in Events, link[e] # "none"
               PROVE  \E d \in decisions, settings \in Settings :
                        /\ d.event = e /\ d.authorized_intervention = "send_payment_link"
                        /\ classify(e.reason, e.code).category \in Recoverable \intersect CustomerActionable
                        /\ e.amount_paise <= settings.human_approval_threshold_paise
                        /\ ~InQuietHours(d.decided_at, settings)
                        /\ d.payer_contact # NoPayer =>
                             Cardinality(TouchesBefore(d)) < settings.max_touches_per_payer_7d
    BY DEF LinksHeldGuardrails
  <2>1. outbox[e] # NoEntry
    BY DEF IInv, Books, EventInBooks
  <2>2. PICK d \in decisions, settings \in Settings : d.event = e /\ GuardrailsHeld(d, settings)
    BY <2>1 DEF IInv, WasAuthorized
  <2>3. TouchesBefore(d) = VisibleIn(decisions, outbox, visible_since, d.payer_contact, d.decided_at)
    BY DEF TouchesBefore, VisibleIn
  <2> QED
    BY <2>2, <2>3 DEF GuardrailsHeld
<1> QED
  BY <1>1, Inductive, PTL

(* The ledger tells every outreach in order: one decision, no capture of   *)
(* the order before it, as many failed attempts as the row counts, one     *)
(* completion when it is complete, and then there is a link (_log and the  *)
(* single commit of a run).                                                *)
THEOREM OutreachIsExplained == RecoverySpec => []AuditExplainsOutreach
<1>1. IInv => AuditExplainsOutreach
  <2> SUFFICES ASSUME IInv, NEW e \in Events, outbox[e] # NoEntry
               PROVE  \E i \in Positions(e, {"decision"}) :
                        /\ Positions(e, {"decision"}) = {i}
                        /\ \A k \in Captures(Subject(e)) \union Positions(e, Completions \union Failures) : i < k
                        /\ Cardinality(Positions(e, Failures)) = outbox[e].attempts
                        /\ Cardinality(Positions(e, Completions)) = IF outbox[e].status = "complete" THEN 1 ELSE 0
                        /\ outbox[e].status = "complete" => link[e] = "created"
    BY DEF AuditExplainsOutreach
  <2>1. /\ OutreachExplained(ledger, e, outbox[e])
        /\ outbox[e].status = "complete" => link[e] = "created"
    BY DEF IInv, Books, EventInBooks
  <2>2. /\ \A types : Positions(e, types) = RowsAbout(ledger, e, types)
        /\ Captures(Subject(e)) = CapturesIn(ledger, Subject(e))
    BY DEF Positions, RowsAbout, Captures, CapturesIn
  <2> QED
    BY <2>1, <2>2 DEF OutreachExplained, Attempts
<1> QED
  BY <1>1, Inductive, PTL

-----------------------------------------------------------------------------
(* Among the touches of a payer one was decided on last.                   *)
LEMMA LastDecided ==
  ASSUME Tables, NEW T, T \subseteq decisions, T # {}
  PROVE  \E q \in T : \A p \in T : p.decided_at <= q.decided_at
<1> DEFINE ages == {clock - p.decided_at : p \in T}
<1>1. \A p \in T : p.decided_at \in 0 .. clock
  BY DEF Tables
<1>2. ages \subseteq Nat /\ ages # {} /\ clock \in Nat
  BY <1>1, BackoffAssumption DEF Tables
<1> DEFINE Below == OpToRel(<, Nat)
<1>3. IsWellFoundedOn(Below, Nat) /\ \A x, y \in Nat : y < x => <<y, x>> \in Below
  <2>1. \A x, y \in Nat : y < x => <<y, x>> \in Below
    BY Zenon DEF OpToRel
  <2> QED
    BY <2>1, NatLessThanWellFounded
<1>4. PICK x \in ages : \A y \in ages : x <= y
  <2> HIDE DEF ages, Below
  <2>1. PICK x \in ages : \A y \in ages : ~(<<y, x>> \in Below)
    BY <1>2, <1>3, WFMin
  <2>2. \A y \in ages : ~(y < x) /\ y \in Nat /\ x \in Nat
    BY <1>2, <1>3, <2>1
  <2> QED
    BY <2>2
<1>5. PICK q \in T : x = clock - q.decided_at
  OBVIOUS
<1>6. ASSUME NEW p \in T PROVE p.decided_at <= q.decided_at
  <2>1. clock - q.decided_at <= clock - p.decided_at
    BY <1>4, <1>5
  <2> QED
    BY <1>1, <1>2, <2>1
<1> QED
  BY <1>6

(* Were the last decided of a payer's touches not to overlap any other, it *)
(* would have counted all of them, and it was below the cap.               *)
THEOREM CapExceededByOverlap == RecoverySpec => []CapExceededByOverlapOnly
<1>1. IInv => CapExceededByOverlapOnly
  <2> SUFFICES ASSUME IInv, NEW payer \in Payers,
                      \A settings \in Settings :
                        touches_in_window(payer, clock) > settings.max_touches_per_payer_7d,
                      \A p, q \in Touches(payer) : p # q =>
                        ~(visible_since[p.event] >= q.decided_at /\ visible_since[q.event] >= p.decided_at)
               PROVE  FALSE
    BY DEF CapExceededByOverlapOnly
  <2> DEFINE touches == Touches(payer)
  <2>1. Tables /\ DecisionsDated
    BY DEF IInv
  <2>2. PICK any \in Settings : any.max_touches_per_payer_7d \in Nat
    BY SettingsAssumption
  <2>3. payer # NoPayer /\ touches_in_window(payer, clock) = Cardinality(touches)
    <3>1. touches_in_window(payer, clock) = IF payer = NoPayer THEN 0 ELSE Cardinality(touches)
      BY DEF touches_in_window, Touches
    <3> HIDE DEF touches
    <3>2. touches_in_window(payer, clock) > any.max_touches_per_payer_7d
      OBVIOUS
    <3> QED
      BY <2>2, <3>1, <3>2
  <2>4. touches \subseteq decisions
    BY DEF Touches
  <2>5. IsFiniteSet(touches) /\ Cardinality(touches) \in Nat
    BY <2>1, <2>4, FS_Subset, FS_CardinalityType DEF Tables
  <2>6. touches # {}
    BY <2>2, <2>3, FS_EmptySet
  <2>7. PICK q \in touches : \A p \in touches : p.decided_at <= q.decided_at
    BY <2>1, <2>4, <2>6, LastDecided
  <2>8. q \in decisions /\ q.event \in Events /\ q.payer_contact = payer /\ outbox[q.event].status = "complete"
    BY <2>1 DEF Touches, Tables
  <2>9. PICK settings \in Settings : GuardrailsHeld(q, settings)
    <3>1. WasAuthorized(q.event)
      BY <2>8 DEF IInv, NoEntry
    <3> QED
      BY <2>1, <2>8, <3>1 DEF WasAuthorized, DecisionsDated
  <2> DEFINE before == VisibleIn(decisions, outbox, visible_since, payer, q.decided_at)
  <2>10. Cardinality(before) < settings.max_touches_per_payer_7d
    BY <2>3, <2>8, <2>9 DEF GuardrailsHeld
  <2>11. touches \ {q} \subseteq before
    <3> SUFFICES ASSUME NEW p \in touches, p # q PROVE p \in before
      OBVIOUS
    <3>1. /\ p \in decisions /\ p.payer_contact = payer /\ outbox[p.event].status = "complete"
          /\ outbox[p.event].updated_at >= clock - TouchWindow /\ p.event \in Events
      BY <2>1 DEF Touches, Tables
    <3>2. /\ p.decided_at \in 0 .. clock /\ q.decided_at \in 0 .. clock /\ clock \in Nat
          /\ visible_since[p.event] \in 0 .. clock /\ visible_since[q.event] \in 0 .. clock
      BY <2>1, <2>8, <3>1, BackoffAssumption DEF Tables
    <3>3. p.decided_at <= q.decided_at /\ q.decided_at <= visible_since[q.event]
      BY <2>1, <2>7, <2>8 DEF DecisionsDated
    <3>4. visible_since[p.event] < q.decided_at
      BY <3>2, <3>3
    <3>5. outbox[p.event].updated_at \in Nat
      BY <3>1 DEF IInv, Books, EventInBooks, OutboxRows, NoEntry
    <3>6. outbox[p.event].updated_at >= q.decided_at - TouchWindow
      BY <3>1, <3>2, <3>5, WindowAssumption
    <3> QED
      BY <3>1, <3>4, <3>6 DEF VisibleIn
  <2> HIDE DEF touches, before
  <2>12. IsFiniteSet(before)
    <3>1. before \subseteq decisions
      BY DEF before, VisibleIn
    <3> QED
      BY <2>1, <3>1, FS_Subset DEF Tables
  <2>13. Cardinality(before) \in Nat /\ Cardinality(touches \ {q}) <= Cardinality(before)
    BY <2>11, <2>12, FS_Subset, FS_CardinalityType
  <2>14. Cardinality(touches \ {q}) = Cardinality(touches) - 1
    BY <2>5, <2>7, FS_RemoveElement
  <2>15. /\ Cardinality(touches) > settings.max_touches_per_payer_7d
         /\ settings.max_touches_per_payer_7d \in Nat
    BY <2>3, SettingsAssumption
  <2> QED
    BY <2>5, <2>10, <2>13, <2>14, <2>15
<1> QED
  BY <1>1, Inductive, PTL
=============================================================================
