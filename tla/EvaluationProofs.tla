-------------------------- MODULE EvaluationProofs --------------------------
(***************************************************************************)
(* Proofs about Evaluation: what its repeated transactions leave behind,   *)
(* in the tables and at Razorpay, and what its metrics may say of it.      *)
(***************************************************************************)
EXTENDS Evaluation, AtomicIngestProofs

-----------------------------------------------------------------------------
(* The two arms.                                                           *)
InTreatment(e) == \E i \in DOMAIN Treatment : e = Treatment[i]
InControl(e)   == \E i \in DOMAIN Control : e = Control[i]

LEMMA SplitInRange == Split \in 0 .. Len(Failures)
<1> DEFINE n       == Len(Failures)
           product == n * TreatmentShare
<1>1. n \in Nat /\ TreatmentShare \in 0 .. 100
  BY BatchAssumption, RoundAssumption
<1> HIDE DEF n
<1>2. product \in Nat /\ product <= n * 100
  BY <1>1
<1> HIDE DEF product
<1>3. product \div 100 \in 0 .. n
  BY <1>1, <1>2
<1> QED
  BY <1>3 DEF Split, product, n

LEMMA ArmPlaces ==
  /\ DOMAIN Failures = 1 .. Len(Failures)
  /\ DOMAIN Treatment = 1 .. Split
  /\ \A i \in 1 .. Split : Treatment[i] = Failures[i]
  /\ DOMAIN Control = 1 .. Len(Failures) - Split
  /\ \A i \in 1 .. Len(Failures) - Split : Control[i] = Failures[Split + i]
<1>1. Failures \in Seq(Events) /\ Split \in 0 .. Len(Failures)
  BY BatchAssumption, SplitInRange
<1> HIDE DEF Split
<1> QED
  BY <1>1 DEF Treatment, Control

LEMMA SubjectsApart ==
  ASSUME NEW e \in Events, NEW f \in Events, Subject(e) = Subject(f) PROVE e = f
<1>1. PICK i \in DOMAIN Failures : e = Failures[i]
  BY BatchAssumption
<1>2. PICK k \in DOMAIN Failures : f = Failures[k]
  BY BatchAssumption
<1> QED
  BY <1>1, <1>2, BatchAssumption

LEMMA ArmsApart ==
  /\ \A e : InTreatment(e) => e \in Events /\ ~InControl(e)
  /\ \A e : InControl(e) => e \in Events
  /\ \A s : s \in Orders(Treatment) <=> \E e : InTreatment(e) /\ s = Subject(e)
  /\ \A s : s \in Orders(Control) <=> \E e : InControl(e) /\ s = Subject(e)
<1>1. Split \in 0 .. Len(Failures) /\ Len(Failures) \in Nat
  BY SplitInRange, BatchAssumption
<1> HIDE DEF Split
<1>2. \A e : InTreatment(e) => \E i \in 1 .. Split : e = Failures[i]
  BY ArmPlaces DEF InTreatment
<1>3. \A e : InControl(e) => \E i \in Split + 1 .. Len(Failures) : e = Failures[i]
  BY <1>1, ArmPlaces DEF InControl
<1>4. \A i \in 1 .. Len(Failures) : Failures[i] \in Events
  BY BatchAssumption, ArmPlaces
<1>5. \A i, k \in 1 .. Len(Failures) : Failures[i] = Failures[k] => i = k
  BY BatchAssumption, ArmPlaces
<1>6. ASSUME NEW e, InTreatment(e) PROVE e \in Events /\ ~InControl(e)
  <2>1. PICK i \in 1 .. Split : e = Failures[i]
    BY <1>2, <1>6
  <2>2. i \in 1 .. Len(Failures)
    BY <1>1
  <2> QED
    BY <1>1, <1>3, <1>4, <1>5, <2>1, <2>2
<1>7. \A e : InControl(e) => e \in Events
  BY <1>1, <1>3, <1>4
<1>8. /\ \A s : s \in Orders(Treatment) <=> \E e : InTreatment(e) /\ s = Subject(e)
      /\ \A s : s \in Orders(Control) <=> \E e : InControl(e) /\ s = Subject(e)
  BY DEF Orders, InTreatment, InControl
<1> QED
  BY <1>6, <1>7, <1>8

(* What the rows of the outbox are keyed by.                               *)
LEMMA RowKeys ==
  /\ \A e \in Events : e.kind = "failed" /\ OrderOf(e) = Subject(e)
  /\ \A e, k : /\ ControlRow(e, k) \notin Events /\ OrderOf(ControlRow(e, k)) = Subject(e)
               /\ ControlRow(e, k).evaluation = k
               /\ ControlDecision(e, k).event = ControlRow(e, k)
               /\ ControlDecision(e, k).payer_contact = e.payer
<1>1. \A e \in Events : e.kind = "failed"
  BY BatchAssumption
<1>2. \A e, k : ControlRow(e, k).kind = "control" /\ ControlRow(e, k).order = Subject(e)
                  /\ ControlRow(e, k).evaluation = k
  BY DEF ControlRow
<1>3. \A e, k : /\ ControlDecision(e, k).event = ControlRow(e, k)
                /\ ControlDecision(e, k).payer_contact = e.payer
  BY DEF ControlDecision
<1> QED
  BY <1>1, <1>2, <1>3 DEF OrderOf

LEMMA PayerOfOrder == \A e \in Events : PayerOf(Subject(e)) = e.payer
<1> SUFFICES ASSUME NEW e \in Events PROVE PayerOf(Subject(e)) = e.payer
  OBVIOUS
<1> DEFINE chosen == CHOOSE f \in Events : Subject(f) = Subject(e)
<1>1. chosen \in Events /\ Subject(chosen) = Subject(e)
  OBVIOUS
<1>2. chosen = e
  BY <1>1, SubjectsApart
<1> QED
  BY <1>2 DEF PayerOf

-----------------------------------------------------------------------------
(* The books.  Each row of the outbox is that of a failure, or of a retry, *)
(* that one of the evaluations K made; a completed row has its link; and   *)
(* no two decisions share a row.                                           *)
RowFields == {"status", "attempts", "next_attempt_at", "updated_at"}

RowBooked(o, row, k, events, K, sent) ==
  /\ row = NoEntry \/ DOMAIN row = RowFields
  /\ row # NoEntry => k \in K
  /\ row.status = "complete" => [row |-> o, evaluation |-> k] \in sent
  /\ o \in Events => (row # NoEntry => o \in events /\ InTreatment(o))
  /\ o \notin Events => row # NoEntry /\ \E e \in Events : InControl(e) /\ o = ControlRow(e, k)

DecisionBooked(d, events) ==
  /\ d.event \in Events => d.event \in events
  /\ d.event \notin Events =>
       \E e \in Events, k \in Nat : InControl(e) /\ d = ControlDecision(e, k)
  /\ \E e \in Events : d.payer_contact = e.payer /\ Subject(e) = OrderOf(d.event)

Books(events, made, rows, ref, K, sent) ==
  /\ events \subseteq Events
  /\ DOMAIN ref = DOMAIN rows /\ Events \subseteq DOMAIN rows
  /\ \A o \in DOMAIN rows : RowBooked(o, rows[o], ref[o], events, K, sent)
  /\ \A d \in made : d.event \in DOMAIN rows /\ DecisionBooked(d, events)
  /\ \A c, d \in made : c.event = d.event => c = d

(* Going from some books to others, no row is lost or changes hands, and   *)
(* evaluation k alone adds any.                                            *)
RowsKept(rows, ref, later, laterRef) ==
  \A o \in DOMAIN rows : rows[o] # NoEntry =>
    o \in DOMAIN later /\ later[o] # NoEntry /\ laterRef[o] = ref[o]
RowsAddedBy(k, rows, later, laterRef) ==
  \A o \in DOMAIN later : later[o] # NoEntry =>
    laterRef[o] = k \/ (o \in DOMAIN rows /\ rows[o] # NoEntry)

(* A link that was created is that of a row that is still there, or of an  *)
(* evaluation whose rows are gone.                                         *)
LinkMade(l) ==
  /\ l = [row |-> l.row, evaluation |-> l.evaluation]
  /\ \E e \in Events : \/ InTreatment(e) /\ l.row = e
                       \/ InControl(e) /\ l.row = ControlRow(e, l.evaluation)
LinkAccounted(l, gone, rows, ref) ==
  \/ l.evaluation \in gone
  \/ l.row \in DOMAIN rows /\ rows[l.row] # NoEntry /\ ref[l.row] = l.evaluation

LinksKnown(sent, gone, rows, ref) ==
  /\ IsFiniteSet(sent)
  /\ \A l \in sent : LinkMade(l) /\ LinkAccounted(l, gone, rows, ref)

(* What metrics may say of the links.                                      *)
SentTo(orders, sent) == {l \in sent : OrderOf(l.row) \in orders}
SentToPayer(payer, sent) == {l \in sent : PayerOf(OrderOf(l.row)) = payer}

Truthful(m, sent) ==
  /\ m.treatment \in Nat /\ m.control \in Nat /\ m.cap \in Nat
  /\ m.treatment <= Cardinality(SentTo(Orders(Treatment), sent))
  /\ m.control <= Cardinality(SentTo(Orders(Control), sent))
  /\ \A payer \in m.violations : Cardinality(SentToPayer(payer, sent)) > m.cap
  /\ m.doubles # {} => m.committed >= 2
  /\ m.doubles \subseteq Orders(Control)

(* The evaluations whose rows the tables have: now, and at the start of    *)
(* the transaction in progress.                                            *)
Live   == (1 .. started) \ lost
Before == (1 .. started - 1) \ lost

Phases == {"treatment", "control", "round", "measure"}
Fields == {"pc", "at", "round", "claimed", "metrics"}

InTransaction ==
  /\ evaluation.pc \in Phases /\ DOMAIN evaluation = Fields /\ evaluation.at \in Nat \ {0}
  /\ \A o \in evaluation.claimed : o \in DOMAIN outbox /\ outbox[o] # NoEntry
  /\ evaluation.pc # "round" => evaluation.claimed = {}
  /\ started \in Nat \ {0} /\ started \notin lost
  /\ Books(saved.webhook_events, saved.decisions, saved.outbox, saved.reference, Before, links)
  /\ saved.webhook_events \subseteq webhook_events
  /\ RowsKept(saved.outbox, saved.reference, outbox, reference)
  /\ RowsAddedBy(started, saved.outbox, outbox, reference)

IInv ==
  /\ started \in Nat /\ lost \subseteq 1 .. started
  /\ Books(webhook_events, decisions, outbox, reference, Live, links)
  /\ LinksKnown(links, lost, outbox, reference)
  /\ results # NoResults => Truthful(results, links)
  /\ \/ evaluation = Idle
     \/ InTransaction
     \/ /\ evaluation.pc = "writing" /\ evaluation.claimed = {}
        /\ Truthful(evaluation.metrics, links)

-----------------------------------------------------------------------------
(* Facts about books and links.                                            *)
LEMMA BooksLater ==
  ASSUME NEW events, NEW made, NEW rows, NEW ref, NEW K, NEW L, NEW sent, NEW more,
         Books(events, made, rows, ref, K, sent), K \subseteq L, sent \subseteq more
  PROVE  Books(events, made, rows, ref, L, more)
<1>1. ASSUME NEW o \in DOMAIN rows PROVE RowBooked(o, rows[o], ref[o], events, L, more)
  <2>1. RowBooked(o, rows[o], ref[o], events, K, sent)
    BY DEF Books
  <2> QED
    BY <2>1 DEF RowBooked
<1> QED
  BY <1>1 DEF Books

LEMMA RowsKeptTwice ==
  ASSUME NEW rows, NEW ref, NEW later, NEW laterRef, NEW last, NEW lastRef, NEW k,
         RowsKept(rows, ref, later, laterRef), RowsAddedBy(k, rows, later, laterRef),
         RowsKept(later, laterRef, last, lastRef), RowsAddedBy(k, later, last, lastRef)
  PROVE  RowsKept(rows, ref, last, lastRef) /\ RowsAddedBy(k, rows, last, lastRef)
<1>1. RowsKept(rows, ref, last, lastRef)
  BY DEF RowsKept
<1>2. RowsAddedBy(k, rows, last, lastRef)
  BY DEF RowsKept, RowsAddedBy
<1> QED
  BY <1>1, <1>2

NoneUnknown(more, sent, gone, rows, ref) ==
  \A l \in more : l \in sent \/ (LinkMade(l) /\ LinkAccounted(l, gone, rows, ref))

LEMMA LinksStayKnown ==
  ASSUME NEW sent, NEW more, NEW gone, NEW rows, NEW ref, NEW later, NEW laterRef,
         LinksKnown(sent, gone, rows, ref), RowsKept(rows, ref, later, laterRef),
         IsFiniteSet(more), NoneUnknown(more, sent, gone, later, laterRef)
  PROVE  LinksKnown(more, gone, later, laterRef)
<1>1. ASSUME NEW l \in sent PROVE LinkMade(l) /\ LinkAccounted(l, gone, later, laterRef)
  <2>1. LinkMade(l) /\ LinkAccounted(l, gone, rows, ref)
    BY DEF LinksKnown
  <2> QED
    BY <2>1 DEF LinkAccounted, RowsKept
<1> QED
  BY <1>1 DEF LinksKnown, NoneUnknown

LEMMA CountsGrow ==
  ASSUME NEW sent, NEW more, sent \subseteq more, IsFiniteSet(more)
  PROVE  /\ \A orders : /\ Cardinality(SentTo(orders, sent)) \in Nat
                        /\ Cardinality(SentTo(orders, more)) \in Nat
                        /\ Cardinality(SentTo(orders, sent)) <= Cardinality(SentTo(orders, more))
         /\ \A payer : /\ Cardinality(SentToPayer(payer, sent)) \in Nat
                       /\ Cardinality(SentToPayer(payer, more)) \in Nat
                       /\ Cardinality(SentToPayer(payer, sent)) <= Cardinality(SentToPayer(payer, more))
<1>1. \A S, T : T \subseteq more /\ S \subseteq T =>
        Cardinality(S) \in Nat /\ Cardinality(T) \in Nat /\ Cardinality(S) <= Cardinality(T)
  <2> SUFFICES ASSUME NEW S, NEW T, T \subseteq more, S \subseteq T
               PROVE  Cardinality(S) \in Nat /\ Cardinality(T) \in Nat /\ Cardinality(S) <= Cardinality(T)
    OBVIOUS
  <2>1. IsFiniteSet(T)
    BY FS_Subset
  <2>2. IsFiniteSet(S) /\ Cardinality(S) <= Cardinality(T)
    BY <2>1, FS_Subset
  <2> QED
    BY <2>1, <2>2, FS_CardinalityType
<1>2. \A orders : SentTo(orders, sent) \subseteq SentTo(orders, more) /\ SentTo(orders, more) \subseteq more
  BY DEF SentTo
<1>3. \A payer : /\ SentToPayer(payer, sent) \subseteq SentToPayer(payer, more)
                 /\ SentToPayer(payer, more) \subseteq more
  BY DEF SentToPayer
<1> QED
  BY <1>1, <1>2, <1>3

(* Links are never taken back, so what was true of them stays true.        *)
LEMMA TruthfulLater ==
  ASSUME NEW m, NEW sent, NEW more, Truthful(m, sent), sent \subseteq more, IsFiniteSet(more)
  PROVE  Truthful(m, more)
<1>1. /\ Cardinality(SentTo(Orders(Treatment), sent)) <= Cardinality(SentTo(Orders(Treatment), more))
      /\ Cardinality(SentTo(Orders(Treatment), sent)) \in Nat
      /\ Cardinality(SentTo(Orders(Treatment), more)) \in Nat
      /\ Cardinality(SentTo(Orders(Control), sent)) <= Cardinality(SentTo(Orders(Control), more))
      /\ Cardinality(SentTo(Orders(Control), sent)) \in Nat
      /\ Cardinality(SentTo(Orders(Control), more)) \in Nat
  BY CountsGrow
<1>2. ASSUME NEW payer \in m.violations PROVE Cardinality(SentToPayer(payer, more)) > m.cap
  <2>1. /\ Cardinality(SentToPayer(payer, sent)) \in Nat
        /\ Cardinality(SentToPayer(payer, more)) \in Nat
        /\ Cardinality(SentToPayer(payer, sent)) <= Cardinality(SentToPayer(payer, more))
    BY CountsGrow
  <2> QED
    BY <2>1 DEF Truthful
<1>3. m.treatment \in Nat /\ m.control \in Nat
  BY DEF Truthful
<1>4. m.treatment <= Cardinality(SentTo(Orders(Treatment), more))
  BY <1>1, <1>3 DEF Truthful
<1>5. m.control <= Cardinality(SentTo(Orders(Control), more))
  BY <1>1, <1>3 DEF Truthful
<1> QED
  BY <1>2, <1>4, <1>5 DEF Truthful

-----------------------------------------------------------------------------
(* What each kind of step writes, in terms of the books.                   *)
LEMMA HandleWrites ==
  ASSUME NEW e \in Events, NEW now, NEW settings, Handle(e, now, settings)
  PROVE  IF e \in webhook_events THEN UNCHANGED <<webhook_events, decisions, outbox>>
         ELSE /\ webhook_events' = webhook_events \union {e}
              /\ \E d : /\ d.event = e /\ d.payer_contact = e.payer
                        /\ decisions' = decisions \/ decisions' = decisions \union {d}
                        /\ outbox' = outbox \/ outbox' = [outbox EXCEPT ![e] = OutboxRow(d)]
<1>1. e.kind # "forged"
  BY RowKeys
<1>2. CASE e \in webhook_events
  BY <1>1, <1>2 DEF Handle, RecordDuplicate
<1>3. CASE e \notin webhook_events
  <2> DEFINE touches == touches_in_window(e.payer, now)
             d       == DecisionFor(e, touches, now, settings)
  <2>1. PICK outcome : RecordEvent(e, outcome, touches, now, settings)
    BY <1>1, <1>3, Zenon DEF Handle
  <2>2. d.event = e /\ d.payer_contact = e.payer
    BY DecisionIsOf
  <2>3. /\ webhook_events' = webhook_events \union {e}
        /\ decisions' = decisions \/ decisions' = decisions \union {d}
        /\ outbox' = outbox \/ outbox' = Enqueued(d)
    BY <2>1 DEF RecordEvent
  <2> HIDE DEF d
  <2>4. Enqueued(d) = outbox \/ Enqueued(d) = [outbox EXCEPT ![e] = OutboxRow(d)]
    BY <2>2 DEF Enqueued
  <2> QED
    BY <1>3, <2>2, <2>3, <2>4
<1> QED
  BY <1>2, <1>3

LEMMA FreshRows ==
  /\ NoEntry.status = "none"
  /\ \A d : /\ OutboxRow(d).status = "pending" /\ DOMAIN OutboxRow(d) = RowFields
            /\ OutboxRow(d) # NoEntry
  /\ \A row, at : LET later == [row EXCEPT !.next_attempt_at = at]
                  IN  DOMAIN row = RowFields => DOMAIN later = RowFields /\ later.status = row.status
<1>1. NoEntry.status = "none"
  BY DEF NoEntry
<1>2. \A d : OutboxRow(d).status = "pending" /\ DOMAIN OutboxRow(d) = RowFields
  BY DEF OutboxRow, RowFields
<1>3. \A row, at : LET later == [row EXCEPT !.next_attempt_at = at]
                   IN  DOMAIN row = RowFields => DOMAIN later = RowFields /\ later.status = row.status
  BY DEF RowFields
<1> QED
  BY <1>1, <1>2, <1>3

LEMMA DeliveryBooked ==
  ASSUME NEW e, InTreatment(e), NEW now, NEW settings, NEW K, NEW k \in K,
         Books(webhook_events, decisions, outbox, reference, K, links),
         Handle(e, now, settings),
         reference' = [reference EXCEPT ![e] = IF e \in webhook_events THEN reference[e] ELSE k]
  PROVE  /\ webhook_events \subseteq webhook_events'
         /\ Books(webhook_events', decisions', outbox', reference', K, links)
         /\ RowsKept(outbox, reference, outbox', reference')
         /\ RowsAddedBy(k, outbox, outbox', reference')
<1>1. e \in Events
  BY ArmsApart
<1>2. CASE e \in webhook_events
  <2>1. UNCHANGED <<webhook_events, decisions, outbox>>
    BY <1>1, <1>2, HandleWrites
  <2>2. /\ DOMAIN reference' = DOMAIN reference
        /\ \A o \in DOMAIN reference : reference'[o] = reference[o]
    BY <1>2
  <2>3. DOMAIN reference = DOMAIN outbox
    BY DEF Books
  <2>4. Books(webhook_events', decisions', outbox', reference', K, links)
    BY <2>1, <2>2 DEF Books
  <2> QED
    BY <2>1, <2>2, <2>3, <2>4 DEF RowsKept, RowsAddedBy
<1>3. CASE e \notin webhook_events
  <2>1. PICK d : /\ webhook_events' = webhook_events \union {e}
                 /\ d.event = e /\ d.payer_contact = e.payer
                 /\ decisions' = decisions \/ decisions' = decisions \union {d}
                 /\ outbox' = outbox \/ outbox' = [outbox EXCEPT ![e] = OutboxRow(d)]
    BY <1>1, <1>3, HandleWrites
  <2>2. /\ DOMAIN reference = DOMAIN outbox /\ e \in DOMAIN outbox
        /\ webhook_events \subseteq Events /\ Events \subseteq DOMAIN outbox
    BY <1>1 DEF Books
  <2>3. /\ DOMAIN outbox' = DOMAIN outbox /\ DOMAIN reference' = DOMAIN reference
        /\ reference'[e] = k
        /\ \A o \in DOMAIN outbox \ {e} : outbox'[o] = outbox[o] /\ reference'[o] = reference[o]
    BY <1>3, <2>1, <2>2
  <2>4. outbox[e] = NoEntry
    <3>1. RowBooked(e, outbox[e], reference[e], webhook_events, K, links)
      BY <2>2 DEF Books
    <3> QED
      BY <1>1, <1>3, <3>1 DEF RowBooked
  <2>5. outbox'[e] = NoEntry \/ outbox'[e] = OutboxRow(d)
    BY <2>1, <2>2, <2>4
  <2>6. ASSUME NEW o \in DOMAIN outbox'
        PROVE  RowBooked(o, outbox'[o], reference'[o], webhook_events', K, links)
    <3>1. CASE o = e
      <4>1. DOMAIN OutboxRow(d) = RowFields /\ OutboxRow(d).status # "complete" /\ NoEntry.status # "complete"
        BY FreshRows
      <4> QED
        BY <1>1, <2>1, <2>3, <2>5, <3>1, <4>1 DEF RowBooked
    <3>2. CASE o # e
      <4>1. RowBooked(o, outbox[o], reference[o], webhook_events, K, links)
        BY <2>3 DEF Books
      <4>2. outbox'[o] = outbox[o] /\ reference'[o] = reference[o]
        BY <2>3, <3>2
      <4> QED
        BY <2>1, <4>1, <4>2 DEF RowBooked
    <3> QED
      BY <3>1, <3>2
  <2>7. DecisionBooked(d, webhook_events')
    BY <1>1, <2>1, RowKeys DEF DecisionBooked
  <2>8. \A c \in decisions : c.event \in DOMAIN outbox /\ DecisionBooked(c, webhook_events)
    BY DEF Books
  <2>9. \A c \in decisions : c.event \in DOMAIN outbox' /\ DecisionBooked(c, webhook_events') /\ c.event # e
    BY <1>1, <1>3, <2>1, <2>3, <2>8 DEF DecisionBooked
  <2>10. \A b, c \in decisions : b.event = c.event => b = c
    BY DEF Books
  <2>11. /\ \A c \in decisions' : c.event \in DOMAIN outbox' /\ DecisionBooked(c, webhook_events')
         /\ \A b, c \in decisions' : b.event = c.event => b = c
    BY <1>1, <2>1, <2>2, <2>3, <2>7, <2>9, <2>10
  <2>12. Books(webhook_events', decisions', outbox', reference', K, links)
    BY <1>1, <2>1, <2>2, <2>3, <2>6, <2>11 DEF Books
  <2>13. RowsKept(outbox, reference, outbox', reference')
    BY <2>3, <2>4 DEF RowsKept
  <2>14. RowsAddedBy(k, outbox, outbox', reference')
    BY <2>3 DEF RowsAddedBy
  <2> QED
    BY <2>1, <2>12, <2>13, <2>14
<1> QED
  BY <1>2, <1>3

LEMMA RetryBooked ==
  ASSUME NEW e, InControl(e), NEW K, NEW k \in K \intersect Nat, NEW row,
         Books(webhook_events, decisions, outbox, reference, K, links),
         DOMAIN row = RowFields, row.status = "pending",
         webhook_events' = webhook_events \union {e},
         decisions' = decisions \union {ControlDecision(e, k)},
         outbox' = Inserted(outbox, ControlRow(e, k), row),
         reference' = Inserted(reference, ControlRow(e, k), k)
  PROVE  /\ Books(webhook_events', decisions', outbox', reference', K, links)
         /\ RowsKept(outbox, reference, outbox', reference')
         /\ RowsAddedBy(k, outbox, outbox', reference')
<1> DEFINE new == ControlRow(e, k)
           d   == ControlDecision(e, k)
<1>1. /\ e \in Events /\ new \notin Events
      /\ d.event = new /\ d.payer_contact = e.payer /\ OrderOf(new) = Subject(e)
  BY ArmsApart, RowKeys
<1>2. /\ DOMAIN outbox' = DOMAIN outbox \union {new}
      /\ \A o \in DOMAIN outbox : outbox'[o] = outbox[o]
      /\ new \notin DOMAIN outbox => outbox'[new] = row
  <2>1. outbox' = Inserted(outbox, new, row)
    OBVIOUS
  <2> HIDE DEF new
  <2> QED
    BY <2>1 DEF Inserted
<1>3. /\ DOMAIN reference' = DOMAIN reference \union {new}
      /\ \A o \in DOMAIN reference : reference'[o] = reference[o]
      /\ new \notin DOMAIN reference => reference'[new] = k
  <2>1. reference' = Inserted(reference, new, k)
    OBVIOUS
  <2> HIDE DEF new
  <2> QED
    BY <2>1 DEF Inserted
<1>4. d = ControlDecision(e, k) /\ decisions' = decisions \union {d}
  OBVIOUS
<1>5. new = ControlRow(e, k)
  OBVIOUS
<1> HIDE DEF new, d
<1>6. /\ DOMAIN reference = DOMAIN outbox /\ Events \subseteq DOMAIN outbox
      /\ webhook_events \subseteq Events
  BY DEF Books
<1>7. row # NoEntry /\ row.status # "complete"
  BY FreshRows
<1>8. ASSUME NEW o \in DOMAIN outbox'
      PROVE  RowBooked(o, outbox'[o], reference'[o], webhook_events', K, links)
  <2>1. CASE o \in DOMAIN outbox
    <3>1. RowBooked(o, outbox[o], reference[o], webhook_events, K, links)
      BY <2>1 DEF Books
    <3> QED
      BY <1>2, <1>3, <1>6, <2>1, <3>1 DEF RowBooked
  <2>2. CASE o \notin DOMAIN outbox
    <3>1. o = new /\ outbox'[o] = row /\ reference'[o] = k
      BY <1>2, <1>3, <1>6, <2>2
    <3> QED
      BY <1>1, <1>5, <1>7, <3>1 DEF RowBooked
  <2> QED
    BY <2>1, <2>2
<1>9. DecisionBooked(d, webhook_events')
  BY <1>1, <1>4 DEF DecisionBooked
<1>10. \A c \in decisions : c.event \in DOMAIN outbox' /\ DecisionBooked(c, webhook_events')
  BY <1>2 DEF Books, DecisionBooked
<1>11. ASSUME NEW c \in decisions, c.event = d.event PROVE c = d
  <2>1. DecisionBooked(c, webhook_events)
    BY DEF Books
  <2>2. PICK f \in Events, j \in Nat : InControl(f) /\ c = ControlDecision(f, j)
    BY <1>1, <1>11, <2>1 DEF DecisionBooked
  <2>3. ControlRow(f, j) = ControlRow(e, k)
    BY <1>1, <1>5, <1>11, <2>2, RowKeys
  <2>4. Subject(f) = Subject(e) /\ j = k
    BY <2>3, RowKeys
  <2>5. f = e
    BY <1>1, <2>4, SubjectsApart
  <2> QED
    BY <1>4, <2>2, <2>4, <2>5
<1>12. \A b, c \in decisions : b.event = c.event => b = c
  BY DEF Books
<1>13. /\ \A c \in decisions' : c.event \in DOMAIN outbox' /\ DecisionBooked(c, webhook_events')
       /\ \A b, c \in decisions' : b.event = c.event => b = c
  BY <1>1, <1>2, <1>4, <1>9, <1>10, <1>11, <1>12
<1>14. Books(webhook_events', decisions', outbox', reference', K, links)
  BY <1>1, <1>2, <1>3, <1>6, <1>8, <1>13 DEF Books
<1>15. RowsKept(outbox, reference, outbox', reference')
  BY <1>2, <1>3, <1>6 DEF RowsKept
<1>16. RowsAddedBy(k, outbox, outbox', reference')
  BY <1>2, <1>3, <1>6 DEF RowsAddedBy
<1> QED
  BY <1>14, <1>15, <1>16

(* A call for row o: what it may do to the row, and to the links.          *)
CallMade(o, row, sent) ==
  /\ outbox' = [outbox EXCEPT ![o] = row] /\ DOMAIN row = RowFields
  /\ UNCHANGED <<webhook_events, decisions, reference>>
  /\ row.status = "complete" => Link(o) \in sent
  /\ row # NoEntry
  /\ sent = links \/ sent = links \union {Link(o)}

LEMMA CallWrites ==
  ASSUME NEW o \in DOMAIN outbox, outbox[o] # NoEntry,
         NEW K, Books(webhook_events, decisions, outbox, reference, K, links),
         CallSucceeds(o) \/ CallFails(o)
  PROVE  \E row : CallMade(o, row, links')
<1>1. DOMAIN outbox[o] = RowFields /\ (outbox[o].status = "complete" => Link(o) \in links)
  <2>1. RowBooked(o, outbox[o], reference[o], webhook_events, K, links)
    BY DEF Books
  <2> QED
    BY <2>1 DEF RowBooked, Link
<1>2. ASSUME NEW row, NEW event_type, Record(o, row, event_type)
      PROVE  outbox' = [outbox EXCEPT ![o] = row] /\ UNCHANGED <<webhook_events, decisions, reference>>
  BY <1>2 DEF Record
<1>3. CASE CallSucceeds(o)
  <2> DEFINE row == [outbox[o] EXCEPT !.status = "complete", !.updated_at = Now]
  <2>1. DOMAIN row = RowFields /\ row.status = "complete"
    BY <1>1 DEF RowFields
  <2>2. Record(o, row, "outbox.completed") /\ links' = links \union {Link(o)}
    BY <1>3 DEF CallSucceeds
  <2> HIDE DEF row
  <2>3. row # NoEntry
    BY <2>1, FreshRows
  <2> QED
    BY <1>2, <2>1, <2>2, <2>3 DEF CallMade
<1>4. CASE CallFails(o)
  <2> DEFINE failed == [outbox[o] EXCEPT !.attempts = outbox[o].attempts + 1, !.updated_at = Now]
             given  == [failed EXCEPT !.status = "failed_permanently"]
             again  == [failed EXCEPT !.next_attempt_at = Now + 1]
  <2>1. DOMAIN failed = RowFields /\ failed.status = outbox[o].status
    BY <1>1 DEF RowFields
  <2>2. \/ Record(o, given, "outbox.failed_permanently")
        \/ Record(o, again, "outbox.attempt_failed")
    BY <1>4 DEF CallFails
  <2>3. links' = links \/ links' = links \union {Link(o)}
    BY <1>4 DEF CallFails
  <2> HIDE DEF failed
  <2>4. DOMAIN given = RowFields /\ given.status = "failed_permanently"
    BY <2>1 DEF RowFields
  <2>5. DOMAIN again = RowFields /\ again.status = failed.status
    BY <2>1, FreshRows
  <2> HIDE DEF given, again
  <2>6. given # NoEntry /\ again # NoEntry
    BY <2>4, <2>5 DEF RowFields, NoEntry
  <2>7. CASE Record(o, given, "outbox.failed_permanently")
    BY <1>2, <2>3, <2>4, <2>6, <2>7 DEF CallMade
  <2>8. CASE Record(o, again, "outbox.attempt_failed")
    BY <1>1, <1>2, <2>1, <2>3, <2>5, <2>6, <2>8 DEF CallMade
  <2> QED
    BY <2>2, <2>7, <2>8
<1> QED
  BY <1>3, <1>4

LEMMA CallBooked ==
  ASSUME NEW o \in DOMAIN outbox, outbox[o] # NoEntry, NEW row, NEW K, NEW gone, NEW k,
         Books(webhook_events, decisions, outbox, reference, K, links),
         LinksKnown(links, gone, outbox, reference),
         CallMade(o, row, links')
  PROVE  /\ links \subseteq links' /\ DOMAIN outbox' = DOMAIN outbox
         /\ Books(webhook_events', decisions', outbox', reference', K, links')
         /\ LinksKnown(links', gone, outbox', reference')
         /\ RowsKept(outbox, reference, outbox', reference')
         /\ RowsAddedBy(k, outbox, outbox', reference')
<1>1. links \subseteq links' /\ (links' = links \/ links' = links \union {Link(o)})
  BY DEF CallMade
<1>2. /\ DOMAIN outbox' = DOMAIN outbox /\ outbox'[o] = row
      /\ \A p \in DOMAIN outbox \ {o} : outbox'[p] = outbox[p]
      /\ UNCHANGED <<webhook_events, decisions, reference>>
      /\ DOMAIN row = RowFields /\ row # NoEntry
      /\ row.status = "complete" => Link(o) \in links'
  BY DEF CallMade
<1>3. RowBooked(o, outbox[o], reference[o], webhook_events, K, links)
  BY DEF Books
<1>4. ASSUME NEW p \in DOMAIN outbox
      PROVE  RowBooked(p, outbox'[p], reference'[p], webhook_events', K, links')
  <2>1. RowBooked(p, outbox[p], reference[p], webhook_events, K, links)
    BY DEF Books
  <2>2. CASE p = o
    BY <1>2, <1>3, <2>2 DEF RowBooked, Link
  <2>3. CASE p # o
    BY <1>1, <1>2, <2>1, <2>3 DEF RowBooked
  <2> QED
    BY <2>2, <2>3
<1>5. Books(webhook_events', decisions', outbox', reference', K, links')
  BY <1>2, <1>4 DEF Books
<1>6. RowsKept(outbox, reference, outbox', reference') /\ RowsAddedBy(k, outbox, outbox', reference')
  BY <1>2 DEF RowsKept, RowsAddedBy
<1>7. IsFiniteSet(links')
  BY <1>1, FS_AddElement DEF LinksKnown
<1>8. LinkMade(Link(o)) /\ LinkAccounted(Link(o), gone, outbox', reference')
  <2>1. Link(o).row = o /\ Link(o).evaluation = reference[o]
    BY DEF Link
  <2>2. Link(o) = [row |-> Link(o).row, evaluation |-> Link(o).evaluation]
    BY DEF Link
  <2>3. \E e \in Events : \/ InTreatment(e) /\ o = e
                          \/ InControl(e) /\ o = ControlRow(e, reference[o])
    BY <1>3 DEF RowBooked
  <2> QED
    BY <1>2, <2>1, <2>2, <2>3 DEF LinkMade, LinkAccounted
<1>9. LinksKnown(links', gone, outbox', reference')
  <2>1. NoneUnknown(links', links, gone, outbox', reference')
    BY <1>1, <1>8 DEF NoneUnknown
  <2> QED
    BY <1>6, <1>7, <2>1, LinksStayKnown
<1> QED
  BY <1>1, <1>2, <1>5, <1>6, <1>9

-----------------------------------------------------------------------------
(* What the metrics count, counted at Razorpay.                            *)
LEMMA LiveCounted ==
  ASSUME started \in Nat, lost \subseteq 1 .. started
  PROVE  /\ IsFiniteSet(lost) /\ Cardinality(lost) \in Nat
         /\ IsFiniteSet(Live) /\ Cardinality(Live) = Committed
<1>1. IsFiniteSet(1 .. started) /\ Cardinality(1 .. started) = started
  BY FS_Interval
<1>2. IsFiniteSet(lost)
  BY <1>1, FS_Subset
<1>3. Cardinality(lost) \in Nat
  BY <1>2, FS_CardinalityType
<1>4. (1 .. started) \intersect lost = lost
  OBVIOUS
<1>5. /\ IsFiniteSet((1 .. started) \ lost)
      /\ Cardinality((1 .. started) \ lost)
           = Cardinality(1 .. started) - Cardinality((1 .. started) \intersect lost)
  BY <1>1, FS_Difference
<1>6. IsFiniteSet(Live) /\ Cardinality(Live) = started - Cardinality(lost)
  BY <1>1, <1>4, <1>5 DEF Live
<1> QED
  BY <1>2, <1>3, <1>6 DEF Committed

LEMMA CompletedRow ==
  ASSUME NEW K, Books(webhook_events, decisions, outbox, reference, K, links),
         NEW o \in DOMAIN outbox, outbox[o].status = "complete"
  PROVE  /\ Link(o) \in links /\ Link(o).row = o /\ reference[o] \in K
         /\ \/ o \in Events /\ InTreatment(o) /\ OrderOf(o) = Subject(o)
            \/ \E e \in Events : /\ InControl(e) /\ o = ControlRow(e, reference[o])
                                 /\ OrderOf(o) = Subject(e)
<1>1. RowBooked(o, outbox[o], reference[o], webhook_events, K, links)
  BY DEF Books
<1>2. outbox[o] # NoEntry
  BY FreshRows
<1>3. Link(o) = [row |-> o, evaluation |-> reference[o]]
  BY DEF Link
<1>4. Link(o) \in links /\ reference[o] \in K
  BY <1>1, <1>2, <1>3 DEF RowBooked
<1>5. CASE o \in Events
  BY <1>1, <1>2, <1>3, <1>4, <1>5, RowKeys DEF RowBooked
<1>6. CASE o \notin Events
  <2>1. PICK e \in Events : InControl(e) /\ o = ControlRow(e, reference[o])
    BY <1>1, <1>6 DEF RowBooked
  <2>2. OrderOf(o) = Subject(e)
    BY <2>1, RowKeys
  <2> QED
    BY <1>3, <1>4, <2>1, <2>2
<1> QED
  BY <1>5, <1>6

LEMMA SendsHaveLinks ==
  ASSUME NEW K, Books(webhook_events, decisions, outbox, reference, K, links),
         IsFiniteSet(links), NEW orders
  PROVE  /\ IsFiniteSet(RowsOf(orders, "complete"))
         /\ Cardinality(RowsOf(orders, "complete")) \in Nat
         /\ Cardinality(RowsOf(orders, "complete")) <= Cardinality(SentTo(orders, links))
<1> DEFINE R == RowsOf(orders, "complete")
           T == SentTo(orders, links)
           f == [o \in R |-> Link(o)]
<1>1. ASSUME NEW o \in R PROVE Link(o) \in T /\ Link(o).row = o
  <2>1. o \in DOMAIN outbox /\ outbox[o].status = "complete" /\ OrderOf(o) \in orders
    BY DEF RowsOf
  <2>2. Link(o) \in links /\ Link(o).row = o
    BY <2>1, CompletedRow
  <2> QED
    BY <2>1, <2>2 DEF SentTo
<1>2. IsFiniteSet(T)
  BY FS_Subset DEF SentTo
<1> HIDE DEF R, T
<1>3. f \in Injection(R, T)
  BY <1>1 DEF Injection, IsInjective
<1>4. IsFiniteSet(R) /\ Cardinality(R) <= Cardinality(T)
  BY <1>2, <1>3, FS_Injection
<1>5. Cardinality(R) \in Nat
  BY <1>4, FS_CardinalityType
<1> QED
  BY <1>4, <1>5 DEF R, T

LEMMA TouchesHaveLinks ==
  ASSUME NEW K, Books(webhook_events, decisions, outbox, reference, K, links),
         IsFiniteSet(links), NEW payer
  PROVE  /\ Cardinality(Contacted(payer)) \in Nat
         /\ Cardinality(SentToPayer(payer, links)) \in Nat
         /\ Cardinality(Contacted(payer)) <= Cardinality(SentToPayer(payer, links))
<1> DEFINE S == Contacted(payer)
           T == SentToPayer(payer, links)
           f == [d \in S |-> Link(d.event)]
<1>1. ASSUME NEW d \in S PROVE Link(d.event) \in T /\ Link(d.event).row = d.event
  <2>1. d \in decisions /\ d.payer_contact = payer /\ outbox[d.event].status = "complete"
    BY DEF Contacted
  <2>2. d.event \in DOMAIN outbox /\ DecisionBooked(d, webhook_events)
    BY <2>1 DEF Books
  <2>3. PICK e \in Events : d.payer_contact = e.payer /\ Subject(e) = OrderOf(d.event)
    BY <2>2 DEF DecisionBooked
  <2>4. Link(d.event) \in links /\ Link(d.event).row = d.event
    BY <2>1, <2>2, CompletedRow
  <2>5. PayerOf(OrderOf(d.event)) = payer
    BY <2>1, <2>3, PayerOfOrder
  <2> QED
    BY <2>4, <2>5 DEF SentToPayer
<1>2. \A c, d \in S : c.event = d.event => c = d
  BY DEF Contacted, Books
<1>3. IsFiniteSet(T)
  BY FS_Subset DEF SentToPayer
<1> HIDE DEF S, T
<1>4. f \in Injection(S, T)
  BY <1>1, <1>2 DEF Injection, IsInjective
<1>5. IsFiniteSet(S) /\ Cardinality(S) <= Cardinality(T)
  BY <1>3, <1>4, FS_Injection
<1>6. Cardinality(S) \in Nat /\ Cardinality(T) \in Nat
  BY <1>3, <1>5, FS_CardinalityType
<1> QED
  BY <1>5, <1>6 DEF S, T

(* An order that was sent twice is one of the control arm, and each of its *)
(* rows is of another evaluation.                                          *)
LEMMA DoublesAreRepeats ==
  ASSUME IInv, NEW s, Cardinality(RowsOf({s}, "complete")) > 1
  PROVE  s \in Orders(Control) /\ Committed >= 2
<1> DEFINE R == RowsOf({s}, "complete")
<1>1. /\ Books(webhook_events, decisions, outbox, reference, Live, links)
      /\ IsFiniteSet(links) /\ started \in Nat /\ lost \subseteq 1 .. started
  BY DEF IInv, LinksKnown
<1>2. IsFiniteSet(R) /\ Cardinality(R) \in Nat
  BY <1>1, SendsHaveLinks
<1>3. ASSUME NEW o \in R
      PROVE  /\ reference[o] \in Live
             /\ \/ o \in Events /\ InTreatment(o) /\ Subject(o) = s
                \/ \E e \in Events : InControl(e) /\ o = ControlRow(e, reference[o]) /\ Subject(e) = s
  <2>1. o \in DOMAIN outbox /\ outbox[o].status = "complete" /\ OrderOf(o) = s
    BY DEF RowsOf
  <2> QED
    BY <1>1, <2>1, CompletedRow
<1>4. Cardinality(R) > 1
  OBVIOUS
<1> HIDE DEF R
<1>5. PICK e \in Events : InControl(e) /\ Subject(e) = s
  <2> SUFFICES ASSUME \A e \in Events : ~(InControl(e) /\ Subject(e) = s) PROVE FALSE
    OBVIOUS
  <2>1. \A o \in R : o \in Events /\ Subject(o) = s
    BY <1>3
  <2>2. \A o, p \in R : o = p
    BY <2>1, SubjectsApart
  <2>3. R # {}
    BY <1>4, FS_EmptySet
  <2>4. PICK o : o \in R
    BY <2>3
  <2>5. R = {o}
    BY <2>2, <2>4
  <2>6. Cardinality(R) = 1
    BY <2>5, FS_Singleton
  <2> QED
    BY <1>4, <2>6
<1>6. \A o \in R : reference[o] \in Live /\ o = ControlRow(e, reference[o])
  <2> SUFFICES ASSUME NEW o \in R PROVE reference[o] \in Live /\ o = ControlRow(e, reference[o])
    OBVIOUS
  <2>1. ~(o \in Events /\ InTreatment(o) /\ Subject(o) = s)
    BY <1>5, SubjectsApart, ArmsApart
  <2>2. PICK g \in Events : InControl(g) /\ o = ControlRow(g, reference[o]) /\ Subject(g) = s
    BY <1>3, <2>1
  <2>3. g = e
    BY <1>5, <2>2, SubjectsApart
  <2> QED
    BY <1>3, <2>2, <2>3
<1> DEFINE f == [o \in R |-> reference[o]]
<1>7. f \in Injection(R, Live)
  BY <1>6 DEF Injection, IsInjective
<1>8. IsFiniteSet(Live) /\ Cardinality(Live) = Committed /\ Cardinality(lost) \in Nat
  BY <1>1, LiveCounted
<1>9. Cardinality(R) <= Committed
  BY <1>7, <1>8, FS_Injection
<1>10. s \in Orders(Control)
  BY <1>5, ArmsApart
<1> QED
  BY <1>1, <1>2, <1>4, <1>8, <1>9, <1>10 DEF Committed

LEMMA MetricsTruthful ==
  ASSUME IInv, NEW settings \in Settings
  PROVE  Truthful(Metrics(settings), links)
<1> DEFINE m == Metrics(settings)
<1>1. /\ Books(webhook_events, decisions, outbox, reference, Live, links)
      /\ IsFiniteSet(links)
  BY DEF IInv, LinksKnown
<1>2. /\ m.treatment = Attempted(Treatment) /\ m.control = Attempted(Control)
      /\ m.cap = settings.max_touches_per_payer_7d
      /\ m.violations = touch_violations(settings)
      /\ m.doubles = double_charges(Subjects) /\ m.committed = Committed
  BY DEF Metrics
<1> HIDE DEF m
<1>3. m.cap \in Nat
  BY <1>2, SettingsAssumption
<1>4. /\ m.treatment \in Nat /\ m.treatment <= Cardinality(SentTo(Orders(Treatment), links))
      /\ m.control \in Nat /\ m.control <= Cardinality(SentTo(Orders(Control), links))
  BY <1>1, <1>2, SendsHaveLinks DEF Attempted
<1>5. ASSUME NEW payer \in m.violations PROVE Cardinality(SentToPayer(payer, links)) > m.cap
  <2>1. Cardinality(Contacted(payer)) > m.cap
    BY <1>2 DEF touch_violations
  <2>2. /\ Cardinality(Contacted(payer)) \in Nat
        /\ Cardinality(SentToPayer(payer, links)) \in Nat
        /\ Cardinality(Contacted(payer)) <= Cardinality(SentToPayer(payer, links))
    BY <1>1, TouchesHaveLinks
  <2> QED
    BY <1>3, <2>1, <2>2
<1>6. ASSUME NEW s \in m.doubles PROVE s \in Orders(Control) /\ m.committed >= 2
  <2>1. Cardinality(RowsOf({s}, "complete")) > 1
    BY <1>2 DEF double_charges
  <2> QED
    BY <1>2, <2>1, DoublesAreRepeats
<1>7. Truthful(m, links)
  BY <1>3, <1>4, <1>5, <1>6 DEF Truthful
<1> QED
  BY <1>7 DEF m

-----------------------------------------------------------------------------
(* The inductive invariant.                                                *)
LEMMA InitInv == EvaluationInit => IInv
<1> SUFFICES ASSUME EvaluationInit PROVE IInv
  OBVIOUS
<1>1. /\ webhook_events = {} /\ decisions = {} /\ outbox = [e \in Events |-> NoEntry]
      /\ reference = [e \in Events |-> 0] /\ links = {}
      /\ evaluation = Idle /\ started = 0 /\ lost = {} /\ results = NoResults
  BY DEF EvaluationInit, TablesInit
<1>2. ASSUME NEW o \in DOMAIN outbox
      PROVE  RowBooked(o, outbox[o], reference[o], webhook_events, Live, links)
  BY <1>1, FreshRows DEF RowBooked
<1>3. Books(webhook_events, decisions, outbox, reference, Live, links)
  BY <1>1, <1>2 DEF Books
<1>4. LinksKnown(links, lost, outbox, reference)
  BY <1>1, FS_EmptySet DEF LinksKnown
<1> QED
  BY <1>1, <1>3, <1>4 DEF IInv

(* The phase the evaluation is in says which part of IInv holds of it.     *)
LEMMA PhaseHolds ==
  ASSUME IInv
  PROVE  /\ evaluation.pc \in Phases => InTransaction
         /\ evaluation.pc = "writing" => Truthful(evaluation.metrics, links)
         /\ evaluation # Idle => evaluation.pc = "writing" \/ InTransaction
         /\ evaluation.pc # "round" => evaluation.claimed = {}
<1>1. Idle.pc = "idle" /\ Idle.claimed = {}
  BY DEF Idle
<1> QED
  BY <1>1 DEF IInv, Phases, InTransaction

(* A step that only adds to the tables and to the links.                   *)
TablesGrow ==
  /\ UNCHANGED <<saved, started, lost, results>>
  /\ webhook_events \subseteq webhook_events'
  /\ links \subseteq links'
  /\ Books(webhook_events', decisions', outbox', reference', Live, links')
  /\ LinksKnown(links', lost, outbox', reference')
  /\ RowsKept(outbox, reference, outbox', reference')
  /\ RowsAddedBy(started, outbox, outbox', reference')

LEMMA NothingGrows ==
  ASSUME IInv, UNCHANGED <<database, links, saved, started, lost, results>> PROVE TablesGrow
<1>1. UNCHANGED <<webhook_events, decisions, outbox, reference, links, saved, started, lost, results>>
  BY DEF database
<1>2. /\ Books(webhook_events, decisions, outbox, reference, Live, links)
      /\ LinksKnown(links, lost, outbox, reference)
  BY DEF IInv
<1> QED
  BY <1>1, <1>2 DEF TablesGrow, RowsKept, RowsAddedBy

LEMMA RestHolds ==
  ASSUME IInv, TablesGrow
  PROVE  /\ started' \in Nat /\ lost' \subseteq 1 .. started'
         /\ Books(webhook_events, decisions, outbox, reference, Live, links)'
         /\ LinksKnown(links, lost, outbox, reference)'
         /\ (results # NoResults => Truthful(results, links))'
<1>1. /\ UNCHANGED <<started, lost, results>> /\ links \subseteq links'
      /\ Books(webhook_events', decisions', outbox', reference', Live, links')
      /\ LinksKnown(links', lost, outbox', reference')
  BY DEF TablesGrow
<1>2. Live' = Live
  BY <1>1 DEF Live
<1>3. results # NoResults => Truthful(results, links')
  BY <1>1, TruthfulLater DEF IInv, LinksKnown
<1> QED
  BY <1>1, <1>2, <1>3 DEF IInv

GoesOn ==
  /\ evaluation'.pc \in Phases /\ DOMAIN evaluation' = Fields /\ evaluation'.at \in Nat \ {0}
  /\ \A o \in evaluation'.claimed : o \in DOMAIN outbox' /\ outbox'[o] # NoEntry
  /\ evaluation'.pc # "round" => evaluation'.claimed = {}

LEMMA TransactionGoesOn == ASSUME IInv, InTransaction, TablesGrow, GoesOn PROVE IInv'
<1>1. /\ UNCHANGED <<saved, started, lost>> /\ webhook_events \subseteq webhook_events'
      /\ links \subseteq links'
      /\ RowsKept(outbox, reference, outbox', reference')
      /\ RowsAddedBy(started, outbox, outbox', reference')
  BY DEF TablesGrow
<1>2. /\ Books(saved.webhook_events, saved.decisions, saved.outbox, saved.reference, Before, links)
      /\ saved.webhook_events \subseteq webhook_events
      /\ RowsKept(saved.outbox, saved.reference, outbox, reference)
      /\ RowsAddedBy(started, saved.outbox, outbox, reference)
      /\ started \in Nat \ {0} /\ started \notin lost
  BY DEF InTransaction
<1>3. Before' = Before
  BY <1>1 DEF Before
<1>4. Books(saved.webhook_events, saved.decisions, saved.outbox, saved.reference, Before, links')
  BY <1>1, <1>2, BooksLater
<1>5. /\ RowsKept(saved.outbox, saved.reference, outbox', reference')
      /\ RowsAddedBy(started, saved.outbox, outbox', reference')
  BY <1>1, <1>2, RowsKeptTwice
<1>6. InTransaction'
  BY <1>1, <1>2, <1>3, <1>4, <1>5 DEF InTransaction, GoesOn
<1> QED
  BY <1>6, RestHolds DEF IInv

LEMMA BeginInv == ASSUME IInv, Begin PROVE IInv'
<1>1. /\ started' = started + 1 /\ saved' = Snapshot /\ evaluation' = [Idle EXCEPT !.pc = "treatment", !.at = 1]
      /\ UNCHANGED <<webhook_events, decisions, outbox, reference, links, lost, results>>
  BY DEF Begin, database
<1>2. /\ started \in Nat /\ lost \subseteq 1 .. started
      /\ Books(webhook_events, decisions, outbox, reference, Live, links)
      /\ LinksKnown(links, lost, outbox, reference)
      /\ results # NoResults => Truthful(results, links)
  BY DEF IInv
<1>3. Live \subseteq Live' /\ Before' = Live
  BY <1>1, <1>2 DEF Live, Before
<1>4. Books(webhook_events, decisions, outbox, reference, Live', links)
  BY <1>2, <1>3, BooksLater
<1>5. /\ saved'.webhook_events = webhook_events /\ saved'.decisions = decisions
      /\ saved'.outbox = outbox /\ saved'.reference = reference
  BY <1>1 DEF Snapshot
<1>6. /\ evaluation'.pc \in Phases /\ DOMAIN evaluation' = Fields /\ evaluation'.at = 1
      /\ evaluation'.claimed = {}
  BY <1>1 DEF Idle, Phases, Fields
<1>7. started' \in Nat \ {0} /\ started' \notin lost /\ lost \subseteq 1 .. started'
  BY <1>1, <1>2
<1>8. InTransaction'
  BY <1>1, <1>2, <1>3, <1>5, <1>6, <1>7 DEF InTransaction, RowsKept, RowsAddedBy
<1> QED
  BY <1>1, <1>2, <1>4, <1>7, <1>8 DEF IInv

LEMMA IngestTreatmentInv ==
  ASSUME IInv, NEW settings \in Settings, IngestTreatment(settings) PROVE IInv'
<1> DEFINE e == Treatment[evaluation.at]
<1>1. /\ evaluation.pc = "treatment" /\ evaluation.at <= Len(Treatment)
      /\ Handle(e, OccurredAt[e], settings)
      /\ reference' = [reference EXCEPT ![e] = IF e \in webhook_events THEN reference[e] ELSE started]
      /\ evaluation' = [evaluation EXCEPT !.at = evaluation.at + 1]
      /\ UNCHANGED <<links, saved, started, lost, results>>
  BY DEF IngestTreatment, At, GoOn
<1>2. InTransaction
  BY <1>1, PhaseHolds DEF Phases
<1>3. InTreatment(e)
  <2>1. evaluation.at \in Nat \ {0}
    BY <1>2 DEF InTransaction
  <2>2. Treatment \in Seq(Events)
    <3>1. Failures \in Seq(Events) /\ Split \in 0 .. Len(Failures)
      BY BatchAssumption, SplitInRange
    <3> HIDE DEF Split
    <3> QED
      BY <3>1 DEF Treatment
  <2>3. evaluation.at \in DOMAIN Treatment
    BY <1>1, <2>1, <2>2
  <2> QED
    BY <2>3 DEF InTreatment
<1> HIDE DEF e
<1>4. /\ Books(webhook_events, decisions, outbox, reference, Live, links)
      /\ LinksKnown(links, lost, outbox, reference)
  BY DEF IInv
<1>5. started \in Live
  BY <1>2 DEF InTransaction, Live
<1>6. /\ webhook_events \subseteq webhook_events'
      /\ Books(webhook_events', decisions', outbox', reference', Live, links)
      /\ RowsKept(outbox, reference, outbox', reference')
      /\ RowsAddedBy(started, outbox, outbox', reference')
  BY <1>1, <1>3, <1>4, <1>5, DeliveryBooked
<1>7. LinksKnown(links, lost, outbox', reference')
  <2>1. NoneUnknown(links, links, lost, outbox', reference') /\ IsFiniteSet(links)
    BY <1>4 DEF NoneUnknown, LinksKnown
  <2> QED
    BY <1>4, <1>6, <2>1, LinksStayKnown
<1>8. TablesGrow
  BY <1>1, <1>6, <1>7 DEF TablesGrow
<1>9. GoesOn
  BY <1>1, <1>2, <1>6 DEF GoesOn, InTransaction, Phases, Fields, RowsKept
<1> QED
  BY <1>2, <1>8, <1>9, TransactionGoesOn

LEMMA IngestControlInv == ASSUME IInv, IngestControl PROVE IInv'
<1> DEFINE e   == Control[evaluation.at]
           d   == ControlDecision(e, started)
           row == [OutboxRow(d) EXCEPT !.next_attempt_at = d.retry_at]
<1>1. /\ evaluation.pc = "control" /\ evaluation.at <= Len(Control)
      /\ webhook_events' = webhook_events \union {e}
      /\ decisions' = decisions \union {d}
      /\ outbox' = Inserted(outbox, d.event, row)
      /\ reference' = Inserted(reference, d.event, started)
      /\ evaluation' = [evaluation EXCEPT !.at = evaluation.at + 1]
      /\ UNCHANGED <<links, saved, started, lost, results>>
  BY DEF IngestControl, At, GoOn
<1>2. InTransaction
  BY <1>1, PhaseHolds DEF Phases
<1>3. InControl(e)
  <2>1. evaluation.at \in Nat \ {0}
    BY <1>2 DEF InTransaction
  <2>2. Control \in Seq(Events)
    <3>1. Failures \in Seq(Events) /\ Split \in 0 .. Len(Failures)
      BY BatchAssumption, SplitInRange
    <3> HIDE DEF Split
    <3> QED
      BY <3>1 DEF Control
  <2>3. evaluation.at \in DOMAIN Control
    BY <1>1, <2>1, <2>2
  <2> QED
    BY <2>3 DEF InControl
<1>4. d.event = ControlRow(e, started)
  BY RowKeys
<1>5. DOMAIN row = RowFields /\ row.status = "pending"
  BY FreshRows
<1>6. decisions' = decisions \union {ControlDecision(e, started)}
  BY <1>1
<1> HIDE DEF e, d, row
<1>7. /\ Books(webhook_events, decisions, outbox, reference, Live, links)
      /\ LinksKnown(links, lost, outbox, reference)
  BY DEF IInv
<1>8. started \in Live \intersect Nat
  BY <1>2 DEF InTransaction, Live
<1>9. /\ Books(webhook_events', decisions', outbox', reference', Live, links)
      /\ RowsKept(outbox, reference, outbox', reference')
      /\ RowsAddedBy(started, outbox, outbox', reference')
  BY <1>1, <1>3, <1>4, <1>5, <1>6, <1>7, <1>8, RetryBooked
<1>10. LinksKnown(links, lost, outbox', reference')
  <2>1. NoneUnknown(links, links, lost, outbox', reference') /\ IsFiniteSet(links)
    BY <1>7 DEF NoneUnknown, LinksKnown
  <2> QED
    BY <1>7, <1>9, <2>1, LinksStayKnown
<1>11. TablesGrow
  BY <1>1, <1>9, <1>10 DEF TablesGrow
<1>12. GoesOn
  BY <1>1, <1>2, <1>9 DEF GoesOn, InTransaction, Phases, Fields, RowsKept
<1> QED
  BY <1>2, <1>11, <1>12, TransactionGoesOn

LEMMA TurnToControlInv == ASSUME IInv, TurnToControl PROVE IInv'
<1>1. /\ evaluation.pc = "treatment"
      /\ evaluation' = [evaluation EXCEPT !.pc = "control", !.at = 1]
      /\ UNCHANGED <<database, links, saved, started, lost, results>>
  BY DEF TurnToControl
<1>2. InTransaction /\ TablesGrow
  BY <1>1, PhaseHolds, NothingGrows DEF Phases
<1>3. outbox' = outbox
  BY <1>1 DEF database
<1>4. GoesOn
  BY <1>1, <1>2, <1>3 DEF GoesOn, InTransaction, Phases, Fields
<1> QED
  BY <1>2, <1>4, TransactionGoesOn

LEMMA StartRoundInv == ASSUME IInv, NEW waited, StartRound(waited) PROVE IInv'
<1>1. /\ evaluation.pc \in {"control", "round"}
      /\ evaluation.pc = "round" => evaluation.claimed = {}
      /\ \/ evaluation' = [evaluation EXCEPT !.pc = "round", !.claimed = Due(waited),
                                             !.round = evaluation.round + 1]
         \/ evaluation' = [evaluation EXCEPT !.pc = "measure"]
      /\ UNCHANGED <<database, links, saved, started, lost, results>>
  BY DEF StartRound, RoundOver
<1>2. InTransaction /\ TablesGrow
  BY <1>1, PhaseHolds, NothingGrows DEF Phases
<1>3. outbox' = outbox
  BY <1>1 DEF database
<1>4. \A o \in Due(waited) : o \in DOMAIN outbox /\ outbox[o] # NoEntry
  BY FreshRows DEF Due
<1>5. GoesOn
  <2>1. CASE evaluation' = [evaluation EXCEPT !.pc = "round", !.claimed = Due(waited),
                                              !.round = evaluation.round + 1]
    <3>1. /\ evaluation'.pc = "round" /\ evaluation'.claimed = Due(waited)
          /\ evaluation'.at = evaluation.at /\ DOMAIN evaluation' = Fields
      BY <1>2, <2>1 DEF InTransaction, Fields
    <3> QED
      BY <1>2, <1>3, <1>4, <3>1 DEF GoesOn, InTransaction, Phases
  <2>2. CASE evaluation' = [evaluation EXCEPT !.pc = "measure"]
    <3>1. evaluation.claimed = {}
      BY <1>1, PhaseHolds
    <3>2. /\ evaluation'.pc = "measure" /\ evaluation'.claimed = evaluation.claimed
          /\ evaluation'.at = evaluation.at /\ DOMAIN evaluation' = Fields
      BY <1>2, <2>2 DEF InTransaction, Fields
    <3> QED
      BY <1>2, <1>3, <3>1, <3>2 DEF GoesOn, InTransaction, Phases
  <2> QED
    BY <1>1, <2>1, <2>2
<1> QED
  BY <1>2, <1>5, TransactionGoesOn

LEMMA CallGrows ==
  ASSUME IInv, NEW o \in DOMAIN outbox, outbox[o] # NoEntry, CallSucceeds(o) \/ CallFails(o),
         UNCHANGED <<saved, started, lost, results>>
  PROVE  TablesGrow /\ \A p \in DOMAIN outbox : outbox[p] # NoEntry =>
                         p \in DOMAIN outbox' /\ outbox'[p] # NoEntry
<1>1. /\ Books(webhook_events, decisions, outbox, reference, Live, links)
      /\ LinksKnown(links, lost, outbox, reference)
  BY DEF IInv
<1>2. PICK row : CallMade(o, row, links')
  BY <1>1, CallWrites
<1>3. webhook_events' = webhook_events
  BY <1>2 DEF CallMade
<1>4. TablesGrow
  BY <1>1, <1>2, <1>3, CallBooked DEF TablesGrow
<1> QED
  BY <1>4 DEF TablesGrow, RowsKept

LEMMA DispatchRowInv == ASSUME IInv, NEW o \in DOMAIN outbox, DispatchRow(o) PROVE IInv'
<1>1. /\ o \in evaluation.claimed
      /\ CallSucceeds(o) \/ CallFails(o) \/ Skipped(o)
      /\ evaluation' = [evaluation EXCEPT !.claimed = evaluation.claimed \ {o}]
      /\ UNCHANGED <<saved, started, lost, results>>
  BY DEF DispatchRow
<1>2. InTransaction
  <2>1. evaluation.pc = "round"
    BY <1>1, PhaseHolds
  <2> QED
    BY <2>1, PhaseHolds DEF Phases
<1>3. outbox[o] # NoEntry
  BY <1>1, <1>2 DEF InTransaction
<1>4. TablesGrow /\ \A p \in DOMAIN outbox : outbox[p] # NoEntry =>
                      p \in DOMAIN outbox' /\ outbox'[p] # NoEntry
  <2>1. CASE CallSucceeds(o) \/ CallFails(o)
    BY <1>1, <1>3, <2>1, CallGrows
  <2>2. CASE Skipped(o)
    <3>1. UNCHANGED <<database, links>>
      BY <2>2 DEF Skipped
    <3>2. outbox' = outbox
      BY <3>1 DEF database
    <3> QED
      BY <1>1, <3>1, <3>2, NothingGrows
  <2> QED
    BY <1>1, <2>1, <2>2
<1>5. GoesOn
  BY <1>1, <1>2, <1>4 DEF GoesOn, InTransaction, Fields
<1> QED
  BY <1>2, <1>4, <1>5, TransactionGoesOn

(* Once the metrics are computed only they matter of the evaluation.       *)
LEMMA CommitInv == ASSUME IInv, NEW settings \in Settings, Commit(settings) PROVE IInv'
<1>1. /\ evaluation.pc = "measure"
      /\ evaluation' = [evaluation EXCEPT !.pc = "writing", !.metrics = Metrics(settings)]
      /\ UNCHANGED <<database, links, saved, started, lost, results>>
  BY DEF Commit
<1>2. InTransaction /\ TablesGrow
  BY <1>1, PhaseHolds, NothingGrows DEF Phases
<1>3. /\ evaluation'.pc = "writing" /\ evaluation'.metrics = Metrics(settings)
      /\ evaluation'.claimed = {}
  <2> DEFINE m == Metrics(settings)
  <2>1. evaluation' = [evaluation EXCEPT !.pc = "writing", !.metrics = m] /\ DOMAIN evaluation = Fields
    BY <1>1, <1>2 DEF InTransaction
  <2> HIDE DEF m
  <2>2. /\ evaluation'.pc = "writing" /\ evaluation'.metrics = m
        /\ evaluation'.claimed = evaluation.claimed
    BY <2>1 DEF Fields
  <2>3. evaluation.claimed = {}
    BY <1>1, PhaseHolds
  <2> QED
    BY <2>2, <2>3 DEF m
<1>4. Truthful(Metrics(settings), links) /\ links' = links
  BY <1>1, MetricsTruthful
<1>5. Truthful(evaluation'.metrics, links')
  BY <1>3, <1>4
<1> QED
  BY <1>2, <1>3, <1>5, RestHolds DEF IInv

LEMMA WriteResultsInv == ASSUME IInv, WriteResults PROVE IInv'
<1>1. /\ evaluation.pc = "writing" /\ results' = evaluation.metrics /\ evaluation' = Idle
      /\ UNCHANGED <<webhook_events, decisions, outbox, reference, links, started, lost>>
  BY DEF WriteResults, database
<1>2. Truthful(evaluation.metrics, links)
  BY <1>1, PhaseHolds
<1>3. Live' = Live
  BY <1>1 DEF Live
<1> QED
  BY <1>1, <1>2, <1>3 DEF IInv

(* Its rows are gone and its links are not: they count as lost.            *)
LEMMA DieInv == ASSUME IInv, Die PROVE IInv'
<1>1. evaluation # Idle /\ evaluation' = Idle /\ UNCHANGED <<links, saved, started, results>>
  BY DEF Die
<1>2. CASE evaluation.pc = "writing"
  <2>1. UNCHANGED <<database, lost>>
    BY <1>2 DEF Die
  <2>2. TablesGrow
    BY <1>1, <2>1, NothingGrows
  <2> QED
    BY <1>1, <2>2, RestHolds DEF IInv
<1>3. CASE evaluation.pc # "writing"
  <2>1. /\ webhook_events' = saved.webhook_events /\ decisions' = saved.decisions
        /\ outbox' = saved.outbox /\ reference' = saved.reference
        /\ lost' = lost \union {started}
    BY <1>3 DEF Die
  <2>2. /\ Books(saved.webhook_events, saved.decisions, saved.outbox, saved.reference, Before, links)
        /\ RowsKept(saved.outbox, saved.reference, outbox, reference)
        /\ RowsAddedBy(started, saved.outbox, outbox, reference)
        /\ started \in Nat \ {0}
    BY <1>1, <1>3, PhaseHolds DEF InTransaction
  <2>3. lost \subseteq 1 .. started /\ LinksKnown(links, lost, outbox, reference)
    BY DEF IInv
  <2>4. Live' = Before /\ lost' \subseteq 1 .. started
    BY <1>1, <2>1, <2>2, <2>3 DEF Live, Before
  <2>5. ASSUME NEW l \in links PROVE LinkMade(l) /\ LinkAccounted(l, lost', saved.outbox, saved.reference)
    <3>1. LinkMade(l) /\ LinkAccounted(l, lost, outbox, reference)
      BY <2>3 DEF LinksKnown
    <3>2. CASE l.evaluation \in lost'
      BY <3>1, <3>2 DEF LinkAccounted
    <3>3. CASE l.evaluation \notin lost'
      <4>1. /\ l.row \in DOMAIN outbox /\ outbox[l.row] # NoEntry /\ reference[l.row] = l.evaluation
            /\ l.evaluation # started
        BY <2>1, <3>1, <3>3 DEF LinkAccounted
      <4>2. l.row \in DOMAIN saved.outbox /\ saved.outbox[l.row] # NoEntry
        BY <2>2, <4>1 DEF RowsAddedBy
      <4>3. saved.reference[l.row] = reference[l.row]
        BY <2>2, <4>2 DEF RowsKept
      <4> QED
        BY <3>1, <4>1, <4>2, <4>3 DEF LinkAccounted
    <3> QED
      BY <3>2, <3>3
  <2>6. LinksKnown(links, lost', saved.outbox, saved.reference)
    BY <2>3, <2>5 DEF LinksKnown
  <2> QED
    BY <1>1, <2>1, <2>2, <2>4, <2>6 DEF IInv
<1> QED
  BY <1>2, <1>3

LEMMA CoolDownInv == ASSUME IInv, CoolDown PROVE IInv'
<1>1. evaluation' = Idle /\ UNCHANGED <<database, links, saved, started, lost, results>>
  BY DEF CoolDown
<1>2. TablesGrow
  BY <1>1, NothingGrows
<1> QED
  BY <1>1, <1>2, RestHolds DEF IInv

LEMMA DispatchLaterInv == ASSUME IInv, NEW o \in DOMAIN outbox, DispatchLater(o) PROVE IInv'
<1>1. /\ evaluation = Idle /\ outbox[o].status = "pending"
      /\ CallSucceeds(o) \/ CallFails(o)
      /\ UNCHANGED <<evaluation, saved, started, lost, results>>
  BY DEF DispatchLater
<1>2. outbox[o] # NoEntry
  BY <1>1, FreshRows
<1>3. TablesGrow
  BY <1>1, <1>2, CallGrows
<1> QED
  BY <1>1, <1>3, RestHolds DEF IInv

LEMMA StepInv == ASSUME IInv, [EvaluationNext]_vars PROVE IInv'
<1>1. CASE Begin
  BY <1>1, BeginInv
<1>2. CASE Step
  <2>1. ASSUME NEW settings \in Settings, IngestTreatment(settings) PROVE IInv'
    BY <2>1, IngestTreatmentInv
  <2>2. ASSUME NEW settings \in Settings, Commit(settings) PROVE IInv'
    BY <2>2, CommitInv
  <2>3. CASE TurnToControl
    BY <2>3, TurnToControlInv
  <2>4. CASE IngestControl
    BY <2>4, IngestControlInv
  <2>5. ASSUME NEW waited \in BOOLEAN, StartRound(waited) PROVE IInv'
    BY <2>5, StartRoundInv
  <2>6. ASSUME NEW o \in DOMAIN outbox, DispatchRow(o) PROVE IInv'
    BY <2>6, DispatchRowInv
  <2>7. CASE WriteResults
    BY <2>7, WriteResultsInv
  <2> QED
    BY <1>2, <2>1, <2>2, <2>3, <2>4, <2>5, <2>6, <2>7 DEF Step
<1>3. CASE Die
  BY <1>3, DieInv
<1>4. CASE CoolDown
  BY <1>4, CoolDownInv
<1>5. ASSUME NEW o \in DOMAIN outbox, DispatchLater(o) PROVE IInv'
  BY <1>5, DispatchLaterInv
<1>6. CASE UNCHANGED vars
  <2>1. evaluation' = evaluation /\ UNCHANGED <<database, links, saved, started, lost, results>>
    BY <1>6 DEF vars
  <2>2. UNCHANGED <<webhook_events, decisions, outbox, reference>>
    BY <2>1 DEF database
  <2> QED
    BY <2>1, <2>2 DEF IInv, InTransaction, Live, Before
<1> QED
  BY <1>1, <1>2, <1>3, <1>4, <1>5, <1>6 DEF EvaluationNext

LEMMA Inductive == EvaluationSpec => []IInv
<1>1. IInv /\ [EvaluationNext]_vars => IInv'
  BY StepInv
<1> QED
  BY <1>1, InitInv, PTL DEF EvaluationSpec

-----------------------------------------------------------------------------
(* However often the evaluation is repeated and wherever it dies, each     *)
(* link is that of a row or of an evaluation that was rolled back, and an  *)
(* order of the treatment arm has one link, plus at most one for each      *)
(* evaluation that died: the event ids of the seed make repeats harmless.  *)
THEOREM TreatmentIsChasedOnce == EvaluationSpec => []TreatmentChasedOnce
<1>1. IInv => TreatmentChasedOnce
  <2> SUFFICES ASSUME IInv PROVE TreatmentChasedOnce
    OBVIOUS
  <2>1. /\ started \in Nat /\ lost \subseteq 1 .. started
        /\ LinksKnown(links, lost, outbox, reference)
    BY DEF IInv
  <2>2. ASSUME NEW l \in links
        PROVE  \/ l.evaluation \in lost
               \/ l.row \in DOMAIN outbox /\ outbox[l.row] # NoEntry /\ reference[l.row] = l.evaluation
    BY <2>1 DEF LinksKnown, LinkAccounted
  <2>3. ASSUME NEW i \in DOMAIN Treatment
        PROVE  Cardinality({l \in links : OrderOf(l.row) = Subject(Treatment[i])}) <= 1 + Cardinality(lost)
    <3> DEFINE e == Treatment[i]
               S == {l \in links : OrderOf(l.row) = Subject(e)}
               T == lost \union {reference[e]}
               f == [l \in S |-> l.evaluation]
    <3>1. InTreatment(e) /\ e \in Events
      BY ArmsApart DEF InTreatment
    <3> HIDE DEF e
    <3>2. ASSUME NEW l \in S PROVE l = [row |-> e, evaluation |-> l.evaluation] /\ l.evaluation \in T
      <4>1. LinkMade(l) /\ OrderOf(l.row) = Subject(e) /\ l \in links
        BY <2>1 DEF LinksKnown
      <4>2. PICK g \in Events : \/ InTreatment(g) /\ l.row = g
                                \/ InControl(g) /\ l.row = ControlRow(g, l.evaluation)
        BY <4>1 DEF LinkMade
      <4>3. OrderOf(l.row) = Subject(g)
        BY <4>2, RowKeys
      <4>4. g = e
        BY <3>1, <4>1, <4>3, SubjectsApart
      <4>5. l.row = e
        BY <3>1, <4>2, <4>4, ArmsApart
      <4> QED
        BY <2>2, <4>1, <4>5 DEF LinkMade
    <3>3. IsFiniteSet(lost) /\ Cardinality(lost) \in Nat
      BY <2>1, LiveCounted
    <3>4. IsFiniteSet(T) /\ Cardinality(T) <= 1 + Cardinality(lost)
      BY <3>3, FS_AddElement
    <3>5. Cardinality(T) \in Nat
      BY <3>4, FS_CardinalityType
    <3> HIDE DEF S, T
    <3>6. f \in Injection(S, T)
      BY <3>2 DEF Injection, IsInjective
    <3>7. IsFiniteSet(S) /\ Cardinality(S) <= Cardinality(T)
      BY <3>4, <3>6, FS_Injection
    <3>8. Cardinality(S) \in Nat
      BY <3>7, FS_CardinalityType
    <3>9. Cardinality(S) <= 1 + Cardinality(lost)
      BY <3>3, <3>4, <3>5, <3>7, <3>8
    <3> QED
      BY <3>9 DEF S, e
  <2> QED
    BY <2>2, <2>3 DEF TreatmentChasedOnce
<1> QED
  BY <1>1, Inductive, PTL

(* The published metrics never claim a send, a broken stopping rule or a   *)
(* double charge that the links at Razorpay do not bear out; and a double  *)
(* charge takes a second evaluation and an order of the control arm.       *)
THEOREM MetricsAreTruthful == EvaluationSpec => []MetricsNeverOverstate
<1>1. IInv => MetricsNeverOverstate
  <2> SUFFICES ASSUME IInv PROVE MetricsNeverOverstate
    OBVIOUS
  <2>1. \A orders : SentTo(orders, links) = LinksTo(orders)
    BY DEF SentTo, LinksTo
  <2>2. results # NoResults => Truthful(results, links)
    BY DEF IInv
  <2> QED
    BY <2>1, <2>2 DEF Truthful, SentToPayer, MetricsNeverOverstate
<1> QED
  BY <1>1, Inductive, PTL
=============================================================================
