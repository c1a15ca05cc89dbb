-------------------------- MODULE DispatcherProofs --------------------------
(***************************************************************************)
(* One link per entry, a ledger that agrees with the outbox, and a breaker *)
(* that is respected, whatever the calls, crashes and overlapping runs do: *)
(* theorems about Dispatcher, for any entries, dispatchers and limits.     *)
(***************************************************************************)
EXTENDS Dispatcher, FiniteSetTheorems, SequenceTheorems, WellFoundedInduction, TLAPS

RunFields == {"pc", "now", "todo", "rows", "breaker", "found", "log"}

Failures  == {"outbox.attempt_failed", "outbox.failed_permanently"}
Successes == {"outbox.completed", "outbox.recovered_from_conflict"}
LogRows   == [event : Entries, event_type : Failures \union Successes]

(* A run under way; after the claim it always has a row to work on.        *)
RunTyped(r) ==
  /\ DOMAIN r = RunFields
  /\ r.pc \in {"next", "save", "call"} /\ r.now \in 0 .. clock
  /\ DOMAIN r.rows \subseteq Entries /\ r.rows \in [DOMAIN r.rows -> Row]
  /\ r.todo \subseteq DOMAIN r.rows
  /\ r.pc # "next" => r.todo # {}
  /\ r.breaker \in Snapshots
  /\ r.log \in Seq(LogRows)

Typed ==
  /\ clock \in 0 .. MaxTime
  /\ outbox \in [Entries -> Row]
  /\ breaker \in Snapshots
  /\ breaker_lock \in Dispatchers \union {Free}
  /\ ledger \in Seq(LogRows)
  /\ DOMAIN run = Dispatchers
  /\ \A d \in Dispatchers : run[d] = Idle \/ RunTyped(run[d])

LinkOf(e)   == [entry |-> e, reference_id |-> e]
LinksShaped == links \subseteq {LinkOf(e) : e \in Entries} /\ in_flight \subseteq {LinkOf(e) : e \in Entries}

(* What a run holds FOR UPDATE is pending, is nobody else's, and is still  *)
(* as it was claimed where the run has not got to it.                      *)
ClaimsApart ==
  \A c, d \in Dispatchers : c # d /\ Running(c) /\ Running(d) =>
    DOMAIN run[c].rows \intersect DOMAIN run[d].rows = {}

HoldsPending(d) ==
  Running(d) => /\ \A e \in DOMAIN run[d].rows : outbox[e].status = "pending"
                /\ \A e \in run[d].todo : run[d].rows[e] = outbox[e]

DoneHasLink(d) ==
  Running(d) => \A e \in DOMAIN run[d].rows : run[d].rows[e].status = "complete" => LinkOf(e) \in links

(* The rows of a ledger about an entry.                                    *)
About(s, e, event_types)   == {i \in DOMAIN s : s[i].event = e /\ s[i].event_type \in event_types}
CountIn(s, e, event_types) == Cardinality(About(s, e, event_types))

(* The log of a run accounts for what it changed in its rows.              *)
Consistent(row) == row.attempts = MaxAttempts <=> row.status = "failed_permanently"

LogTellsRows(d) ==
  Running(d) =>
    /\ \A e \in DOMAIN run[d].rows :
         /\ CountIn(run[d].log, e, Failures) = run[d].rows[e].attempts - outbox[e].attempts
         /\ CountIn(run[d].log, e, Successes) = IF run[d].rows[e].status = "complete" THEN 1 ELSE 0
         /\ Consistent(run[d].rows[e])
    /\ \A e \in Entries \ DOMAIN run[d].rows : About(run[d].log, e, Failures \union Successes) = {}

LedgerTellsOutbox ==
  \A e \in Entries :
    /\ CountIn(ledger, e, Failures) = outbox[e].attempts
    /\ CountIn(ledger, e, Successes) = IF outbox[e].status = "complete" THEN 1 ELSE 0
    /\ Consistent(outbox[e])

(* A run has the breaker's row from its first call on.                     *)
HasRow(d) ==
  /\ breaker_lock = d => Running(d) /\ (run[d].log # <<>> \/ run[d].pc = "call")
  /\ Running(d) /\ (run[d].log # <<>> \/ run[d].pc = "call") => breaker_lock = d

SettledSnapshot(b) ==
  b.state # "half_open" /\ (b.state = "closed" => b.consecutive_failures < FailureThreshold)

(* Between two calls its breaker is settled; a trial call is made half     *)
(* open, and one that failed leaves it open as of now.                     *)
Careful(d) ==
  Running(d) =>
    /\ run[d].log # <<>> /\ run[d].pc = "next" => SettledSnapshot(run[d].breaker)
    /\ run[d].found = "open" /\ run[d].now < MaxTime =>
         /\ run[d].log = <<>> /\ run[d].pc # "next" => run[d].breaker.state = "half_open"
         /\ run[d].log # <<>> /\ Failed(run[d].log[1]) =>
              /\ Len(run[d].log) = 1 /\ run[d].pc = "next"
              /\ run[d].breaker.state = "open" /\ run[d].breaker.opened_at = run[d].now

RunInv(d) == HoldsPending(d) /\ DoneHasLink(d) /\ LogTellsRows(d) /\ HasRow(d) /\ Careful(d)

IInv ==
  /\ Typed /\ LinksShaped /\ ClaimsApart /\ LedgerTellsOutbox /\ BreakerSettled
  /\ \A d \in Dispatchers : RunInv(d)

-----------------------------------------------------------------------------
(* Operators.                                                              *)
LEMMA LeastExists ==
  ASSUME NEW S, S \subseteq Nat, S # {}
  PROVE  First(S) \in S
<1> DEFINE Below == OpToRel(<, Nat)
<1>1. IsWellFoundedOn(Below, Nat)
  BY NatLessThanWellFounded
<1>2. \A x, y \in Nat : y < x => <<y, x>> \in Below
  BY Zenon DEF OpToRel
<1>3. PICK x \in S : \A y \in S : ~(<<y, x>> \in Below)
  <2> HIDE DEF Below
  <2> QED
    BY <1>1, WFMin
<1>4. \A y \in S : x <= y
  <2> HIDE DEF Below
  <2> SUFFICES ASSUME NEW y \in S PROVE ~(y < x)
    OBVIOUS
  <2> QED
    BY <1>2, <1>3
<1> QED
  BY <1>4 DEF First

LEMMA DelayIsNat ==
  ASSUME NEW n \in Nat \ {0}, NEW delay \in DelayRange(n)
  PROVE  delay \in Nat
BY BackoffAssumption DEF DelayRange, Earliest

LEMMA AfterType ==
  ASSUME NEW t \in Nat, NEW delay \in Nat
  PROVE  After(t, delay) \in 0 .. MaxTime
BY BackoffAssumption DEF After, Earliest

LEMMA AboutIsFinite ==
  ASSUME NEW S, NEW s \in Seq(S), NEW e, NEW T
  PROVE  IsFiniteSet(About(s, e, T)) /\ CountIn(s, e, T) \in Nat
<1>1. IsFiniteSet(DOMAIN s)
  BY LenProperties, FS_Interval
<1>2. About(s, e, T) \in SUBSET DOMAIN s
  BY DEF About
<1>3. IsFiniteSet(About(s, e, T))
  BY <1>1, <1>2, FS_Subset
<1> QED
  BY <1>3, FS_CardinalityType DEF CountIn

LEMMA CountAppend ==
  ASSUME NEW S, NEW s \in Seq(S), NEW x \in S, NEW e, NEW T
  PROVE  /\ CountIn(s, e, T) \in Nat
         /\ CountIn(Append(s, x), e, T) =
              CountIn(s, e, T) + IF x.event = e /\ x.event_type \in T THEN 1 ELSE 0
<1>1. /\ Len(s) \in Nat /\ DOMAIN s = 1 .. Len(s)
      /\ DOMAIN Append(s, x) = 1 .. Len(s) + 1
      /\ \A i \in 1 .. Len(s) : Append(s, x)[i] = s[i]
      /\ Append(s, x)[Len(s) + 1] = x
  OBVIOUS
<1>2. IsFiniteSet(About(s, e, T)) /\ CountIn(s, e, T) \in Nat
  BY AboutIsFinite
<1>4. About(Append(s, x), e, T) =
        IF x.event = e /\ x.event_type \in T THEN About(s, e, T) \union {Len(s) + 1} ELSE About(s, e, T)
  BY <1>1 DEF About
<1>5. Len(s) + 1 \notin About(s, e, T)
  BY <1>1 DEF About
<1>6. CASE x.event = e /\ x.event_type \in T
  BY <1>2, <1>4, <1>5, <1>6, FS_AddElement DEF CountIn
<1> QED
  BY <1>2, <1>4, <1>6 DEF CountIn

LEMMA CountConcat ==
  ASSUME NEW S, NEW s \in Seq(S), NEW t \in Seq(S), NEW e, NEW T
  PROVE  CountIn(s \o t, e, T) = CountIn(s, e, T) + CountIn(t, e, T)
<1> DEFINE Shifted == {i + Len(s) : i \in About(t, e, T)}
           shift   == [i \in About(t, e, T) |-> i + Len(s)]
<1>1. /\ Len(s) \in Nat /\ DOMAIN s = 1 .. Len(s) /\ Len(t) \in Nat /\ DOMAIN t = 1 .. Len(t)
      /\ DOMAIN (s \o t) = 1 .. Len(s) + Len(t)
      /\ \A i \in 1 .. Len(s) : (s \o t)[i] = s[i]
      /\ \A i \in 1 .. Len(t) : (s \o t)[i + Len(s)] = t[i]
  BY ConcatProperties, LenProperties
<1>2. IsFiniteSet(About(s, e, T)) /\ IsFiniteSet(About(t, e, T))
  BY AboutIsFinite
<1>3. About(s \o t, e, T) = About(s, e, T) \union Shifted
  <2>1. ASSUME NEW i \in 1 .. Len(s) + Len(t), i > Len(s)
        PROVE  i - Len(s) \in 1 .. Len(t) /\ (s \o t)[i] = t[i - Len(s)] /\ i = (i - Len(s)) + Len(s)
    BY <1>1, <2>1
  <2>2. ASSUME NEW i \in About(s \o t, e, T) PROVE i \in About(s, e, T) \union Shifted
    <3>1. CASE i <= Len(s)
      BY <1>1, <2>2, <3>1 DEF About
    <3>2. CASE i > Len(s)
      <4>1. i - Len(s) \in About(t, e, T) /\ i = (i - Len(s)) + Len(s)
        BY <1>1, <2>1, <2>2, <3>2 DEF About
      <4> QED
        BY <4>1
    <3> QED
      BY <1>1, <2>2, <3>1, <3>2 DEF About
  <2>3. About(s, e, T) \subseteq About(s \o t, e, T)
    BY <1>1 DEF About
  <2>4. Shifted \subseteq About(s \o t, e, T)
    BY <1>1 DEF About
  <2> QED
    BY <2>2, <2>3, <2>4
<1>4. About(s, e, T) \intersect Shifted = {}
  BY <1>1 DEF About
<1>5. shift \in Bijection(About(t, e, T), Shifted)
  <2>1. \A i, j \in About(t, e, T) : i + Len(s) = j + Len(s) => i = j
    BY <1>1 DEF About
  <2> QED
    BY <2>1 DEF Bijection, Injection, Surjection, IsInjective
<1>6. IsFiniteSet(Shifted) /\ Cardinality(Shifted) = Cardinality(About(t, e, T))
  BY <1>2, <1>5, FS_Bijection DEF ExistsBijection
<1>7. Cardinality(About(s, e, T) \union Shifted) = Cardinality(About(s, e, T)) + Cardinality(Shifted)
  <2> HIDE DEF Shifted
  <2>1. Cardinality(About(s, e, T) \union Shifted)
          = Cardinality(About(s, e, T)) + Cardinality(Shifted) - Cardinality({})
    BY <1>2, <1>4, <1>6, FS_Union
  <2>2. Cardinality({}) = 0 /\ Cardinality(About(s, e, T)) \in Nat /\ Cardinality(Shifted) \in Nat
    BY <1>2, <1>6, FS_EmptySet, FS_CardinalityType
  <2> QED
    BY <2>1, <2>2
<1> QED
  BY <1>3, <1>6, <1>7 DEF CountIn

-----------------------------------------------------------------------------
(* How a step of one run leaves the others alone.                          *)
Keeps(d) == DOMAIN run' = Dispatchers /\ \A c \in Dispatchers \ {d} : run'[c] = run[c]

LEMMA RunIsRunning ==
  ASSUME Typed, NEW d \in Dispatchers
  PROVE  /\ Running(d) <=> RunTyped(run[d])
         /\ ~Running(d) => run[d].pc = "idle"
BY DEF Typed, RunTyped, Running, Idle

LEMMA OtherRun ==
  ASSUME IInv, NEW c \in Dispatchers, run'[c] = run[c], links \subseteq links',
         breaker_lock' = c <=> breaker_lock = c,
         Running(c) => \A e \in DOMAIN run[c].rows : outbox'[e] = outbox[e]
  PROVE  RunInv(c)'
<1>1. Running(c)' <=> Running(c)
  BY DEF Running
<1>2. RunInv(c)
  BY DEF IInv
<1>3. Running(c) => run[c].todo \subseteq DOMAIN run[c].rows
  BY RunIsRunning DEF IInv, RunTyped
<1>4. HoldsPending(c)' /\ DoneHasLink(c)'
  BY <1>1, <1>2, <1>3 DEF RunInv, HoldsPending, DoneHasLink
<1>5. LogTellsRows(c)'
  BY <1>1, <1>2 DEF RunInv, LogTellsRows
<1>6. HasRow(c)' /\ Careful(c)'
  BY <1>1, <1>2 DEF RunInv, HasRow, Careful, SettledSnapshot, Failed
<1> QED
  BY <1>4, <1>5, <1>6 DEF RunInv

(* A step of a run that publishes nothing.                                 *)
LEMMA PrivateStep ==
  ASSUME IInv, NEW d \in Dispatchers, Running(d), Keeps(d),
         UNCHANGED <<clock, outbox, breaker, ledger>>,
         LinksShaped', links \subseteq links',
         breaker_lock' = breaker_lock \/ (breaker_lock = Free /\ breaker_lock' = d),
         RunTyped(run[d])', DOMAIN run'[d].rows = DOMAIN run[d].rows,
         RunInv(d)'
  PROVE  IInv'
<1>1. \A c \in Dispatchers \ {d} : RunInv(c)'
  BY OtherRun, FreeAssumption DEF Keeps
<1>2. Typed'
  <2>1. \A c \in Dispatchers \ {d} : run'[c] = Idle \/ RunTyped(run[c])'
    BY DEF IInv, Typed, RunTyped, Keeps
  <2> QED
    BY <2>1 DEF IInv, Typed, Keeps
<1>3. ClaimsApart'
  BY DEF IInv, ClaimsApart, Keeps, Running
<1>4. LedgerTellsOutbox' /\ BreakerSettled'
  BY DEF IInv, LedgerTellsOutbox, CountIn, About, BreakerSettled
<1> QED
  BY <1>1, <1>2, <1>3, <1>4 DEF IInv

LEMMA EndWithoutInv ==
  ASSUME IInv, NEW d \in Dispatchers, Running(d), EndWithout(d), LinksShaped', links \subseteq links'
  PROVE  IInv'
<1>1. Keeps(d) /\ run'[d] = Idle /\ ~Running(d)'
  BY DEF EndWithout, IInv, Typed, Keeps, Running
<1>2. \A c \in Dispatchers \ {d} : RunInv(c)'
  BY <1>1, OtherRun, FreeAssumption DEF Keeps, EndWithout, Unlock
<1>3. RunInv(d)'
  BY <1>1, FreeAssumption DEF RunInv, HoldsPending, DoneHasLink, LogTellsRows, HasRow, Careful, EndWithout, Unlock
<1>4. Typed'
  <2>1. \A c \in Dispatchers \ {d} : run'[c] = Idle \/ RunTyped(run[c])'
    BY <1>1 DEF IInv, Typed, RunTyped, Keeps, EndWithout
  <2> QED
    BY <1>1, <2>1 DEF IInv, Typed, Keeps, EndWithout, Unlock
<1>5. ClaimsApart'
  BY <1>1 DEF IInv, ClaimsApart, Keeps, Running
<1>6. LedgerTellsOutbox' /\ BreakerSettled'
  BY DEF IInv, LedgerTellsOutbox, CountIn, About, BreakerSettled, EndWithout
<1> QED
  BY <1>2, <1>3, <1>4, <1>5, <1>6 DEF IInv

-----------------------------------------------------------------------------
LEMMA InitInv == Init => IInv
<1> SUFFICES ASSUME Init PROVE IInv
  OBVIOUS
<1>1. \A d \in Dispatchers : run[d] = Idle /\ ~Running(d)
  BY DEF Init, Running
<1>2. \A e \in Entries : outbox[e] = [status |-> "pending", attempts |-> 0, next_attempt_at |-> 0]
  BY DEF Init
<1>3. Typed
  BY <1>1, EntryAssumption, BackoffAssumption, BreakerAssumption DEF Init, Typed, Row, Closed, Snapshots, NeverOpened
<1>4. LedgerTellsOutbox
  <2>1. \A e, T : CountIn(<<>>, e, T) = 0
    BY FS_EmptySet DEF CountIn, About
  <2> QED
    BY <1>2, <2>1, EntryAssumption DEF Init, LedgerTellsOutbox, Consistent
<1>5. LinksShaped /\ ClaimsApart
  BY <1>1 DEF Init, LinksShaped, ClaimsApart
<1>6. BreakerSettled
  BY BackoffAssumption, BreakerAssumption DEF Init, BreakerSettled, Closed
<1>7. \A d \in Dispatchers : RunInv(d)
  BY <1>1, FreeAssumption DEF Init, RunInv, HoldsPending, DoneHasLink, LogTellsRows, HasRow, Careful
<1> QED
  BY <1>3, <1>4, <1>5, <1>6, <1>7 DEF IInv

LEMMA StartRunInv ==
  ASSUME IInv, NEW d \in Dispatchers, StartRun(d)
  PROVE  IInv'
<1>1. PICK rows : /\ rows \subseteq Entries /\ rows \intersect Claimed = {}
                  /\ \A e \in rows : outbox[e].status = "pending"
                  /\ run' = [run EXCEPT ![d] = [pc |-> "next", now |-> clock, todo |-> rows,
                                       rows |-> [e \in rows |-> outbox[e]],
                                       breaker |-> Closed, found |-> "closed", log |-> <<>>]]
  BY DEF StartRun
<1>2. /\ Keeps(d) /\ DOMAIN run'[d] = RunFields /\ run'[d].pc = "next" /\ run'[d].now = clock
      /\ run'[d].todo = rows /\ run'[d].rows = [e \in rows |-> outbox[e]]
      /\ run'[d].breaker = Closed /\ run'[d].found = "closed" /\ run'[d].log = <<>>
  BY <1>1 DEF IInv, Typed, Keeps, RunFields
<1>3. RunTyped(run[d])'
  BY <1>1, <1>2 DEF StartRun, RunTyped, IInv, Typed, Closed, Snapshots, NeverOpened
<1>4. \A c \in Dispatchers \ {d} : RunInv(c)'
  BY <1>2, OtherRun DEF Keeps, StartRun
<1>5. RunInv(d)'
  <2>1. ~Running(d) /\ breaker_lock # d
    BY DEF StartRun, IInv, RunInv, HasRow
  <2>2. \A e, T : CountIn(<<>>, e, T) = 0 /\ About(<<>>, e, T) = {}
    BY FS_EmptySet DEF CountIn, About
  <2>3. HoldsPending(d)' /\ DoneHasLink(d)'
    BY <1>1, <1>2 DEF HoldsPending, DoneHasLink, StartRun
  <2>4. LogTellsRows(d)'
    <3>1. \A e \in rows : outbox[e].attempts \in Nat /\ Consistent(outbox[e])
      BY <1>1, EntryAssumption DEF IInv, Typed, Row, LedgerTellsOutbox
    <3> QED
      BY <1>1, <1>2, <2>2, <3>1 DEF LogTellsRows, StartRun, Consistent
  <2>5. HasRow(d)' /\ Careful(d)'
    BY <1>2, <2>1 DEF HasRow, Careful, StartRun
  <2> QED
    BY <2>3, <2>4, <2>5 DEF RunInv
<1>6. Typed'
  <2>1. \A c \in Dispatchers \ {d} : run'[c] = Idle \/ RunTyped(run[c])'
    BY <1>2 DEF IInv, Typed, RunTyped, Keeps, StartRun
  <2> QED
    BY <1>2, <1>3, <2>1 DEF IInv, Typed, Keeps, StartRun
<1>7. ClaimsApart'
  <2>1. \A c \in Dispatchers \ {d} : Running(c) => DOMAIN run[c].rows \subseteq Claimed
    BY DEF Claimed
  <2> QED
    BY <1>1, <1>2, <2>1 DEF IInv, ClaimsApart, Keeps, Running
<1>8. LedgerTellsOutbox' /\ BreakerSettled' /\ LinksShaped'
  BY DEF IInv, LedgerTellsOutbox, CountIn, About, BreakerSettled, LinksShaped, StartRun
<1> QED
  BY <1>4, <1>5, <1>6, <1>7, <1>8 DEF IInv

LEMMA BeforeCallType ==
  ASSUME NEW b \in Snapshots, NEW now
  PROVE  /\ before_call(b, now) \in Snapshots
         /\ should_allow_call(b, now) /\ b.state = "open" => before_call(b, now).state = "half_open"
BY DEF before_call, Snapshots

(* After a failed trial nothing is allowed any more in the same run.       *)
LEMMA NoSecondTrial ==
  ASSUME NEW b \in Snapshots, NEW now \in 0 .. MaxTime, now < MaxTime,
         b.state = "open", b.opened_at = now
  PROVE  ~should_allow_call(b, now)
BY BackoffAssumption, BreakerAssumption DEF should_allow_call, After, Earliest, NeverOpened

LEMMA LoadBreakerInv ==
  ASSUME IInv, NEW d \in Dispatchers, LoadBreaker(d)
  PROVE  IInv'
<1>1. Running(d) /\ RunTyped(run[d]) /\ run[d].pc = "next" /\ RunInv(d)
  BY RunIsRunning DEF LoadBreaker, IInv
<1>2. Visible(d) \in Snapshots
  BY <1>1 DEF Visible, IInv, Typed, RunTyped
<1>3. LinksShaped' /\ links \subseteq links'
  BY DEF LoadBreaker, IInv, LinksShaped
<1>4. CASE should_allow_call(Visible(d), run[d].now)
  <2>1. /\ Keeps(d) /\ DOMAIN run'[d] = RunFields /\ run'[d].pc = "save"
        /\ run'[d].breaker = before_call(Visible(d), run[d].now)
        /\ run'[d].found = IF breaker_lock = d THEN run[d].found ELSE breaker.state
        /\ run'[d].now = run[d].now /\ run'[d].todo = run[d].todo
        /\ run'[d].rows = run[d].rows /\ run'[d].log = run[d].log
    BY <1>1, <1>4 DEF LoadBreaker, IInv, Typed, Keeps, RunTyped, RunFields
  <2>2. RunTyped(run[d])'
    BY <1>1, <1>2, <2>1, BeforeCallType DEF RunTyped, LoadBreaker
  <2>3. HoldsPending(d)' /\ DoneHasLink(d)' /\ LogTellsRows(d)'
    BY <1>1, <2>1 DEF RunInv, HoldsPending, DoneHasLink, LogTellsRows, LoadBreaker
  <2>4. HasRow(d)'
    BY <1>1, <2>1, <2>2, RunIsRunning DEF RunInv, HasRow, LoadBreaker, Running, RunTyped, Idle
  <2>5. Careful(d)'
    <3>1. CASE breaker_lock = d
      <4>1. run[d].log # <<>> /\ run[d].breaker = Visible(d)
        BY <1>1, <3>1 DEF RunInv, HasRow, Visible
      <4>2. run[d].found = "open" /\ run[d].now < MaxTime => ~Failed(run[d].log[1])
        BY <1>1, <1>4, <4>1, NoSecondTrial, BackoffAssumption, BreakerAssumption
           DEF RunInv, Careful, RunTyped, IInv, Typed
      <4> QED
        BY <1>1, <2>1, <3>1, <4>1, <4>2 DEF Careful, Failed
    <3>2. CASE breaker_lock # d
      <4>1. run[d].log = <<>> /\ Visible(d) = breaker
        BY <1>1, <3>2 DEF RunInv, HasRow, Visible
      <4> QED
        BY <1>2, <1>4, <2>1, <3>2, <4>1, BeforeCallType DEF Careful
    <3> QED
      BY <3>1, <3>2
  <2> QED
    BY <1>1, <1>3, <2>1, <2>2, <2>3, <2>4, <2>5, PrivateStep DEF LoadBreaker, RunInv
<1>5. CASE ~should_allow_call(Visible(d), run[d].now)
  <2>1. /\ Keeps(d) /\ DOMAIN run'[d] = RunFields /\ run'[d].pc = "next"
        /\ run'[d].breaker = run[d].breaker /\ run'[d].found = run[d].found
        /\ run'[d].now = run[d].now /\ run'[d].todo \subseteq run[d].todo
        /\ run'[d].rows = run[d].rows /\ run'[d].log = run[d].log
    BY <1>1, <1>5 DEF LoadBreaker, IInv, Typed, Keeps, RunTyped, RunFields
  <2>2. RunTyped(run[d])'
    BY <1>1, <2>1 DEF RunTyped, LoadBreaker
  <2>3. HoldsPending(d)' /\ DoneHasLink(d)' /\ LogTellsRows(d)'
    BY <1>1, <2>1 DEF RunInv, HoldsPending, DoneHasLink, LogTellsRows, LoadBreaker
  <2>4. HasRow(d)' /\ Careful(d)'
    BY <1>1, <2>1, <2>2, RunIsRunning
       DEF RunInv, HasRow, Careful, SettledSnapshot, Failed, LoadBreaker, Running, RunTyped, Idle
  <2> QED
    BY <1>1, <1>3, <2>1, <2>2, <2>3, <2>4, PrivateStep DEF LoadBreaker, RunInv
<1> QED
  BY <1>4, <1>5

LEMMA SaveBreakerInv ==
  ASSUME IInv, NEW d \in Dispatchers, SaveBreaker(d)
  PROVE  IInv'
<1>1. Running(d) /\ RunTyped(run[d]) /\ run[d].pc = "save" /\ RunInv(d)
  BY RunIsRunning DEF SaveBreaker, IInv
<1>2. /\ Keeps(d) /\ DOMAIN run'[d] = RunFields /\ run'[d].pc = "call"
      /\ run'[d].breaker = run[d].breaker /\ run'[d].found = run[d].found
      /\ run'[d].now = run[d].now /\ run'[d].todo = run[d].todo
      /\ run'[d].rows = run[d].rows /\ run'[d].log = run[d].log
  BY <1>1 DEF SaveBreaker, IInv, Typed, Keeps, RunTyped, RunFields
<1>3. RunTyped(run[d])'
  BY <1>1, <1>2 DEF RunTyped, SaveBreaker
<1>4. HoldsPending(d)' /\ DoneHasLink(d)' /\ LogTellsRows(d)'
  <2>1. HoldsPending(d)' /\ DoneHasLink(d)'
    BY <1>1, <1>2 DEF RunInv, HoldsPending, DoneHasLink, SaveBreaker
  <2>2. LogTellsRows(d)'
    BY <1>1, <1>2 DEF RunInv, LogTellsRows, SaveBreaker
  <2> QED
    BY <2>1, <2>2
<1>5. HasRow(d)' /\ Careful(d)'
  BY <1>1, <1>2 DEF RunInv, HasRow, Careful, Failed, SaveBreaker, Running, Idle
<1>6. LinksShaped' /\ links \subseteq links'
  BY DEF SaveBreaker, IInv, LinksShaped
<1> QED
  BY <1>1, <1>2, <1>3, <1>4, <1>5, <1>6, PrivateStep DEF SaveBreaker, RunInv

-----------------------------------------------------------------------------
(* Links.                                                                  *)
LEMMA ExistsIsMember ==
  ASSUME LinksShaped, NEW e \in Entries
  PROVE  /\ Exists(LinkOf(e)) <=> LinkOf(e) \in links
         /\ Posted(LinkOf(e)) = links \union {LinkOf(e)}
<1>1. Exists(LinkOf(e)) <=> LinkOf(e) \in links
  BY DEF Exists, LinksShaped, LinkOf
<1> QED
  BY <1>1 DEF Posted

(* What recording an outcome does to the run.                              *)
LEMMA Recorded ==
  ASSUME IInv, NEW d \in Dispatchers, run[d].pc = "call",
         NEW e, e = First(run[d].todo), NEW row \in Row, NEW snapshot \in Snapshots,
         NEW event_type \in Failures \union Successes,
         Record(d, e, row, snapshot, event_type), UNCHANGED clock
  PROVE  /\ Running(d) /\ e \in run[d].todo /\ e \in Entries /\ e \in DOMAIN run[d].rows
         /\ Keeps(d) /\ RunTyped(run[d])' /\ run'[d].pc = "next"
         /\ run'[d].now = run[d].now /\ run'[d].found = run[d].found
         /\ run'[d].todo = run[d].todo \ {e}
         /\ run'[d].rows = [run[d].rows EXCEPT ![e] = row]
         /\ run'[d].breaker = snapshot
         /\ run'[d].log = Append(run[d].log, [event |-> e, event_type |-> event_type])
<1>1. Running(d) /\ RunTyped(run[d])
  BY RunIsRunning DEF IInv
<1>2. e \in run[d].todo /\ e \in Entries /\ e \in DOMAIN run[d].rows
  BY <1>1, LeastExists, EntryAssumption DEF RunTyped
<1>3. /\ Keeps(d) /\ DOMAIN run'[d] = RunFields /\ run'[d].pc = "next"
      /\ run'[d].now = run[d].now /\ run'[d].found = run[d].found
      /\ run'[d].todo = run[d].todo \ {e}
      /\ run'[d].rows = [run[d].rows EXCEPT ![e] = row]
      /\ run'[d].breaker = snapshot
      /\ run'[d].log = Append(run[d].log, [event |-> e, event_type |-> event_type])
  BY <1>1 DEF Record, IInv, Typed, Keeps, RunTyped, RunFields
<1>4. run'[d].log \in Seq(LogRows)
  BY <1>1, <1>2, <1>3 DEF RunTyped, LogRows
<1> QED
  BY <1>1, <1>2, <1>3, <1>4 DEF RunTyped

(* The log still accounts for the rows when the outcome of one is added.   *)
LEMMA OutcomeIsLogged ==
  ASSUME IInv, NEW d \in Dispatchers, Running(d), NEW e \in run[d].todo,
         NEW row, NEW event_type \in Failures \union Successes, UNCHANGED outbox, Running(d)',
         run'[d].rows = [run[d].rows EXCEPT ![e] = row],
         run'[d].log = Append(run[d].log, [event |-> e, event_type |-> event_type]),
         Consistent(row),
         row.attempts = outbox[e].attempts + IF event_type \in Failures THEN 1 ELSE 0,
         row.status = "complete" <=> event_type \in Successes
  PROVE  LogTellsRows(d)'
<1> DEFINE x == [event |-> e, event_type |-> event_type]
<1>1. /\ run[d].log \in Seq(LogRows) /\ e \in DOMAIN run[d].rows /\ e \in Entries /\ x \in LogRows
      /\ DOMAIN run'[d].rows = DOMAIN run[d].rows
      /\ \A f \in DOMAIN run[d].rows : run'[d].rows[f] = IF f = e THEN row ELSE run[d].rows[f]
  BY RunIsRunning DEF IInv, RunTyped, LogRows
<1>2. \A f, T : /\ CountIn(run[d].log, f, T) \in Nat
                /\ CountIn(run'[d].log, f, T)
                     = CountIn(run[d].log, f, T) + IF x.event = f /\ x.event_type \in T THEN 1 ELSE 0
  BY <1>1, CountAppend
<1>3. LogTellsRows(d) /\ HoldsPending(d)
  BY DEF IInv, RunInv
<1>4. /\ CountIn(run[d].log, e, Failures) = 0 /\ CountIn(run[d].log, e, Successes) = 0
      /\ outbox[e].attempts \in Nat
  <2>1. run[d].rows[e] = outbox[e] /\ outbox[e].status = "pending" /\ outbox[e].attempts \in Nat
    BY <1>1, <1>3, EntryAssumption DEF HoldsPending, IInv, Typed, Row
  <2> QED
    BY <1>1, <1>3, <2>1 DEF LogTellsRows
<1>5. event_type \in Failures <=> event_type \notin Successes
  BY DEF Failures, Successes
<1>6. ASSUME NEW f \in DOMAIN run[d].rows
      PROVE  /\ CountIn(run'[d].log, f, Failures) = run'[d].rows[f].attempts - outbox[f].attempts
             /\ CountIn(run'[d].log, f, Successes) = IF run'[d].rows[f].status = "complete" THEN 1 ELSE 0
             /\ Consistent(run'[d].rows[f])
  <2>1. CASE f = e
    BY <1>1, <1>2, <1>4, <1>5, <2>1
  <2>2. CASE f # e
    BY <1>1, <1>2, <1>3, <2>2 DEF LogTellsRows
  <2> QED
    BY <2>1, <2>2
<1>7. ASSUME NEW f \in Entries \ DOMAIN run[d].rows
      PROVE  About(run'[d].log, f, Failures \union Successes) = {}
  <2>1. About(run[d].log, f, Failures \union Successes) = {}
    BY <1>3 DEF LogTellsRows
  <2>2. /\ DOMAIN run[d].log = 1 .. Len(run[d].log) /\ Len(run[d].log) \in Nat
        /\ DOMAIN run'[d].log = 1 .. Len(run[d].log) + 1
        /\ \A i \in 1 .. Len(run[d].log) : run'[d].log[i] = run[d].log[i]
        /\ run'[d].log[Len(run[d].log) + 1] = x
    BY <1>1
  <2> QED
    BY <1>1, <2>1, <2>2 DEF About
<1> QED
  BY <1>1, <1>6, <1>7 DEF LogTellsRows

LEMMA FailureSettles ==
  ASSUME NEW b \in Snapshots, NEW now \in 0 .. MaxTime
  PROVE  /\ record_failure(b, now) \in Snapshots
         /\ SettledSnapshot(record_failure(b, now))
         /\ b.state = "half_open" => /\ record_failure(b, now).state = "open"
                                     /\ record_failure(b, now).opened_at = now
BY BackoffAssumption, BreakerAssumption DEF record_failure, Snapshots, SettledSnapshot

(* A call that was recorded, whatever came of it.                          *)
LEMMA RecordedInv ==
  ASSUME IInv, NEW d \in Dispatchers, run[d].pc = "call",
         NEW e, e = First(run[d].todo), NEW row \in Row, NEW snapshot \in Snapshots,
         NEW event_type \in Failures \union Successes,
         Record(d, e, row, snapshot, event_type),
         UNCHANGED <<clock, outbox, breaker, breaker_lock, ledger>>,
         LinksShaped', links \subseteq links',
         row.status = "complete" => LinkOf(e) \in links',
         Consistent(row),
         row.attempts = outbox[e].attempts + IF event_type \in Failures THEN 1 ELSE 0,
         row.status = "complete" <=> event_type \in Successes,
         SettledSnapshot(snapshot),
         event_type \in Failures /\ run[d].breaker.state = "half_open" =>
           snapshot.state = "open" /\ snapshot.opened_at = run[d].now
  PROVE  IInv'
<1>1. /\ Running(d) /\ e \in run[d].todo /\ e \in Entries /\ e \in DOMAIN run[d].rows
      /\ Keeps(d) /\ RunTyped(run[d])' /\ run'[d].pc = "next"
      /\ run'[d].now = run[d].now /\ run'[d].found = run[d].found
      /\ run'[d].todo = run[d].todo \ {e}
      /\ run'[d].rows = [run[d].rows EXCEPT ![e] = row]
      /\ run'[d].breaker = snapshot
      /\ run'[d].log = Append(run[d].log, [event |-> e, event_type |-> event_type])
  BY Recorded
<1>2. /\ RunInv(d) /\ run[d].log \in Seq(LogRows) /\ Running(d)'
      /\ DOMAIN run'[d].rows = DOMAIN run[d].rows
      /\ \A f \in DOMAIN run[d].rows : run'[d].rows[f] = IF f = e THEN row ELSE run[d].rows[f]
  BY <1>1, RunIsRunning DEF IInv, RunTyped, Running, Idle
<1>3. HoldsPending(d)'
  BY <1>1, <1>2, RunIsRunning DEF RunInv, HoldsPending, IInv, RunTyped
<1>4. DoneHasLink(d)'
  BY <1>1, <1>2 DEF RunInv, DoneHasLink
<1>5. LogTellsRows(d)'
  BY <1>1, <1>2, OutcomeIsLogged
<1>6. run'[d].log # <<>> /\ Len(run'[d].log) = Len(run[d].log) + 1
      /\ run'[d].log[1] = IF run[d].log = <<>> THEN [event |-> e, event_type |-> event_type] ELSE run[d].log[1]
  BY <1>1, <1>2
<1>7. HasRow(d)'
  BY <1>1, <1>2, <1>6 DEF RunInv, HasRow
<1>8. Careful(d)'
  <2>1. run[d].found = "open" /\ run[d].now < MaxTime /\ Failed(run'[d].log[1]) =>
          run[d].log = <<>> /\ event_type \in Failures /\ run[d].breaker.state = "half_open"
    BY <1>1, <1>2, <1>6 DEF RunInv, Careful, Failed, Failures
  <2>2. run[d].log = <<>> => Len(run'[d].log) = 1
    BY <1>6
  <2> QED
    BY <1>1, <1>6, <2>1, <2>2 DEF Careful, Failed
<1> QED
  BY <1>1, <1>2, <1>3, <1>4, <1>5, <1>7, <1>8, PrivateStep DEF RunInv

LEMMA CalledRow ==
  ASSUME IInv, NEW d \in Dispatchers, run[d].pc = "call"
  PROVE  LET e == First(run[d].todo) IN
           /\ RunTyped(run[d]) /\ e \in Entries
           /\ run[d].rows[e] = outbox[e] /\ outbox[e] \in Row
           /\ outbox[e].status = "pending" /\ outbox[e].attempts \in 0 .. MaxAttempts - 1
<1>1. Running(d) /\ RunTyped(run[d]) /\ RunInv(d)
  BY RunIsRunning DEF IInv
<1>2. First(run[d].todo) \in run[d].todo /\ First(run[d].todo) \in DOMAIN run[d].rows
  BY <1>1, LeastExists, EntryAssumption DEF RunTyped
<1>3. /\ run[d].rows[First(run[d].todo)] = outbox[First(run[d].todo)]
      /\ First(run[d].todo) \in Entries /\ outbox[First(run[d].todo)] \in Row
      /\ outbox[First(run[d].todo)].status = "pending"
      /\ Consistent(outbox[First(run[d].todo)])
  BY <1>1, <1>2 DEF RunInv, HoldsPending, RunTyped, IInv, Typed, LedgerTellsOutbox
<1> QED
  BY <1>1, <1>3, EntryAssumption DEF Row, Consistent

LEMMA CallSucceedsInv ==
  ASSUME IInv, NEW d \in Dispatchers, CallSucceeds(d)
  PROVE  IInv'
<1> DEFINE e   == First(run[d].todo)
           row == [run[d].rows[e] EXCEPT !.status = "complete"]
<1>1. /\ run[d].pc = "call" /\ e \in Entries /\ RunTyped(run[d])
      /\ run[d].rows[e] = outbox[e] /\ outbox[e] \in Row
      /\ outbox[e].attempts \in 0 .. MaxAttempts - 1
  BY CalledRow DEF CallSucceeds
<1>2. PICK event_type \in Successes : Record(d, e, row, Closed, event_type)
  BY DEF CallSucceeds, record_success, Successes
<1>3. Link(e, run[d].rows[e]) = LinkOf(e)
  BY DEF Link, LinkOf
<1>4. links' = links \union {LinkOf(e)} /\ LinksShaped'
  BY <1>1, <1>3, ExistsIsMember DEF CallSucceeds, IInv, LinksShaped
<1>5. /\ row \in Row /\ row.status = "complete" /\ row.attempts = outbox[e].attempts
      /\ Consistent(row)
  BY <1>1, EntryAssumption DEF Row, Consistent
<1>6. event_type \notin Failures
  BY DEF Failures, Successes
<1>7. Closed \in Snapshots /\ SettledSnapshot(Closed)
  BY BackoffAssumption, BreakerAssumption DEF Closed, Snapshots, SettledSnapshot, NeverOpened
<1> HIDE DEF e, row
<1> QED
  BY <1>1, <1>2, <1>4, <1>5, <1>6, <1>7, RecordedInv, EntryAssumption DEF CallSucceeds, e

LEMMA CallFailsInv ==
  ASSUME IInv, NEW d \in Dispatchers, CallFails(d)
  PROVE  IInv'
<1> DEFINE e        == First(run[d].todo)
           attempts == run[d].rows[e].attempts + 1
           given_up == GivesUp(attempts)
           snapshot == record_failure(run[d].breaker, run[d].now)
           RowAfter(delay) == [status |-> IF given_up THEN "failed_permanently" ELSE "pending",
                               attempts |-> attempts,
                               next_attempt_at |-> IF given_up THEN run[d].rows[e].next_attempt_at
                                                   ELSE After(run[d].now, delay)]
           event_type == IF given_up THEN "outbox.failed_permanently" ELSE "outbox.attempt_failed"
<1>1. /\ run[d].pc = "call" /\ e \in Entries /\ RunTyped(run[d])
      /\ run[d].rows[e] = outbox[e] /\ outbox[e] \in Row
      /\ outbox[e].attempts \in 0 .. MaxAttempts - 1
  BY CalledRow DEF CallFails
<1>2. PICK delay \in DelayRange(attempts) : Record(d, e, RowAfter(delay), snapshot, event_type)
  BY DEF CallFails
<1>3. Link(e, run[d].rows[e]) = LinkOf(e)
  BY DEF Link, LinkOf
<1>4. LinksShaped' /\ links \subseteq links'
  BY <1>1, <1>3, ExistsIsMember DEF CallFails, IInv, LinksShaped
<1>5. attempts \in Nat \ {0} /\ attempts \in 0 .. MaxAttempts
  BY <1>1, EntryAssumption
<1>6. run[d].now \in Nat /\ run[d].now \in 0 .. MaxTime
  BY <1>1, BackoffAssumption, BreakerAssumption DEF RunTyped, IInv, Typed
<1>7. After(run[d].now, delay) \in 0 .. MaxTime
  BY <1>5, <1>6, DelayIsNat, AfterType
<1>8. RowAfter(delay) \in Row
  BY <1>1, <1>5, <1>7 DEF Row
<1>9. /\ Consistent(RowAfter(delay)) /\ RowAfter(delay).status # "complete"
      /\ RowAfter(delay).attempts = outbox[e].attempts + 1
  BY <1>1, <1>5, EntryAssumption DEF Consistent, GivesUp
<1>10. event_type \in Failures /\ event_type \notin Successes
  BY DEF Failures, Successes
<1>11. /\ snapshot \in Snapshots /\ SettledSnapshot(snapshot)
       /\ run[d].breaker.state = "half_open" => snapshot.state = "open" /\ snapshot.opened_at = run[d].now
  BY <1>1, <1>6, FailureSettles DEF RunTyped
<1> HIDE DEF e, RowAfter, snapshot, event_type
<1> QED
  BY <1>1, <1>2, <1>4, <1>8, <1>9, <1>10, <1>11, RecordedInv DEF CallFails, e

LEMMA CallAbortsInv ==
  ASSUME IInv, NEW d \in Dispatchers, CallAborts(d)
  PROVE  IInv'
<1>1. /\ run[d].pc = "call" /\ First(run[d].todo) \in Entries
  BY CalledRow DEF CallAborts
<1>2. Running(d)
  BY <1>1, RunIsRunning DEF IInv
<1>3. Link(First(run[d].todo), run[d].rows[First(run[d].todo)]) = LinkOf(First(run[d].todo))
  BY DEF Link, LinkOf
<1>4. LinksShaped' /\ links \subseteq links'
  BY <1>1, <1>3, ExistsIsMember DEF CallAborts, IInv, LinksShaped
<1> QED
  BY <1>2, <1>4, EndWithoutInv DEF CallAborts

LEMMA CrashInv ==
  ASSUME IInv, NEW d \in Dispatchers, Crash(d)
  PROVE  IInv'
<1>1. LinksShaped' /\ links \subseteq links'
  BY DEF Crash, IInv, LinksShaped
<1> QED
  BY <1>1, EndWithoutInv DEF Crash

LEMMA LateArrivalInv ==
  ASSUME IInv, NEW l \in in_flight, LateArrival(l)
  PROVE  IInv'
<1>1. PICK e \in Entries : l = LinkOf(e)
  BY DEF IInv, LinksShaped
<1>2. links' = links \union {LinkOf(e)} /\ LinksShaped'
  BY <1>1, ExistsIsMember DEF LateArrival, IInv, LinksShaped
<1>3. \A c \in Dispatchers : RunInv(c)'
  BY <1>2, OtherRun DEF LateArrival
<1>4. Typed'
  <2>1. \A c \in Dispatchers : RunTyped(run[c]) => RunTyped(run[c])'
    BY DEF LateArrival, RunTyped
  <2> QED
    BY <2>1 DEF LateArrival, IInv, Typed
<1>5. ClaimsApart' /\ LedgerTellsOutbox' /\ BreakerSettled'
  BY DEF LateArrival, IInv, ClaimsApart, Running, LedgerTellsOutbox, CountIn, About, BreakerSettled
<1> QED
  BY <1>2, <1>3, <1>4, <1>5 DEF IInv

LEMMA TickInv ==
  ASSUME IInv, Tick
  PROVE  IInv'
<1>1. \A c \in Dispatchers : RunInv(c)'
  BY OtherRun DEF Tick
<1>2. Typed'
  <2>1. clock \in Nat /\ clock' = clock + 1 /\ clock' \in 0 .. MaxTime
    BY BackoffAssumption, BreakerAssumption DEF IInv, Typed, Tick
  <2>2. ASSUME NEW c \in Dispatchers PROVE run'[c] = Idle \/ RunTyped(run[c])'
    <3>1. \A t \in 0 .. clock : t \in 0 .. clock'
      BY <2>1
    <3>2. RunTyped(run[c]) => RunTyped(run[c])'
      BY <3>1 DEF RunTyped, Tick
    <3> QED
      BY <3>2 DEF IInv, Typed, Tick
  <2> QED
    BY <2>1, <2>2 DEF IInv, Typed, Tick
<1>3. LinksShaped' /\ ClaimsApart' /\ LedgerTellsOutbox' /\ BreakerSettled'
  BY DEF Tick, IInv, LinksShaped, ClaimsApart, Running, LedgerTellsOutbox, CountIn, About, BreakerSettled
<1> QED
  BY <1>1, <1>2, <1>3 DEF IInv

(* The end of a run: its rows become the outbox, its log the ledger.       *)
LEMMA CommitRunInv ==
  ASSUME IInv, NEW d \in Dispatchers, CommitRun(d)
  PROVE  IInv'
<1> DEFINE rows == run[d].rows
           log  == run[d].log
<1>1. Running(d) /\ RunTyped(run[d]) /\ RunInv(d) /\ run[d].pc = "next"
  BY RunIsRunning DEF CommitRun, IInv
<1>2. Keeps(d) /\ run'[d] = Idle /\ ~Running(d)'
  BY DEF CommitRun, IInv, Typed, Keeps, Running
<1>3. \A e \in Entries : outbox'[e] = IF e \in DOMAIN rows THEN rows[e] ELSE outbox[e]
  BY DEF CommitRun
<1>4. ASSUME NEW c \in Dispatchers \ {d}
      PROVE  RunInv(c)'
  <2>1. Running(c) => \A e \in DOMAIN run[c].rows : e \in Entries /\ e \notin DOMAIN rows
    BY <1>1, RunIsRunning DEF IInv, ClaimsApart, RunTyped
  <2> QED
    BY <1>2, <1>3, <2>1, OtherRun, FreeAssumption DEF Keeps, CommitRun, Unlock
<1>5. RunInv(d)'
  BY <1>2, FreeAssumption DEF RunInv, HoldsPending, DoneHasLink, LogTellsRows, HasRow, Careful, CommitRun, Unlock
<1>6. Typed'
  <2>1. \A c \in Dispatchers \ {d} : run'[c] = Idle \/ RunTyped(run[c])'
    BY <1>2 DEF IInv, Typed, RunTyped, Keeps, CommitRun
  <2>2. outbox' \in [Entries -> Row]
    BY <1>1, <1>3 DEF CommitRun, RunTyped, IInv, Typed
  <2>3. breaker' \in Snapshots /\ breaker_lock' \in Dispatchers \union {Free}
    BY <1>1 DEF CommitRun, Unlock, RunTyped, IInv, Typed
  <2>4. ledger' \in Seq(LogRows)
    BY <1>1, ConcatProperties DEF CommitRun, RunTyped, IInv, Typed
  <2> QED
    BY <1>2, <2>1, <2>2, <2>3, <2>4 DEF IInv, Typed, Keeps, CommitRun
<1>7. ClaimsApart' /\ LinksShaped'
  BY <1>2 DEF IInv, ClaimsApart, Keeps, Running, LinksShaped, CommitRun
<1>8. LedgerTellsOutbox'
  <2>1. ledger \in Seq(LogRows) /\ log \in Seq(LogRows) /\ ledger' = ledger \o log
    BY <1>1 DEF RunTyped, IInv, Typed, CommitRun
  <2>2. \A e, T : CountIn(ledger', e, T) = CountIn(ledger, e, T) + CountIn(log, e, T)
    <3> HIDE DEF log
    <3> QED
      BY <2>1, CountConcat
  <2>3. ASSUME NEW e \in Entries
        PROVE  /\ CountIn(ledger', e, Failures) = outbox'[e].attempts
               /\ CountIn(ledger', e, Successes) = IF outbox'[e].status = "complete" THEN 1 ELSE 0
               /\ Consistent(outbox'[e])
    <3>1. /\ CountIn(ledger, e, Failures) = outbox[e].attempts
          /\ CountIn(ledger, e, Successes) = IF outbox[e].status = "complete" THEN 1 ELSE 0
          /\ Consistent(outbox[e])
      BY DEF IInv, LedgerTellsOutbox
    <3>2. CASE e \in DOMAIN rows
      <4>1. /\ CountIn(log, e, Failures) = rows[e].attempts - outbox[e].attempts
            /\ CountIn(log, e, Successes) = IF rows[e].status = "complete" THEN 1 ELSE 0
            /\ Consistent(rows[e]) /\ outbox[e].status = "pending"
        BY <1>1, <3>2 DEF RunInv, LogTellsRows, HoldsPending
      <4>2. rows[e].attempts \in Nat /\ outbox[e].attempts \in Nat
        BY <1>1, <3>2, EntryAssumption DEF RunTyped, Row, IInv, Typed
      <4>3. outbox'[e] = rows[e]
        BY <1>3, <3>2
      <4> HIDE DEF rows, log
      <4> QED
        BY <2>2, <3>1, <4>1, <4>2, <4>3
    <3>3. CASE e \notin DOMAIN rows
      <4>1. About(log, e, Failures \union Successes) = {}
        BY <1>1, <3>3 DEF RunInv, LogTellsRows
      <4>2. About(log, e, Failures) = {} /\ About(log, e, Successes) = {}
        <5> HIDE DEF log
        <5> QED
          BY <4>1 DEF About
      <4>3. CountIn(log, e, Failures) = 0 /\ CountIn(log, e, Successes) = 0
        <5> HIDE DEF log
        <5> QED
          BY <4>2, FS_EmptySet DEF CountIn
      <4>4. outbox'[e] = outbox[e] /\ outbox[e].attempts \in Nat
        BY <1>3, <3>3, EntryAssumption DEF IInv, Typed, Row
      <4> HIDE DEF rows, log
      <4> QED
        BY <2>2, <3>1, <4>3, <4>4
    <3> QED
      BY <3>2, <3>3
  <2> QED
    BY <2>3 DEF LedgerTellsOutbox
<1>9. BreakerSettled'
  BY <1>1 DEF RunInv, HasRow, Careful, SettledSnapshot, BreakerSettled, IInv, CommitRun
<1> QED
  BY <1>4, <1>5, <1>6, <1>7, <1>8, <1>9 DEF IInv

LEMMA StutterInv == IInv /\ UNCHANGED vars => IInv'
<1> SUFFICES ASSUME IInv, UNCHANGED vars PROVE IInv'
  OBVIOUS
<1>1. \A c \in Dispatchers : RunInv(c)'
  BY OtherRun DEF vars
<1>2. Typed'
  <2>1. \A c \in Dispatchers : RunTyped(run[c]) => RunTyped(run[c])'
    BY DEF vars, RunTyped
  <2> QED
    BY <2>1 DEF vars, IInv, Typed
<1>3. LinksShaped' /\ ClaimsApart' /\ LedgerTellsOutbox' /\ BreakerSettled'
  BY DEF vars, IInv, LinksShaped, ClaimsApart, Running, LedgerTellsOutbox, CountIn, About, BreakerSettled
<1> QED
  BY <1>1, <1>2, <1>3 DEF IInv

LEMMA StepInv == IInv /\ [Next]_vars => IInv'
<1> SUFFICES ASSUME IInv, [Next]_vars PROVE IInv'
  OBVIOUS
<1>1. ASSUME NEW d \in Dispatchers, StartRun(d) PROVE IInv'
  BY <1>1, StartRunInv
<1>2. ASSUME NEW d \in Dispatchers, LoadBreaker(d) PROVE IInv'
  BY <1>2, LoadBreakerInv
<1>3. ASSUME NEW d \in Dispatchers, SaveBreaker(d) PROVE IInv'
  BY <1>3, SaveBreakerInv
<1>4. ASSUME NEW d \in Dispatchers, CallSucceeds(d) PROVE IInv'
  BY <1>4, CallSucceedsInv
<1>5. ASSUME NEW d \in Dispatchers, CallFails(d) PROVE IInv'
  BY <1>5, CallFailsInv
<1>6. ASSUME NEW d \in Dispatchers, CallAborts(d) PROVE IInv'
  BY <1>6, CallAbortsInv
<1>7. ASSUME NEW d \in Dispatchers, CommitRun(d) PROVE IInv'
  BY <1>7, CommitRunInv
<1>8. ASSUME NEW d \in Dispatchers, Crash(d) PROVE IInv'
  BY <1>8, CrashInv
<1>9. ASSUME NEW l \in in_flight, LateArrival(l) PROVE IInv'
  BY <1>9, LateArrivalInv
<1>10. CASE Tick
  BY <1>10, TickInv
<1>11. CASE Drained \/ UNCHANGED vars
  BY <1>11, StutterInv DEF Drained
<1> QED
  BY <1>1, <1>2, <1>3, <1>4, <1>5, <1>6, <1>7, <1>8, <1>9, <1>10, <1>11 DEF Next, Work, Call

(* The inductive invariant of the dispatcher.                              *)
THEOREM Inductive == Spec => []IInv
BY InitInv, StepInv, PTL DEF Spec

-----------------------------------------------------------------------------
(* Every variable keeps its type: no run works on a row it did not claim,  *)
(* no entry is tried more than MaxAttempts times, and every link is for an *)
(* entry of the outbox.                                                    *)
THEOREM TypeCorrect == Spec => []TypeOK
<1>1. IInv => TypeOK
  <2> SUFFICES ASSUME IInv PROVE TypeOK
    OBVIOUS
  <2>1. links \subseteq Links /\ in_flight \subseteq Links
    <3>1. \A e \in Entries : LinkOf(e) \in Links
      BY EntryAssumption DEF LinkOf, Links
    <3> QED
      BY <3>1 DEF IInv, LinksShaped
  <2>2. \A d \in Dispatchers : Running(d) => RunTyped(run[d])
    BY RunIsRunning DEF IInv
  <2> QED
    BY <2>1, <2>2 DEF IInv, Typed, RunTyped, TypeOK
<1> QED
  BY <1>1, Inductive, PTL

(* The ledger and the outbox tell the same story of every entry: a row for *)
(* each counted attempt, one final row for each settled entry, and an      *)
(* entry is given up exactly at its last attempt.                          *)
THEOREM LedgerAgrees == Spec => []LedgerMatchesOutbox
<1>1. IInv => LedgerMatchesOutbox
  BY DEF IInv, LedgerTellsOutbox, LedgerMatchesOutbox, Logged, CountIn, About, Failures, Successes, Consistent
<1> QED
  BY <1>1, Inductive, PTL

(* A run that finds the breaker open stops calling after one trial call    *)
(* that fails.                                                             *)
THEOREM OneTrial == Spec => []OneTrialAfterOpen
<1>1. IInv => OneTrialAfterOpen
  <2> SUFFICES ASSUME IInv, NEW d \in Dispatchers,
                      Running(d), run[d].found = "open", run[d].now < MaxTime,
                      run[d].log # <<>>, Failed(Head(run[d].log))
               PROVE  Len(run[d].log) = 1 /\ run[d].pc = "next"
    BY DEF OneTrialAfterOpen
  <2>1. run[d].log \in Seq(LogRows)
    BY RunIsRunning DEF IInv, RunTyped
  <2>2. Head(run[d].log) = run[d].log[1]
    BY <2>1
  <2> QED
    BY <2>2 DEF IInv, RunInv, Careful
<1> QED
  BY <1>1, Inductive, PTL

(* No transaction leaves the breaker half open, or closed at its threshold *)
(* of failures.                                                            *)
THEOREM BreakerAlwaysSettled == Spec => []BreakerSettled
<1>1. IInv => BreakerSettled
  BY DEF IInv
<1> QED
  BY <1>1, Inductive, PTL

-----------------------------------------------------------------------------
(* The dispatcher implements Delivery.                                     *)
LEMMA LinkCount ==
  ASSUME LinksShaped, NEW e \in Entries
  PROVE  Cardinality({l \in links : l.entry = e}) = IF LinkOf(e) \in links THEN 1 ELSE 0
<1>1. {l \in links : l.entry = e} = IF LinkOf(e) \in links THEN {LinkOf(e)} ELSE {}
  BY DEF LinksShaped, LinkOf
<1> QED
  BY <1>1, FS_Singleton, FS_EmptySet

(* A new link is the abstract creation, a known one no step at all.        *)
LEMMA LinkStep ==
  ASSUME LinksShaped, LinksShaped', NEW e \in Entries,
         links' \in {links, links \union {LinkOf(e)}}, UNCHANGED outbox
  PROVE  [Outreach!Next]_(Outreach!delivery)
<1> DEFINE created == [f \in Entries |-> Cardinality({l \in links : l.entry = f})]
           status  == [f \in Entries |-> outbox[f].status]
<1>1. \A f \in Entries : created[f] = IF LinkOf(f) \in links THEN 1 ELSE 0
  BY LinkCount
<1>2. \A f \in Entries : created'[f] = IF LinkOf(f) \in links' THEN 1 ELSE 0
  <2>1. \A f \in Entries :
          Cardinality({l \in links' : l.entry = f}) = IF LinkOf(f) \in links' THEN 1 ELSE 0
    <3> TAKE f \in Entries
    <3>1. {l \in links' : l.entry = f} = IF LinkOf(f) \in links' THEN {LinkOf(f)} ELSE {}
      BY DEF LinksShaped, LinkOf
    <3> QED
      BY <3>1, FS_Singleton, FS_EmptySet
  <2> QED
    BY <2>1
<1>3. \A f \in Entries : LinkOf(f) = LinkOf(e) => f = e
  BY DEF LinkOf
<1>4. status' = status
  OBVIOUS
<1>5. CASE links' = links
  BY <1>4, <1>5 DEF Outreach!delivery
<1>6. CASE LinkOf(e) \notin links /\ links' = links \union {LinkOf(e)}
  <2>1. created[e] = 0
    BY <1>1, <1>6
  <2>2. \A f \in Entries : created'[f] = IF f = e THEN 1 ELSE created[f]
    BY <1>1, <1>2, <1>3, <1>6
  <2>3. created' = [created EXCEPT ![e] = 1]
    <3>1. DOMAIN created' = Entries /\ created' = [f \in DOMAIN created' |-> created'[f]]
      OBVIOUS
    <3>2. DOMAIN created = Entries
      OBVIOUS
    <3> HIDE DEF created
    <3> QED
      BY <2>2, <3>1, <3>2
  <2> QED
    BY <1>4, <2>1, <2>3 DEF Outreach!Next, Outreach!CreateLink
<1> QED
  BY <1>5, <1>6

LEMMA QuietStep ==
  ASSUME UNCHANGED <<outbox, links>>
  PROVE  [Outreach!Next]_(Outreach!delivery)
BY DEF Outreach!delivery

(* The commit of a run settles the entries its calls decided.              *)
LEMMA CommitStep ==
  ASSUME IInv, NEW d \in Dispatchers, CommitRun(d)
  PROVE  [Outreach!Next]_(Outreach!delivery)
<1> DEFINE rows     == run[d].rows
           status   == [e \in Entries |-> outbox[e].status]
           created  == [e \in Entries |-> Cardinality({l \in links : l.entry = e})]
           done     == {e \in DOMAIN rows : rows[e].status = "complete"}
           given_up == {e \in DOMAIN rows : rows[e].status = "failed_permanently"}
<1>1. Running(d) /\ RunTyped(run[d]) /\ RunInv(d)
  BY RunIsRunning DEF CommitRun, IInv
<1>2. done \subseteq Entries /\ given_up \subseteq Entries
  BY <1>1 DEF RunTyped
<1>3. \A e \in done \union given_up : status[e] = "pending"
  BY <1>1, <1>2 DEF RunInv, HoldsPending
<1>4. \A e \in done : created[e] = 1
  BY <1>1, <1>2, LinkCount DEF RunInv, DoneHasLink, IInv
<1>5. status' = [e \in Entries |-> CASE e \in done     -> "complete"
                                     [] e \in given_up -> "failed_permanently"
                                     [] OTHER          -> status[e]]
  <2>1. ASSUME NEW e \in Entries
        PROVE  outbox'[e].status = CASE e \in done     -> "complete"
                                     [] e \in given_up -> "failed_permanently"
                                     [] OTHER          -> status[e]
    <3>1. outbox'[e] = IF e \in DOMAIN rows THEN rows[e] ELSE outbox[e]
      BY DEF CommitRun
    <3>2. e \in DOMAIN rows => /\ rows[e].status \in {"pending", "complete", "failed_permanently"}
                               /\ outbox[e].status = "pending"
      BY <1>1 DEF RunTyped, Row, RunInv, HoldsPending
    <3> HIDE DEF rows
    <3> QED
      BY <3>1, <3>2
  <2> QED
    BY <2>1
<1>6. created' = created
  BY DEF CommitRun
<1> QED
  BY <1>2, <1>3, <1>4, <1>5, <1>6 DEF Outreach!Next, Outreach!Settle

LEMMA StepImplements == IInv /\ IInv' /\ [Next]_vars => [Outreach!Next]_(Outreach!delivery)
<1> SUFFICES ASSUME IInv, IInv', [Next]_vars PROVE [Outreach!Next]_(Outreach!delivery)
  OBVIOUS
<1>0. LinksShaped /\ LinksShaped'
  BY DEF IInv
<1>1. ASSUME NEW d \in Dispatchers, StartRun(d) \/ LoadBreaker(d) \/ SaveBreaker(d) \/ Crash(d)
      PROVE  [Outreach!Next]_(Outreach!delivery)
  BY <1>1, QuietStep DEF StartRun, LoadBreaker, SaveBreaker, Crash, EndWithout
<1>2. ASSUME NEW d \in Dispatchers, Call(d)
      PROVE  [Outreach!Next]_(Outreach!delivery)
  <2>1. First(run[d].todo) \in Entries
    BY <1>2, CalledRow DEF Call, CallSucceeds, CallFails, CallAborts
  <2>2. Link(First(run[d].todo), run[d].rows[First(run[d].todo)]) = LinkOf(First(run[d].todo))
    BY DEF Link, LinkOf
  <2>3. links' \in {links, links \union {LinkOf(First(run[d].todo))}} /\ UNCHANGED outbox
    BY <1>0, <1>2, <2>1, <2>2, ExistsIsMember DEF Call, CallSucceeds, CallFails, CallAborts, EndWithout
  <2> QED
    BY <1>0, <2>1, <2>3, LinkStep
<1>3. ASSUME NEW d \in Dispatchers, CommitRun(d)
      PROVE  [Outreach!Next]_(Outreach!delivery)
  BY <1>3, CommitStep
<1>4. ASSUME NEW l \in in_flight, LateArrival(l)
      PROVE  [Outreach!Next]_(Outreach!delivery)
  <2>1. PICK e \in Entries : l = LinkOf(e)
    BY <1>0 DEF LinksShaped
  <2>2. links' \in {links, links \union {LinkOf(e)}} /\ UNCHANGED outbox
    BY <1>0, <1>4, <2>1, ExistsIsMember DEF LateArrival
  <2> QED
    BY <1>0, <2>2, LinkStep
<1>5. CASE Tick \/ Drained \/ UNCHANGED vars
  BY <1>5, QuietStep DEF Tick, Drained, vars
<1> QED
  BY <1>1, <1>2, <1>3, <1>4, <1>5 DEF Next, Work

(* Exactly one payment link is ever created for a decision, it settles at  *)
(* most once, and it is only called complete when its link exists, under   *)
(* lost answers, late arrivals, crashes between a call and the commit, and *)
(* overlapping runs.                                                       *)
THEOREM KeepsItsPromise == Spec => ImplementsDelivery
<1>1. Init => Outreach!Init
  <2> SUFFICES ASSUME Init PROVE Outreach!Init
    OBVIOUS
  <2>1. \A e \in Entries : {l \in links : l.entry = e} = {}
    BY DEF Init
  <2>2. \A e \in Entries : Cardinality({l \in links : l.entry = e}) = 0
    BY <2>1, FS_EmptySet
  <2>3. \A e \in Entries : outbox[e].status = "pending"
    BY DEF Init
  <2> QED
    BY <2>2, <2>3 DEF Outreach!Init
<1> QED
  BY <1>1, Inductive, StepImplements, PTL DEF Spec, ImplementsDelivery, Outreach!Spec
=============================================================================
