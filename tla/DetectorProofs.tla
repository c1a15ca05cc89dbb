--------------------------- MODULE DetectorProofs ---------------------------
(***************************************************************************)
(* Where overlapping passes of the detector can get in each other's way,   *)
(* and that what they leave explains itself all the same: theorems about   *)
(* Detector, for any detectors, categories, sightings, thresholds and      *)
(* posterior.                                                              *)
(***************************************************************************)
EXTENDS Detector, SequenceTheorems, FiniteSetTheorems, WellFoundedInduction, TLAPS

Fields == {"pc", "number", "sighting", "order", "at", "prior", "written", "rows", "alerts"}

(* A pass is a record; one under way takes the cohorts in their order.     *)
Shaped ==
  /\ DOMAIN pass = Detectors
  /\ \A d \in Detectors :
       /\ DOMAIN pass[d] = Fields
       /\ pass[d].pc \in {"idle", "load", "upsert", "alert"}
       /\ pass[d].at \in Nat \ {0}
       /\ pass[d].pc # "idle" => pass[d].order = Order
  /\ row_lock \in [Cohorts -> Detectors \union {Free}]
  /\ ledger_lock \in Detectors \union {Free}

(* The pass has written the b-th cohort, or let it go.                     *)
Past(d, b) == b < pass[d].at \/ (b = pass[d].at /\ pass[d].pc = "alert")

(* It only stops at, and has locked, the cohorts it tests.                 *)
HoldsWhatItTested ==
  \A d \in Detectors :
    /\ pass[d].pc \in {"upsert", "alert"} => AtCohort(d, pass[d].pc) /\ Tests(d, Order[pass[d].at])
    /\ \A b \in DOMAIN Order :
         row_lock[Order[b]] = d <=> pass[d].pc # "idle" /\ Past(d, b) /\ Tests(d, Order[b])

LedgerAfterRow ==
  \A d \in Detectors : ledger_lock = d =>
    \E b \in DOMAIN Order : b < pass[d].at /\ row_lock[Order[b]] = d

IInv == Shaped /\ HoldsWhatItTested /\ LedgerAfterRow /\ NoStaleShare

-----------------------------------------------------------------------------
(* The shares come after "overall", each at a place of its own.            *)
LEMMA OrderFacts ==
  /\ Len(Order) = Len(Categories) + 1
  /\ DOMAIN Order = 1 .. Len(Order)
  /\ DOMAIN Categories = 1 .. Len(Categories)
  /\ 1 \in DOMAIN Categories
  /\ Order[1] = "overall"
  /\ \A i \in DOMAIN Categories : i + 1 \in DOMAIN Order /\ Order[i + 1] = Categories[i]
  /\ \A b \in DOMAIN Order : b # 1 => b - 1 \in DOMAIN Categories /\ Order[b] = Categories[b - 1]
  /\ \A b \in DOMAIN Order : Order[b] = "overall" => b = 1
  /\ \A a, b \in DOMAIN Order : Order[a] = Order[b] => a = b
  /\ \A b \in DOMAIN Order : Order[b] \in Cohorts
<1>1. Categories \in Seq(STRING) /\ Len(Categories) \in Nat \ {0} /\ DOMAIN Categories = 1 .. Len(Categories)
  BY CategoryAssumption
<1>2. Len(Order) = Len(Categories) + 1 /\ DOMAIN Order = 1 .. Len(Order)
  <2> DEFINE Names == STRING \union {"overall"}
  <2>1. Categories \in Seq(Names) /\ <<"overall">> \in Seq(Names)
    BY <1>1
  <2> HIDE DEF Names
  <2> QED
    BY <1>1, <2>1, ConcatProperties DEF Order
<1>3. /\ Order[1] = "overall"
      /\ \A b \in DOMAIN Order : b # 1 => b - 1 \in DOMAIN Categories /\ Order[b] = Categories[b - 1]
  BY <1>1, <1>2 DEF Order
<1>4. \A i \in DOMAIN Categories : i + 1 \in DOMAIN Order /\ Order[i + 1] = Categories[i]
  BY <1>1, <1>2, <1>3
<1>5. \A b \in DOMAIN Order : Order[b] = "overall" => b = 1
  BY <1>2, <1>3, CategoryAssumption
<1>6. \A a, b \in DOMAIN Order : Order[a] = Order[b] => a = b
  <2> SUFFICES ASSUME NEW a \in DOMAIN Order, NEW b \in DOMAIN Order, Order[a] = Order[b]
               PROVE  a = b
    OBVIOUS
  <2>1. CASE a = 1 \/ b = 1
    BY <2>1, <1>3, <1>5
  <2>2. CASE a # 1 /\ b # 1
    <3>1. a - 1 = b - 1
      BY <2>2, <1>3, CategoryAssumption
    <3> QED
      BY <3>1, <1>2
  <2> QED
    BY <2>1, <2>2
<1> QED
  BY <1>1, <1>2, <1>3, <1>4, <1>5, <1>6 DEF Cohorts

(* The shares have one total: a pass tests all of them or none.            *)
LEMMA SharesTestTogether ==
  ASSUME NEW d \in Detectors, NEW a \in DOMAIN Order, NEW b \in DOMAIN Order, a # 1, b # 1,
         Tests(d, Order[a])
  PROVE  Tests(d, Order[b])
BY OrderFacts DEF Tests, Gated, Stats

(* Where a pass has tested a share and gone on, it holds the first one's   *)
(* row.                                                                    *)
LEMMA HoldsFirstShare ==
  ASSUME IInv, NEW d \in Detectors, NEW b \in DOMAIN Order, b > 2,
         pass[d].pc # "idle", b <= pass[d].at, Tests(d, Order[b])
  PROVE  row_lock[Order[2]] = d
<1>1. 2 \in DOMAIN Order /\ Past(d, 2)
  BY OrderFacts DEF IInv, Shaped, Past
<1>2. Tests(d, Order[2])
  BY <1>1, SharesTestTogether, OrderFacts
<1> QED
  BY <1>1, <1>2 DEF IInv, HoldsWhatItTested

-----------------------------------------------------------------------------
(* What a step of d does to the pass of d, and to no other's.              *)
Keeps(d) == \A e \in Detectors \ {d} : pass'[e] = pass[e]

LEMMA TestsKept ==
  ASSUME NEW d, pass'[d].sighting = pass[d].sighting, NEW c
  PROVE  Tests(d, c)' <=> Tests(d, c)
BY DEF Tests

LEMMA LedgerKept ==
  ASSUME LedgerAfterRow, ledger_lock' = ledger_lock,
         \A e \in Detectors : pass[e].at \in Nat /\ pass'[e].at \in Nat /\ pass'[e].at >= pass[e].at,
         \A e \in Detectors, b \in DOMAIN Order : row_lock[Order[b]] = e => row_lock'[Order[b]] = e
  PROVE  LedgerAfterRow'
<1> SUFFICES ASSUME NEW e \in Detectors, ledger_lock = e
             PROVE  \E b \in DOMAIN Order : b < pass'[e].at /\ row_lock'[Order[b]] = e
  BY DEF LedgerAfterRow
<1>1. PICK b \in DOMAIN Order : b < pass[e].at /\ row_lock[Order[b]] = e
  BY DEF LedgerAfterRow
<1>2. b < pass'[e].at
  BY <1>1, OrderFacts
<1> QED
  BY <1>1, <1>2

LEMMA InitInv == Init => IInv
<1> SUFFICES ASSUME Init PROVE IInv
  OBVIOUS
<1>1. Free \notin Detectors
  BY RateAssumption
<1>2. Shaped
  BY DEF Init, Shaped, Idle, Fields
<1>3. HoldsWhatItTested
  BY <1>1, OrderFacts DEF Init, Idle, HoldsWhatItTested
<1>4. LedgerAfterRow
  BY <1>1 DEF Init, LedgerAfterRow
<1>5. NoStaleShare
  BY DEF Init, Idle, NoStaleShare, AtCohort
<1> QED
  BY <1>2, <1>3, <1>4, <1>5 DEF IInv

LEMMA StartPassInv ==
  ASSUME IInv, NEW d \in Detectors, NEW sighting \in Sightings, StartPass(d, sighting)
  PROVE  IInv'
<1> USE DEF IInv
<1>1. /\ pass'[d].pc = "load" /\ pass'[d].at = 1 /\ pass'[d].order = Order
      /\ DOMAIN pass' = Detectors /\ DOMAIN pass'[d] = Fields
      /\ Keeps(d)
  BY DEF StartPass, Shaped, Idle, Fields, Keeps
<1>2. UNCHANGED <<row_lock, ledger_lock, baselines>>
  BY DEF StartPass
<1>3. Shaped'
  BY <1>1, <1>2 DEF Shaped, Keeps
<1>4. HoldsWhatItTested'
  <2> SUFFICES ASSUME NEW e \in Detectors PROVE HoldsWhatItTested!(e)'
    BY DEF HoldsWhatItTested
  <2>1. CASE e = d
    BY <2>1, <1>1, <1>2, OrderFacts DEF HoldsWhatItTested, Past, StartPass
  <2>2. CASE e # d
    BY <2>2, <1>1, <1>2, TestsKept DEF HoldsWhatItTested, Past, AtCohort, Keeps
  <2> QED
    BY <2>1, <2>2
<1>5. LedgerAfterRow'
  BY <1>1, <1>2, OrderFacts DEF LedgerAfterRow, HoldsWhatItTested, StartPass, Keeps
<1>6. NoStaleShare'
  BY <1>1, <1>2 DEF NoStaleShare, AtCohort, Cohort, Keeps
<1> QED
  BY <1>3, <1>4, <1>5, <1>6
LEMMA SkipCohortInv ==
  ASSUME IInv, NEW d \in Detectors, SkipCohort(d)
  PROVE  IInv'
<1> USE DEF IInv
<1>1. /\ pass[d].pc = "load" /\ pass'[d].pc = "load" /\ pass'[d].at = pass[d].at + 1
      /\ pass'[d].order = pass[d].order /\ pass'[d].sighting = pass[d].sighting
      /\ DOMAIN pass' = Detectors /\ DOMAIN pass'[d] = Fields
      /\ Keeps(d)
  BY DEF SkipCohort, AtCohort, Shaped, Fields, Keeps
<1>2. UNCHANGED <<row_lock, ledger_lock, baselines>> /\ ~Tests(d, Order[pass[d].at])
  BY DEF SkipCohort, AtCohort, Shaped, Sample, Cohort, Tests
<1>3. Shaped'
  BY <1>1, <1>2 DEF Shaped, Keeps
<1>4. HoldsWhatItTested'
  <2> SUFFICES ASSUME NEW e \in Detectors PROVE HoldsWhatItTested!(e)'
    BY DEF HoldsWhatItTested
  <2>1. CASE e = d
    BY <2>1, <1>1, <1>2, OrderFacts, TestsKept DEF HoldsWhatItTested, Past, Shaped
  <2>2. CASE e # d
    BY <2>2, <1>1, <1>2, TestsKept DEF HoldsWhatItTested, Past, AtCohort, Keeps
  <2> QED
    BY <2>1, <2>2
<1>5. LedgerAfterRow'
  <2>1. \A e \in Detectors : pass[e].at \in Nat /\ pass'[e].at \in Nat /\ pass'[e].at >= pass[e].at
    BY <1>1 DEF Shaped, Keeps
  <2> QED
    BY <1>2, <2>1, LedgerKept
<1>6. NoStaleShare'
  BY <1>1, <1>2 DEF NoStaleShare, AtCohort, Cohort, Keeps
<1> QED
  BY <1>3, <1>4, <1>5, <1>6

LEMMA LoadBaselineInv ==
  ASSUME IInv, NEW d \in Detectors, LoadBaseline(d)
  PROVE  IInv'
<1> USE DEF IInv
<1>1. /\ pass[d].pc = "load" /\ pass'[d].pc = "upsert" /\ pass'[d].at = pass[d].at
      /\ pass'[d].order = pass[d].order /\ pass'[d].sighting = pass[d].sighting
      /\ pass'[d].prior = baselines[Cohort(d)]
      /\ DOMAIN pass' = Detectors /\ DOMAIN pass'[d] = Fields
      /\ Keeps(d)
  BY DEF LoadBaseline, AtCohort, Shaped, Fields, Keeps
<1>2. UNCHANGED <<row_lock, ledger_lock, baselines>> /\ pass[d].at <= Len(Order)
  BY DEF LoadBaseline, AtCohort, Shaped
<1>3. Shaped' /\ Tests(d, Order[pass[d].at])
  BY <1>1, <1>2 DEF Shaped, Keeps, LoadBaseline, AtCohort, Sample, Cohort, Tests
<1>4. HoldsWhatItTested'
  <2> SUFFICES ASSUME NEW e \in Detectors PROVE HoldsWhatItTested!(e)'
    BY DEF HoldsWhatItTested
  <2>1. CASE e = d
    BY <2>1, <1>1, <1>2, <1>3, TestsKept DEF HoldsWhatItTested, Past, Shaped, AtCohort
  <2>2. CASE e # d
    BY <2>2, <1>1, <1>2, TestsKept DEF HoldsWhatItTested, Past, AtCohort, Keeps
  <2> QED
    BY <2>1, <2>2
<1>5. LedgerAfterRow'
  BY <1>1, <1>2 DEF LedgerAfterRow, Keeps
<1>6. NoStaleShare'
  BY <1>1, <1>2 DEF NoStaleShare, AtCohort, Cohort, Keeps
<1> QED
  BY <1>3, <1>4, <1>5, <1>6

LEMMA UpsertBaselineInv ==
  ASSUME IInv, NEW d \in Detectors, UpsertBaseline(d)
  PROVE  IInv'
<1> USE DEF IInv
<1>1. /\ pass[d].pc = "upsert"
      /\ \/ pass'[d].pc = "alert" /\ pass'[d].at = pass[d].at
         \/ pass'[d].pc = "load" /\ pass'[d].at = pass[d].at + 1
      /\ pass'[d].order = pass[d].order /\ pass'[d].sighting = pass[d].sighting
      /\ DOMAIN pass' = Detectors /\ DOMAIN pass'[d] = Fields
      /\ Keeps(d)
  BY DEF UpsertBaseline, Evaluated, AtCohort, Shaped, Fields, Keeps
<1>2. /\ UNCHANGED <<ledger_lock, baselines>>
      /\ pass[d].order = Order /\ pass[d].at \in DOMAIN Order
      /\ row_lock[Order[pass[d].at]] = Free
      /\ row_lock' = [row_lock EXCEPT ![Order[pass[d].at]] = d]
  <2>1. pass[d].order = Order
    BY <1>1 DEF Shaped
  <2>2. pass[d].at \in DOMAIN Order
    BY <2>1, OrderFacts DEF UpsertBaseline, AtCohort, Shaped
  <2> QED
    BY <2>1, <2>2 DEF UpsertBaseline, Cohort
<1>a. /\ Order[pass[d].at] \in Cohorts
      /\ \A b \in DOMAIN Order : Order[b] \in Cohorts /\ (b # pass[d].at => Order[b] # Order[pass[d].at])
      /\ Free \notin Detectors
  BY <1>2, OrderFacts, RateAssumption
<1>b. \A b \in DOMAIN Order : row_lock'[Order[b]] = IF b = pass[d].at THEN d ELSE row_lock[Order[b]]
  BY <1>2, <1>a DEF Shaped
<1>3. Shaped'
  <2>1. row_lock' \in [Cohorts -> Detectors \union {Free}]
    BY <1>2, <1>a DEF Shaped
  <2> QED
    BY <1>1, <1>2, <2>1 DEF Shaped, Keeps
<1>4. HoldsWhatItTested'
  <2> SUFFICES ASSUME NEW e \in Detectors PROVE HoldsWhatItTested!(e)'
    BY DEF HoldsWhatItTested
  <2>1. CASE e = d
    <3>1. pass[d].at <= Len(Order) /\ Tests(d, Order[pass[d].at])
      BY <1>1 DEF HoldsWhatItTested, AtCohort, Shaped
    <3>2. \A b \in DOMAIN Order : Past(d, b)' <=> b <= pass[d].at
      BY <1>1, OrderFacts DEF Past, Shaped
    <3>3. \A b \in DOMAIN Order : Past(d, b) <=> b < pass[d].at
      BY <1>1 DEF Past
    <3>4. \A b \in DOMAIN Order : row_lock'[Order[b]] = d <=> Past(d, b)' /\ Tests(d, Order[b])
      BY <1>1, <1>2, <1>b, <3>1, <3>2, <3>3, OrderFacts DEF HoldsWhatItTested, Shaped
    <3>5. \A c : Tests(d, c)' <=> Tests(d, c)
      BY <1>1, TestsKept
    <3> QED
      BY <2>1, <1>1, <3>1, <3>4, <3>5 DEF AtCohort, Shaped
  <2>2. CASE e # d
    <3>1. \A b \in DOMAIN Order : row_lock'[Order[b]] = e <=> row_lock[Order[b]] = e
      BY <2>2, <1>2, <1>a, <1>b
    <3> QED
      BY <2>2, <1>1, <3>1, TestsKept DEF HoldsWhatItTested, Past, AtCohort, Keeps
  <2> QED
    BY <2>1, <2>2
<1>5. LedgerAfterRow'
  <2>1. \A e \in Detectors : pass[e].at \in Nat /\ pass'[e].at \in Nat /\ pass'[e].at >= pass[e].at
    BY <1>1 DEF Shaped, Keeps
  <2>2. \A e \in Detectors, b \in DOMAIN Order : row_lock[Order[b]] = e => row_lock'[Order[b]] = e
    BY <1>2, <1>a, <1>b
  <2> QED
    BY <1>2, <2>1, <2>2, LedgerKept
<1>6. NoStaleShare'
  BY <1>1, <1>2 DEF NoStaleShare, AtCohort, Cohort, Keeps
<1> QED
  BY <1>3, <1>4, <1>5, <1>6

LEMMA AppendAlertInv ==
  ASSUME IInv, NEW d \in Detectors, AppendAlert(d)
  PROVE  IInv'
<1> USE DEF IInv
<1>1. /\ pass[d].pc = "alert" /\ pass'[d].pc = "load" /\ pass'[d].at = pass[d].at + 1
      /\ pass'[d].order = pass[d].order /\ pass'[d].sighting = pass[d].sighting
      /\ DOMAIN pass' = Detectors /\ DOMAIN pass'[d] = Fields
      /\ Keeps(d)
  BY DEF AppendAlert, AtCohort, Shaped, Fields, Keeps
<1>2. /\ UNCHANGED <<row_lock, baselines>>
      /\ ledger_lock \in {Free, d} /\ ledger_lock' = d
      /\ pass[d].at \in DOMAIN Order
  BY OrderFacts DEF AppendAlert, AtCohort, Shaped
<1>3. Shaped'
  BY <1>1, <1>2 DEF Shaped, Keeps
<1>4. HoldsWhatItTested'
  <2> SUFFICES ASSUME NEW e \in Detectors PROVE HoldsWhatItTested!(e)'
    BY DEF HoldsWhatItTested
  <2>1. CASE e = d
    BY <2>1, <1>1, <1>2, OrderFacts, TestsKept DEF HoldsWhatItTested, Past, Shaped
  <2>2. CASE e # d
    BY <2>2, <1>1, <1>2, TestsKept DEF HoldsWhatItTested, Past, AtCohort, Keeps
  <2> QED
    BY <2>1, <2>2
<1>5. LedgerAfterRow'
  <2>1. row_lock[Order[pass[d].at]] = d
    BY <1>1, <1>2 DEF HoldsWhatItTested, Past
  <2> QED
    BY <1>1, <1>2, <2>1, OrderFacts DEF LedgerAfterRow, Shaped
<1>6. NoStaleShare'
  BY <1>1, <1>2 DEF NoStaleShare, AtCohort, Cohort, Keeps
<1> QED
  BY <1>3, <1>4, <1>5, <1>6

(* The end of a pass, with or without a commit: only rows it holds change. *)
LEMMA EndPassInv ==
  ASSUME IInv, NEW d \in Detectors, EndPass(d), pass[d].pc # "idle",
         \A c \in Cohorts : row_lock[c] # d => baselines'[c] = baselines[c]
  PROVE  IInv'
<1> USE DEF IInv
<1>1. /\ pass'[d] = Idle /\ DOMAIN pass' = Detectors /\ Keeps(d)
  BY DEF EndPass, Shaped, Keeps
<1>2. /\ \A c \in Cohorts : row_lock'[c] = IF row_lock[c] = d THEN Free ELSE row_lock[c]
      /\ ledger_lock' = IF ledger_lock = d THEN Free ELSE ledger_lock
      /\ Free \notin Detectors
  BY RateAssumption DEF EndPass
<1>3. Shaped'
  BY <1>1, <1>2 DEF Shaped, Keeps, EndPass, Idle, Fields
<1>4. HoldsWhatItTested'
  <2> SUFFICES ASSUME NEW e \in Detectors PROVE HoldsWhatItTested!(e)'
    BY DEF HoldsWhatItTested
  <2>1. CASE e = d
    BY <2>1, <1>1, <1>2, OrderFacts DEF Idle
  <2>2. CASE e # d
    <3>1. \A b \in DOMAIN Order : row_lock'[Order[b]] = e <=> row_lock[Order[b]] = e
      BY <2>2, <1>2, OrderFacts
    <3> QED
      BY <2>2, <1>1, <3>1, TestsKept DEF HoldsWhatItTested, Past, AtCohort, Keeps
  <2> QED
    BY <2>1, <2>2
<1>5. LedgerAfterRow'
  BY <1>1, <1>2, OrderFacts DEF LedgerAfterRow, Keeps
<1>6. NoStaleShare'
  <2> SUFFICES ASSUME NEW e \in Detectors, NEW i \in DOMAIN Categories \ {1},
                      AtCohort(e, "upsert")', Cohort(e)' = Categories[i]
               PROVE  pass'[e].prior = baselines'[Categories[i]]
    BY DEF NoStaleShare
  <2>1. e # d /\ pass'[e] = pass[e]
    BY <1>1 DEF AtCohort, Idle, Keeps
  <2>2. AtCohort(e, "upsert") /\ Cohort(e) = Categories[i] /\ pass[e].order = Order
    BY <2>1 DEF AtCohort, Cohort, Shaped
  <2>3. /\ i + 1 \in DOMAIN Order /\ i + 1 > 2 /\ Order[i + 1] = Categories[i]
        /\ pass[e].at = i + 1
    BY <2>2, OrderFacts DEF AtCohort, Cohort, Shaped
  <2>4. row_lock[Order[2]] = e
    BY <2>2, <2>3, HoldsFirstShare DEF HoldsWhatItTested, AtCohort
  <2>5. ASSUME row_lock[Categories[i]] = d PROVE FALSE
    <3>1. Past(d, i + 1) /\ Tests(d, Order[i + 1])
      BY <2>3, <2>5 DEF HoldsWhatItTested
    <3>2. row_lock[Order[2]] = d
      BY <2>3, <3>1, HoldsFirstShare, OrderFacts DEF Past, Shaped
    <3> QED
      BY <2>1, <2>4, <3>2
  <2>6. baselines'[Categories[i]] = baselines[Categories[i]]
    BY <2>3, <2>5, OrderFacts
  <2> QED
    BY <2>1, <2>2, <2>6 DEF NoStaleShare
<1> QED
  BY <1>3, <1>4, <1>5, <1>6

LEMMA StepInv == IInv /\ [Next]_vars => IInv'
<1> SUFFICES ASSUME IInv, [Next]_vars PROVE IInv'
  OBVIOUS
<1>1. ASSUME NEW d \in Detectors, NEW sighting \in Sightings, StartPass(d, sighting) PROVE IInv'
  BY <1>1, StartPassInv
<1>2. ASSUME NEW d \in Detectors, SkipCohort(d) PROVE IInv'
  BY <1>2, SkipCohortInv
<1>3. ASSUME NEW d \in Detectors, LoadBaseline(d) PROVE IInv'
  BY <1>3, LoadBaselineInv
<1>4. ASSUME NEW d \in Detectors, UpsertBaseline(d) PROVE IInv'
  BY <1>4, UpsertBaselineInv
<1>5. ASSUME NEW d \in Detectors, AppendAlert(d) PROVE IInv'
  BY <1>5, AppendAlertInv
<1>6. ASSUME NEW d \in Detectors, CommitPass(d) PROVE IInv'
  <2>1. EndPass(d) /\ pass[d].pc # "idle"
    BY <1>6 DEF CommitPass
  <2>2. \A c \in Cohorts : row_lock[c] # d => baselines'[c] = baselines[c]
    BY <1>6 DEF CommitPass
  <2> QED
    BY <2>1, <2>2, EndPassInv
<1>7. ASSUME NEW d \in Detectors, AbortPass(d) PROVE IInv'
  BY <1>7, EndPassInv DEF AbortPass
<1>8. ASSUME NEW d \in Detectors, BreakDeadlock(d) PROVE IInv'
  <2>1. pass[d].pc # "idle"
    BY <1>8 DEF BreakDeadlock, WaitsFor, AtCohort
  <2> QED
    BY <1>8, <2>1, EndPassInv DEF BreakDeadlock
<1>9. ASSUME UNCHANGED vars PROVE IInv'
  BY <1>9 DEF vars, IInv, Shaped, HoldsWhatItTested, LedgerAfterRow, NoStaleShare, Past, AtCohort,
              Cohort, Tests
<1> QED
  BY <1>1, <1>2, <1>3, <1>4, <1>5, <1>6, <1>7, <1>8, <1>9 DEF Next, Step, AtRest

-----------------------------------------------------------------------------
(* Of two passes that wait for each other, one waits for a baseline d has  *)
(* not locked and the other for the ledger, which an earlier alert locked. *)
LEMMA CircleIsTorn ==
  ASSUME IInv, NEW d \in Detectors, NEW e \in Detectors, d # e,
         AtCohort(d, "upsert"), row_lock[Cohort(d)] = e, ledger_lock = d
  PROVE  ~Tests(e, "overall") /\ Tests(e, Categories[1]) /\ Tests(d, "overall")
<1> USE DEF IInv
<1>1. /\ pass[d].pc = "upsert" /\ pass[d].at \in DOMAIN Order /\ Cohort(d) = Order[pass[d].at]
      /\ Tests(d, Order[pass[d].at])
  BY OrderFacts DEF AtCohort, Cohort, Shaped, HoldsWhatItTested
<1>2. PICK b \in DOMAIN Order : b < pass[d].at /\ row_lock[Order[b]] = d
  BY DEF LedgerAfterRow
<1>3. /\ pass[e].pc # "idle" /\ Past(e, pass[d].at) /\ Tests(e, Order[pass[d].at])
  BY <1>1 DEF HoldsWhatItTested
<1>4. pass[d].at > 1 /\ pass[e].at >= pass[d].at /\ 2 \in DOMAIN Order
  BY <1>1, <1>2, <1>3, OrderFacts DEF Past, Shaped
<1>5. Tests(e, Order[2]) /\ Order[2] = Categories[1]
  <2>1. Order[2] = Categories[1]
    BY <1>4, OrderFacts
  <2>2. pass[d].at # 1 /\ 2 # 1
    BY <1>4
  <2> QED
    BY <1>1, <1>3, <1>4, <2>1, <2>2, SharesTestTogether
<1>6. Tests(d, Order[1])
  <2> SUFFICES ASSUME ~Tests(d, Order[1]) PROVE FALSE
    OBVIOUS
  <2>1. b # 1
    BY <1>2 DEF HoldsWhatItTested
  <2>2. pass[d].at > 2
    BY <1>1, <1>2, <2>1, OrderFacts
  <2>3. row_lock[Order[2]] = d
    <3>1. pass[d].pc # "idle" /\ pass[d].at <= pass[d].at
      BY <1>1, <1>4, OrderFacts
    <3> QED
      BY <1>1, <2>2, <3>1, HoldsFirstShare
  <2>4. row_lock[Order[2]] = e
    BY <1>1, <1>3, <1>4, <2>2, HoldsFirstShare, OrderFacts
  <2> QED
    BY <2>3, <2>4
<1>7. ~Tests(e, Order[1])
  <2> SUFFICES ASSUME Tests(e, Order[1]) PROVE FALSE
    OBVIOUS
  <2>1. 1 \in DOMAIN Order /\ Past(d, 1) /\ Past(e, 1)
    BY <1>4, OrderFacts DEF Past, Shaped
  <2>2. row_lock[Order[1]] = d
    BY <1>1, <1>6, <2>1 DEF HoldsWhatItTested
  <2>3. row_lock[Order[1]] = e
    BY <1>3, <2>1 DEF HoldsWhatItTested
  <2> QED
    BY <2>2, <2>3
<1> QED
  BY <1>5, <1>6, <1>7, OrderFacts

(* Two passes never wait for each other's baselines: they lock them in one *)
(* order.                                                                  *)
LEMMA BaselinesInOrder ==
  ASSUME IInv, NEW d \in Detectors, NEW e \in Detectors,
         AtCohort(d, "upsert"), row_lock[Cohort(d)] = e,
         AtCohort(e, "upsert"), row_lock[Cohort(e)] = d
  PROVE  FALSE
<1>1. /\ pass[d].at \in DOMAIN Order /\ Cohort(d) = Order[pass[d].at]
      /\ pass[e].at \in DOMAIN Order /\ Cohort(e) = Order[pass[e].at]
  BY OrderFacts DEF IInv, AtCohort, Cohort, Shaped
<1>2. Past(e, pass[d].at) /\ Past(d, pass[e].at)
  BY <1>1 DEF IInv, HoldsWhatItTested
<1> QED
  BY <1>1, <1>2, OrderFacts DEF Past, AtCohort

LEMMA DeadlockFollows == IInv => DeadlockNeedsTornSight
<1> SUFFICES ASSUME IInv, NEW d \in Detectors, NEW e \in Detectors, WaitsFor(d, e), WaitsFor(e, d)
             PROVE  \E x \in {d, e} : /\ ~Tests(x, "overall") /\ Tests(x, Categories[1])
                                      /\ \A y \in {d, e} \ {x} : Tests(y, "overall")
  BY DEF DeadlockNeedsTornSight
<1>1. d # e
  BY DEF WaitsFor
<1>2. CASE AtCohort(d, "upsert") /\ AtCohort(e, "upsert")
  <2>1. row_lock[Cohort(d)] = e /\ row_lock[Cohort(e)] = d
    BY <1>2 DEF WaitsFor, AtCohort
  <2> QED
    BY <1>2, <2>1, BaselinesInOrder
<1>3. CASE AtCohort(d, "upsert") /\ AtCohort(e, "alert")
  <2>1. row_lock[Cohort(d)] = e /\ ledger_lock = d
    BY <1>3 DEF WaitsFor, AtCohort
  <2>2. ~Tests(e, "overall") /\ Tests(e, Categories[1]) /\ Tests(d, "overall")
    BY <1>1, <1>3, <2>1, CircleIsTorn
  <2> QED
    BY <2>2
<1>4. CASE AtCohort(d, "alert") /\ AtCohort(e, "upsert")
  <2>1. row_lock[Cohort(e)] = d /\ ledger_lock = e
    BY <1>4 DEF WaitsFor, AtCohort
  <2>2. ~Tests(d, "overall") /\ Tests(d, Categories[1]) /\ Tests(e, "overall")
    BY <1>1, <1>4, <2>1, CircleIsTorn
  <2> QED
    BY <2>2
<1>5. CASE AtCohort(d, "alert") /\ AtCohort(e, "alert")
  BY <1>1, <1>5 DEF WaitsFor, AtCohort
<1> QED
  BY <1>2, <1>3, <1>4, <1>5 DEF WaitsFor

LEMMA Inductive == Spec => []IInv
<1>1. Init => IInv
  BY InitInv
<1>2. IInv /\ [Next]_vars => IInv'
  BY StepInv
<1> QED
  BY <1>1, <1>2, PTL DEF Spec

(* Two passes can wait for each other only when one of them saw too few    *)
(* payments to test "overall" and then enough to test the shares.  This is *)
(* the code's fixed order of cohorts, one total for all shares, and locks  *)
(* kept to the end of the pass.                                            *)
THEOREM DeadlocksAreTorn == Spec => []DeadlockNeedsTornSight
BY Inductive, DeadlockFollows, PTL

-----------------------------------------------------------------------------
(* Counting: failures() adds up what the categories give, each of which    *)
(* is a part of it.                                                        *)
(* A set of numbers has a least one.                                       *)
LEMMA LeastNumber ==
  ASSUME NEW S, S \subseteq Nat, S # {}
  PROVE  \E x \in S : \A y \in S : x <= y
<1> DEFINE Below == OpToRel(<, Nat)
<1>1. IsWellFoundedOn(Below, Nat)
  BY NatLessThanWellFounded
<1>2. \A x, y \in Nat : y < x => <<y, x>> \in Below
  BY Zenon DEF OpToRel
<1> HIDE DEF Below
<1>3. PICK x \in S : \A y \in S : ~(<<y, x>> \in Below)
  BY <1>1, WFMin
<1>4. \A y \in S : x <= y
  <2> SUFFICES ASSUME NEW y \in S PROVE ~(y < x)
    OBVIOUS
  <2> QED
    BY <1>2, <1>3
<1> QED
  BY <1>4

(* One step of the fold that adds up the numbers f gives to a set.         *)
Adds(g, f, s) == IF s = {} THEN 0 ELSE f[CHOOSE x \in s : TRUE] + g[s \ {CHOOSE x \in s : TRUE}]
Sums(g, f) == g = [s \in SUBSET DOMAIN f |-> Adds(g, f, s)]
Small(f, n) == {s \in SUBSET DOMAIN f : Cardinality(s) <= n}

LEMMA OneLess ==
  ASSUME NEW f, IsFiniteSet(DOMAIN f), NEW s \in SUBSET DOMAIN f, s # {}
  PROVE  LET x == CHOOSE x \in s : TRUE
         IN  /\ x \in s /\ s \ {x} \in SUBSET DOMAIN f
             /\ Cardinality(s) \in Nat \ {0} /\ Cardinality(s \ {x}) = Cardinality(s) - 1
<1> DEFINE x == CHOOSE x \in s : TRUE
<1>1. x \in s
  OBVIOUS
<1> HIDE DEF x
<1>2. IsFiniteSet(s)
  BY FS_Subset
<1>3. Cardinality(s \ {x}) = Cardinality(s) - 1 /\ Cardinality(s) \in Nat
  BY <1>1, <1>2, FS_RemoveElement, FS_CardinalityType
<1>4. Cardinality(s) # 0
  BY <1>2, FS_EmptySet
<1> QED
  BY <1>1, <1>3, <1>4 DEF x

(* The fold is well defined: by the least size for which it would not be.  *)
LEMMA SumsExists ==
  ASSUME NEW f, IsFiniteSet(DOMAIN f)
  PROVE  \E g : Sums(g, f)
<1> DEFINE Good(n) == \E g : g = [s \in Small(f, n) |-> Adds(g, f, s)]
           Bad == {n \in Nat : ~Good(n)}
<1>1. Good(0)
  <2> DEFINE g == [s \in Small(f, 0) |-> 0]
  <2>1. \A s \in Small(f, 0) : s = {}
    <3> SUFFICES ASSUME NEW s \in SUBSET DOMAIN f, Cardinality(s) <= 0, s # {} PROVE FALSE
      BY DEF Small
    <3>1. Cardinality(s) \in Nat \ {0}
      BY OneLess
    <3> QED
      BY <3>1
  <2>2. g = [s \in Small(f, 0) |-> Adds(g, f, s)]
    BY <2>1 DEF Adds
  <2> QED
    BY <2>2
<1>2. ASSUME NEW n \in Nat, Good(n) PROVE Good(n + 1)
  <2>1. PICK g : g = [s \in Small(f, n) |-> Adds(g, f, s)]
    BY <1>2
  <2> DEFINE h == [s \in Small(f, n + 1) |-> Adds(g, f, s)]
  <2>2. \A s \in Small(f, n + 1) : Adds(g, f, s) = Adds(h, f, s)
    <3> SUFFICES ASSUME NEW s \in Small(f, n + 1), s # {}
                 PROVE  Adds(g, f, s) = Adds(h, f, s)
      BY DEF Adds
    <3> DEFINE rest == s \ {CHOOSE x \in s : TRUE}
    <3>1. rest \in Small(f, n) /\ rest \in Small(f, n + 1)
      BY OneLess DEF Small
    <3> HIDE DEF rest
    <3>2. g[rest] = Adds(g, f, rest) /\ h[rest] = Adds(g, f, rest)
      BY <2>1, <3>1
    <3> HIDE DEF h
    <3> QED
      BY <3>2 DEF Adds, rest
  <2>3. h = [s \in Small(f, n + 1) |-> Adds(h, f, s)]
    BY <2>2
  <2> QED
    BY <2>3
<1> HIDE DEF Good
<1>3. Bad = {}
  <2> SUFFICES ASSUME Bad # {} PROVE FALSE
    OBVIOUS
  <2>1. PICK m \in Bad : \A y \in Bad : m <= y
    <3>1. Bad \subseteq Nat
      OBVIOUS
    <3> HIDE DEF Bad
    <3> QED
      BY <3>1, LeastNumber
  <2>2. m \in Nat /\ m # 0 /\ ~Good(m)
    BY <1>1
  <2>3. m - 1 \in Nat /\ Good(m - 1) /\ (m - 1) + 1 = m
    BY <2>1, <2>2
  <2> QED
    BY <1>2, <2>2, <2>3
<1>4. Cardinality(DOMAIN f) \in Nat /\ Small(f, Cardinality(DOMAIN f)) = SUBSET DOMAIN f
  BY FS_CardinalityType, FS_Subset DEF Small
<1>5. Good(Cardinality(DOMAIN f))
  BY <1>3, <1>4
<1> QED
  BY <1>4, <1>5 DEF Good, Sums

(* What it adds up is a number, and no less than any of the numbers.       *)
LEMMA SumsBound ==
  ASSUME NEW f, IsFiniteSet(DOMAIN f), f \in [DOMAIN f -> Nat], NEW g, Sums(g, f)
  PROVE  g[DOMAIN f] \in Nat /\ \A c \in DOMAIN f : f[c] <= g[DOMAIN f]
<1> DEFINE Bounds(s) == g[s] \in Nat /\ \A c \in s : f[c] <= g[s]
           Bad == {n \in Nat : \E s \in Small(f, n) : ~Bounds(s)}
<1>1. \A s \in Small(f, 0) : Bounds(s)
  <2> SUFFICES ASSUME NEW s \in Small(f, 0) PROVE Bounds(s)
    OBVIOUS
  <2>1. s \in SUBSET DOMAIN f /\ Cardinality(s) <= 0
    BY DEF Small
  <2>2. s = {}
    <3>1. s # {} => Cardinality(s) \in Nat \ {0}
      BY <2>1, OneLess
    <3> QED
      BY <2>1, <3>1
  <2> QED
    BY <2>1, <2>2 DEF Sums, Adds
<1>2. ASSUME NEW n \in Nat, \A s \in Small(f, n) : Bounds(s), NEW s \in Small(f, n + 1)
      PROVE  Bounds(s)
  <2>1. s \in SUBSET DOMAIN f
    BY DEF Small
  <2>2. CASE s = {}
    BY <2>1, <2>2 DEF Sums, Adds
  <2>3. CASE s # {}
    <3> DEFINE x == CHOOSE x \in s : TRUE
               rest == s \ {x}
    <3>1. x \in s /\ rest \in Small(f, n)
      BY <2>1, <2>3, OneLess DEF Small
    <3>2. g[s] = f[x] + g[rest]
      BY <2>1, <2>3 DEF Sums, Adds
    <3>3. f[x] \in Nat /\ g[rest] \in Nat /\ \A c \in rest : f[c] \in Nat /\ f[c] <= g[rest]
      BY <1>2, <2>1, <3>1
    <3>4. \A c \in s : c = x \/ c \in rest
      OBVIOUS
    <3> HIDE DEF x, rest
    <3> QED
      BY <3>2, <3>3, <3>4
  <2> QED
    BY <2>2, <2>3
<1> HIDE DEF Bounds
<1>3. Bad = {}
  <2> SUFFICES ASSUME Bad # {} PROVE FALSE
    OBVIOUS
  <2>1. PICK m \in Bad : \A y \in Bad : m <= y
    <3>1. Bad \subseteq Nat
      OBVIOUS
    <3> HIDE DEF Bad
    <3> QED
      BY <3>1, LeastNumber
  <2>2. m \in Nat /\ m # 0 /\ \E s \in Small(f, m) : ~Bounds(s)
    BY <1>1
  <2>3. m - 1 \in Nat /\ (m - 1) + 1 = m /\ \A s \in Small(f, m - 1) : Bounds(s)
    BY <2>1, <2>2
  <2> QED
    BY <1>2, <2>2, <2>3
<1>4. Cardinality(DOMAIN f) \in Nat /\ DOMAIN f \in Small(f, Cardinality(DOMAIN f))
  BY FS_CardinalityType DEF Small
<1> QED
  BY <1>3, <1>4 DEF Bounds

LEMMA FailuresCount ==
  ASSUME NEW w \in Windows
  PROVE  /\ w.captured \in Nat /\ Failures(w) \in Nat
         /\ \A i \in DOMAIN Categories : /\ w.failed[Categories[i]] \in Nat
                                         /\ w.failed[Categories[i]] <= Failures(w)
<1> DEFINE f == w.failed
<1>1. /\ w.captured \in Nat /\ f \in [DOMAIN f -> Nat]
      /\ DOMAIN f = {Categories[i] : i \in DOMAIN Categories}
  BY DEF Windows
<1>2. IsFiniteSet(DOMAIN f)
  <2>1. IsFiniteSet(DOMAIN Categories)
    BY CategoryAssumption, LenProperties, FS_Interval
  <2> QED
    <3>1. DOMAIN Categories = 1 .. Len(Categories) /\ Categories \in [DOMAIN Categories -> DOMAIN f]
      BY <1>1, CategoryAssumption
    <3>2. Categories \in Surjection(DOMAIN Categories, DOMAIN f)
      BY <1>1, <3>1 DEF Surjection
    <3> HIDE DEF f
    <3> QED
      BY <2>1, <3>2, FS_Surjection
<1>3. Sums(CHOOSE g : Sums(g, f), f)
  BY <1>2, SumsExists
<1>4. Failures(w) = (CHOOSE g : Sums(g, f))[DOMAIN f]
  BY Zenon DEF Failures, FoldFunction, FoldFunctionOnSet, MapThenFoldSet, Sums, Adds
<1>5. Failures(w) \in Nat /\ \A c \in DOMAIN f : f[c] <= Failures(w)
  <2> DEFINE g == CHOOSE g : Sums(g, f)
  <2>1. g[DOMAIN f] \in Nat /\ \A c \in DOMAIN f : f[c] <= g[DOMAIN f]
    BY <1>1, <1>2, <1>3, SumsBound
  <2> HIDE DEF f, g
  <2> QED
    BY <1>4, <2>1 DEF g
<1> QED
  BY <1>1, <1>5

-----------------------------------------------------------------------------
Outcomes  == {"insufficient_sample", "insufficient_history", "not_significant", "fired"}
RunRows   == [pass : Nat, cohort : Cohorts, observed_rate : Rate, baseline_rate : Rate, outcome : Outcomes]
AlertRows == [pass : Nat, cohort : Cohorts, observed_rate : Rate, baseline_rate : Rate]

(* What the audit trail says, over explicit sequences.                     *)
Runs(runs, c) == {i \in DOMAIN runs : runs[i].cohort = c /\ Decisive(runs[i])}
FiredIn(runs, n) == {i \in 1 .. n : runs[i].outcome = "fired"}

AlertsOf(runs, n, log) ==
  /\ Len(log) = Cardinality(FiredIn(runs, n))
  /\ \A k \in FiredIn(runs, n) : log[Cardinality(FiredIn(runs, k))] = AlertOf(runs[k])

(* A baseline that runs have left, and how many may have.                  *)
IsLeft(runs, c, rate) == \E i \in Runs(runs, c) : rate = LeftBy(runs[i])

Known(runs, c, prior) ==
  /\ prior.ewma_rate \in Rate
  /\ prior.observations \in 0 .. Cardinality(Runs(runs, c))
  /\ prior # NoBaseline => IsLeft(runs, c, prior.ewma_rate)

-----------------------------------------------------------------------------
(* Sequences.                                                              *)
LEMMA Appended ==
  ASSUME NEW S, NEW s \in Seq(S), NEW x \in S
  PROVE  /\ Append(s, x) \in Seq(S) /\ Len(s) \in Nat /\ Len(Append(s, x)) = Len(s) + 1
         /\ DOMAIN s = 1 .. Len(s) /\ DOMAIN Append(s, x) = 1 .. Len(s) + 1
         /\ \A i \in 1 .. Len(s) : Append(s, x)[i] = s[i]
         /\ Append(s, x)[Len(s) + 1] = x
OBVIOUS

(* A name for it keeps the provers from rewriting with what it says.       *)
Joined(whole, s, t) == whole = s \o t

LEMMA Concatenated ==
  ASSUME NEW S, NEW s \in Seq(S), NEW t \in Seq(S), NEW whole, Joined(whole, s, t)
  PROVE  /\ whole \in Seq(S) /\ Len(s) \in Nat /\ Len(t) \in Nat /\ Len(whole) = Len(s) + Len(t)
         /\ DOMAIN s = 1 .. Len(s) /\ DOMAIN t = 1 .. Len(t) /\ DOMAIN whole = 1 .. Len(s) + Len(t)
         /\ \A i \in 1 .. Len(s) : i \in DOMAIN whole /\ whole[i] = s[i]
         /\ \A n \in 1 .. Len(t) : Len(s) + n \in DOMAIN whole /\ whole[Len(s) + n] = t[n]
         /\ \A i \in DOMAIN whole : i \in 1 .. Len(s) \/ \E n \in 1 .. Len(t) : i = Len(s) + n
<1>1. /\ whole \in Seq(S) /\ Len(s) \in Nat /\ Len(t) \in Nat /\ Len(whole) = Len(s) + Len(t)
      /\ DOMAIN s = 1 .. Len(s) /\ DOMAIN t = 1 .. Len(t) /\ DOMAIN whole = 1 .. Len(s) + Len(t)
  BY DEF Joined
<1>2. \A i \in 1 .. Len(s) : whole[i] = s[i]
  BY DEF Joined
<1>3. \A n \in 1 .. Len(t) : whole[Len(s) + n] = t[n]
  <2> SUFFICES ASSUME NEW n \in 1 .. Len(t) PROVE whole[Len(s) + n] = t[n]
    OBVIOUS
  <2>1. Len(s) + n \in 1 .. Len(s) + Len(t) /\ Len(s) + n > Len(s) /\ (Len(s) + n) - Len(s) = n
    BY <1>1
  <2> QED
    BY <1>1, <2>1 DEF Joined
<1> DEFINE M == Len(s)
           N == Len(t)
<1>4. M \in Nat /\ N \in Nat /\ DOMAIN whole = 1 .. M + N
  BY <1>1
<1> HIDE DEF M, N
<1>5. \A i \in DOMAIN whole : i \in 1 .. M \/ \E n \in 1 .. N : i = M + n
  <2> SUFFICES ASSUME NEW i \in 1 .. M + N, i > M PROVE \E n \in 1 .. N : i = M + n
    BY <1>4
  <2>1. i - M \in 1 .. N /\ i = M + (i - M)
    BY <1>4
  <2> QED
    BY <2>1
<1>6. /\ \A i \in 1 .. M : i \in DOMAIN whole
      /\ \A n \in 1 .. N : M + n \in DOMAIN whole
  BY <1>4
<1> QED
  BY <1>1, <1>2, <1>3, <1>5, <1>6 DEF M, N

-----------------------------------------------------------------------------
(* Alerts of a growing list of runs.                                       *)
LEMMA FiredCount ==
  ASSUME NEW runs, NEW n \in Nat
  PROVE  /\ IsFiniteSet(FiredIn(runs, n)) /\ Cardinality(FiredIn(runs, n)) \in Nat
         /\ \A k \in FiredIn(runs, n) : k \in Nat /\ k <= n /\ k \in FiredIn(runs, k)
                                        /\ Cardinality(FiredIn(runs, k)) \in 1 .. Cardinality(FiredIn(runs, n))
<1>1. \A m \in Nat : IsFiniteSet(FiredIn(runs, m)) /\ Cardinality(FiredIn(runs, m)) \in Nat
  <2> SUFFICES ASSUME NEW m \in Nat PROVE IsFiniteSet(FiredIn(runs, m)) /\ Cardinality(FiredIn(runs, m)) \in Nat
    OBVIOUS
  <2>1. IsFiniteSet(1 .. m) /\ FiredIn(runs, m) \in SUBSET (1 .. m)
    BY FS_Interval DEF FiredIn
  <2> QED
    BY <2>1, FS_Subset, FS_CardinalityType
<1>2. ASSUME NEW k \in FiredIn(runs, n)
      PROVE  k \in Nat /\ k <= n /\ k \in FiredIn(runs, k)
             /\ Cardinality(FiredIn(runs, k)) \in 1 .. Cardinality(FiredIn(runs, n))
  <2>1. k \in Nat /\ k <= n /\ k \in FiredIn(runs, k)
    BY DEF FiredIn
  <2>2. FiredIn(runs, k) \in SUBSET FiredIn(runs, n)
    BY <2>1 DEF FiredIn
  <2>3. Cardinality(FiredIn(runs, k)) <= Cardinality(FiredIn(runs, n))
    BY <1>1, <2>2, FS_Subset
  <2>4. Cardinality(FiredIn(runs, k)) # 0
    BY <1>1, <2>1, FS_EmptySet
  <2> QED
    BY <1>1, <2>1, <2>3, <2>4
<1> QED
  BY <1>1, <1>2

LEMMA SameFired ==
  ASSUME NEW runs, NEW other, NEW n \in Nat, \A i \in 1 .. n : runs[i] = other[i]
  PROVE  \A k \in 0 .. n : FiredIn(runs, k) = FiredIn(other, k)
BY DEF FiredIn

LEMMA AlertsLocal ==
  ASSUME NEW runs, NEW other, NEW n \in Nat, \A i \in 1 .. n : runs[i] = other[i], NEW log,
         AlertsOf(runs, n, log)
  PROVE  AlertsOf(other, n, log)
<1>1. FiredIn(other, n) = FiredIn(runs, n)
  BY SameFired
<1>2. \A k \in FiredIn(runs, n) : FiredIn(other, k) = FiredIn(runs, k) /\ other[k] = runs[k]
  BY SameFired DEF FiredIn
<1> QED
  BY <1>1, <1>2 DEF AlertsOf

LEMMA AlertsGrow ==
  ASSUME NEW S, NEW runs, NEW n \in Nat, NEW log \in Seq(S), AlertsOf(runs, n, log),
         AlertOf(runs[n + 1]) \in S
  PROVE  AlertsOf(runs, n + 1, IF runs[n + 1].outcome = "fired" THEN Append(log, AlertOf(runs[n + 1])) ELSE log)
<1>1. CASE runs[n + 1].outcome = "fired"
  <2> DEFINE new == Append(log, AlertOf(runs[n + 1]))
  <2>1. /\ Len(new) = Len(log) + 1 /\ Len(log) \in Nat
        /\ \A i \in 1 .. Len(log) : new[i] = log[i]
        /\ new[Len(log) + 1] = AlertOf(runs[n + 1])
    BY Appended
  <2>2. FiredIn(runs, n + 1) = FiredIn(runs, n) \union {n + 1} /\ n + 1 \notin FiredIn(runs, n)
    BY <1>1 DEF FiredIn
  <2>3. Cardinality(FiredIn(runs, n + 1)) = Len(log) + 1
    BY <2>2, FiredCount, FS_AddElement DEF AlertsOf
  <2>4. \A k \in FiredIn(runs, n) : new[Cardinality(FiredIn(runs, k))] = AlertOf(runs[k])
    <3>1. \A k \in FiredIn(runs, n) : Cardinality(FiredIn(runs, k)) \in 1 .. Len(log)
      BY FiredCount DEF AlertsOf
    <3> HIDE DEF new
    <3> QED
      BY <2>1, <3>1 DEF AlertsOf
  <2>5. AlertsOf(runs, n + 1, new)
    <3> HIDE DEF new
    <3> QED
      BY <2>1, <2>2, <2>3, <2>4 DEF AlertsOf
  <2> QED
    BY <1>1, <2>5
<1>2. CASE runs[n + 1].outcome # "fired"
  <2>1. FiredIn(runs, n + 1) = FiredIn(runs, n)
    BY <1>2 DEF FiredIn
  <2> QED
    BY <1>2, <2>1 DEF AlertsOf
<1> QED
  BY <1>1, <1>2

(* The first m of s, and after them the first n of t.                      *)
Follow(whole, s, m, t, n) ==
  /\ m \in Nat /\ n \in Nat
  /\ \A i \in 1 .. m : whole[i] = s[i]
  /\ \A i \in 1 .. n : whole[m + i] = t[i]

LEMMA FiredShift ==
  ASSUME NEW s, NEW t, NEW whole, NEW m, NEW n, Follow(whole, s, m, t, n)
  PROVE  Cardinality(FiredIn(whole, m + n)) = Cardinality(FiredIn(s, m)) + Cardinality(FiredIn(t, n))
<1> USE DEF Follow
<1> DEFINE Moved_t == {i \in m + 1 .. m + n : whole[i].outcome = "fired"}
           f == [i \in FiredIn(t, n) |-> m + i]
<1>1. FiredIn(whole, m + n) = FiredIn(s, m) \union Moved_t /\ FiredIn(s, m) \intersect Moved_t = {}
  BY DEF FiredIn
<1>2. f \in Bijection(FiredIn(t, n), Moved_t)
  <2>1. \A i \in FiredIn(t, n) : i \in 1 .. n /\ f[i] = m + i /\ f[i] \in Moved_t
    BY DEF FiredIn
  <2>2. \A i, k \in FiredIn(t, n) : f[i] = f[k] => i = k
    BY <2>1
  <2>3. \A k \in Moved_t : k - m \in FiredIn(t, n) /\ f[k - m] = k
    <3> SUFFICES ASSUME NEW k \in Moved_t PROVE k - m \in FiredIn(t, n) /\ f[k - m] = k
      OBVIOUS
    <3>1. k - m \in 1 .. n /\ m + (k - m) = k
      OBVIOUS
    <3>2. k - m \in FiredIn(t, n)
      BY <3>1 DEF FiredIn
    <3> QED
      BY <3>1, <3>2
  <2>4. f \in [FiredIn(t, n) -> Moved_t]
    BY <2>1
  <2> HIDE DEF f
  <2> QED
    BY <2>2, <2>3, <2>4 DEF Bijection, Injection, Surjection, IsInjective
<1> HIDE DEF f
<1>3. IsFiniteSet(Moved_t) /\ Cardinality(Moved_t) = Cardinality(FiredIn(t, n))
  BY <1>2, FiredCount, FS_Bijection DEF ExistsBijection
<1> HIDE DEF Moved_t
<1>4. IsFiniteSet(FiredIn(s, m))
  BY FiredCount
<1>5. Cardinality(FiredIn(s, m) \union Moved_t)
        = Cardinality(FiredIn(s, m)) + Cardinality(Moved_t) - Cardinality({})
  BY <1>1, <1>3, <1>4, FS_Union
<1>6. Cardinality({}) = 0 /\ Cardinality(FiredIn(s, m)) \in Nat /\ Cardinality(Moved_t) \in Nat
  BY <1>3, <1>4, FS_EmptySet, FS_CardinalityType
<1> QED
  BY <1>1, <1>3, <1>5, <1>6

LEMMA JoinedFollow ==
  ASSUME NEW S, NEW s \in Seq(S), NEW t \in Seq(S), NEW whole, Joined(whole, s, t)
  PROVE  /\ Follow(whole, s, Len(s), t, Len(t))
         /\ Len(whole) = Len(s) + Len(t)
<1>1. /\ Len(s) \in Nat /\ Len(t) \in Nat /\ Len(whole) = Len(s) + Len(t)
      /\ \A i \in 1 .. Len(s) : i \in DOMAIN whole /\ whole[i] = s[i]
      /\ \A n \in 1 .. Len(t) : Len(s) + n \in DOMAIN whole /\ whole[Len(s) + n] = t[n]
  BY Concatenated
<1> QED
  BY <1>1 DEF Follow

LEMMA AlertsJoin ==
  ASSUME NEW S, NEW s \in Seq(S), NEW t \in Seq(S), NEW whole, Joined(whole, s, t),
         NEW A, NEW a \in Seq(A), NEW b \in Seq(A), NEW log, Joined(log, a, b),
         AlertsOf(s, Len(s), a), AlertsOf(t, Len(t), b)
  PROVE  AlertsOf(whole, Len(whole), log)
<1> DEFINE M == Len(s)
           N == Len(t)
<1>a. Follow(whole, s, Len(s), t, Len(t)) /\ Len(whole) = Len(s) + Len(t)
  BY JoinedFollow
<1>1. /\ M \in Nat /\ N \in Nat /\ Len(whole) = M + N
      /\ \A i \in 1 .. M : whole[i] = s[i]
      /\ \A i \in 1 .. N : whole[M + i] = t[i]
  BY <1>a DEF Follow
<1>2. AlertsOf(s, M, a) /\ AlertsOf(t, N, b)
  OBVIOUS
<1> HIDE DEF M, N
<1>b. Follow(log, a, Len(a), b, Len(b)) /\ Len(log) = Len(a) + Len(b)
  BY JoinedFollow
<1>3. /\ Len(log) = Len(a) + Len(b) /\ Len(a) \in Nat /\ Len(b) \in Nat
      /\ \A i \in 1 .. Len(a) : log[i] = a[i]
      /\ \A i \in 1 .. Len(b) : log[Len(a) + i] = b[i]
  BY <1>b DEF Follow
<1>4. Len(log) = Cardinality(FiredIn(whole, M + N))
  <2>1. Cardinality(FiredIn(whole, M + N)) = Cardinality(FiredIn(s, M)) + Cardinality(FiredIn(t, N))
    <3>1. Follow(whole, s, M, t, N)
      BY <1>1 DEF Follow
    <3> QED
      BY <3>1, FiredShift
  <2> QED
    BY <1>2, <1>3, <2>1 DEF AlertsOf
<1>5. ASSUME NEW k \in FiredIn(whole, M + N)
      PROVE  log[Cardinality(FiredIn(whole, k))] = AlertOf(whole[k])
  <2>1. CASE k <= M
    <3>1. k \in FiredIn(s, M) /\ whole[k] = s[k] /\ k \in 0 .. M
      BY <1>1, <2>1 DEF FiredIn
    <3>2. FiredIn(whole, k) = FiredIn(s, k)
      BY <1>1, <3>1, SameFired
    <3>3. Cardinality(FiredIn(s, k)) \in 1 .. Len(a) /\ a[Cardinality(FiredIn(s, k))] = AlertOf(s[k])
      BY <1>1, <1>2, <3>1, FiredCount DEF AlertsOf
    <3> QED
      BY <1>3, <3>1, <3>2, <3>3
  <2>2. CASE k > M
    <3> DEFINE n == k - M
    <3>1. n \in 1 .. N /\ k = M + n /\ whole[k] = t[n] /\ n \in FiredIn(t, N)
      BY <1>1, <2>2 DEF FiredIn
    <3> HIDE DEF n
    <3>2. Cardinality(FiredIn(whole, M + n)) = Len(a) + Cardinality(FiredIn(t, n))
      <4>1. Follow(whole, s, M, t, n)
        BY <1>1, <3>1 DEF Follow
      <4>2. Cardinality(FiredIn(whole, M + n)) = Cardinality(FiredIn(s, M)) + Cardinality(FiredIn(t, n))
        BY <4>1, FiredShift
      <4> QED
        BY <1>2, <4>2 DEF AlertsOf
    <3>3. Cardinality(FiredIn(t, n)) \in 1 .. Len(b) /\ b[Cardinality(FiredIn(t, n))] = AlertOf(t[n])
      BY <1>1, <1>2, <3>1, FiredCount DEF AlertsOf
    <3> QED
      BY <1>3, <3>1, <3>2, <3>3
  <2> QED
    BY <1>1, <2>1, <2>2 DEF FiredIn
<1> QED
  BY <1>1, <1>4, <1>5 DEF AlertsOf

-----------------------------------------------------------------------------
(* Rates and rows.                                                         *)
(* Whole quotients.                                                        *)
LEMMA Quotient ==
  ASSUME NEW n \in Nat, NEW k \in Nat, NEW m \in Nat \ {0}, n <= k * m
  PROVE  n \div m \in 0 .. k
<1>1. n = m * (n \div m) + (n % m) /\ n % m \in 0 .. m - 1 /\ n \div m \in Int
  OBVIOUS
<1>2. n \div m \in Nat
  OBVIOUS
<1> DEFINE q == n \div m
<1>3. m * q <= k * m /\ q \in Nat
  BY <1>1, <1>2
<1> HIDE DEF q
<1>4. ~(q > k)
  <2> SUFFICES ASSUME q >= k + 1 PROVE FALSE
    BY <1>3
  <2>1. m * q >= m * (k + 1)
    BY <1>3
  <2>2. m * (k + 1) = k * m + m
    OBVIOUS
  <2> QED
    BY <1>3, <2>1, <2>2
<1> QED
  BY <1>3, <1>4 DEF q

LEMMA StatsBounds ==
  ASSUME NEW sighting \in Sightings, NEW c \in Cohorts
  PROVE  LET s == Stats(sighting, c)
         IN  /\ s.observed \in Nat /\ s.total \in Nat /\ s.observed <= s.total
             /\ ObservedRate(s) \in Rate
<1> DEFINE s == Stats(sighting, c)
<1>1. sighting[1] \in Windows /\ sighting[2] \in Windows
  BY SightingAssumption
<1>2. s.observed \in Nat /\ s.total \in Nat /\ s.observed <= s.total
  <2>1. CASE c = "overall"
    <3>1. Failures(sighting[1]) \in Nat /\ sighting[1].captured \in Nat
      BY <1>1, FailuresCount
    <3> QED
      BY <2>1, <3>1 DEF Stats
  <2>2. CASE c # "overall"
    <3>1. PICK i \in DOMAIN Categories : c = Categories[i]
      BY <2>2, OrderFacts DEF Cohorts
    <3>2. Failures(sighting[2]) \in Nat /\ sighting[2].failed[c] \in Nat
          /\ sighting[2].failed[c] <= Failures(sighting[2])
      BY <1>1, <3>1, FailuresCount
    <3> QED
      BY <2>2, <3>2 DEF Stats
  <2> QED
    BY <2>1, <2>2
<1> HIDE DEF s
<1>3. ObservedRate(s) \in Rate
  <2>1. CASE s.total > 0
    <3> DEFINE n == 1000 * s.observed
               m == s.total
    <3>1. n \in Nat /\ m \in Nat \ {0} /\ n <= 1000 * m
      BY <1>2, <2>1
    <3>2. ObservedRate(s) = n \div m
      BY <2>1 DEF ObservedRate
    <3> HIDE DEF n, m
    <3> QED
      BY <3>1, <3>2, Quotient DEF Rate
  <2>2. CASE ~(s.total > 0)
    BY <2>2 DEF ObservedRate, Rate
  <2> QED
    BY <2>1, <2>2
<1> QED
  BY <1>2, <1>3 DEF s

LEMMA BlendIsRate ==
  ASSUME NEW a \in Rate, NEW b \in Rate
  PROVE  (Alpha * a + (1000 - Alpha) * b) \div 1000 \in Rate
<1>1. Alpha \in Nat /\ 1000 - Alpha \in Nat /\ a \in Nat /\ b \in Nat /\ a <= 1000 /\ b <= 1000
  BY RateAssumption DEF Rate
<1>2. Alpha * a \in Nat /\ (1000 - Alpha) * b \in Nat
  BY <1>1
<1>3. Alpha * a <= Alpha * 1000
  BY <1>1
<1>4. (1000 - Alpha) * b <= (1000 - Alpha) * 1000
  <2> DEFINE r == 1000 - Alpha
  <2>1. r \in Nat
    BY <1>1
  <2> HIDE DEF r
  <2>2. r * b <= r * 1000
    BY <1>1, <2>1
  <2> QED
    BY <2>2 DEF r
<1>5. Alpha * a + (1000 - Alpha) * b <= 1000 * 1000
  BY <1>1, <1>2, <1>3, <1>4
<1> DEFINE n == Alpha * a + (1000 - Alpha) * b
<1>6. n \in Nat /\ n <= 1000 * 1000
  BY <1>2, <1>5
<1> HIDE DEF n
<1>7. n \div 1000 \in 0 .. 1000
  BY <1>6, Quotient
<1> QED
  BY <1>7 DEF n, Rate

(* What a pass writes about a cohort, in terms of what it has read.        *)
Row(n, c, prior, s) ==
  [pass |-> n, cohort |-> c, observed_rate |-> ObservedRate(s),
   baseline_rate |-> IF prior = NoBaseline THEN ObservedRate(s) ELSE prior.ewma_rate,
   outcome |-> Verdict(prior, s)]

LEMMA RowFacts ==
  ASSUME NEW n \in Nat, NEW sighting \in Sightings, NEW c \in Cohorts, NEW prior, prior.ewma_rate \in Rate
  PROVE  LET r == Row(n, c, prior, Stats(sighting, c))
         IN  /\ r \in RunRows /\ r.pass = n /\ r.cohort = c
             /\ AlertOf(r) \in AlertRows
             /\ Decisive(r) <=> ~Gated(Stats(sighting, c))
             /\ r.outcome = "insufficient_history" <=> ~Gated(Stats(sighting, c)) /\ prior = NoBaseline
             /\ prior # NoBaseline => r.baseline_rate = prior.ewma_rate
             /\ r.outcome = "fired" => AlertOf(r) = [pass |-> n, cohort |-> c, observed_rate |-> ObservedRate(Stats(sighting, c)),
                                                     baseline_rate |-> prior.ewma_rate]
<1> DEFINE s == Stats(sighting, c)
           r == Row(n, c, prior, s)
<1>1. ObservedRate(s) \in Rate
  BY StatsBounds
<1> HIDE DEF s
<1>2. r.outcome \in Outcomes /\ (Decisive(r) <=> ~Gated(s))
  BY DEF Row, Verdict, Outcomes, Decisive
<1>3. r.outcome = "insufficient_history" <=> ~Gated(s) /\ prior = NoBaseline
  BY DEF Row, Verdict
<1>4. prior # NoBaseline => r.baseline_rate = prior.ewma_rate
  BY DEF Row
<1>5. r.outcome = "fired" => prior # NoBaseline
  BY DEF Row, Verdict
<1>6. r \in RunRows /\ r.pass = n /\ r.cohort = c /\ r.observed_rate = ObservedRate(s)
  BY <1>1, <1>2 DEF Row, RunRows
<1> HIDE DEF r
<1>7. AlertOf(r) \in AlertRows
  BY <1>6 DEF AlertOf, RunRows, AlertRows
<1>8. r.outcome = "fired" => AlertOf(r) = [pass |-> n, cohort |-> c, observed_rate |-> ObservedRate(s),
                                           baseline_rate |-> prior.ewma_rate]
  BY <1>4, <1>5, <1>6 DEF AlertOf
<1> QED
  BY <1>2, <1>3, <1>4, <1>6, <1>7, <1>8 DEF r, s

LEMMA LeftIsMoved ==
  ASSUME NEW n \in Nat, NEW sighting \in Sightings, NEW c \in Cohorts, NEW prior, prior.ewma_rate \in Rate,
         prior.observations \in Nat, ~Gated(Stats(sighting, c))
  PROVE  LET r == Row(n, c, prior, Stats(sighting, c))
             w == Moved(prior, Stats(sighting, c))
         IN  /\ w.ewma_rate = LeftBy(r) /\ w.ewma_rate \in Rate
             /\ w.observations = prior.observations + 1 /\ w # NoBaseline
<1> DEFINE s == Stats(sighting, c)
           r == Row(n, c, prior, s)
           w == Moved(prior, s)
<1>1. ObservedRate(s) \in Rate /\ ~Gated(s)
  BY StatsBounds
<1> HIDE DEF s
<1>2. w.ewma_rate = update_ewma(prior, ObservedRate(s)) /\ w.observations = prior.observations + 1
  BY DEF Moved
<1>3. w # NoBaseline
  BY <1>2 DEF NoBaseline
<1>4. CASE prior = NoBaseline
  <2>1. r.outcome = "insufficient_history" /\ r.observed_rate = ObservedRate(s)
    BY <1>1, <1>4 DEF Row, Verdict
  <2>2. w.ewma_rate = ObservedRate(s)
    BY <1>2, <1>4 DEF update_ewma
  <2> HIDE DEF r, w
  <2>3. w.ewma_rate = LeftBy(r) /\ w.ewma_rate \in Rate
    BY <1>1, <2>1, <2>2 DEF LeftBy
  <2> QED
    BY <1>2, <1>3, <2>3 DEF r, s, w
<1>5. CASE prior # NoBaseline
  <2>1. r.outcome # "insufficient_history" /\ r.observed_rate = ObservedRate(s) /\ r.baseline_rate = prior.ewma_rate
    BY <1>1, <1>5 DEF Row, Verdict
  <2>2. w.ewma_rate = (Alpha * ObservedRate(s) + (1000 - Alpha) * prior.ewma_rate) \div 1000
    BY <1>2, <1>5 DEF update_ewma
  <2> HIDE DEF r, w
  <2>3. w.ewma_rate = LeftBy(r)
    BY <2>1, <2>2 DEF LeftBy
  <2>4. w.ewma_rate \in Rate
    BY <1>1, <2>2, BlendIsRate
  <2> QED
    BY <1>2, <1>3, <2>3, <2>4 DEF r, s, w
<1> QED
  BY <1>4, <1>5

-----------------------------------------------------------------------------
(* What the audit trail, the ledger and the baselines say of each other.   *)
BaselineExplained(runs, c, row) ==
  /\ Known(runs, c, row)
  /\ row = NoBaseline <=> Runs(runs, c) = {}
  /\ \E i \in Runs(runs, c) \union {0} : /\ \A k \in Runs(runs, c) : k <= i
                                         /\ i # 0 => row.ewma_rate = LeftBy(runs[i])
  /\ \A i \in Runs(runs, c) :
       \/ runs[i].outcome = "insufficient_history"
       \/ \E k \in Runs(runs, c) : k < i /\ runs[i].baseline_rate = LeftBy(runs[k])

OneRowEach(runs) ==
  /\ \A i, k \in DOMAIN runs : runs[i].pass = runs[k].pass /\ runs[i].cohort = runs[k].cohort => i = k
  /\ \A i \in DOMAIN runs, c \in Cohorts :
       \E k \in DOMAIN runs : runs[k].pass = runs[i].pass /\ runs[k].cohort = c

Stored(runs, log, base, n) ==
  /\ runs \in Seq(RunRows) /\ \A i \in DOMAIN runs : runs[i].pass \in 1 .. n
  /\ log \in Seq(AlertRows) /\ AlertsOf(runs, Len(runs), log)
  /\ OneRowEach(runs)
  /\ DOMAIN base = Cohorts /\ \A c \in Cohorts : BaselineExplained(runs, c, base[c])
  /\ \A i \in DOMAIN Categories \ {1} :
       base[Categories[i]].observations = Cardinality(Runs(runs, Categories[i]))

(* The k-th row of a pass under way, and the baseline it wrote with it.    *)
RowKept(j, k, runs, base) ==
  /\ j.rows[k].pass = j.number /\ j.rows[k].cohort = Order[k]
  /\ Decisive(j.rows[k]) <=> ~Gated(Stats(j.sighting, Order[k]))
  /\ Decisive(j.rows[k]) =>
       /\ j.rows[k].outcome = "insufficient_history" \/ IsLeft(runs, Order[k], j.rows[k].baseline_rate)
       /\ j.written[Order[k]].ewma_rate = LeftBy(j.rows[k]) /\ j.written[Order[k]].ewma_rate \in Rate
       /\ j.written[Order[k]].observations \in 1 .. Cardinality(Runs(runs, Order[k])) + 1
       /\ k > 2 => j.written[Order[k]].observations = base[Order[k]].observations + 1

InPass(j, runs, base, n) ==
  /\ j.number \in 1 .. n /\ \A i \in DOMAIN runs : runs[i].pass # j.number
  /\ j.sighting \in Sightings /\ j.at \in 1 .. Len(Order) + 1
  /\ DOMAIN j.written = Cohorts
  /\ j.rows \in Seq(RunRows) /\ Len(j.rows) = IF j.pc = "alert" THEN j.at ELSE j.at - 1
  /\ \A k \in DOMAIN j.rows : RowKept(j, k, runs, base)
  /\ j.alerts \in Seq(AlertRows) /\ AlertsOf(j.rows, j.at - 1, j.alerts)
  /\ j.pc \in {"upsert", "alert"} => j.at \in DOMAIN Order /\ Known(runs, Order[j.at], j.prior)
  /\ j.pc = "alert" =>
       /\ j.rows[j.at].outcome = "fired"
       /\ AlertOf(j.rows[j.at]) = [pass |-> j.number, cohort |-> Order[j.at],
                                   observed_rate |-> ObservedRate(Stats(j.sighting, Order[j.at])),
                                   baseline_rate |-> j.prior.ewma_rate]

PassesApart ==
  \A d, e \in Detectors : d # e /\ pass[d].pc # "idle" /\ pass[e].pc # "idle" => pass[d].number # pass[e].number

AuditInv ==
  /\ passes \in 0 .. MaxPasses /\ faults \in 0 .. MaxFaults
  /\ Stored(detector_runs, alerts, baselines, passes)
  /\ \A d \in Detectors : IF pass[d].pc = "idle" THEN pass[d] = Idle
                          ELSE InPass(pass[d], detector_runs, baselines, passes)
  /\ PassesApart

-----------------------------------------------------------------------------
(* The rows of a whole pass.                                               *)
Complete(rows) == Len(rows) = Len(Order) /\ \A k \in DOMAIN Order : rows[k].cohort = Order[k]

(* What a commit adds to the runs of a cohort.                             *)
LEMMA RunsFinite ==
  ASSUME NEW S, NEW runs \in Seq(S), NEW c
  PROVE  /\ IsFiniteSet(Runs(runs, c)) /\ Cardinality(Runs(runs, c)) \in Nat
         /\ \A i \in Runs(runs, c) : i \in DOMAIN runs /\ i \in Nat /\ i <= Len(runs)
         /\ Len(runs) \in Nat
<1>1. Len(runs) \in Nat /\ DOMAIN runs = 1 .. Len(runs)
  OBVIOUS
<1>2. Runs(runs, c) \in SUBSET (1 .. Len(runs)) /\ IsFiniteSet(1 .. Len(runs))
  BY <1>1, FS_Interval DEF Runs
<1> QED
  BY <1>1, <1>2, FS_Subset, FS_CardinalityType

LEMMA Extended ==
  ASSUME NEW runs \in Seq(RunRows), NEW rows \in Seq(RunRows), NEW new, Joined(new, runs, rows),
         Complete(rows), NEW b \in DOMAIN Order
  PROVE  /\ Decisive(rows[b]) =>
              /\ Runs(new, Order[b]) = Runs(runs, Order[b]) \union {Len(runs) + b}
              /\ Cardinality(Runs(new, Order[b])) = Cardinality(Runs(runs, Order[b])) + 1
         /\ ~Decisive(rows[b]) => Runs(new, Order[b]) = Runs(runs, Order[b])
         /\ \A i \in Runs(runs, Order[b]) : i \in Nat /\ i <= Len(runs) /\ new[i] = runs[i]
         /\ b \in Nat \ {0} /\ Len(runs) \in Nat /\ new[Len(runs) + b] = rows[b]
<1> DEFINE N == Len(runs)
           M == Len(Order)
           c == Order[b]
<1> USE DEF Complete
<1>0. Len(Order) \in Nat /\ DOMAIN Order = 1 .. Len(Order) /\ b \in 1 .. Len(Order)
  BY OrderFacts, CategoryAssumption
<1>1. /\ N \in Nat /\ M \in Nat /\ b \in 1 .. M
      /\ DOMAIN runs = 1 .. N /\ DOMAIN rows = 1 .. M /\ DOMAIN Order = 1 .. M
  BY <1>0, Concatenated
<1>2. /\ \A i \in 1 .. N : i \in DOMAIN new /\ new[i] = runs[i]
      /\ \A i \in DOMAIN new : i \in 1 .. N \/ \E n \in 1 .. M : i = N + n
  BY Concatenated
<1>3. \A n \in 1 .. M : N + n \in DOMAIN new /\ new[N + n] = rows[n]
  BY Concatenated
<1>4. \A n \in 1 .. M : rows[n].cohort = c <=> n = b
  BY <1>1, OrderFacts
<1> HIDE DEF N, M, c
<1>5. Runs(new, c) = Runs(runs, c) \union (IF Decisive(rows[b]) THEN {N + b} ELSE {})
  <2>1. ASSUME NEW i \in Runs(new, c)
        PROVE  i \in Runs(runs, c) \/ (Decisive(rows[b]) /\ i = N + b)
    <3>1. i \in DOMAIN new /\ new[i].cohort = c /\ Decisive(new[i])
      BY DEF Runs
    <3>2. CASE i \in 1 .. N
      BY <1>1, <1>2, <3>1, <3>2 DEF Runs
    <3>3. CASE \E n \in 1 .. M : i = N + n
      BY <1>3, <1>4, <3>1, <3>3
    <3> QED
      BY <1>2, <3>1, <3>2, <3>3
  <2>2. ASSUME NEW i \in Runs(runs, c) PROVE i \in Runs(new, c)
    BY <1>1, <1>2 DEF Runs
  <2>3. Decisive(rows[b]) => N + b \in Runs(new, c)
    BY <1>1, <1>3, <1>4 DEF Runs
  <2> QED
    BY <2>1, <2>2, <2>3
<1>6. IsFiniteSet(Runs(runs, c)) /\ Cardinality(Runs(runs, c)) \in Nat
  BY RunsFinite
<1>7. \A i \in Runs(runs, c) : i \in Nat /\ i <= N /\ new[i] = runs[i]
  BY <1>1, <1>2 DEF Runs
<1>8. N + b \notin Runs(runs, c)
  BY <1>1, <1>7
<1>9. Cardinality(Runs(runs, c) \union {N + b}) = Cardinality(Runs(runs, c)) + 1
  BY <1>6, <1>8, FS_AddElement
<1>10. Decisive(rows[b]) =>
        /\ Runs(new, c) = Runs(runs, c) \union {N + b}
        /\ Cardinality(Runs(new, c)) = Cardinality(Runs(runs, c)) + 1
  BY <1>5, <1>9
<1>11. ~Decisive(rows[b]) => Runs(new, c) = Runs(runs, c)
  BY <1>5
<1>12. b \in Nat \ {0} /\ N \in Nat /\ new[N + b] = rows[b]
  BY <1>1, <1>3
<1> QED
  BY <1>7, <1>10, <1>11, <1>12 DEF N, c

LEMMA StillKnown ==
  ASSUME NEW runs \in Seq(RunRows), NEW rows \in Seq(RunRows), NEW new, Joined(new, runs, rows),
         Complete(rows), NEW b \in DOMAIN Order
  PROVE  /\ Cardinality(Runs(runs, Order[b])) <= Cardinality(Runs(new, Order[b]))
         /\ Cardinality(Runs(runs, Order[b])) \in Nat /\ Cardinality(Runs(new, Order[b])) \in Nat
         /\ \A rate : IsLeft(runs, Order[b], rate) => IsLeft(new, Order[b], rate)
         /\ \A prior : Known(runs, Order[b], prior) => Known(new, Order[b], prior)
<1>1. /\ Runs(runs, Order[b]) \subseteq Runs(new, Order[b])
      /\ \A i \in Runs(runs, Order[b]) : new[i] = runs[i]
  BY Extended
<1>2. Cardinality(Runs(runs, Order[b])) \in Nat
  BY RunsFinite
<1>3. /\ Cardinality(Runs(new, Order[b])) \in Nat
      /\ Cardinality(Runs(runs, Order[b])) <= Cardinality(Runs(new, Order[b]))
  BY <1>2, Extended
<1>4. \A rate : IsLeft(runs, Order[b], rate) => IsLeft(new, Order[b], rate)
  BY <1>1 DEF IsLeft
<1> QED
  BY <1>2, <1>3, <1>4 DEF Known

(* What a pass that ends leaves in the tables explains itself.             *)
LEMMA CommitStored ==
  ASSUME NEW runs, NEW log, NEW base, NEW n \in Nat, Stored(runs, log, base, n),
         NEW j, InPass(j, runs, base, n), j.pc = "load", j.at = Len(Order) + 1,
         NEW new, Joined(new, runs, j.rows), NEW newlog, Joined(newlog, log, j.alerts),
         NEW newbase, DOMAIN newbase = Cohorts,
         \A b \in DOMAIN Order : newbase[Order[b]] = IF Gated(Stats(j.sighting, Order[b])) THEN base[Order[b]]
                                                     ELSE j.written[Order[b]]
  PROVE  Stored(new, newlog, newbase, n)
<1>1. /\ runs \in Seq(RunRows) /\ j.rows \in Seq(RunRows)
      /\ log \in Seq(AlertRows) /\ j.alerts \in Seq(AlertRows)
      /\ Len(j.rows) = Len(Order) /\ Len(Order) \in Nat /\ DOMAIN Order = 1 .. Len(Order) /\ DOMAIN j.rows = DOMAIN Order
  <2>1. Len(Order) \in Nat /\ DOMAIN Order = 1 .. Len(Order)
    BY OrderFacts, CategoryAssumption
  <2> QED
    BY <2>1 DEF Stored, InPass
<1>2. \A k \in DOMAIN Order : RowKept(j, k, runs, base)
  BY <1>1 DEF InPass
<1>3. \A k \in DOMAIN Order : j.rows[k].cohort = Order[k] /\ j.rows[k].pass = j.number
  BY <1>2 DEF RowKept
<1>a. Complete(j.rows)
  BY <1>1, <1>3 DEF Complete
<1>4. /\ new \in Seq(RunRows)
      /\ \A i \in DOMAIN runs : i \in DOMAIN new /\ new[i] = runs[i]
      /\ \A i \in DOMAIN new : i \in DOMAIN runs \/ \E k \in DOMAIN Order : i = Len(runs) + k
  <2>1. /\ new \in Seq(RunRows) /\ DOMAIN runs = 1 .. Len(runs)
        /\ \A i \in 1 .. Len(runs) : i \in DOMAIN new /\ new[i] = runs[i]
        /\ \A i \in DOMAIN new : i \in 1 .. Len(runs) \/ \E k \in 1 .. Len(j.rows) : i = Len(runs) + k
    BY <1>1, Concatenated
  <2> QED
    BY <1>1, <2>1
<1>5. \A k \in DOMAIN Order : Len(runs) + k \in DOMAIN new /\ new[Len(runs) + k] = j.rows[k]
  <2>1. \A k \in 1 .. Len(j.rows) : Len(runs) + k \in DOMAIN new /\ new[Len(runs) + k] = j.rows[k]
    BY <1>1, Concatenated
  <2> QED
    BY <1>1, <2>1
<1>6. \A i \in DOMAIN new : new[i].pass \in 1 .. n
  <2>1. j.number \in 1 .. n /\ \A i \in DOMAIN runs : runs[i].pass \in 1 .. n
    BY DEF Stored, InPass
  <2> QED
    BY <1>3, <1>4, <1>5, <2>1
<1>7. newlog \in Seq(AlertRows) /\ AlertsOf(new, Len(new), newlog)
  <2>1. AlertsOf(runs, Len(runs), log) /\ AlertsOf(j.rows, Len(j.rows), j.alerts)
    BY <1>1 DEF Stored, InPass
  <2>2. newlog \in Seq(AlertRows)
    BY <1>1, Concatenated
  <2> QED
    BY <1>1, <2>1, <2>2, AlertsJoin
<1>8. OneRowEach(new)
  <2>1. \A i \in DOMAIN runs, k \in DOMAIN Order : runs[i].pass # j.rows[k].pass
    BY <1>3 DEF InPass
  <2>2. ASSUME NEW i \in DOMAIN new, NEW k \in DOMAIN new, new[i].pass = new[k].pass, new[i].cohort = new[k].cohort
        PROVE  i = k
    <3>1. CASE i \in DOMAIN runs /\ k \in DOMAIN runs
      BY <1>4, <2>2, <3>1 DEF Stored, OneRowEach
    <3>2. CASE i \in DOMAIN runs /\ \E m \in DOMAIN Order : k = Len(runs) + m
      BY <1>4, <1>5, <2>1, <2>2, <3>2
    <3>3. CASE k \in DOMAIN runs /\ \E m \in DOMAIN Order : i = Len(runs) + m
      BY <1>4, <1>5, <2>1, <2>2, <3>3
    <3>4. ASSUME NEW a \in DOMAIN Order, i = Len(runs) + a, NEW m \in DOMAIN Order, k = Len(runs) + m PROVE i = k
      BY <1>3, <1>5, <2>2, <3>4, OrderFacts
    <3> QED
      BY <1>4, <3>1, <3>2, <3>3, <3>4
  <2>3. ASSUME NEW i \in DOMAIN new, NEW c \in Cohorts
        PROVE  \E k \in DOMAIN new : new[k].pass = new[i].pass /\ new[k].cohort = c
    <3>1. CASE i \in DOMAIN runs
      <4>1. PICK k \in DOMAIN runs : runs[k].pass = runs[i].pass /\ runs[k].cohort = c
        BY <3>1 DEF Stored, OneRowEach
      <4> QED
        BY <1>4, <3>1, <4>1
    <3>2. CASE \E m \in DOMAIN Order : i = Len(runs) + m
      <4>1. PICK b \in DOMAIN Order : c = Order[b]
        BY DEF Cohorts
      <4>2. new[i].pass = j.number /\ new[Len(runs) + b].pass = j.number /\ new[Len(runs) + b].cohort = c
        BY <1>3, <1>5, <3>2, <4>1
      <4> QED
        BY <1>5, <4>1, <4>2
    <3> QED
      BY <1>4, <3>1, <3>2
  <2> QED
    BY <2>2, <2>3 DEF OneRowEach
<1>9. ASSUME NEW b \in DOMAIN Order PROVE BaselineExplained(new, Order[b], newbase[Order[b]])
  <2> DEFINE c == Order[b]
             N == Len(runs)
  <2>1. /\ c \in Cohorts /\ BaselineExplained(runs, c, base[c]) /\ RowKept(j, b, runs, base)
    BY <1>2, OrderFacts DEF Stored
  <2>2. /\ \A i \in Runs(runs, c) : i \in Nat /\ i <= N /\ new[i] = runs[i]
        /\ b \in Nat \ {0} /\ N \in Nat /\ new[N + b] = j.rows[b]
    BY <1>1, <1>a, Extended
  <2>3. /\ Decisive(j.rows[b]) => /\ Runs(new, c) = Runs(runs, c) \union {N + b}
                                  /\ Cardinality(Runs(new, c)) = Cardinality(Runs(runs, c)) + 1
        /\ ~Decisive(j.rows[b]) => Runs(new, c) = Runs(runs, c)
    BY <1>1, <1>a, Extended
  <2>4. \A rate : IsLeft(runs, c, rate) => IsLeft(new, c, rate)
    BY <1>1, <1>a, StillKnown
  <2>5. newbase[c] = IF Decisive(j.rows[b]) THEN j.written[c] ELSE base[c]
    BY <2>1 DEF RowKept
  <2>6. Known(runs, c, base[c]) => Known(new, c, base[c])
    BY <1>1, <1>a, StillKnown
  <2>7. CASE ~Decisive(j.rows[b])
    <3>1. newbase[c] = base[c] /\ Runs(new, c) = Runs(runs, c)
      BY <2>3, <2>5, <2>7
    <3>2. \A i \in Runs(runs, c) : new[i] = runs[i] /\ i # 0 /\ i \in Nat
      BY <2>2 DEF Runs
    <3> HIDE DEF c, N
    <3>3. Known(new, c, newbase[c]) /\ (newbase[c] = NoBaseline <=> Runs(new, c) = {})
      BY <2>1, <2>6, <3>1 DEF BaselineExplained
    <3>4. PICK i \in Runs(runs, c) \union {0} : /\ \A k \in Runs(runs, c) : k <= i
                                                /\ i # 0 => base[c].ewma_rate = LeftBy(runs[i])
      BY <2>1 DEF BaselineExplained
    <3>5. i \in Runs(new, c) \union {0} /\ (\A k \in Runs(new, c) : k <= i)
          /\ (i # 0 => newbase[c].ewma_rate = LeftBy(new[i]))
      <4>1. i \in Runs(new, c) \union {0} /\ (\A k \in Runs(new, c) : k <= i)
        BY <3>1, <3>2, <3>4
      <4>2. i # 0 => new[i] = runs[i]
        BY <3>2, <3>4
      <4> QED
        BY <3>1, <3>4, <4>1, <4>2
    <3>6. \A m \in Runs(new, c) : \/ new[m].outcome = "insufficient_history"
                                  \/ \E k \in Runs(new, c) : k < m /\ new[m].baseline_rate = LeftBy(new[k])
      BY <2>1, <3>1, <3>2 DEF BaselineExplained
    <3>7. BaselineExplained(new, c, newbase[c])
      BY <3>3, <3>5, <3>6 DEF BaselineExplained
    <3> QED
      BY <3>7 DEF c
  <2>8. CASE Decisive(j.rows[b])
    <3>1. /\ newbase[c] = j.written[c]
          /\ j.rows[b].outcome = "insufficient_history" \/ IsLeft(runs, c, j.rows[b].baseline_rate)
          /\ j.written[c].ewma_rate = LeftBy(j.rows[b]) /\ j.written[c].ewma_rate \in Rate
          /\ j.written[c].observations \in 1 .. Cardinality(Runs(runs, c)) + 1
      BY <2>1, <2>5, <2>8 DEF RowKept
    <3>2. /\ Runs(new, c) = Runs(runs, c) \union {N + b} /\ N + b # 0 /\ N + b \in Nat
          /\ Cardinality(Runs(new, c)) = Cardinality(Runs(runs, c)) + 1
      BY <2>2, <2>3, <2>8
    <3>3. Cardinality(Runs(runs, c)) \in Nat
      BY <1>1, RunsFinite
    <3>4. \A i \in Runs(runs, c) : i < N + b /\ new[i] = runs[i]
      BY <2>2
    <3> HIDE DEF c, N
    <3>5. newbase[c] # NoBaseline
      BY <3>1, <3>3 DEF NoBaseline
    <3>6. IsLeft(new, c, newbase[c].ewma_rate)
      BY <2>2, <3>1, <3>2 DEF IsLeft
    <3>7. Known(new, c, newbase[c])
      BY <3>1, <3>2, <3>3, <3>6 DEF Known
    <3>8. \A i \in Runs(new, c) : \/ new[i].outcome = "insufficient_history"
                                  \/ \E k \in Runs(new, c) : k < i /\ new[i].baseline_rate = LeftBy(new[k])
      <4>1. ASSUME NEW i \in Runs(runs, c)
            PROVE  \/ new[i].outcome = "insufficient_history"
                   \/ \E k \in Runs(new, c) : k < i /\ new[i].baseline_rate = LeftBy(new[k])
        BY <2>1, <3>2, <3>4 DEF BaselineExplained
      <4>2. \/ new[N + b].outcome = "insufficient_history"
            \/ \E k \in Runs(new, c) : k < N + b /\ new[N + b].baseline_rate = LeftBy(new[k])
        BY <2>2, <3>1, <3>2, <3>4 DEF IsLeft
      <4> QED
        BY <3>2, <4>1, <4>2
    <3>9. \A k \in Runs(new, c) : k <= N + b
      BY <2>2, <3>2, <3>4
    <3>10. newbase[c].ewma_rate = LeftBy(new[N + b]) /\ N + b \in Runs(new, c)
      BY <2>2, <3>1, <3>2
    <3>11. \E i \in Runs(new, c) \union {0} : /\ \A k \in Runs(new, c) : k <= i
                                              /\ i # 0 => newbase[c].ewma_rate = LeftBy(new[i])
      BY <3>9, <3>10
    <3>12. newbase[c] = NoBaseline <=> Runs(new, c) = {}
      BY <3>2, <3>5
    <3>13. BaselineExplained(new, c, newbase[c])
      BY <3>7, <3>8, <3>11, <3>12, Zenon DEF BaselineExplained
    <3> QED
      BY <3>13 DEF c
  <2> QED
    BY <2>7, <2>8
<1>10. \A c \in Cohorts : BaselineExplained(new, c, newbase[c])
  BY <1>9 DEF Cohorts
<1>11. ASSUME NEW i \in DOMAIN Categories \ {1}
       PROVE  newbase[Categories[i]].observations = Cardinality(Runs(new, Categories[i]))
  <2> DEFINE b == i + 1
             c == Categories[i]
  <2>1. b \in DOMAIN Order /\ Order[b] = c /\ b > 2
    BY OrderFacts
  <2> HIDE DEF b, c
  <2>2. base[c].observations = Cardinality(Runs(runs, c)) /\ RowKept(j, b, runs, base)
    BY <1>2, <2>1 DEF Stored, c
  <2>3. /\ Decisive(j.rows[b]) => Cardinality(Runs(new, c)) = Cardinality(Runs(runs, c)) + 1
        /\ ~Decisive(j.rows[b]) => Runs(new, c) = Runs(runs, c)
    BY <1>1, <1>a, <2>1, Extended
  <2>4. newbase[c] = IF Decisive(j.rows[b]) THEN j.written[c] ELSE base[c]
    BY <2>1, <2>2 DEF RowKept
  <2>5. Decisive(j.rows[b]) => j.written[c].observations = base[c].observations + 1
    BY <2>1, <2>2 DEF RowKept
  <2>6. newbase[c].observations = Cardinality(Runs(new, c))
    BY <2>2, <2>3, <2>4, <2>5
  <2> QED
    BY <2>6 DEF c
<1> QED
  BY <1>4, <1>6, <1>7, <1>8, <1>10, <1>11 DEF Stored

(* Another's commit takes nothing from what a pass under way relies on.    *)
LeavesAlone(j, rows, base, newbase) ==
  /\ \A k \in DOMAIN Order : rows[k].pass # j.number
  /\ \A k \in DOMAIN j.rows : k > 2 /\ Decisive(j.rows[k]) => newbase[Order[k]] = base[Order[k]]

LEMMA CommitOthers ==
  ASSUME NEW runs \in Seq(RunRows), NEW base, NEW n \in Nat,
         NEW rows \in Seq(RunRows), Complete(rows), NEW new, Joined(new, runs, rows),
         NEW j, InPass(j, runs, base, n), NEW newbase, LeavesAlone(j, rows, base, newbase)
  PROVE  InPass(j, new, newbase, n)
<1>0. Len(Order) \in Nat /\ DOMAIN Order = 1 .. Len(Order) /\ Len(rows) = Len(Order)
  BY OrderFacts, CategoryAssumption DEF Complete
<1>1. /\ \A b \in DOMAIN Order : /\ Cardinality(Runs(runs, Order[b])) <= Cardinality(Runs(new, Order[b]))
                                 /\ Cardinality(Runs(runs, Order[b])) \in Nat
                                 /\ Cardinality(Runs(new, Order[b])) \in Nat
      /\ \A b \in DOMAIN Order : \A rate : IsLeft(runs, Order[b], rate) => IsLeft(new, Order[b], rate)
      /\ \A b \in DOMAIN Order : \A prior : Known(runs, Order[b], prior) => Known(new, Order[b], prior)
  BY StillKnown
<1>2. \A i \in DOMAIN new : new[i].pass # j.number
  <2>1. /\ DOMAIN runs = 1 .. Len(runs)
        /\ \A i \in 1 .. Len(runs) : new[i] = runs[i]
        /\ \A k \in 1 .. Len(rows) : new[Len(runs) + k] = rows[k]
        /\ \A i \in DOMAIN new : i \in 1 .. Len(runs) \/ \E k \in 1 .. Len(rows) : i = Len(runs) + k
    BY Concatenated
  <2>2. \A i \in DOMAIN runs : runs[i].pass # j.number
    BY DEF InPass
  <2>3. \A k \in 1 .. Len(rows) : rows[k].pass # j.number
    BY <1>0 DEF LeavesAlone
  <2> QED
    BY <2>1, <2>2, <2>3
<1>3. \A k \in DOMAIN j.rows : k \in DOMAIN Order
  <2>1. j.rows \in Seq(RunRows) /\ Len(j.rows) \in {j.at, j.at - 1} /\ j.at \in 1 .. Len(Order) + 1
        /\ (j.pc = "alert" => j.at \in DOMAIN Order /\ Len(j.rows) = j.at)
        /\ (j.pc # "alert" => Len(j.rows) = j.at - 1)
    BY DEF InPass
  <2>2. DOMAIN j.rows = 1 .. Len(j.rows) /\ Len(j.rows) \in Nat /\ Len(j.rows) <= Len(Order)
    BY <1>0, <2>1
  <2> QED
    BY <1>0, <2>2
<1>4. ASSUME NEW k \in DOMAIN j.rows PROVE RowKept(j, k, new, newbase)
  <2> DEFINE c == Order[k]
  <2>1. RowKept(j, k, runs, base) /\ k \in DOMAIN Order
    BY <1>3 DEF InPass
  <2>2. /\ Cardinality(Runs(runs, c)) <= Cardinality(Runs(new, c))
        /\ Cardinality(Runs(runs, c)) \in Nat /\ Cardinality(Runs(new, c)) \in Nat
        /\ \A rate : IsLeft(runs, c, rate) => IsLeft(new, c, rate)
    BY <1>1, <2>1
  <2>3. k > 2 /\ Decisive(j.rows[k]) => newbase[c] = base[c]
    BY DEF LeavesAlone
  <2>4. Decisive(j.rows[k]) => j.written[c].observations \in 1 .. Cardinality(Runs(new, c)) + 1
    BY <2>1, <2>2 DEF RowKept
  <2> QED
    BY <2>1, <2>2, <2>3, <2>4 DEF RowKept
<1>5. j.pc \in {"upsert", "alert"} => j.at \in DOMAIN Order /\ Known(new, Order[j.at], j.prior)
  BY <1>1 DEF InPass
<1> QED
  BY <1>2, <1>4, <1>5 DEF InPass

(* A step that shows nothing yet.                                          *)
LEMMA PrivateStep ==
  ASSUME AuditInv, NEW d \in Detectors, Keeps(d),
         UNCHANGED <<baselines, detector_runs, alerts, passes, faults>>,
         pass[d].pc # "idle", pass'[d].pc # "idle", pass'[d].number = pass[d].number,
         InPass(pass'[d], detector_runs, baselines, passes)
  PROVE  AuditInv'
<1>1. \A e \in Detectors : IF pass'[e].pc = "idle" THEN pass'[e] = Idle
                           ELSE InPass(pass'[e], detector_runs, baselines, passes)
  BY DEF AuditInv, Keeps
<1>2. PassesApart'
  BY DEF AuditInv, Keeps, PassesApart
<1> QED
  BY <1>1, <1>2 DEF AuditInv

LEMMA UnderWay ==
  ASSUME AuditInv, IInv, NEW d \in Detectors, pass[d].pc # "idle"
  PROVE  /\ InPass(pass[d], detector_runs, baselines, passes)
         /\ pass[d].order = Order /\ DOMAIN pass = Detectors /\ DOMAIN pass[d] = Fields
         /\ pass[d].number \in Nat /\ pass[d].at \in Nat \ {0}
         /\ passes \in Nat /\ Stored(detector_runs, alerts, baselines, passes)
BY DEF AuditInv, IInv, Shaped, InPass

LEMMA StartPassKeeps ==
  ASSUME AuditInv, IInv, NEW d \in Detectors, NEW sighting \in Sightings, StartPass(d, sighting)
  PROVE  AuditInv'
<1>1. /\ pass'[d] = [Idle EXCEPT !.pc = "load", !.number = passes + 1, !.sighting = sighting, !.order = Order]
      /\ passes' = passes + 1 /\ passes \in Nat /\ passes' \in 0 .. MaxPasses
      /\ Keeps(d) /\ UNCHANGED <<baselines, detector_runs, alerts, faults>>
  BY RateAssumption DEF StartPass, IInv, Shaped, Keeps, AuditInv
<1>2. /\ pass'[d].pc = "load" /\ pass'[d].number = passes + 1 /\ pass'[d].sighting = sighting
      /\ pass'[d].at = 1 /\ DOMAIN pass'[d].written = Cohorts /\ pass'[d].rows = <<>> /\ pass'[d].alerts = <<>>
  BY <1>1 DEF Idle
<1>3. \A i \in DOMAIN detector_runs : detector_runs[i].pass \in 1 .. passes
  BY DEF AuditInv, Stored
<1>4. Stored(detector_runs, alerts, baselines, passes + 1)
  <2>1. \A i \in DOMAIN detector_runs : detector_runs[i].pass \in 1 .. passes + 1
    BY <1>1, <1>3
  <2> QED
    BY <2>1 DEF AuditInv, Stored
<1>5. InPass(pass'[d], detector_runs, baselines, passes + 1)
  <2>1. AlertsOf(<<>>, 0, <<>>)
    <3>1. FiredIn(<<>>, 0) = {}
      BY DEF FiredIn
    <3> QED
      BY <3>1, FS_EmptySet DEF AlertsOf
  <2>2. \A i \in DOMAIN detector_runs : detector_runs[i].pass # passes + 1
    BY <1>1, <1>3
  <2>3. Len(Order) \in Nat
    BY OrderFacts, CategoryAssumption
  <2>4. pass'[d].number \in 1 .. passes + 1 /\ pass'[d].at \in 1 .. Len(Order) + 1 /\ pass'[d].at - 1 = 0
    BY <1>1, <1>2, <2>3
  <2>5. pass'[d].rows \in Seq(RunRows) /\ Len(pass'[d].rows) = 0 /\ DOMAIN pass'[d].rows = {}
        /\ pass'[d].alerts \in Seq(AlertRows)
    BY <1>2
  <2>6. AlertsOf(pass'[d].rows, pass'[d].at - 1, pass'[d].alerts)
    BY <1>2, <2>1, <2>4
  <2> QED
    BY <1>2, <2>2, <2>4, <2>5, <2>6 DEF InPass
<1>6. ASSUME NEW e \in Detectors, e # d
      PROVE  /\ IF pass'[e].pc = "idle" THEN pass'[e] = Idle
                ELSE InPass(pass'[e], detector_runs, baselines, passes + 1)
             /\ pass'[e].pc # "idle" => pass'[e].number # passes + 1
  <2>1. pass'[e] = pass[e]
    BY <1>1, <1>6 DEF Keeps
  <2>2. pass[e].pc # "idle" => pass[e].number \in 1 .. passes
    BY DEF AuditInv, InPass
  <2>3. pass[e].pc # "idle" => pass[e].number \in 1 .. passes + 1 /\ pass[e].number # passes + 1
    BY <1>1, <2>2
  <2> QED
    BY <2>1, <2>3 DEF AuditInv, InPass
<1>7. PassesApart'
  <2>1. \A e \in Detectors : e # d => pass'[e] = pass[e] /\ (pass'[e].pc # "idle" => pass'[e].number # passes + 1)
    BY <1>1, <1>6 DEF Keeps
  <2> SUFFICES ASSUME NEW e \in Detectors, NEW g \in Detectors, e # g, pass'[e].pc # "idle", pass'[g].pc # "idle"
               PROVE  pass'[e].number # pass'[g].number
    BY DEF PassesApart
  <2>2. CASE e = d \/ g = d
    BY <1>2, <2>1, <2>2
  <2>3. CASE e # d /\ g # d
    BY <2>1, <2>3 DEF AuditInv, PassesApart
  <2> QED
    BY <2>2, <2>3
<1> QED
  BY <1>1, <1>2, <1>4, <1>5, <1>6, <1>7 DEF AuditInv

(* One more row of a pass under way.                                       *)
LEMMA RowAdded ==
  ASSUME NEW runs, NEW base, NEW n, NEW j, InPass(j, runs, base, n), j.pc \in {"load", "upsert"},
         j.at \in DOMAIN Order, NEW x \in RunRows, AlertOf(x) \in AlertRows,
         NEW k, k.rows = Append(j.rows, x), k.number = j.number, k.sighting = j.sighting, k.alerts = j.alerts,
         \A b \in DOMAIN Order : b # j.at => k.written[Order[b]] = j.written[Order[b]]
  PROVE  /\ k.rows \in Seq(RunRows) /\ Len(k.rows) = j.at /\ k.rows[j.at] = x
         /\ \A i \in DOMAIN k.rows : i = j.at \/ RowKept(k, i, runs, base)
         /\ AlertsOf(k.rows, j.at - 1, k.alerts)
         /\ x.outcome # "fired" => AlertsOf(k.rows, j.at, k.alerts)
<1>1. /\ j.at \in 1 .. Len(Order) /\ Len(Order) \in Nat /\ DOMAIN Order = 1 .. Len(Order)
      /\ j.rows \in Seq(RunRows) /\ Len(j.rows) = j.at - 1 /\ j.alerts \in Seq(AlertRows)
      /\ AlertsOf(j.rows, j.at - 1, j.alerts)
  BY OrderFacts, CategoryAssumption DEF InPass
<1>2. /\ k.rows \in Seq(RunRows) /\ Len(k.rows) = j.at /\ DOMAIN k.rows = 1 .. j.at
      /\ \A i \in DOMAIN j.rows : k.rows[i] = j.rows[i]
      /\ k.rows[j.at] = x /\ DOMAIN j.rows = 1 .. j.at - 1
  <2>1. /\ Append(j.rows, x) \in Seq(RunRows) /\ Len(Append(j.rows, x)) = Len(j.rows) + 1
        /\ DOMAIN j.rows = 1 .. Len(j.rows) /\ DOMAIN Append(j.rows, x) = 1 .. Len(j.rows) + 1
        /\ \A i \in 1 .. Len(j.rows) : Append(j.rows, x)[i] = j.rows[i]
        /\ Append(j.rows, x)[Len(j.rows) + 1] = x
    BY <1>1, Appended
  <2>2. Len(j.rows) + 1 = j.at
    BY <1>1
  <2> QED
    BY <1>1, <2>1, <2>2
<1>3. /\ AlertsOf(k.rows, j.at - 1, k.alerts)
      /\ x.outcome # "fired" => AlertsOf(k.rows, j.at, k.alerts)
  <2> DEFINE m == j.at - 1
  <2>1. m \in Nat /\ m + 1 = j.at /\ \A i \in 1 .. m : j.rows[i] = k.rows[i]
    BY <1>1, <1>2
  <2>2. AlertsOf(j.rows, m, k.alerts) /\ k.alerts \in Seq(AlertRows)
    BY <1>1
  <2> HIDE DEF m
  <2>3. AlertsOf(k.rows, m, k.alerts)
    BY <2>1, <2>2, AlertsLocal
  <2>4. k.rows[m + 1] = x
    BY <1>2, <2>1
  <2>5. AlertsOf(k.rows, m + 1, IF k.rows[m + 1].outcome = "fired" THEN Append(k.alerts, AlertOf(k.rows[m + 1]))
                                ELSE k.alerts)
    BY <2>1, <2>2, <2>3, <2>4, AlertsGrow
  <2>6. x.outcome # "fired" => AlertsOf(k.rows, j.at, k.alerts)
    BY <2>1, <2>4, <2>5
  <2> QED
    BY <2>3, <2>6 DEF m
<1>4. ASSUME NEW i \in DOMAIN k.rows, i # j.at PROVE RowKept(k, i, runs, base)
  <2>1. i \in DOMAIN j.rows /\ i \in DOMAIN Order
    BY <1>1, <1>2, <1>4
  <2>2. RowKept(j, i, runs, base) /\ k.rows[i] = j.rows[i] /\ k.written[Order[i]] = j.written[Order[i]]
    BY <1>2, <1>4, <2>1 DEF InPass
  <2> QED
    BY <2>2 DEF RowKept
<1> QED
  BY <1>2, <1>3, <1>4

LEMMA SkipCohortKeeps ==
  ASSUME AuditInv, IInv, NEW d \in Detectors, SkipCohort(d)
  PROVE  AuditInv'
<1> DEFINE j == pass[d]
           k == pass'[d]
           c == Order[j.at]
           x == Row(j.number, c, baselines[c], Stats(j.sighting, c))
<1>1. j.pc = "load" /\ InPass(j, detector_runs, baselines, passes)
      /\ j.order = Order /\ DOMAIN pass = Detectors /\ DOMAIN pass[d] = Fields
      /\ j.number \in Nat /\ j.at \in Nat \ {0} /\ Stored(detector_runs, alerts, baselines, passes)
  BY UnderWay DEF SkipCohort, AtCohort
<1>2. /\ j.at \in DOMAIN Order /\ c \in Cohorts /\ Gated(Stats(j.sighting, c))
      /\ Len(Order) \in Nat /\ DOMAIN Order = 1 .. Len(Order)
  BY <1>1, OrderFacts, CategoryAssumption DEF SkipCohort, AtCohort, Cohort, Sample
<1>3. /\ k.pc = "load" /\ k.at = j.at + 1 /\ k.rows = Append(j.rows, x) /\ k.number = j.number
      /\ k.sighting = j.sighting /\ k.written = j.written /\ k.alerts = j.alerts
      /\ Keeps(d) /\ UNCHANGED <<baselines, detector_runs, alerts, passes, faults>>
  BY <1>1 DEF SkipCohort, RunRow, Row, Cohort, Sample, Keeps, Fields
<1>4. baselines[c].ewma_rate \in Rate /\ j.sighting \in Sightings
  BY <1>1, <1>2 DEF Stored, BaselineExplained, Known, InPass
<1>5. /\ x \in RunRows /\ x.pass = j.number /\ x.cohort = c /\ AlertOf(x) \in AlertRows
      /\ ~Decisive(x)
  BY <1>1, <1>2, <1>4, RowFacts
<1>6. x.outcome # "fired"
  BY <1>5 DEF Decisive
<1> HIDE DEF x, j, k
<1>7. /\ k.rows \in Seq(RunRows) /\ Len(k.rows) = j.at /\ k.rows[j.at] = x
      /\ \A i \in DOMAIN k.rows : i = j.at \/ RowKept(k, i, detector_runs, baselines)
      /\ AlertsOf(k.rows, j.at, k.alerts)
  <2>1. \A b \in DOMAIN Order : b # j.at => k.written[Order[b]] = j.written[Order[b]]
    BY <1>3
  <2>2. k.rows = Append(j.rows, x) /\ k.number = j.number /\ k.sighting = j.sighting /\ k.alerts = j.alerts
    BY <1>3
  <2>3. /\ k.rows \in Seq(RunRows) /\ Len(k.rows) = j.at /\ k.rows[j.at] = x
        /\ \A i \in DOMAIN k.rows : i = j.at \/ RowKept(k, i, detector_runs, baselines)
        /\ AlertsOf(k.rows, j.at - 1, k.alerts)
        /\ x.outcome # "fired" => AlertsOf(k.rows, j.at, k.alerts)
    BY <1>1, <1>2, <1>5, <2>1, <2>2, RowAdded
  <2> QED
    BY <1>6, <2>3
<1>8. RowKept(k, j.at, detector_runs, baselines)
  BY <1>2, <1>3, <1>5, <1>7 DEF RowKept
<1>9. k.at \in 1 .. Len(Order) + 1 /\ k.at - 1 = j.at
  BY <1>1, <1>2, <1>3
<1>10. InPass(k, detector_runs, baselines, passes)
  BY <1>1, <1>3, <1>7, <1>8, <1>9 DEF InPass
<1> QED
  BY <1>1, <1>3, <1>10, PrivateStep DEF j, k

LEMMA UpsertBaselineKeeps ==
  ASSUME AuditInv, IInv, NEW d \in Detectors, UpsertBaseline(d)
  PROVE  AuditInv'
<1> DEFINE j == pass[d]
           k == pass'[d]
           c == Order[j.at]
           s == Stats(j.sighting, c)
           x == Row(j.number, c, j.prior, s)
           w == Moved(j.prior, s)
<1>1. j.pc = "upsert" /\ InPass(j, detector_runs, baselines, passes)
      /\ j.order = Order /\ DOMAIN pass = Detectors /\ DOMAIN pass[d] = Fields
      /\ j.number \in Nat /\ j.at \in Nat \ {0} /\ Stored(detector_runs, alerts, baselines, passes)
  BY UnderWay DEF UpsertBaseline, AtCohort
<1>2. /\ j.at \in DOMAIN Order /\ c \in Cohorts /\ ~Gated(s)
      /\ Len(Order) \in Nat /\ DOMAIN Order = 1 .. Len(Order)
  <2>1. Tests(d, Order[pass[d].at])
    BY <1>1 DEF IInv, HoldsWhatItTested
  <2> QED
    BY <1>1, <2>1, OrderFacts, CategoryAssumption DEF UpsertBaseline, AtCohort, Tests
<1>3. /\ k.pc = (IF x.outcome = "fired" THEN "alert" ELSE "load")
      /\ k.at = (IF x.outcome = "fired" THEN j.at ELSE j.at + 1)
      /\ k.rows = Append(j.rows, x) /\ k.number = j.number /\ k.prior = j.prior
      /\ k.sighting = j.sighting /\ k.written = [j.written EXCEPT ![c] = w] /\ k.alerts = j.alerts
      /\ Keeps(d) /\ UNCHANGED <<baselines, detector_runs, alerts, passes, faults>>
  BY <1>1 DEF UpsertBaseline, Evaluated, RunRow, Row, Cohort, Sample, Keeps, Fields
<1>4. /\ Known(detector_runs, c, j.prior) /\ j.sighting \in Sightings /\ DOMAIN j.written = Cohorts
      /\ j.prior.ewma_rate \in Rate /\ j.prior.observations \in Nat
  <2>1. Known(detector_runs, c, j.prior) /\ j.sighting \in Sightings /\ DOMAIN j.written = Cohorts
    BY <1>1 DEF InPass
  <2> HIDE DEF j, c
  <2> QED
    BY <2>1 DEF Known
<1>5. /\ x \in RunRows /\ x.pass = j.number /\ x.cohort = c /\ AlertOf(x) \in AlertRows
      /\ Decisive(x)
      /\ x.outcome = "insufficient_history" <=> j.prior = NoBaseline
      /\ j.prior # NoBaseline => x.baseline_rate = j.prior.ewma_rate
      /\ x.outcome = "fired" => AlertOf(x) = [pass |-> j.number, cohort |-> c, observed_rate |-> ObservedRate(s),
                                               baseline_rate |-> j.prior.ewma_rate]
  BY <1>1, <1>2, <1>4, RowFacts
<1>6. w.ewma_rate = LeftBy(x) /\ w.ewma_rate \in Rate /\ w.observations = j.prior.observations + 1
  BY <1>1, <1>2, <1>4, LeftIsMoved
<1>7. j.at > 2 => j.prior = baselines[c]
  <2> SUFFICES ASSUME j.at > 2 PROVE j.prior = baselines[c]
    OBVIOUS
  <2>1. j.at - 1 \in DOMAIN Categories \ {1} /\ c = Categories[j.at - 1]
    BY <1>2, OrderFacts
  <2>2. AtCohort(d, "upsert") /\ Cohort(d) = Categories[j.at - 1]
    BY <1>1, <2>1 DEF UpsertBaseline, Cohort
  <2> QED
    BY <2>1, <2>2 DEF IInv, NoStaleShare
<1>8. \A b \in DOMAIN Order : k.written[Order[b]] = IF b = j.at THEN w ELSE j.written[Order[b]]
  <2>1. \A b \in DOMAIN Order : Order[b] \in Cohorts /\ (Order[b] = c <=> b = j.at)
    BY <1>2, OrderFacts
  <2> HIDE DEF c, j, k, w
  <2> QED
    BY <1>3, <1>4, <2>1
<1>9. Cardinality(Runs(detector_runs, c)) \in Nat
  BY <1>1, RunsFinite DEF Stored
<1> HIDE DEF x, w, s, j, k
<1>10. /\ k.rows \in Seq(RunRows) /\ Len(k.rows) = j.at /\ k.rows[j.at] = x
       /\ \A i \in DOMAIN k.rows : i = j.at \/ RowKept(k, i, detector_runs, baselines)
       /\ AlertsOf(k.rows, j.at - 1, k.alerts)
       /\ x.outcome # "fired" => AlertsOf(k.rows, j.at, k.alerts)
  <2>1. \A b \in DOMAIN Order : b # j.at => k.written[Order[b]] = j.written[Order[b]]
    BY <1>8
  <2>2. k.rows = Append(j.rows, x) /\ k.number = j.number /\ k.sighting = j.sighting /\ k.alerts = j.alerts
    BY <1>3
  <2> QED
    BY <1>1, <1>2, <1>5, <2>1, <2>2, RowAdded
<1>11. RowKept(k, j.at, detector_runs, baselines)
  <2>1. k.rows[j.at].pass = k.number /\ k.rows[j.at].cohort = c /\ Decisive(k.rows[j.at])
        /\ ~Gated(Stats(k.sighting, c))
    BY <1>2, <1>3, <1>5, <1>10 DEF s
  <2>2. k.rows[j.at].outcome = "insufficient_history" \/ IsLeft(detector_runs, c, k.rows[j.at].baseline_rate)
    BY <1>4, <1>5, <1>10 DEF Known
  <2>3. k.written[c] = w
    BY <1>2, <1>8
  <2>4. w.observations \in 1 .. Cardinality(Runs(detector_runs, c)) + 1
    BY <1>4, <1>6, <1>9 DEF Known
  <2>5. j.at > 2 => w.observations = baselines[c].observations + 1
    BY <1>6, <1>7
  <2>6. w.ewma_rate = LeftBy(k.rows[j.at]) /\ w.ewma_rate \in Rate
    BY <1>6, <1>10
  <2> QED
    BY <2>1, <2>2, <2>3, <2>4, <2>5, <2>6 DEF RowKept
<1>12. InPass(k, detector_runs, baselines, passes)
  <2>1. /\ k.number \in 1 .. passes /\ \A i \in DOMAIN detector_runs : detector_runs[i].pass # k.number
        /\ k.sighting \in Sightings /\ k.alerts \in Seq(AlertRows)
        /\ DOMAIN k.written = Cohorts
    BY <1>1, <1>3, <1>4 DEF InPass
  <2>2. \A i \in DOMAIN k.rows : RowKept(k, i, detector_runs, baselines)
    BY <1>10, <1>11
  <2>3. CASE x.outcome = "fired"
    <3>1. k.pc = "alert" /\ k.at = j.at /\ k.at \in 1 .. Len(Order) + 1
      BY <1>2, <1>3, <2>3
    <3>2. Known(detector_runs, Order[k.at], k.prior) /\ k.at \in DOMAIN Order
      BY <1>2, <1>3, <1>4, <3>1
    <3>3. /\ k.rows[k.at].outcome = "fired"
          /\ AlertOf(k.rows[k.at]) = [pass |-> k.number, cohort |-> Order[k.at],
                                      observed_rate |-> ObservedRate(Stats(k.sighting, Order[k.at])),
                                      baseline_rate |-> k.prior.ewma_rate]
      BY <1>3, <1>5, <1>10, <2>3, <3>1 DEF s
    <3> QED
      BY <1>10, <2>1, <2>2, <3>1, <3>2, <3>3 DEF InPass
  <2>4. CASE x.outcome # "fired"
    <3>1. k.pc = "load" /\ k.at = j.at + 1 /\ k.at - 1 = j.at /\ k.at \in 1 .. Len(Order) + 1
      BY <1>1, <1>2, <1>3, <2>4
    <3> QED
      BY <1>10, <2>1, <2>2, <2>4, <3>1 DEF InPass
  <2> QED
    BY <2>3, <2>4
<1>13. k.pc # "idle"
  BY <1>3
<1> QED
  BY <1>1, <1>3, <1>12, <1>13, PrivateStep DEF j, k

LEMMA AppendAlertKeeps ==
  ASSUME AuditInv, IInv, NEW d \in Detectors, AppendAlert(d)
  PROVE  AuditInv'
<1> DEFINE j == pass[d]
           k == pass'[d]
           a == [pass |-> j.number, cohort |-> Order[j.at],
                 observed_rate |-> ObservedRate(Stats(j.sighting, Order[j.at])),
                 baseline_rate |-> j.prior.ewma_rate]
<1>1. j.pc = "alert" /\ InPass(j, detector_runs, baselines, passes)
      /\ j.order = Order /\ DOMAIN pass = Detectors /\ DOMAIN pass[d] = Fields
      /\ j.number \in Nat /\ j.at \in Nat \ {0}
  BY UnderWay DEF AppendAlert, AtCohort
<1>2. /\ k.pc = "load" /\ k.at = j.at + 1 /\ k.rows = j.rows /\ k.number = j.number
      /\ k.sighting = j.sighting /\ k.written = j.written /\ k.alerts = Append(j.alerts, a)
      /\ Keeps(d) /\ UNCHANGED <<baselines, detector_runs, alerts, passes, faults>>
  BY <1>1 DEF AppendAlert, Alert, Cohort, Sample, Keeps, Fields
<1>3. /\ j.at \in DOMAIN Order /\ Len(Order) \in Nat /\ DOMAIN Order = 1 .. Len(Order)
      /\ j.rows \in Seq(RunRows) /\ Len(j.rows) = j.at
      /\ j.alerts \in Seq(AlertRows) /\ AlertsOf(j.rows, j.at - 1, j.alerts)
      /\ j.rows[j.at].outcome = "fired" /\ AlertOf(j.rows[j.at]) = a
      /\ \A i \in DOMAIN j.rows : RowKept(j, i, detector_runs, baselines)
  BY <1>1, OrderFacts, CategoryAssumption DEF InPass
<1> HIDE DEF a, j, k
<1>4. j.rows[j.at] \in RunRows
  BY <1>1, <1>3
<1>5. a \in AlertRows
  BY <1>3, <1>4 DEF AlertOf, RunRows, AlertRows
<1>6. AlertsOf(k.rows, j.at, k.alerts)
  <2> DEFINE m == j.at - 1
  <2>1. m \in Nat /\ m + 1 = j.at
    BY <1>1
  <2>2. AlertsOf(j.rows, m, j.alerts) /\ j.rows[m + 1].outcome = "fired" /\ AlertOf(j.rows[m + 1]) = a
    BY <1>3, <2>1
  <2> HIDE DEF m
  <2>3. AlertsOf(j.rows, m + 1, IF j.rows[m + 1].outcome = "fired" THEN Append(j.alerts, AlertOf(j.rows[m + 1]))
                                ELSE j.alerts)
    BY <1>3, <1>5, <2>1, <2>2, AlertsGrow
  <2> QED
    BY <1>2, <2>1, <2>2, <2>3
<1>7. k.alerts \in Seq(AlertRows)
  BY <1>2, <1>3, <1>5, Appended
<1>8. \A i \in DOMAIN k.rows : RowKept(k, i, detector_runs, baselines)
  BY <1>2, <1>3 DEF RowKept
<1>9. k.at \in 1 .. Len(Order) + 1 /\ k.at - 1 = j.at
  BY <1>1, <1>2, <1>3
<1>10. InPass(k, detector_runs, baselines, passes)
  BY <1>1, <1>2, <1>3, <1>6, <1>7, <1>8, <1>9 DEF InPass
<1> QED
  BY <1>1, <1>2, <1>10, PrivateStep DEF j, k

LEMMA LoadBaselineKeeps ==
  ASSUME AuditInv, IInv, NEW d \in Detectors, LoadBaseline(d)
  PROVE  AuditInv'
<1> DEFINE j == pass[d]
           k == pass'[d]
<1>1. j.pc = "load" /\ InPass(j, detector_runs, baselines, passes)
      /\ j.order = Order /\ DOMAIN pass = Detectors /\ DOMAIN pass[d] = Fields
      /\ j.number \in Nat /\ j.at \in Nat \ {0} /\ Stored(detector_runs, alerts, baselines, passes)
  BY UnderWay DEF LoadBaseline, AtCohort
<1>2. j.at \in DOMAIN Order /\ Order[j.at] \in Cohorts
  BY <1>1, OrderFacts DEF LoadBaseline, AtCohort
<1>3. /\ k.pc = "upsert" /\ k.at = j.at /\ k.rows = j.rows /\ k.number = j.number
      /\ k.sighting = j.sighting /\ k.written = j.written /\ k.alerts = j.alerts
      /\ k.prior = baselines[Order[j.at]]
      /\ Keeps(d) /\ UNCHANGED <<baselines, detector_runs, alerts, passes, faults>>
  BY <1>1 DEF LoadBaseline, Cohort, Keeps, Fields
<1>4. Known(detector_runs, Order[j.at], baselines[Order[j.at]])
  BY <1>1, <1>2 DEF Stored, BaselineExplained
<1> HIDE DEF j, k
<1>5. InPass(k, detector_runs, baselines, passes)
  BY <1>1, <1>2, <1>3, <1>4 DEF InPass, RowKept
<1> QED
  BY <1>1, <1>3, <1>5, PrivateStep DEF j, k

(* The end of a pass that leaves nothing.                                  *)
LEMMA AbortedKeeps ==
  ASSUME AuditInv, IInv, NEW d \in Detectors, EndPass(d),
         UNCHANGED <<baselines, detector_runs, alerts, passes>>, faults' \in 0 .. MaxFaults
  PROVE  AuditInv'
<1>1. pass'[d] = Idle /\ Keeps(d)
  BY DEF EndPass, IInv, Shaped, Keeps
<1>2. \A e \in Detectors : IF pass'[e].pc = "idle" THEN pass'[e] = Idle
                           ELSE InPass(pass'[e], detector_runs, baselines, passes)
  BY <1>1 DEF AuditInv, Keeps, Idle
<1>3. PassesApart'
  BY <1>1 DEF AuditInv, Keeps, PassesApart, Idle
<1> QED
  BY <1>2, <1>3 DEF AuditInv

LEMMA CommitPassKeeps ==
  ASSUME AuditInv, IInv, NEW d \in Detectors, CommitPass(d)
  PROVE  AuditInv'
<1> DEFINE j == pass[d]
<1>1. /\ j.pc = "load" /\ j.at = Len(Order) + 1 /\ InPass(j, detector_runs, baselines, passes)
      /\ passes \in Nat /\ Stored(detector_runs, alerts, baselines, passes)
  <2>1. /\ j.pc = "load" /\ InPass(j, detector_runs, baselines, passes) /\ j.order = Order
        /\ j.at > Len(j.order)
        /\ passes \in Nat /\ Stored(detector_runs, alerts, baselines, passes)
    BY UnderWay DEF CommitPass
  <2>2. j.at \in 1 .. Len(Order) + 1 /\ Len(Order) \in Nat
    BY <2>1, OrderFacts, CategoryAssumption DEF InPass
  <2> QED
    BY <2>1, <2>2
<1>2. /\ pass'[d] = Idle /\ Keeps(d) /\ UNCHANGED <<passes, faults>>
      /\ Joined(detector_runs', detector_runs, j.rows) /\ Joined(alerts', alerts, j.alerts)
      /\ baselines' = [c \in Cohorts |-> IF row_lock[c] = d THEN j.written[c] ELSE baselines[c]]
  BY DEF CommitPass, EndPass, IInv, Shaped, Keeps, Joined
<1>3. \A b \in DOMAIN Order : row_lock[Order[b]] = d <=> ~Gated(Stats(j.sighting, Order[b]))
  <2>1. \A b \in DOMAIN Order : Past(d, b)
    BY <1>1, OrderFacts, CategoryAssumption DEF Past
  <2> QED
    BY <1>1, <2>1 DEF IInv, HoldsWhatItTested, Tests
<1>4. \A b \in DOMAIN Order : baselines'[Order[b]] = IF Gated(Stats(j.sighting, Order[b])) THEN baselines[Order[b]]
                                                     ELSE j.written[Order[b]]
  BY <1>2, <1>3, OrderFacts
<1>5. DOMAIN baselines' = Cohorts
  BY <1>2
<1>6. /\ j.rows \in Seq(RunRows) /\ Complete(j.rows)
      /\ \A k \in DOMAIN Order : j.rows[k].pass = j.number
      /\ detector_runs \in Seq(RunRows)
  <2>1. /\ j.rows \in Seq(RunRows) /\ Len(j.rows) = Len(Order) /\ Len(Order) \in Nat /\ DOMAIN Order = 1 .. Len(Order)
    BY <1>1, OrderFacts, CategoryAssumption DEF InPass
  <2>2. DOMAIN j.rows = DOMAIN Order
    BY <2>1
  <2>3. \A k \in DOMAIN Order : RowKept(j, k, detector_runs, baselines)
    BY <1>1, <2>2 DEF InPass
  <2> QED
    BY <1>1, <2>1, <2>3 DEF RowKept, Complete, Stored
<1>7. Stored(detector_runs', alerts', baselines', passes)
  <2> HIDE DEF j
  <2> QED
    BY <1>1, <1>2, <1>4, <1>5, CommitStored
<1>8. ASSUME NEW e \in Detectors, e # d, pass[e].pc # "idle"
      PROVE  InPass(pass[e], detector_runs', baselines', passes)
  <2> DEFINE i == pass[e]
  <2>1. InPass(i, detector_runs, baselines, passes)
    BY <1>8 DEF AuditInv
  <2>2. i.number # j.number
    BY <1>1, <1>8 DEF AuditInv, PassesApart
  <2>3. ASSUME NEW k \in DOMAIN i.rows, k > 2, Decisive(i.rows[k])
        PROVE  baselines'[Order[k]] = baselines[Order[k]]
    <3>1. /\ i.rows \in Seq(RunRows) /\ i.at \in 1 .. Len(Order) + 1 /\ RowKept(i, k, detector_runs, baselines)
          /\ Len(i.rows) = IF i.pc = "alert" THEN i.at ELSE i.at - 1
          /\ i.pc = "alert" => i.at \in DOMAIN Order
      BY <2>1 DEF InPass
    <3>2. k \in 1 .. Len(i.rows) /\ Len(Order) \in Nat /\ DOMAIN Order = 1 .. Len(Order)
      BY <3>1, OrderFacts, CategoryAssumption
    <3>3. k \in DOMAIN Order /\ Past(e, k)
      BY <3>1, <3>2 DEF Past
    <3>4. Tests(e, Order[k])
      BY <2>3, <3>1 DEF RowKept, Tests
    <3>5. row_lock[Order[k]] = e
      BY <1>8, <3>3, <3>4 DEF IInv, HoldsWhatItTested
    <3> QED
      BY <1>2, <1>8, <3>3, <3>5, OrderFacts
  <2>4. \A k \in DOMAIN Order : j.rows[k].pass # i.number
    BY <1>6, <2>2
  <2>5. LeavesAlone(i, j.rows, baselines, baselines')
    BY <2>3, <2>4 DEF LeavesAlone
  <2>6. Joined(detector_runs', detector_runs, j.rows)
    BY <1>2
  <2> HIDE DEF i, j
  <2>7. InPass(i, detector_runs', baselines', passes)
    BY <1>1, <1>6, <2>1, <2>5, <2>6, CommitOthers
  <2> QED
    BY <2>7 DEF i
<1>9. \A e \in Detectors : IF pass'[e].pc = "idle" THEN pass'[e] = Idle
                           ELSE InPass(pass'[e], detector_runs', baselines', passes)
  BY <1>2, <1>8 DEF AuditInv, Keeps, Idle
<1>10. PassesApart'
  BY <1>2 DEF AuditInv, Keeps, PassesApart, Idle
<1> QED
  BY <1>2, <1>7, <1>9, <1>10 DEF AuditInv

LEMMA InitAudit == Init => AuditInv
<1> SUFFICES ASSUME Init PROVE AuditInv
  OBVIOUS
<1>1. /\ baselines = [c \in Cohorts |-> NoBaseline] /\ detector_runs = <<>> /\ alerts = <<>>
      /\ pass = [d \in Detectors |-> Idle] /\ passes = 0 /\ faults = 0
  BY DEF Init
<1>2. \A c : Runs(detector_runs, c) = {}
  BY <1>1 DEF Runs
<1>3. \A c \in Cohorts : BaselineExplained(detector_runs, c, baselines[c])
  <2>1. NoBaseline.ewma_rate \in Rate /\ NoBaseline.observations = 0
    BY DEF NoBaseline, Rate
  <2>2. Cardinality({}) = 0
    BY FS_EmptySet
  <2>3. \A c \in Cohorts : Known(detector_runs, c, NoBaseline)
    BY <1>2, <2>1, <2>2 DEF Known
  <2> QED
    BY <1>1, <1>2, <2>3 DEF BaselineExplained
<1>4. AlertsOf(detector_runs, Len(detector_runs), alerts)
  <2>1. FiredIn(detector_runs, 0) = {} /\ Cardinality({}) = 0
    BY FS_EmptySet DEF FiredIn
  <2> QED
    BY <1>1, <2>1 DEF AlertsOf
<1>5. \A i \in DOMAIN Categories \ {1} :
        baselines[Categories[i]].observations = Cardinality(Runs(detector_runs, Categories[i]))
  BY <1>1, <1>2, FS_EmptySet, OrderFacts DEF NoBaseline
<1>6. Stored(detector_runs, alerts, baselines, passes)
  BY <1>1, <1>3, <1>4, <1>5 DEF Stored, OneRowEach
<1>7. passes \in 0 .. MaxPasses /\ faults \in 0 .. MaxFaults
  BY <1>1, RateAssumption
<1> QED
  BY <1>1, <1>6, <1>7 DEF AuditInv, PassesApart, Idle

LEMMA StepAudit == AuditInv /\ IInv /\ [Next]_vars => AuditInv'
<1> SUFFICES ASSUME AuditInv, IInv, [Next]_vars PROVE AuditInv'
  OBVIOUS
<1>1. ASSUME NEW d \in Detectors, NEW sighting \in Sightings, StartPass(d, sighting) PROVE AuditInv'
  BY <1>1, StartPassKeeps
<1>2. ASSUME NEW d \in Detectors, SkipCohort(d) PROVE AuditInv'
  BY <1>2, SkipCohortKeeps
<1>3. ASSUME NEW d \in Detectors, LoadBaseline(d) PROVE AuditInv'
  BY <1>3, LoadBaselineKeeps
<1>4. ASSUME NEW d \in Detectors, UpsertBaseline(d) PROVE AuditInv'
  BY <1>4, UpsertBaselineKeeps
<1>5. ASSUME NEW d \in Detectors, AppendAlert(d) PROVE AuditInv'
  BY <1>5, AppendAlertKeeps
<1>6. ASSUME NEW d \in Detectors, CommitPass(d) PROVE AuditInv'
  BY <1>6, CommitPassKeeps
<1>7. ASSUME NEW d \in Detectors, AbortPass(d) PROVE AuditInv'
  <2>1. faults' \in 0 .. MaxFaults
    BY <1>7, RateAssumption DEF AbortPass, AuditInv
  <2> QED
    BY <1>7, <2>1, AbortedKeeps DEF AbortPass
<1>8. ASSUME NEW d \in Detectors, BreakDeadlock(d) PROVE AuditInv'
  <2>1. faults' \in 0 .. MaxFaults
    BY <1>8 DEF BreakDeadlock, AuditInv
  <2> QED
    BY <1>8, <2>1, AbortedKeeps DEF BreakDeadlock
<1>9. ASSUME UNCHANGED vars PROVE AuditInv'
  BY <1>9 DEF vars, AuditInv, PassesApart
<1> QED
  BY <1>1, <1>2, <1>3, <1>4, <1>5, <1>6, <1>7, <1>8, <1>9 DEF Next, Step, AtRest

LEMMA AuditInductive == Spec => []AuditInv
<1>1. Init => AuditInv
  BY InitAudit
<1>2. AuditInv /\ IInv /\ [Next]_vars => AuditInv'
  BY StepAudit
<1> QED
  BY <1>1, <1>2, Inductive, PTL DEF Spec

(* In the words of the properties.                                         *)
LEMMA RunsAreRunsOf == \A c : RunsOf(c) = Runs(detector_runs, c)
BY DEF RunsOf, Runs

LEMMA AlertsExplained == AuditInv => AlertsAreFiredRuns
BY DEF AuditInv, Stored, AlertsOf, AlertsAreFiredRuns, FiredUpTo, FiredIn

LEMMA OneRunEach == AuditInv => OneRunPerCohort
<1> SUFFICES ASSUME AuditInv, NEW c \in Cohorts, NEW p \in {detector_runs[i].pass : i \in DOMAIN detector_runs}
             PROVE  Cardinality({i \in DOMAIN detector_runs :
                                   detector_runs[i].pass = p /\ detector_runs[i].cohort = c}) = 1
  BY DEF OneRunPerCohort
<1>1. OneRowEach(detector_runs)
  BY DEF AuditInv, Stored
<1>2. PICK k \in DOMAIN detector_runs : detector_runs[k].pass = p /\ detector_runs[k].cohort = c
  BY <1>1 DEF OneRowEach
<1>3. {i \in DOMAIN detector_runs : detector_runs[i].pass = p /\ detector_runs[i].cohort = c} = {k}
  BY <1>1, <1>2 DEF OneRowEach
<1> QED
  BY <1>3, FS_Singleton

LEMMA BaselinesFollow == AuditInv => BaselinesExplained
BY RunsAreRunsOf DEF AuditInv, Stored, BaselineExplained, BaselinesExplained

LEMMA NothingLost == AuditInv /\ IInv => LaterSharesLoseNothing
BY RunsAreRunsOf DEF AuditInv, IInv, Stored, LaterSharesLoseNothing

(* Each pass has one run of a cohort, so that there are no more than       *)
(* passes.                                                                 *)
LEMMA RunsAreFew ==
  ASSUME AuditInv, NEW c \in Cohorts
  PROVE  Cardinality(Runs(detector_runs, c)) <= passes
<1> DEFINE f == [i \in Runs(detector_runs, c) |-> detector_runs[i].pass]
<1>1. /\ passes \in Nat /\ OneRowEach(detector_runs)
      /\ \A i \in DOMAIN detector_runs : detector_runs[i].pass \in 1 .. passes
  BY RateAssumption DEF AuditInv, Stored
<1>2. f \in Injection(Runs(detector_runs, c), 1 .. passes)
  <2>1. \A i \in Runs(detector_runs, c) : i \in DOMAIN detector_runs /\ detector_runs[i].cohort = c
    BY DEF Runs
  <2> QED
    BY <1>1, <2>1 DEF Injection, IsInjective, OneRowEach
<1>3. IsFiniteSet(1 .. passes) /\ Cardinality(1 .. passes) = passes
  BY <1>1, FS_Interval
<1> HIDE DEF f
<1> QED
  BY <1>2, <1>3, FS_Injection

LEMMA TypesFollow == AuditInv /\ IInv => DetectorTypeOK
<1> SUFFICES ASSUME AuditInv, IInv PROVE DetectorTypeOK
  OBVIOUS
<1>1. \A c \in Cohorts : baselines[c].ewma_rate \in Rate /\ baselines[c].observations \in 0 .. MaxPasses
  <2> SUFFICES ASSUME NEW c \in Cohorts
               PROVE  baselines[c].ewma_rate \in Rate /\ baselines[c].observations \in 0 .. MaxPasses
    OBVIOUS
  <2>1. Known(detector_runs, c, baselines[c])
    BY DEF AuditInv, Stored, BaselineExplained
  <2>2. Cardinality(Runs(detector_runs, c)) <= passes /\ Cardinality(Runs(detector_runs, c)) \in Nat
    BY RunsAreFew, RunsFinite DEF AuditInv, Stored
  <2>3. passes \in 0 .. MaxPasses /\ MaxPasses \in Nat
    BY RateAssumption DEF AuditInv
  <2> QED
    BY <2>1, <2>2, <2>3 DEF Known
<1>2. \A i \in DOMAIN detector_runs : detector_runs[i] \in RunRows
  BY DEF AuditInv, Stored
<1>3. ASSUME NEW d \in Detectors
      PROVE  /\ pass[d].pc \in {"idle", "load", "upsert", "alert"}
             /\ pass[d].order \in Seq(Cohorts) /\ pass[d].at \in 1 .. Len(pass[d].order) + 1
  <2>1. pass[d].pc \in {"idle", "load", "upsert", "alert"}
    BY DEF IInv, Shaped
  <2>2. CASE pass[d].pc = "idle"
    <3>1. pass[d] = Idle
      BY <2>2 DEF AuditInv
    <3> QED
      BY <2>1, <3>1 DEF Idle
  <2>3. CASE pass[d].pc # "idle"
    <3>1. pass[d].order = Order /\ pass[d].at \in 1 .. Len(Order) + 1
      BY <2>3, UnderWay DEF InPass
    <3>2. Order \in Seq(Cohorts)
      <4>1. Len(Order) \in Nat /\ DOMAIN Order = 1 .. Len(Order) /\ \A b \in DOMAIN Order : Order[b] \in Cohorts
        BY OrderFacts, CategoryAssumption
      <4>2. Order \in Seq(STRING \union {"overall"})
        BY CategoryAssumption DEF Order
      <4> HIDE DEF Order
      <4>3. Order \in [1 .. Len(Order) -> Cohorts]
        BY <4>1, <4>2
      <4> QED
        BY <4>1, <4>3, SeqDef
    <3> QED
      BY <2>1, <3>1, <3>2
  <2> QED
    BY <2>2, <2>3
<1> QED
  BY <1>1, <1>2, <1>3 DEF DetectorTypeOK, AuditInv, IInv, Shaped, RunRows, Outcomes

(* The type invariant of the detector: every rate is one, and no cohort    *)
(* has more observations than there were passes.                           *)
THEOREM TypeCorrect == Spec => []DetectorTypeOK
BY Inductive, AuditInductive, TypesFollow, PTL

(* Whatever overlaps, dies or deadlocks, every baseline is where the last  *)
(* run of its cohort left it, every run that tested a baseline tested one  *)
(* that an earlier run had left, each pass has one run of each cohort, and *)
(* the ledger's alerts are the runs that fired, in their order.            *)
THEOREM BaselinesAreExplained == Spec => []AuditExplainsBaselines
<1>1. AuditInv => AuditExplainsBaselines
  BY AlertsExplained, OneRunEach, BaselinesFollow DEF AuditExplainsBaselines
<1> QED
  BY AuditInductive, <1>1, PTL

(* No update of a category's baseline is lost, the first category's        *)
(* excepted, although no row is locked when it is read.                    *)
THEOREM LaterSharesKeepCount == Spec => []LaterSharesLoseNothing
BY Inductive, AuditInductive, NothingLost, PTL
=============================================================================
