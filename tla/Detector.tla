------------------------------ MODULE Detector ------------------------------
(***************************************************************************)
(* The degradation detector: run_once() of src/detect/runner.py and        *)
(* evaluate_cohort() of service.py, with cohorts.py, ewma.py and           *)
(* significance.py, run repeatedly by scripts/run_detect.py.               *)
(*                                                                         *)
(* A pass is one transaction at READ COMMITTED.  It counts the payments of *)
(* its window with two queries, then takes the cohorts in a fixed order:   *)
(* it reads the cohort's baseline without a lock, tests against it, and    *)
(* upserts the moved baseline, whose row it then holds to its commit, as   *)
(* it does the ledger's lock from its first alert on.  Passes may overlap. *)
(* Rates and probabilities are whole per mille.                            *)
(***************************************************************************)
EXTENDS Integers, Sequences, FiniteSets, Functions

CONSTANTS Detectors,             \* processes that may run the script
          Categories,            \* the failure categories, in the enum's order
          Sightings,             \* <<first, second>>: what the two queries of a pass see
          MinSample,             \* detector_min_sample_size
          ConfidenceThreshold,   \* detector_confidence_threshold
          Alpha,                 \* detector_ewma_alpha
          Posterior(_, _, _),    \* P(Beta(1 + observed, 1 + total - observed) > the baseline's Beta)
          Free,                  \* a lock nobody holds
          MaxPasses, MaxFaults   \* bounds: passes started, passes that die

Windows == [captured : Nat, failed : [{Categories[i] : i \in DOMAIN Categories} -> Nat]]

ASSUME SightingAssumption == Sightings \subseteq Windows \X Windows
(* An enum has each of its members once, and there is one.                 *)
ASSUME CategoryAssumption ==
  /\ Categories \in Seq(STRING) /\ Categories # <<>>
  /\ \A i \in DOMAIN Categories :
       /\ Categories[i] # "overall"
       /\ \A k \in DOMAIN Categories : Categories[k] = Categories[i] => k = i
ASSUME RateAssumption ==
  /\ Alpha \in 0 .. 1000 /\ ConfidenceThreshold \in 1 .. 1000 /\ MinSample \in Nat \ {0}
  /\ Free \notin Detectors /\ MaxPasses \in Nat /\ MaxFaults \in Nat

VARIABLES baselines,      \* cohort -> its row of detector_baselines
          detector_runs,  \* committed rows of detector_runs
          alerts,         \* committed "degradation.alert_fired" entries of the ledger
          pass,           \* detector -> the transaction in progress
          row_lock,       \* cohort -> holder of its row (or of the key it is inserting)
          ledger_lock,    \* holder of the ledger's advisory lock
          passes, faults  \* passes started, passes that died

vars == <<baselines, detector_runs, alerts, pass, row_lock, ledger_lock, passes, faults>>

Order   == <<"overall">> \o Categories
Cohorts == {Order[i] : i \in DOMAIN Order}
Rate    == 0 .. 1000

NoBaseline == [ewma_rate |-> 0, observations |-> 0]   \* there is no row
Idle == [pc |-> "idle", number |-> 0, sighting |-> <<>>, order |-> <<>>, at |-> 1, prior |-> NoBaseline,
         written |-> [c \in Cohorts |-> NoBaseline], rows |-> <<>>, alerts |-> <<>>]

DetectorTypeOK ==
  /\ \A c \in Cohorts : baselines[c].ewma_rate \in Rate /\ baselines[c].observations \in 0 .. MaxPasses
  /\ \A i \in DOMAIN detector_runs :
       LET r == detector_runs[i]
       IN  /\ r.cohort \in Cohorts /\ r.observed_rate \in Rate /\ r.baseline_rate \in Rate
           /\ r.outcome \in {"insufficient_sample", "insufficient_history", "not_significant", "fired"}
  /\ \A d \in Detectors : /\ pass[d].pc \in {"idle", "load", "upsert", "alert"}
                          /\ pass[d].order \in Seq(Cohorts) /\ pass[d].at \in 1 .. Len(pass[d].order) + 1
  /\ row_lock \in [Cohorts -> Detectors \union {Free}]
  /\ ledger_lock \in Detectors \union {Free}
  /\ passes \in 0 .. MaxPasses /\ faults \in 0 .. MaxFaults

-----------------------------------------------------------------------------
(* cohorts.py: failures over failures and captures for "overall", the      *)
(* category's failures over all failures for each category_share.          *)
Failures(w) == FoldFunction(LAMBDA n, sum : n + sum, 0, w.failed)

Stats(sighting, c) ==
  IF c = "overall"
    THEN [observed |-> Failures(sighting[1]), total |-> Failures(sighting[1]) + sighting[1].captured]
    ELSE [observed |-> sighting[2].failed[c], total |-> Failures(sighting[2])]

ObservedRate(s) == IF s.total > 0 THEN (1000 * s.observed) \div s.total ELSE 0

(* The first observation of a cohort becomes its baseline.                 *)
(* Mutant: later ones do as well.                                          *)
update_ewma_no_blend(prior, observed_rate) == observed_rate

update_ewma(prior, observed_rate) ==
  IF prior = NoBaseline THEN observed_rate
  ELSE (Alpha * observed_rate + (1000 - Alpha) * prior.ewma_rate) \div 1000

clip_rate(rate) == IF rate < 1 THEN 1 ELSE IF rate > 999 THEN 999 ELSE rate

probability_degraded(baseline_rate, s) ==
  IF s.total = 0 THEN 0 ELSE Posterior(clip_rate(baseline_rate), s.observed, s.total)

(* The minimum-sample gate comes before everything else.                   *)
Gated(s) == s.total < MinSample

Verdict(prior, s) ==
  IF Gated(s) THEN "insufficient_sample"
  ELSE IF prior = NoBaseline THEN "insufficient_history"
  ELSE IF probability_degraded(prior.ewma_rate, s) >= ConfidenceThreshold THEN "fired"
  ELSE "not_significant"

(* Mutant: a cohort without a baseline has none to record.                 *)
RunRow_null(d, c, prior, s) ==
  [pass |-> pass[d].number, cohort |-> c, observed_rate |-> ObservedRate(s),
   baseline_rate |-> IF prior = NoBaseline THEN -1 ELSE prior.ewma_rate, outcome |-> Verdict(prior, s)]

(* The row of detector_runs: with the baseline that was tested against, or *)
(* the observed rate where there was none.                                 *)
RunRow(d, c, prior, s) ==
  [pass |-> pass[d].number, cohort |-> c, observed_rate |-> ObservedRate(s),
   baseline_rate |-> IF prior = NoBaseline THEN ObservedRate(s) ELSE prior.ewma_rate,
   outcome |-> Verdict(prior, s)]

Moved(prior, s) == [ewma_rate |-> update_ewma(prior, ObservedRate(s)),
                    observations |-> prior.observations + 1]

-----------------------------------------------------------------------------
(* Payments arrive between the two queries too.                            *)
(* Mutant: the cohorts in the order in which the database groups them.     *)
StartPass_any_order(d, sighting) ==
  /\ pass[d].pc = "idle"
  /\ passes < MaxPasses
  /\ passes' = passes + 1
  /\ \E order \in {Order, <<"overall">> \o [i \in DOMAIN Categories |->
                                              Categories[Len(Categories) + 1 - i]]} :
       pass' = [pass EXCEPT ![d] = [Idle EXCEPT !.pc = "load", !.number = passes',
                                               !.sighting = sighting, !.order = order]]
  /\ UNCHANGED <<baselines, detector_runs, alerts, row_lock, ledger_lock, faults>>

StartPass(d, sighting) ==
  /\ pass[d].pc = "idle"
  /\ passes < MaxPasses
  /\ passes' = passes + 1
  /\ pass' = [pass EXCEPT ![d] = [Idle EXCEPT !.pc = "load", !.number = passes',
                                             !.sighting = sighting, !.order = Order]]
  /\ UNCHANGED <<baselines, detector_runs, alerts, row_lock, ledger_lock, faults>>

Cohort(d) == pass[d].order[pass[d].at]
Sample(d) == Stats(pass[d].sighting, Cohort(d))
AtCohort(d, pc) == pass[d].pc = pc /\ pass[d].at <= Len(pass[d].order)

(* A sample below the minimum leaves a row and nothing else.               *)
SkipCohort(d) ==
  /\ AtCohort(d, "load")
  /\ Gated(Sample(d))
  /\ pass' = [pass EXCEPT ![d].at = @ + 1,
                          ![d].rows = Append(@, RunRow(d, Cohort(d), baselines[Cohort(d)], Sample(d)))]
  /\ UNCHANGED <<baselines, detector_runs, alerts, row_lock, ledger_lock, passes, faults>>

LoadBaseline(d) ==
  /\ AtCohort(d, "load")
  /\ ~Gated(Sample(d))
  /\ pass' = [pass EXCEPT ![d].pc = "upsert", ![d].prior = baselines[Cohort(d)]]
  /\ UNCHANGED <<baselines, detector_runs, alerts, row_lock, ledger_lock, passes, faults>>

Evaluated(d) ==
  LET row == RunRow(d, Cohort(d), pass[d].prior, Sample(d))
  IN  pass' = [pass EXCEPT ![d].written[Cohort(d)] = Moved(pass[d].prior, Sample(d)),
                           ![d].rows = Append(@, row),
                           ![d].pc = IF row.outcome = "fired" THEN "alert" ELSE "load",
                           ![d].at = IF row.outcome = "fired" THEN @ ELSE @ + 1]

(* Mutant: the upsert does not wait for another's uncommitted row.         *)
UpsertBaseline_no_wait(d) ==
  /\ AtCohort(d, "upsert")
  /\ row_lock' = [row_lock EXCEPT ![Cohort(d)] = d]
  /\ Evaluated(d)
  /\ UNCHANGED <<baselines, detector_runs, alerts, ledger_lock, passes, faults>>

UpsertBaseline(d) ==
  /\ AtCohort(d, "upsert")
  /\ row_lock[Cohort(d)] = Free
  /\ row_lock' = [row_lock EXCEPT ![Cohort(d)] = d]
  /\ Evaluated(d)
  /\ UNCHANGED <<baselines, detector_runs, alerts, ledger_lock, passes, faults>>

(* The payload of the ledger's entry, whose window is the pass's.          *)
Alert(d) == [pass |-> pass[d].number, cohort |-> Cohort(d), observed_rate |-> ObservedRate(Sample(d)),
             baseline_rate |-> pass[d].prior.ewma_rate]

AppendAlert(d) ==
  /\ AtCohort(d, "alert")
  /\ ledger_lock \in {Free, d}
  /\ ledger_lock' = d
  /\ pass' = [pass EXCEPT ![d].pc = "load", ![d].at = @ + 1, ![d].alerts = Append(@, Alert(d))]
  /\ UNCHANGED <<baselines, detector_runs, alerts, row_lock, passes, faults>>

(* Mutant: the ledger is locked for the connection, not the transaction.   *)
EndPass_keeps_ledger(d) ==
  /\ pass' = [pass EXCEPT ![d] = Idle]
  /\ row_lock' = [c \in Cohorts |-> IF row_lock[c] = d THEN Free ELSE row_lock[c]]
  /\ UNCHANGED ledger_lock

EndPass(d) ==
  /\ pass' = [pass EXCEPT ![d] = Idle]
  /\ row_lock' = [c \in Cohorts |-> IF row_lock[c] = d THEN Free ELSE row_lock[c]]
  /\ ledger_lock' = IF ledger_lock = d THEN Free ELSE ledger_lock

(* The end of scripts/run_detect.py: everything the pass wrote appears.    *)
CommitPass(d) ==
  /\ pass[d].pc = "load" /\ pass[d].at > Len(pass[d].order)
  /\ baselines' = [c \in Cohorts |-> IF row_lock[c] = d THEN pass[d].written[c] ELSE baselines[c]]
  /\ detector_runs' = detector_runs \o pass[d].rows
  /\ alerts' = alerts \o pass[d].alerts
  /\ EndPass(d)
  /\ UNCHANGED <<passes, faults>>

(* The process dies, or a statement fails: nothing of the pass remains.    *)
AbortPass(d) ==
  /\ pass[d].pc # "idle"
  /\ faults < MaxFaults
  /\ faults' = faults + 1
  /\ EndPass(d)
  /\ UNCHANGED <<baselines, detector_runs, alerts, passes>>

WaitsFor(d, e) ==
  d # e /\ \/ AtCohort(d, "upsert") /\ row_lock[Cohort(d)] = e
           \/ AtCohort(d, "alert") /\ ledger_lock = e

(* PostgreSQL ends one of two transactions that wait for each other.       *)
BreakDeadlock(d) ==
  /\ \E e \in Detectors : WaitsFor(d, e) /\ WaitsFor(e, d)
  /\ EndPass(d)
  /\ UNCHANGED <<baselines, detector_runs, alerts, passes, faults>>

Step(d) == SkipCohort(d) \/ LoadBaseline(d) \/ UpsertBaseline(d) \/ AppendAlert(d) \/ CommitPass(d)
             \/ BreakDeadlock(d)

(* All the passes of the instance are over.                                *)
AtRest ==
  /\ passes = MaxPasses
  /\ \A d \in Detectors : pass[d] = Idle
  /\ UNCHANGED vars

Init ==
  /\ baselines = [c \in Cohorts |-> NoBaseline]
  /\ detector_runs = <<>> /\ alerts = <<>>
  /\ pass = [d \in Detectors |-> Idle]
  /\ row_lock = [c \in Cohorts |-> Free] /\ ledger_lock = Free
  /\ passes = 0 /\ faults = 0

Next ==
  \/ \E d \in Detectors : \/ \E sighting \in Sightings : StartPass(d, sighting)
                          \/ Step(d)
                          \/ AbortPass(d)
  \/ AtRest

Spec == Init /\ [][Next]_vars

(* A statement that can proceed does: locks are granted in the order they  *)
(* were asked for, and deadlocks are noticed.                              *)
FairSpec == Spec /\ \A d \in Detectors : WF_vars(Step(d))

-----------------------------------------------------------------------------
Decisive(row) == row.outcome # "insufficient_sample"
RunsOf(c) == {i \in DOMAIN detector_runs : detector_runs[i].cohort = c /\ Decisive(detector_runs[i])}

(* The rate a run leaves as its cohort's baseline.                         *)
LeftBy(r) == IF r.outcome = "insufficient_history" THEN r.observed_rate
             ELSE (Alpha * r.observed_rate + (1000 - Alpha) * r.baseline_rate) \div 1000

FiredUpTo(k) == {i \in 1 .. k : detector_runs[i].outcome = "fired"}
AlertOf(r) == [pass |-> r.pass, cohort |-> r.cohort, observed_rate |-> r.observed_rate,
               baseline_rate |-> r.baseline_rate]

(* The ledger's n-th alert is that of the n-th run that fired.             *)
AlertsAreFiredRuns ==
  /\ Len(alerts) = Cardinality(FiredUpTo(Len(detector_runs)))
  /\ \A k \in FiredUpTo(Len(detector_runs)) :
       alerts[Cardinality(FiredUpTo(k))] = AlertOf(detector_runs[k])

(* "Every attempt is recorded -- gated, not-significant, or fired"         *)
(* (service.py:4), once for each cohort of a pass that committed.          *)
OneRunPerCohort ==
  \A c \in Cohorts, p \in {detector_runs[i].pass : i \in DOMAIN detector_runs} :
    Cardinality({i \in DOMAIN detector_runs :
                   detector_runs[i].pass = p /\ detector_runs[i].cohort = c}) = 1

(* A baseline is where the last run of its cohort left it, and every run   *)
(* that tested one tested what an earlier run had left.                    *)
BaselinesExplained ==
  \A c \in Cohorts :
    /\ baselines[c] = NoBaseline <=> RunsOf(c) = {}
    /\ \E i \in RunsOf(c) \union {0} : /\ \A k \in RunsOf(c) : k <= i
                                       /\ i # 0 => baselines[c].ewma_rate = LeftBy(detector_runs[i])
    /\ \A i \in RunsOf(c) :
         \/ detector_runs[i].outcome = "insufficient_history"
         \/ \E k \in RunsOf(c) : k < i /\ detector_runs[i].baseline_rate = LeftBy(detector_runs[k])

(* The audit trail explains the detector, whatever overlapped: each alert  *)
(* can be reproduced from rows that were there before it.                  *)
AuditExplainsBaselines == AlertsAreFiredRuns /\ OneRunPerCohort /\ BaselinesExplained

(* Where an update can be lost although no row is locked when it is read:  *)
(* nowhere but in "overall" and in the first category.  The shares have    *)
(* one total, so a pass that tests a later one has locked the first; it    *)
(* then reads what its predecessor left, and none of its updates is lost.  *)
NoStaleShare ==
  \A d \in Detectors, i \in DOMAIN Categories \ {1} :
    AtCohort(d, "upsert") /\ Cohort(d) = Categories[i] => pass[d].prior = baselines[Categories[i]]

LaterSharesLoseNothing ==
  /\ NoStaleShare
  /\ \A i \in DOMAIN Categories \ {1} :
       baselines[Categories[i]].observations = Cardinality(RunsOf(Categories[i]))

(* Two passes can wait for each other (one for a baseline, one for the     *)
(* ledger) only when one has tested "overall" and the other, whose two     *)
(* queries saw different payments, only its shares: passes that both test  *)
(* the system as a whole queue up behind each other at its row.            *)
Tests(d, c) == ~Gated(Stats(pass[d].sighting, c))

DeadlockNeedsTornSight ==
  \A d, e \in Detectors :
    WaitsFor(d, e) /\ WaitsFor(e, d) =>
      \E x \in {d, e} : /\ ~Tests(x, "overall") /\ Tests(x, Categories[1])
                        /\ \A y \in {d, e} \ {x} : Tests(y, "overall")

(* Every pass ends, committed or not, whatever it meets.                   *)
PassesEnd == \A d \in Detectors : pass[d].pc # "idle" ~> pass[d].pc = "idle"
=============================================================================
