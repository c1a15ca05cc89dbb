# retryable: a TLA+ model

Formal models of `retryable`, a service that listens to Razorpay's payment
webhooks, decides for each failed payment whether the customer may be contacted,
and creates at most one payment link per decision, with a hash-chained ledger of
everything it did. This directory holds the TLA+ modules, the TLC configurations
that check them on small instances, and TLAPS proofs. Paths below are relative to
the repository (`src/ingest/service.py` is the package's file of that name).

    tlc -config MCIngest.cfg MCIngest        # any run: its cfg and MC module
    tlapm LedgerProofs.tla                   # the proofs; likewise every other *Proofs module

## The system

| Component | State | Operations | Talks to |
|---|---|---|---|
| Webhook ingest (`src/api/webhooks.py`, `src/ingest`) | `payments`, `webhook_events` | one delivery: verify signature, lock the order, read its status, claim the event id, upsert, decide, log, commit | policy engine, outbox and ledger, inside its own transaction |
| Failure classifier (`src/classify`) | none | `classify` | called by ingest |
| Policy engine (`src/policy`) | none (`decisions` rows are written by its callers) | `propose_default`, `decide`, `touches_in_window` | called by ingest and diagnosis; reads outbox outcomes |
| Outbox (`src/execute/outbox.py`) | `outbox_entries` | `enqueue_if_needed` | written in the decision's transaction, read by the dispatcher |
| Dispatcher (`src/execute/dispatcher.py`, `razorpay_client.py`) | `outbox_entries`, `circuit_breaker_state` | `run_once`: claim due rows, call Razorpay for each, record, commit | Razorpay, ledger |
| Circuit breaker, backoff (`src/execute`) | a snapshot | four transition functions, the delay | called by the dispatcher |
| Audit ledger (`src/ledger`) | `ledger_entries` | `append_entry`, `verify_chain` | appended to by everybody, in their transactions |
| LLM diagnosis (`src/diagnose`) | `diagnoses`, `decisions` | `diagnose_and_decide`, `run_once` | payments, policy engine, outbox, ledger, a language model |
| Degradation detector (`src/detect`) | `detector_baselines`, `detector_runs` | `evaluate_cohort`, `run_once` | payments, ledger |
| Read API, dashboard (`src/api`, `web`) | none (a client keeps a page cursor) | queries | all tables, read-only |
| Evaluation (`eval`) | `eval/results/latest_run.json` | `run_evaluation`: ingest a seeded batch, enqueue the control arm past the engine, dispatch in rounds, compute metrics, commit, write them | ingest, outbox, dispatcher, in one transaction |

The components share one PostgreSQL database and nothing else. There are no
queues in memory and no callbacks: concurrency is between database transactions
(server processes, dispatcher runs, diagnosis and detector runs), at READ
COMMITTED, kept apart by two transaction-level advisory locks (one per order, one
for the ledger), row locks and unique keys. The endpoint is an `async` function
that uses a blocking session, so one server process handles its deliveries one
after the other; overlapping deliveries come from several processes.

### What is hard, and what makes each component correct

- **Ledger.** Transactions of all components interleave; a sequence number is
  taken long before its row becomes visible, and a rollback loses it. The visible
  chain must verify at every moment, grow at its end only, and betray an edit at
  its own place.
- **Ingest.** Events come repeatedly, concurrently and out of order; a process can
  die between any two statements; an answer can be lost after the commit. Each
  delivery must act as if it ran alone; an event has one effect; a paid order
  stays paid and gets no new outreach; decision and outbox entry exist together or
  not at all; everything is acknowledged in the end.
- **Policy.** Nine ordered gates with fallbacks, thresholds that are strict or
  not, a quiet window that may wrap midnight.
- **Dispatcher.** Calls cannot be rolled back but everything recorded about them
  can: timeouts with or without effect, late arrivals, crashes before the commit,
  overlapping runs, a breaker shared through a row. One link per decision,
  outcomes told once, entries settled in the end.
- **Diagnosis.** A pass reads an order, waits seconds for a model, then decides on
  what it read, and does so for many orders in one transaction whose locks meet
  those of ingest in another order. The engine's rules must hold whatever the model
  suggests, each order is asked about once, nothing comes of a pass that dies, and
  passes and deliveries must not stop each other for good.
- **Detector.** Passes of the script overlap; each reads a baseline without a lock,
  tests against it and overwrites it, and keeps the rows it wrote, and after an
  alert the ledger, to its commit. What it stored must explain every baseline and
  every alert although updates get lost, and overlapping passes must not stop each
  other for good.
- **Evaluation.** Its database effects are one transaction, its payment links are
  not: an evaluation that dies, or is repeated with its seed, must not chase the
  treatment arm again; what it publishes must be true of what was sent; and it must
  end while the breaker keeps it from sending.
- **Read API.** A client pages through the ledger while transactions append to it
  and roll back, and should see one state of it.
- **The whole.** The policy reads what the dispatcher wrote some time ago, and
  the dispatcher acts on what the policy decided some time ago.

PROJECT.json lists these hazards one by one, each at the line where it bites,
with the properties that cover it.

## The modules

| Module | Models |
|---|---|
| `PolicyEngine` | classifier, catalog, rules table, `decide` (pure) |
| `Ledger`, `AppendOnlyLog` | the chained ledger, and the abstract log it implements |
| `LedgerReader` | `Ledger` with a client of `/api/ledger` that follows the page cursor |
| `LedgerProofs` | theorems about `Ledger` and `LedgerReader` |
| `WebhookTables` | the tables of ingest, outbox and policy, and what one delivery writes |
| `AtomicIngest` | deliveries as single steps: what the endpoint promises |
| `Ingest` | deliveries as interleaved statements; implements `AtomicIngest` |
| `AtomicIngestProofs` | theorems about `AtomicIngest`, and the facts about single deliveries that the next rows rest on |
| `IngestProofs`, `RecoveryProofs`, `EvaluationProofs` | theorems about `Ingest` and `Diagnosis`, `Recovery`, `Evaluation`, the refinements among them |
| `CircuitBreaker`, `Backoff` | breaker and retry delay (pure) |
| `Delivery` | at most one link per entry, settled once: what the dispatcher promises |
| `Dispatcher` | overlapping `run_once` transactions; implements `Delivery` |
| `Diagnosis` | `Ingest`'s deliveries beside diagnosis passes, with their row and ledger locks |
| `Detector` | overlapping passes of the degradation detector |
| `PolicyProofs`, `DispatcherProofs`, `DetectorProofs` | theorems about `MCPolicyEngine`, `Dispatcher`, `Detector` |
| `Evaluation` | evaluations of one seed over the tables of `AtomicIngest`, with their sends and metrics |
| `Recovery` | deliveries and dispatcher runs over the same tables while time passes, each from the moment it dates itself with to its commit |
| `MC*` | instances: `MCPolicyEngine` (a driver for the pure functions, whose questions are CONSTANTS, so that it can be proved about), `MCLedger`, `MCIngest`, `MCDiagnosis`, `MCDispatcher`, `MCDetector`, `MCEvaluation`, `MCRecovery` |

How they compose: `Ingest` extends and implements `AtomicIngest` (they share the
tables, so the refinement mapping is the identity and `ActsAtomically` is
`AtomicSpec` itself); `Recovery` and `Evaluation` extend `AtomicIngest` too;
`Diagnosis` extends `Ingest` itself, because the two meet at single statements;
`Dispatcher` implements `Delivery`. `Ledger` shows that an append at the end of a
transaction is an append at the end of a log, which is why the other modules may
keep the ledger as a sequence.

Operators whose comment begins with "Mutant:" are plausible mistakes in the code.
They are used by nothing; PROJECT.json names, for each property, the definition
that such a mistake replaces, and TLC then finds the property violated.

### From code to model

**Ledger.** `append_entry` is three database statements, so three actions:
`AcquireLock` (re-entrant for the holder, held to the end of the transaction),
`ReadLastHash` (committed rows and the session's own), `Insert`. `Commit` and
`Rollback` belong to the caller. `verify_chain` is the set of rows that do not
match (`Broken`) and its least element. `Hash` is a constant: the proofs assume
only that digests are digests; the instance makes it injective, as SHA-256 is
taken to be. The hashed fields exclude `seq` and `entry_id`, and so does the model.

**Ingest.** A worker's `job` is its local variables, `pc` the next statement.
`Receive` checks the signature and decides which locks the event needs;
`LockSubject`, `LoadStatus`, `ClaimEvent` and `LockLedger` are the statements that
wait for or read what others can change; `Decide` is the upsert and the call of
the engine, which reads the payer's touches; `Commit` publishes what
`RecordEvent`, `RecordDuplicate` or `RecordForged` say the transaction wrote.
Uncommitted writes are not stored, since nobody else can see them: the one thing
they do to others is make a claim of the same event id wait, which `HoldsClaim`
says. `Fail` is a crash, a lost connection or, after the commit, a lost answer. A
row's text and amounts are left out except for what the engine reads. Decisions
and outbox entries are identified by the event they come from.

**Policy.** A row of gates in the order of the code; `Fires` and `Fallback` give
each gate's condition and override. An `error_reason` is represented by the
category that lists it, confidence is a percentage, time a number of ticks.

**Dispatcher.** `StartRun` is the claim with SKIP LOCKED; then, for each row in
order of creation, `LoadBreaker` (skip, or compute the snapshot to save),
`SaveBreaker` (the upsert, which waits for the row lock of another run), and one of
`CallSucceeds`, `CallFails` (any `RazorpayClientError`, with three fates of the
request) and `CallAborts` (any other exception). A run's rows, breaker and ledger
entries are private until `CommitRun`; the links are Razorpay's and are not.
`reference_id` is the idempotency key. `LoadBreaker` reads the breaker afresh for
each row because the session keeps no strong reference to the previous object.

**Diagnosis.** `pass` holds the transaction of one run of the script: the orders it
picked (`StartPass`), its local variables, and what it wrote, private until
`CommitPass`. `TakeUp` is `diagnose_and_decide` up to the model (both eligibility
checks, and the row it will decide on), `ModelAnswers` is `call_llm`,
`RecordDiagnosis` the insert and the engine's verdict, `LogDecision` the append to
the ledger. The evidence and the prompt are abstracted to whether an answer cites
only what it was shown; all ways of failing are one. Locks are the ones PostgreSQL
takes: the foreign key of an inserted row shares the lock of the order's row
(`SharesRow`), which a delivery selects FOR UPDATE (`RowHeld`), and the ledger's
lock comes with the first decision. When pass and delivery wait for each other,
`BreakDeadlock` ends either one.

**Detector.** `pass` holds the transaction of one run of the script: what its two
counting queries saw (they see different states when payments arrive in between),
the cohort it is at, and what it wrote, private until `CommitPass`. For each cohort
there are the read of the baseline (`LoadBaseline`, or `SkipCohort` below the
minimum sample), the upsert, which waits for whoever has written that row
(`UpsertBaseline`), and after an alert the append to the ledger, which waits for
the ledger's lock (`AppendAlert`). Like its other writes, the alerts of a pass are
its own until the commit. Rates are whole per mille, rounded down. The
probability is a constant operator: the code integrates it numerically, and the
instance's `SurelyAbove` says only whether it reaches the threshold; it was
computed with the code's formula for every baseline and count that occurs in the
instance, and agrees.

**Evaluation.** `evaluation` is the script's program counter and locals. Since
nobody else works on the database in an instance while an evaluation runs, its
writes are made in place, and `Die` puts back the tables as `Begin` found them;
links stay. `IngestTreatment` is a delivery as in `AtomicIngest`, at the moment the
failure is dated with; `IngestControl` the ingest with `skip_policy` and
`enqueue_control_arm_retry`. A round claims what is due (`StartRound`) and settles
row by row (`DispatchRow`). How calls end, and when the breaker opens or its cooldown
is over, is left open; `Dispatcher` has the details. `reference` gives each row the
evaluation in which its decision, and so its `reference_id`, was made. Metrics are
the counts of sends, unresolved cases, violations (with the cap they were counted
with), double charges and pending rows;
conversions, which are simulated, the money computed from them, blocked actions and
classifier accuracy are left out.

**Read API.** `Newest` is the query of one page and `NextBeforeSeq` its cursor; a
page sees what is committed when it is asked for.

**Recovery.** Each side reads what the other wrote some time ago, so the moments that
matter are kept apart. A delivery takes its `now` (`Receive`), later locks the order
and counts the touches (`CountTouches`), later commits (`CommitDelivery`). A run takes
its `now` with the rows it claims (`StartRun`), dates with it every touch, retry and
backoff it records (`CallSucceeds`, `CallFails`), and what it recorded, kept in
`run[d].rows` and `run[d].log`, becomes visible at `CommitRun`; a run that dies
(`Crash`, `CallAborts`) leaves its links and nothing else. A link can also appear later
than its attempt (`LateArrival`). `visible_since` is history: it is set by commits and
read by properties only. Which rows a run takes and which of them the breaker refuses
(`SkipRow`) is left open.

## What is checked

| Run | Instance | Shows |
|---|---|---|
| `policy` | a day of 4 hours with 2 ticks each; every quiet window, every hour; each threshold and its neighbour; all categories, all proposals and one outside the catalog | contact exactly when permitted; a deferral ends at the first permitted moment |
| `ledger` | 2 sessions, 2 payloads, 5 sequence numbers, pages of 2 rows | the chain verifies; it is an append-only log; edits and moves are pinpointed; the pages a client follows show the ledger as it was at the first |
| `ingest` | 2 workers, 1 order with a failure and a capture, an event of another type, 2 faults | refinement of `AtomicIngest`, the audit explains the payments column by column, paid is final, everything acknowledged |
| `diagnosis` | 1 worker, 1 pass over 2 unclassifiable orders, one above the approval threshold, the other failing once more for another reason and amount; 5 answers; 1 fault | a decision has its sure and grounded diagnosis; the model cannot override the rules; each order is asked about once, and in the end; deliveries are acknowledged although some end in a deadlock |
| `dispatcher` | 2 dispatchers, 2 entries, 2 attempts, threshold 1, 4 moments | refinement of `Delivery`, ledger and outbox agree, breaker rules, every entry settles |
| `detector` | 2 detectors, 3 passes, 2 categories, 4 windows (calm, outage, small, torn), 1 fault | what is stored explains every baseline and alert; updates can be lost in "overall" and the first category only; a deadlock needs a torn window; passes end |
| `evaluation` | 2 evaluations of one batch of 3 (2 treatment, 1 control), 2 rounds, 2 attempts, 1 fault | the treatment arm is chased once; metrics never claim more than was sent; an evaluation ends |
| `recovery` | 2 dispatchers, 2 orders of one payer, one also paid, cap 1, a touch window of 1, 3 moments of which the second is in quiet hours | links trace to decisions whose guardrails held over what was visible; the cap is exceeded by overlapping touches only; the ledger explains every outreach in order |

Bounds and why they are enough. Two workers, sessions or dispatchers make every
pairwise race; a third adds no new wait, because each wait is for one lock or one
key. A failure and a capture give the race of a new order and each order of arrival; the
third event takes no lock of an order, so that redeliveries of it meet at the claim
alone. Redelivery needs no more events, since an unanswered one is delivered again. Two
faults, at any points, are each followed by a full redelivery. Forged deliveries, which
only append to the ledger, and payments without an order, which are locked by their own
id, are in no instance; the theorems about `Ingest` cover both. Five sequence numbers allow chains of
four rows with a gap, enough for a first, an inner and a last row, and for three pages.
Three passes let two overlap on baselines that a first has left; two categories
make a first and a later one, which differ. A second evaluation is what a repeated
seed, or a repetition after a fault, needs. Two attempts make a
first, a retried and a last one; a threshold of one opens the breaker as early as
possible, so that trials succeed and fail within the instance. `diagnosis` has one
delivery and one pass at a time, enough for every wait and for the deadlock
between the two; that two passes overlap, and then diagnose an order twice, is
expressible (`Passes`) but not part of the run, because with liveness it takes longer
than a run should, and so do two moments: the theorems about `Diagnosis` hold for any
number of both. In `recovery` a window of one tick and three moments let a touch be
dated, become visible and leave the window in different moments, before, at and after a
decision. The clock stops at `MaxTime`, from where all waits are over;
properties about moments exclude it. Redelivery of an event that took effect is left out
of `recovery` because it adds a row to the ledger only, as `ingest` shows. Dispatchers
are interchangeable, and the run checks no liveness, so it uses symmetry.

Fairness. `Ingest`: an event that is not acknowledged is delivered in the end
(Razorpay retries for a day) and a statement that can proceed does (PostgreSQL's
lock queues are first come, first served). Nothing is assumed of `Fail`.
`Diagnosis`: the same, and the script is run again and again (as its text says),
the model answers or its client gives up, and deadlocks are noticed. Its two
strong fairness conditions, for the inserts of a pass and for a delivery that
waits for the ledger, say that PostgreSQL hands a released lock to whoever queues
for it: with weak fairness a new transaction could take it first, again and again,
which a queue rules out. Aborts are bounded by `MaxFaults`. `Detector`: a statement that can
proceed does, and deadlocks are noticed; nobody has to start a pass. `Evaluation`:
the script goes on with what it is doing, whatever its calls do. `Dispatcher`: the
script is run again and again (`scripts/run_dispatcher.py` says so), a run goes
on, time passes; how a call ends is left open, and `EveryEntrySettles` holds
unless runs are cut short for ever. Nothing is assumed of `Recovery`, whose properties
are safety properties: that an outreach settles is the dispatcher's promise, with that
condition.

### Where the code and its documentation differ

Four runs check a sentence of the documentation that the code does not keep.

- `retries_forever`: "a row that keeps failing doesn't retry forever". It does when
  its call ends in an exception `run_once` does not catch, such as
  `httpx.ConnectError`: the run and its transaction end, the attempt is not counted.
- `paid_order`: the capture of an order "cancels the queued outreach before it
  fires". Nothing looks at the order between decision and dispatch.
- `touch_cap`: a payer is contacted at most so many times in 7 days. The cap
  counts completed outreach at decision time, so that several decisions taken
  before the next dispatcher run each fit under it. `CapExceededByOverlapOnly` says
  how far this goes.
- `calls_recorded`: "every call, successful or not, is durably recorded in
  `diagnoses`". The rows of a pass have one commit at its end, so a pass that dies, or
  loses a deadlock, leaves no record of the calls it has paid for. What does hold is
  that no decision is ever there without its diagnosis (`DiagnosisExplainsDecision`).

Further differences, met while modelling, that no run checks:

- An open breaker refuses calls "outright until the cooldown elapses". With two
  dispatchers a call can follow a reopening at once, because the snapshot is computed
  before the wait for the breaker's row (`src/execute/dispatcher.py:77`) and saved
  after it. One dispatcher at a time is not affected.
- Diagnosis is a separate pass because a model's answer does not fit into the five
  seconds a webhook has. The pass is one transaction over all its orders, so that
  deliveries wait for the model all the same: for the row of an order already
  diagnosed and, after the first decision, for the ledger.
- An evaluation is called reproducible by running it again (`eval/run_eval.py:6`).
  The treatment arm's events are duplicates the second time, but the control arm is
  enqueued again: a repetition of a seed on the same database doubles its sends and
  reports them as double charges, which "must be 0".
- After a partly drained run the reader is told to run `make dispatch` and to re-read
  `latest_run.json` (`eval/run_eval.py:178`); only a further evaluation writes it.
- All decisions of an evaluation precede its first dispatch, so the touch cap, which
  counts completed outreach, cannot fire within one, though the batch repeats payers
  "to exercise the touch cap at all" (`eval/batch_generator.py:85`).
- `/api/ledger?limit=0` takes the last of no rows and fails.
- Quiet hours and the kill switch ("no intervention is dispatched under any
  circumstance") are gates of the decision and do not hold back what is queued, deferred
  outreach is never taken up again, the batch ceiling never applies (its count is always
  passed as 0), and the removal of the newest ledger rows leaves a chain that verifies.

## What is proved

Every theorem below holds for all values of the constants of its module that meet the
module's named assumptions: any number of processes, events, rows and faults, any
settings and moments. The assumptions say what types things have (`EventAssumption`,
`SettingsAssumption`, `QuestionAssumption`, `AnswerAssumption`, `SightingAssumption`,
`EntryAssumption`, `RateAssumption`, ...), that digests are digests
(`HashAssumption`), that an enum lists its members once (`CategoryAssumption`), that
a generated batch names each order once (`BatchAssumption`), and that a free lock is
nobody (`FreeAssumption`, `SessionAssumption`, `PassAssumption`);
TLC evaluates all of them in the runs. Each proof has the same outline: the property is
not inductive, an invariant that is (`IInv`, of `Diagnosis`
`DiagnosisInv`) gets proved action by action, and the
property follows from it.

### `LedgerProofs`

- `TypeCorrect`, `ChainAlwaysVerifies`: `Spec => []TypeOK`, `Spec => []CommittedChainValid`.
- `ImplementsAppendOnlyLog`: `Spec => AppendOnly`, the refinement of `AppendOnlyLog`.
- `EditsArePinpointed`, `MovesArePinpointed`: `Spec => [](Collisionless => EditPinpointed)`
  and the same of `MovesPinpointed`.
- `PagesAreTheLedger`: `ReaderSpec => []PagesShowTheLedger`, for any page size.

The invariant says that only the holder of the lock has uncommitted rows or is past
the lock; that all sequence numbers in use are below the next one and given to one row
(`RowsNumbered`); that the holder's rows come after all committed ones; that committed
and own rows together form a valid chain; and that what the holder has read is still
the last hash. `AppendKeepsChain` is the core: a row that follows all others and links
to the last keeps a chain valid.

No hash function is free of collisions, so tampering is pinpointed in the states where
none has been met: `Collisionless` is a predicate of the visible rows and says that the
digest of a row, or of other fields in its place, is not that of another row and not
`GENESIS_HASH`. Then no two rows link to the same digest (`LinksDistinct`: of the first
row that shared its link with a later one, the predecessors would share theirs too),
and a row in another's place is noticed there. In the instance of `ledger` the
predicate always holds.

For the reader, `PagesInv` says that what was shown is what there was at the first page
down to the cursor, and that all that has appeared since lies above it, because rows
become visible in seq order. A page is what its rows' ranks say (`RankTaken`:
the ranks of n rows are 0 to n - 1).

### `AtomicIngestProofs`, and `IngestProofs` about `Ingest`

- `ImplementsAtomicIngest`: `Spec => ActsAtomically`, the refinement of `AtomicIngest`.
- `PaidStaysFinal`: `Spec => PaidIsFinal`.
- `PaymentsAreExplained`, `EffectsOnce`: `Spec => []AuditExplainsPayments`,
  `Spec => []EffectOnce`.
- `TypeCorrect`: `Spec => []TypeOK`.
- `AtomicLedgerExplains`: `AtomicSpec => []LedgerExplains`, the two before of the ledger
  of single deliveries.

The refinement rests on what a worker has read still being true when it commits,
many steps of others later. The invariant says why: from `LockSubject` to `Commit`
the worker holds its order's lock, so the outcome it has judged is the one the
order's row still gives (`ReadsHold`); of two workers past the claim with the same
event one knows it as a duplicate, and an event is claimed exactly when whoever
carries it says so (`ClaimsApart`); and since the endpoint itself completes no
outbox entry, the touches counted in `Decide` and at `Commit` agree
(`TablesShaped`). That last point is about the endpoint alone: what the policy makes
of touches that a dispatcher adds in between is the business of `Recovery`.
`CommitHandles` then shows that a commit is one whole delivery of `AtomicIngest`,
`TablesStep` that nothing else touches the tables. `PaidStaysFinal` and
`AtomicLedgerExplains` are proved of single deliveries (`HandleLeavesPaid`,
`HandleExplained`) and carried over by the refinement; that nobody is told more than
was committed is an invariant of the workers (`AnswersCommitted`).

### `PolicyProofs`

- `ContactExactlyWhenPermitted`: `Spec => []ContactIffPermitted`, for any thresholds,
  amounts, counts, quiet window and moment.
- `RetryIsFirstAllowedMoment`: `Spec => []RetryAtFirstAllowedMoment`, for any number of
  hours in a day and ticks in an hour.

An answer contacts exactly when no gate fires (`SilentIffPermitted`), because no
fallback of a gate is a contact. The second follows from `QuietUntilRetry`: all moments
from now to the retry fall into hours of the window, whether or not it wraps midnight.

### `DispatcherProofs`

- `KeepsItsPromise`: `Spec => ImplementsDelivery`, the refinement of `Delivery`.
- `LedgerAgrees`, `OneTrial`, `BreakerAlwaysSettled`, `TypeCorrect`: `Spec` implies
  `[]LedgerMatchesOutbox`, `[]OneTrialAfterOpen`, `[]BreakerSettled`, `[]TypeOK`.

Rows that two runs hold are disjoint, and pending (`ClaimsApart`, `HoldsPending`): what
one run decides no other run decides too, and a crash leaves the rows as they were. A
run's row that is done has its link, and its private log accounts for what it changed
in its rows (`LogTellsRows`), as the ledger does for the outbox (`LedgerTellsOutbox`), so
that a commit keeps the two in step. From its first call on a run has the breaker's row
(`HasRow`) and calls half open only as a trial (`Careful`), which is why a failed trial
ends its calling.

### `RecoveryProofs`

- `LinksWereAuthorized`: `RecoverySpec => []LinksHeldGuardrails`.
- `CapExceededByOverlap`: `RecoverySpec => []CapExceededByOverlapOnly`.
- `OutreachIsExplained`: `RecoverySpec => []AuditExplainsOutreach`.
- `TypeCorrect`: `RecoverySpec => []RecoveryTypeOK`.

`Books(log, rows, ...)` says of a ledger and an outbox that an event has no row in
either, or one decision in the ledger, before any capture of its order, and after it
the attempts that its row counts. It holds of the committed tables, and again of them
continued by what any one run has recorded privately (`RunSound`); rows that two runs
hold are disjoint (`RunsApart`), and the ledger's lock lets one run at a time have a
log, so a commit leaves the books of the others in order. `BooksSettle`, `BooksSilent`
and `BooksDecide` are the three ways in which the books grow.

For the guardrails, a completion is dated with the start of its run and becomes visible
at its commit. What a decision dated t could not see may therefore turn up later with a
date before t, and the count of touches dated before t may grow. The count of those that
were visible before t cannot: `VisibleFades` shows that a row which becomes visible
does so now, at t or after, and that a visible complete row is never written again. `DeliverySound` carries the count from
`CountTouches` to the commit, however many runs commit in between, and `WasAuthorized`
of each decision then stays true (`StillAuthorized`). For the cap, take the touch of a
payer that was decided on last (`LastDecided`): were all others visible when it was
dated, its gate would have counted them, and those in the window now were in the
window then.

### `IngestProofs` about `Diagnosis`

- `DecisionsAreExplained`: `DiagnosisSpec => []DiagnosisExplainsDecision`.
- `RulesBindTheModel`: `DiagnosisSpec => []ModelCannotOverrideRules`.
- `OncePerPass`: `DiagnosisSpec => []DiagnosedOncePerPass`.
- `DiagnosisTypeCorrect`: `DiagnosisSpec => []DiagnosisTypeOK`.

These hold for any number of passes that overlap each other and deliveries. The
invariant follows what a pass has written privately: it is about orders the pass has
picked, one row each, that no published diagnosis of the same pass names (`Fresh`), each decision backed by an accepted diagnosis in the same transaction
(`Backs`), each contact by the gates (`ContactIsPermitted`) and by a failure the order
had when the pass read it (`FailedWith`), which no delivery takes back. TLC checked this
invariant for two overlapping passes too, over 5,255,764 states.

### `DetectorProofs`

- `DeadlocksAreTorn`: `Spec => []DeadlockNeedsTornSight`.
- `LaterSharesKeepCount`: `Spec => []LaterSharesLoseNothing`.
- `BaselinesAreExplained`: `Spec => []AuditExplainsBaselines`.
- `TypeCorrect`: `Spec => []DetectorTypeOK`.

Passes take the cohorts in one order, and hold the row of a cohort exactly when they
have passed it and tested it (`HoldsWhatItTested`); whoever holds the ledger wrote a
row before (`LedgerAfterRow`). All shares are tested or none, since their tests depend
on one total; so a pass that comes to a later share has written the first one, whose
row keeps other passes from the later ones. A circle then needs a pass that skipped
"overall" and tested a share.

A second invariant, `AuditInv`, is inductive together with the first. The committed runs
explain the baselines, alerts and counts (`Stored`); and a pass under way has one row for
each cohort it has been at, its alerts are those of its rows that fired, and the baselines
it has read are ones that a committed run has left (`InPass`), which further commits only
add to (`StillKnown`). Passes have numbers of their own (`PassesApart`), so a commit adds
one run for each cohort. That a rate is between none and all rests on `failures()`
adding up numbers of which each is a part: the fold that `Failures` is takes an induction,
which is made here by a least counterexample (`SumsExists`, `SumsBound`).

### `EvaluationProofs`

- `TreatmentIsChasedOnce`: `EvaluationSpec => []TreatmentChasedOnce`.
- `MetricsAreTruthful`: `EvaluationSpec => []MetricsNeverOverstate`.

These hold for any batch, split, cap on rounds and attempts, and any number of
evaluations and deaths. `BatchAssumption` says of the batch what `generate_batch`
makes true by numbering its orders: each order fails once. The proofs need it to
tell the arms apart: an order of the treatment arm is none of the control arm
(`SubjectsApart`, `ArmsApart`).

Neither property is inductive, because both speak of links at Razorpay, which no
rollback takes back, while the rows they belong to are. The invariant has four parts.
`Books` says of the tables that each row is that of a treatment failure in the
database, or of a retry by an evaluation that still counts, that a completed row has
its link, and that no two decisions share a row. `LinksKnown` says that each link is
that of a row still there or of an evaluation whose rows are gone. `Truthful` bounds a
set of metrics by the links. `InTransaction` holds the tables as `Begin` found them,
in books of their own, with every row since added by the evaluation in progress
(`RowsAddedBy`): that is what makes `Die` safe, since a link whose row the rollback
takes away is then of the evaluation that is lost (`DieInv`).

For the first property, the links of a treatment order have one row between them, the
failure's, and evaluations that are lost or the row's own, so counting the evaluations
counts the links. For the second, the sends of an arm are counted by
completed rows, each with a link of its own (`SendsHaveLinks`), and so are the touches of
a payer (`TouchesHaveLinks`); two completed rows of one order can only be two retries
of the control arm, made by two evaluations that both committed (`DoublesAreRepeats`).
Metrics stay truthful after they are computed, until they are written and published,
because links only become more (`TruthfulLater`).

### Model-checked only

Liveness (`EveryEventAcknowledged`, `EveryLongTailOrderDiagnosed`, `EveryEntrySettles`,
`PassesEnd`, `EvaluationEnds`), which is out of the prover's
reach. Every safety and action property of a passing run is also proved. The
four properties of the documentation that the code does not keep have counterexamples.

## Not modelled

The dashboard renders what the API returns and has no state of its own. Of the read
API, paging through the ledger and `verify_chain` are modelled; the other endpoints
project single queries. Of the modelled parts: texts, amounts beyond the approval
threshold, HTTP details, signature computation (an event is forged or not), requests
refused before any write, database types and their limits, the detector's numerical
integration, the evaluation's simulated conversions and statistics. Two different
orders whose lock keys collide under `hashtext` only wait for each other needlessly.

## Plan

1. Done: policy, ledger and its reader, ingest, diagnosis, dispatcher, their
   composition, detector, evaluation; the proofs listed above.
2. `Recovery` with the decisions of diagnosis passes.
3. Done: proofs of all safety and action properties, refinements included.
