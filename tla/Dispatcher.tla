----------------------------- MODULE Dispatcher -----------------------------
(***************************************************************************)
(* run_once() of src/execute/dispatcher.py and create_payment_link() of    *)
(* src/execute/razorpay_client.py, with Razorpay as seen through them.     *)
(*                                                                         *)
(* A run is one database transaction: it claims due rows, calls Razorpay   *)
(* for each in order of creation, and only its end makes the outcomes, the *)
(* breaker and the ledger rows visible (scripts/run_dispatcher.py).  The   *)
(* calls cannot be rolled back.  Runs of several processes overlap.  The   *)
(* ledger's lock is always taken while the breaker's row is held, so it    *)
(* makes no run wait that the row does not.                                *)
(***************************************************************************)
EXTENDS CircuitBreaker, Sequences, FiniteSets

CONSTANTS Entries,       \* outbox rows, numbered in the order of created_at
          Dispatchers,   \* processes that may run the dispatcher
          MaxAttempts,   \* _MAX_ATTEMPTS
          Limit,         \* rows one run claims at most
          Free           \* a lock nobody holds

ASSUME EntryAssumption == Entries \subseteq Nat /\ MaxAttempts \in Nat \ {0} /\ Limit \in Nat \ {0}
ASSUME FreeAssumption == Free \notin Dispatchers

VARIABLES clock,
          outbox,        \* entry -> its committed row
          breaker,       \* the committed circuit_breaker_state row
          breaker_lock,  \* holder of that row's lock, taken by the first upsert of a run
          ledger,        \* committed ledger rows of the dispatcher
          run,           \* dispatcher -> the run in progress
          links,         \* Razorpay: payment links created, with their reference_id
          in_flight      \* create requests that timed out and may still arrive

vars == <<clock, outbox, breaker, breaker_lock, ledger, run, links, in_flight>>

Row == [status : {"pending", "complete", "failed_permanently"},
        attempts : 0 .. MaxAttempts, next_attempt_at : 0 .. MaxTime]

Links == [entry : Entries, reference_id : Nat]

Idle == [pc |-> "idle"]
Running(d) == run[d] # Idle

TypeOK ==
  /\ clock \in 0 .. MaxTime
  /\ outbox \in [Entries -> Row]
  /\ breaker \in Snapshots
  /\ breaker_lock \in Dispatchers \union {Free}
  /\ links \subseteq Links /\ in_flight \subseteq Links
  /\ \A d \in Dispatchers : Running(d) =>
       /\ run[d].pc \in {"next", "save", "call"} /\ run[d].now \in 0 .. clock
       /\ run[d].todo \subseteq DOMAIN run[d].rows
       /\ DOMAIN run[d].rows \subseteq Entries /\ run[d].rows \in [DOMAIN run[d].rows -> Row]
       /\ run[d].breaker \in Snapshots

-----------------------------------------------------------------------------
First(entries) == CHOOSE e \in entries : \A f \in entries : e <= f

(* Mutant: the rows are selected without FOR UPDATE SKIP LOCKED.           *)
Claimed_none == {}

(* The rows a run holds FOR UPDATE until it ends.                          *)
Claimed == UNION {DOMAIN run[d].rows : d \in {x \in Dispatchers : Running(x)}}

(* SELECT ... ORDER BY created_at LIMIT limit FOR UPDATE SKIP LOCKED       *)
StartRun(d) ==
  /\ ~Running(d)
  /\ LET due  == {e \in Entries : outbox[e].status = "pending" /\ outbox[e].next_attempt_at <= clock}
         free == due \ Claimed
         rows == {e \in free : Cardinality({f \in free : f < e}) < Limit}
     IN  /\ rows # {}
         /\ run' = [run EXCEPT ![d] = [pc |-> "next", now |-> clock, todo |-> rows,
                                       rows |-> [e \in rows |-> outbox[e]],
                                       breaker |-> Closed, found |-> "closed", log |-> <<>>]]
  /\ UNCHANGED <<clock, outbox, breaker, breaker_lock, ledger, links, in_flight>>

(* Mutant: every row is checked against the breaker of before the run.     *)
Visible_committed(d) == breaker

(* The breaker as the run's transaction sees it.                           *)
Visible(d) == IF breaker_lock = d THEN run[d].breaker ELSE breaker

LoadBreaker(d) ==
  /\ run[d].pc = "next"
  /\ run[d].todo # {}
  /\ IF should_allow_call(Visible(d), run[d].now)
       THEN run' = [run EXCEPT ![d].pc = "save", ![d].breaker = before_call(Visible(d), run[d].now),
                               ![d].found = IF breaker_lock = d THEN @ ELSE breaker.state]
       ELSE run' = [run EXCEPT ![d].todo = @ \ {First(@)}]
  /\ UNCHANGED <<clock, outbox, breaker, breaker_lock, ledger, links, in_flight>>

(* The upsert waits for another run that has the row, then overwrites it   *)
(* with what was computed from the snapshot loaded before the wait.        *)
SaveBreaker(d) ==
  /\ run[d].pc = "save"
  /\ breaker_lock \in {Free, d}
  /\ breaker_lock' = d
  /\ run' = [run EXCEPT ![d].pc = "call"]
  /\ UNCHANGED <<clock, outbox, breaker, ledger, links, in_flight>>

-----------------------------------------------------------------------------
(* One call.  reference_id is the idempotency key of the row, the same for *)
(* every attempt.                                                          *)

(* Mutant: each attempt has a reference_id of its own.                     *)
Link_per_attempt(e, row) == [entry |-> e, reference_id |-> 100 * e + row.attempts]

Link(e, row) == [entry |-> e, reference_id |-> e]
Exists(l) == \E k \in links : k.reference_id = l.reference_id

(* Razorpay keeps reference_id unique: "already exists" changes nothing.   *)
Posted(l) == IF Exists(l) THEN links ELSE links \union {l}

(* Mutant: one attempt more than _MAX_ATTEMPTS.                            *)
GivesUp_late(attempts) == attempts > MaxAttempts

GivesUp(attempts) == attempts >= MaxAttempts

(* What the run records after its call, in its own transaction.            *)
Record(d, e, row, snapshot, event_type) ==
  run' = [run EXCEPT ![d].pc = "next", ![d].todo = @ \ {e}, ![d].rows[e] = row,
                     ![d].breaker = snapshot,
                     ![d].log = Append(@, [event |-> e, event_type |-> event_type])]

(* The link is created, or the duplicate error proves that it already was  *)
(* and the existing one is fetched.                                        *)
CallSucceeds(d) ==
  /\ run[d].pc = "call"
  /\ LET e == First(run[d].todo)
         l == Link(e, run[d].rows[e])
     IN  /\ links' = Posted(l)
         /\ Record(d, e, [run[d].rows[e] EXCEPT !.status = "complete"], record_success(run[d].breaker),
                   IF Exists(l) THEN "outbox.recovered_from_conflict" ELSE "outbox.completed")
  /\ UNCHANGED <<clock, outbox, breaker, breaker_lock, ledger, in_flight>>

(* A RazorpayClientError: an error status, a timeout after the link was    *)
(* created, a timeout with the request still on its way, or a conflict     *)
(* whose fetch failed or found nothing.                                    *)
CallFails(d) ==
  /\ run[d].pc = "call"
  /\ LET e        == First(run[d].todo)
         row      == run[d].rows[e]
         attempts == row.attempts + 1
         given_up == GivesUp(attempts)
     IN  /\ \/ UNCHANGED <<links, in_flight>>
            \/ links' = Posted(Link(e, row)) /\ UNCHANGED in_flight
            \/ in_flight' = in_flight \union {Link(e, row)} /\ UNCHANGED links
         /\ \E delay \in DelayRange(attempts) :
              Record(d, e,
                     [status |-> IF given_up THEN "failed_permanently" ELSE "pending",
                      attempts |-> attempts,
                      next_attempt_at |-> IF given_up THEN row.next_attempt_at
                                          ELSE After(run[d].now, delay)],
                     record_failure(run[d].breaker, run[d].now),
                     IF given_up THEN "outbox.failed_permanently" ELSE "outbox.attempt_failed")
  /\ UNCHANGED <<clock, outbox, breaker, breaker_lock, ledger>>

(* A timed-out request reaches Razorpay after all.                         *)
LateArrival(l) ==
  /\ l \in in_flight
  /\ in_flight' = in_flight \ {l}
  /\ links' = Posted(l)
  /\ UNCHANGED <<clock, outbox, breaker, breaker_lock, ledger, run>>

-----------------------------------------------------------------------------
Unlock(d) == breaker_lock' = IF breaker_lock = d THEN Free ELSE breaker_lock

(* run_once returns and the script commits.                                *)
CommitRun(d) ==
  /\ run[d].pc = "next"
  /\ run[d].todo = {}
  /\ outbox' = [e \in Entries |-> IF e \in DOMAIN run[d].rows THEN run[d].rows[e] ELSE outbox[e]]
  /\ breaker' = IF breaker_lock = d THEN run[d].breaker ELSE breaker
  /\ ledger' = ledger \o run[d].log
  /\ Unlock(d)
  /\ run' = [run EXCEPT ![d] = Idle]
  /\ UNCHANGED <<clock, links, in_flight>>

EndWithout(d) ==
  /\ run' = [run EXCEPT ![d] = Idle]
  /\ Unlock(d)
  /\ UNCHANGED <<clock, outbox, breaker, ledger>>

(* An error that is no RazorpayClientError (three refused connections in a *)
(* row raise httpx.ConnectError, a connection cut short httpx.ReadError)   *)
(* ends run_once, and the transaction with it; the link may exist by then. *)
CallAborts(d) ==
  /\ run[d].pc = "call"
  /\ LET e == First(run[d].todo)
     IN  links' \in {links, Posted(Link(e, run[d].rows[e]))}
  /\ EndWithout(d)
  /\ UNCHANGED in_flight

(* The process dies at any point.  Dying inside a call is a call that      *)
(* failed, followed by this: nothing it recorded survives.                 *)
Crash(d) == Running(d) /\ EndWithout(d) /\ UNCHANGED <<links, in_flight>>

Tick ==
  /\ clock < MaxTime
  /\ clock' = clock + 1
  /\ UNCHANGED <<outbox, breaker, breaker_lock, ledger, run, links, in_flight>>

(* Nothing is left to do.                                                  *)
Drained ==
  /\ \A e \in Entries : outbox[e].status # "pending"
  /\ clock = MaxTime
  /\ UNCHANGED vars

Init ==
  /\ clock = 0
  /\ outbox = [e \in Entries |-> [status |-> "pending", attempts |-> 0, next_attempt_at |-> 0]]
  /\ breaker = Closed
  /\ breaker_lock = Free
  /\ ledger = <<>>
  /\ run = [d \in Dispatchers |-> Idle]
  /\ links = {}
  /\ in_flight = {}

Call(d) == CallSucceeds(d) \/ CallFails(d) \/ CallAborts(d)
Work(d) == LoadBreaker(d) \/ SaveBreaker(d) \/ Call(d) \/ CommitRun(d)

Next ==
  \/ \E d \in Dispatchers : StartRun(d) \/ Work(d) \/ Crash(d)
  \/ \E l \in in_flight : LateArrival(l)
  \/ Tick
  \/ Drained

Spec == Init /\ [][Next]_vars

(* The dispatcher is run again and again, a run goes on until it ends, and *)
(* time passes.  Nothing is assumed of Razorpay: a call ends somehow.      *)
FairSpec ==
  /\ Spec
  /\ \A d \in Dispatchers : WF_vars(StartRun(d)) /\ WF_vars(Work(d))
  /\ WF_vars(Tick)

-----------------------------------------------------------------------------
(* The dispatcher keeps the promise of Delivery under timeouts, late       *)
(* arrivals, crashes between a call and the commit, and overlapping runs:  *)
(* "exactly one link is ever created per decision" (razorpay_client.py:12) *)
(* and nothing is complete without one.                                    *)
Outreach == INSTANCE Delivery WITH
  status  <- [e \in Entries |-> outbox[e].status],
  created <- [e \in Entries |-> Cardinality({l \in links : l.entry = e})]
ImplementsDelivery == Outreach!Spec

(* The ledger and the outbox tell the same story, although the calls       *)
(* themselves survive a rollback: each counted attempt has its row, each   *)
(* settled entry has its one final row, and no entry is tried too often.   *)
Logged(e, event_types) == Cardinality({i \in DOMAIN ledger :
                                         ledger[i].event = e /\ ledger[i].event_type \in event_types})

LedgerMatchesOutbox ==
  \A e \in Entries :
    /\ Logged(e, {"outbox.attempt_failed", "outbox.failed_permanently"}) = outbox[e].attempts
    /\ Logged(e, {"outbox.completed", "outbox.recovered_from_conflict"})
         = IF outbox[e].status = "complete" THEN 1 ELSE 0
    /\ outbox[e].attempts = MaxAttempts <=> outbox[e].status = "failed_permanently"

(* A run that finds the breaker open makes one trial call; if that fails,  *)
(* "every other eligible row in this run is left pending"                  *)
(* (dispatcher.py:9-13).  MaxTime is no moment of the program.             *)
Failed(event) == event.event_type \in {"outbox.attempt_failed", "outbox.failed_permanently"}

OneTrialAfterOpen ==
  \A d \in Dispatchers :
    (/\ Running(d) /\ run[d].found = "open" /\ run[d].now < MaxTime
     /\ run[d].log # <<>> /\ Failed(Head(run[d].log)))
       => Len(run[d].log) = 1 /\ run[d].pc = "next"

(* No trial is ever left open-ended: the committed breaker is closed or    *)
(* open, and closed means fewer failures in a row than the threshold.      *)
BreakerSettled ==
  /\ breaker.state # "half_open"
  /\ breaker.state = "closed" => breaker.consecutive_failures < FailureThreshold

(* Every entry is completed or given up in the end, unless runs keep being *)
(* cut short by crashes or by errors run_once does not handle.             *)
Settled(e) == outbox[e].status # "pending"
Finished(d) == run[d].pc = "next" /\ run[d].todo = {} /\ run[d].log = <<>>
CutShort == \E d \in Dispatchers : Running(d) /\ ~Finished(d) /\ EndWithout(d)
EveryEntrySettles == (\A e \in Entries : <>Settled(e)) \/ []<><<CutShort>>_vars

(* "A row that keeps failing doesn't retry forever" (dispatcher.py:15),    *)
(* whatever way its call fails, as long as the processes do not crash.     *)
NoEntryRetriesForever ==
  (\A e \in Entries : <>Settled(e))
    \/ []<><<\E d \in Dispatchers : Running(d) /\ run[d].pc # "call" /\ Crash(d)>>_vars
=============================================================================
