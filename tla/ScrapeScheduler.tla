--------------------------- MODULE ScrapeScheduler ---------------------------
(***************************************************************************)
(* The scrape scheduler: one dispatcher thread, a pool of worker threads   *)
(* and the thread that owns the object and calls start() and stop().       *)
(*                                                                         *)
(* The three kinds of thread share running_ (an atomic), and queue_ and    *)
(* the in_flight flags, which mutex_ guards.  mutex_ is held from one step *)
(* to the next in one place only: between a worker's evaluation of the     *)
(* predicate of cv_.wait and its entry into the wait set of cv_.  That gap *)
(* is the state "blocking", so a worker is in it iff it holds mutex_; all  *)
(* other critical sections are single steps.  The gap is visible because   *)
(* running_ is changed, and cv_ notified, without mutex_.                  *)
(*                                                                         *)
(* Time is abstract: due is the set of the targets whose next_due has      *)
(* passed, and Elapse(t) is the passing of t's interval.                   *)
(***************************************************************************)
EXTENDS Naturals, Sequences, FiniteSets

CONSTANTS
  NumTargets,          \* scrape targets of the configuration
  ConfiguredWorkers,   \* worker_count of the constructor, 0 for "choose"
  HardwareThreads,     \* std::thread::hardware_concurrency()
  StatModulus,         \* the statistics wrap here (2^64 in the code)
  MaxStarts,           \* bound: calls of start() that start threads
  SlowTargets          \* targets whose scrape may take arbitrarily long

ASSUME ConstantsAssumption ==
  /\ NumTargets \in Nat
  /\ ConfiguredWorkers \in Nat
  /\ HardwareThreads \in Nat
  /\ StatModulus \in Nat \ {0}
  /\ MaxStarts \in Nat
  /\ SlowTargets \subseteq 1..NumTargets

Least(a, b)    == IF a <= b THEN a ELSE b
Greatest(a, b) == IF a <= b THEN b ELSE a

PoolSize ==
  Greatest(1, IF ConfiguredWorkers # 0
              THEN ConfiguredWorkers
              ELSE Least(NumTargets, Least(Greatest(2, HardwareThreads), 8)))

Targets  == 1..NumTargets
Workers  == 1..PoolSize
NoTarget == 0

VARIABLES
  running,        \* running_
  starts,         \* how often threads were started (bounded by MaxStarts)
  queue,          \* queue_: targets claimed and not yet taken by a worker
  inFlight,       \* the targets whose in_flight flag is set
  due,            \* the targets whose next_due is not in the future
  wpc, job,       \* per worker: where it is, and the target it scrapes
  dpc,            \* where the dispatcher is
  main,           \* where the owner's start() / stop() is
  successCount, failureCount

vars == <<running, starts, queue, inFlight, due, wpc, job, dpc, main,
          successCount, failureCount>>

WorkerPlaces == {"none", "ready", "blocking", "waiting", "scraping",
                 "counted", "done"}
DispatcherPlaces == {"none", "check", "scan", "notify", "lastNotify", "done"}
MainPlaces == {"idle", "started", "notify", "joinDispatcher", "joinWorkers",
               "destroyed"}

MutexFree == \A w \in Workers : wpc[w] # "blocking"

Elements(q) == {q[i] : i \in 1..Len(q)}
Distinct(q) == \A i, j \in 1..Len(q) : q[i] = q[j] => i = j

Queued == Elements(queue)
Held   == {job[w] : w \in Workers} \ {NoTarget}

Init ==
  /\ running = FALSE
  /\ starts = 0
  /\ queue = <<>>
  /\ inFlight = {}
  /\ due = Targets
  /\ wpc = [w \in Workers |-> "none"]
  /\ job = [w \in Workers |-> NoTarget]
  /\ dpc = "none"
  /\ main = "idle"
  /\ successCount = 0
  /\ failureCount = 0

-----------------------------------------------------------------------------
(* The owner. *)

\* start() of a scheduler that has targets and is not running.  Nothing is
\* reset: a second start finds the in_flight flags as the last stop left them.
Start ==
  /\ main = "idle"
  /\ starts < MaxStarts
  /\ Targets # {}
  /\ running' = TRUE
  /\ starts' = starts + 1
  /\ wpc' = [w \in Workers |-> "ready"]
  /\ dpc' = "check"
  /\ main' = "started"
  /\ UNCHANGED <<queue, inFlight, due, job, successCount, failureCount>>

\* stop(): running_ is exchanged first, and mutex_ is not taken for it.
StopClearRunning ==
  /\ main = "started"
  /\ running' = FALSE
  /\ main' = "notify"
  /\ UNCHANGED <<starts, queue, inFlight, due, wpc, job, dpc, successCount,
                 failureCount>>

\* notify_all moves every worker of the wait set to re-evaluating its
\* predicate.
Notified == [w \in Workers |-> IF wpc[w] = "waiting" THEN "ready" ELSE wpc[w]]

StopNotify ==
  /\ main = "notify"
  /\ wpc' = Notified
  /\ main' = "joinDispatcher"
  /\ UNCHANGED <<running, starts, queue, inFlight, due, job, dpc,
                 successCount, failureCount>>

StopJoinDispatcher ==
  /\ main = "joinDispatcher"
  /\ dpc = "done"
  /\ dpc' = "none"
  /\ main' = "joinWorkers"
  /\ UNCHANGED <<running, starts, queue, inFlight, due, wpc, job,
                 successCount, failureCount>>

\* Mutant: the workers are not joined.
StopDetachesWorkers ==
  /\ main = "joinWorkers"
  /\ queue' = <<>>
  /\ main' = "idle"
  /\ UNCHANGED <<running, starts, inFlight, due, wpc, job, dpc, successCount,
                 failureCount>>

\* The last join, workers_.clear() and queue_.clear().
StopJoinWorkers ==
  /\ main = "joinWorkers"
  /\ \A w \in Workers : wpc[w] = "done"
  /\ wpc' = [w \in Workers |-> "none"]
  /\ queue' = <<>>
  /\ main' = "idle"
  /\ UNCHANGED <<running, starts, inFlight, due, job, dpc, successCount,
                 failureCount>>

\* The destructor of an idle scheduler: its stop() finds running_ false and
\* no thread to join.
Destroy ==
  /\ main = "idle"
  /\ main' = "destroyed"
  /\ UNCHANGED <<running, starts, queue, inFlight, due, wpc, job, dpc,
                 successCount, failureCount>>

Owner == \/ Start \/ StopClearRunning \/ StopNotify \/ StopJoinDispatcher
         \/ StopJoinWorkers \/ Destroy

-----------------------------------------------------------------------------
(* The dispatcher. *)

\* Mutant: the loop does not end.
DispatcherNeverEnds ==
  /\ dpc = "check"
  /\ dpc' = "scan"
  /\ UNCHANGED <<running, starts, queue, inFlight, due, wpc, job, main,
                 successCount, failureCount>>

DispatcherCheck ==
  /\ dpc = "check"
  /\ dpc' = IF running THEN "scan" ELSE "lastNotify"
  /\ UNCHANGED <<running, starts, queue, inFlight, due, wpc, job, main,
                 successCount, failureCount>>

\* Mutant: the scan does not look at in_flight.
ClaimableWithoutFlag == due

Claimable == due \ inFlight

\* s lists S in the order of the scan, which is that of the indexes.
ListsInOrder(s, S) ==
  /\ \A t \in S : \E i \in DOMAIN s : s[i] = t
  /\ \A i, j \in DOMAIN s : i < j => s[i] < s[j]

DispatcherScan ==
  /\ dpc = "scan"
  /\ MutexFree
  /\ \E s \in [1..Cardinality(Claimable) -> Claimable] :
        /\ ListsInOrder(s, Claimable)
        /\ queue' = queue \o s
  /\ inFlight' = inFlight \cup Claimable
  /\ dpc' = "notify"
  /\ UNCHANGED <<running, starts, due, wpc, job, main, successCount,
                 failureCount>>

\* Mutant: the queue is filled and nobody is told.
DispatcherForgetsNotify ==
  /\ dpc = "notify"
  /\ dpc' = "check"
  /\ UNCHANGED <<running, starts, queue, inFlight, due, wpc, job, main,
                 successCount, failureCount>>

\* Followed by the sleep of 50 ms, which only takes time.
DispatcherNotify ==
  /\ dpc = "notify"
  /\ wpc' = Notified
  /\ dpc' = "check"
  /\ UNCHANGED <<running, starts, queue, inFlight, due, job, main,
                 successCount, failureCount>>

DispatcherLastNotify ==
  /\ dpc = "lastNotify"
  /\ wpc' = Notified
  /\ dpc' = "done"
  /\ UNCHANGED <<running, starts, queue, inFlight, due, job, main,
                 successCount, failureCount>>

Dispatcher == \/ DispatcherCheck \/ DispatcherScan \/ DispatcherNotify
              \/ DispatcherLastNotify

-----------------------------------------------------------------------------
(* The workers. *)

\* Mutant: the worker takes the back of the queue.
WorkerTakesNewest(w) ==
  /\ wpc[w] = "ready"
  /\ MutexFree
  /\ queue # <<>>
  /\ job' = [job EXCEPT ![w] = queue[Len(queue)]]
  /\ queue' = SubSeq(queue, 1, Len(queue) - 1)
  /\ wpc' = [wpc EXCEPT ![w] = "scraping"]
  /\ UNCHANGED <<running, starts, inFlight, due, dpc, main, successCount,
                 failureCount>>

\* The predicate holds because there is work: the worker takes the front.
WorkerTake(w) ==
  /\ wpc[w] = "ready"
  /\ MutexFree
  /\ queue # <<>>
  /\ job' = [job EXCEPT ![w] = Head(queue)]
  /\ queue' = Tail(queue)
  /\ wpc' = [wpc EXCEPT ![w] = "scraping"]
  /\ UNCHANGED <<running, starts, inFlight, due, dpc, main, successCount,
                 failureCount>>

\* The predicate holds because running_ is false, and the queue is drained.
WorkerExit(w) ==
  /\ wpc[w] = "ready"
  /\ MutexFree
  /\ queue = <<>>
  /\ ~running
  /\ wpc' = [wpc EXCEPT ![w] = "done"]
  /\ UNCHANGED <<running, starts, queue, inFlight, due, job, dpc, main,
                 successCount, failureCount>>

\* The predicate is false: the worker goes on to block, holding mutex_.
WorkerWillBlock(w) ==
  /\ wpc[w] = "ready"
  /\ MutexFree
  /\ queue = <<>>
  /\ running
  /\ wpc' = [wpc EXCEPT ![w] = "blocking"]
  /\ UNCHANGED <<running, starts, queue, inFlight, due, job, dpc, main,
                 successCount, failureCount>>

\* The wait releases mutex_ and joins the wait set in one step.
WorkerBlock(w) ==
  /\ wpc[w] = "blocking"
  /\ wpc' = [wpc EXCEPT ![w] = "waiting"]
  /\ UNCHANGED <<running, starts, queue, inFlight, due, job, dpc, main,
                 successCount, failureCount>>

\* A condition variable may wake a thread that nobody notified.
SpuriousWake(w) ==
  /\ wpc[w] = "waiting"
  /\ wpc' = [wpc EXCEPT ![w] = "ready"]
  /\ UNCHANGED <<running, starts, queue, inFlight, due, job, dpc, main,
                 successCount, failureCount>>

\* scrapeOne up to its last critical section: the HTTP GET returned, and its
\* status and the merge decide which statistic counts it.
ScrapeSucceeds(w) ==
  /\ wpc[w] = "scraping"
  /\ successCount' = (successCount + 1) % StatModulus
  /\ wpc' = [wpc EXCEPT ![w] = "counted"]
  /\ UNCHANGED <<running, starts, queue, inFlight, due, job, dpc, main,
                 failureCount>>

ScrapeFails(w) ==
  /\ wpc[w] = "scraping"
  /\ failureCount' = (failureCount + 1) % StatModulus
  /\ wpc' = [wpc EXCEPT ![w] = "counted"]
  /\ UNCHANGED <<running, starts, queue, inFlight, due, job, dpc, main,
                 successCount>>

\* Mutant: the flag stays set.
ScrapeKeepsFlag(w) ==
  /\ wpc[w] = "counted"
  /\ MutexFree
  /\ due' = due \ {job[w]}
  /\ job' = [job EXCEPT ![w] = NoTarget]
  /\ wpc' = [wpc EXCEPT ![w] = "ready"]
  /\ UNCHANGED <<running, starts, queue, inFlight, dpc, main, successCount,
                 failureCount>>

\* The last critical section of scrapeOne, success or not: the target is
\* released, and its next_due is an interval away.
ScrapeReleases(w) ==
  /\ wpc[w] = "counted"
  /\ MutexFree
  /\ inFlight' = inFlight \ {job[w]}
  /\ due' = due \ {job[w]}
  /\ job' = [job EXCEPT ![w] = NoTarget]
  /\ wpc' = [wpc EXCEPT ![w] = "ready"]
  /\ UNCHANGED <<running, starts, queue, dpc, main, successCount,
                 failureCount>>

Worker(w) ==
  \/ WorkerTake(w) \/ WorkerExit(w) \/ WorkerWillBlock(w) \/ WorkerBlock(w)
  \/ SpuriousWake(w)
  \/ ScrapeSucceeds(w) \/ ScrapeFails(w) \/ ScrapeReleases(w)

\* The clock passes next_due of t.
Elapse(t) ==
  /\ t \notin due
  /\ due' = due \cup {t}
  /\ UNCHANGED <<running, starts, queue, inFlight, wpc, job, dpc, main,
                 successCount, failureCount>>

-----------------------------------------------------------------------------
Next == \/ Owner
        \/ Dispatcher
        \/ \E w \in Workers : Worker(w)
        \/ \E t \in Targets : Elapse(t)

Spec == Init /\ [][Next]_vars

\* The steps with which the thread of w takes mutex_.
WorkerLocks(w) == \/ WorkerTake(w) \/ WorkerExit(w) \/ WorkerWillBlock(w)
                  \/ ScrapeReleases(w)

\* Threads run when they can, and mutex_ does not starve a thread: strong
\* fairness for the steps that take it, weak fairness for the others.  Every
\* scrape of a target outside SlowTargets ends.  Nothing makes the owner call
\* start() or stop(), or a wait wake up spuriously.
Fairness ==
  /\ WF_vars(StopNotify \/ StopJoinDispatcher \/ StopJoinWorkers)
  /\ WF_vars(DispatcherCheck \/ DispatcherNotify \/ DispatcherLastNotify)
  /\ SF_vars(DispatcherScan)
  /\ \A w \in Workers :
        /\ SF_vars(WorkerLocks(w))
        /\ WF_vars(\/ WorkerBlock(w)
                   \/ /\ job[w] \notin SlowTargets
                      /\ ScrapeSucceeds(w) \/ ScrapeFails(w))
  /\ \A t \in Targets : WF_vars(Elapse(t))

FairSpec == Spec /\ Fairness

-----------------------------------------------------------------------------
(* Properties. *)

\* The type invariant.
TypeOK ==
  /\ running \in BOOLEAN
  /\ starts \in 0..MaxStarts
  /\ queue \in Seq(Targets)
  /\ inFlight \subseteq Targets
  /\ due \subseteq Targets
  /\ wpc \in [Workers -> WorkerPlaces]
  /\ job \in [Workers -> Targets \cup {NoTarget}]
  /\ dpc \in DispatcherPlaces
  /\ main \in MainPlaces
  /\ successCount \in 0..(StatModulus - 1)
  /\ failureCount \in 0..(StatModulus - 1)

\* A target is never being scraped twice at once: it is in the queue at most
\* once, with at most one worker, and never in both places.  The in_flight
\* flag is what has to guarantee it (dispatcherLoop).
QueueDistinct == Distinct(queue)
JobsDistinct ==
  \A v, w \in Workers : job[v] = job[w] /\ job[v] # NoTarget => v = w
QueueApartFromJobs == Queued \cap Held = {}

SingleFlight == QueueDistinct /\ JobsDistinct /\ QueueApartFromJobs

\* Until a first stop() has returned, a flag is set exactly for the targets
\* somebody is responsible for: none is forgotten with its flag set, after
\* which the dispatcher would skip it for ever.
FirstRun == starts = 0 \/ (starts = 1 /\ main \notin {"idle", "destroyed"})

FlagsExact == FirstRun => inFlight = Queued \cup Held

\* Work never waits beside a sleeping worker: when the queue is not empty, no
\* worker is about to block, and one in the wait set is about to be notified
\* by the dispatcher.  This is why the notification of line 143, outside
\* mutex_, is never lost.
NoSleeperBesideWork ==
  queue # <<>> =>
    \A w \in Workers : /\ wpc[w] # "blocking"
                       /\ wpc[w] = "waiting" => dpc = "notify"

\* While the owner is outside start() and stop() with the scheduler stopped,
\* no thread is left, nothing is queued and nobody scrapes: the daemon may
\* destroy the registry the workers write to.
StoppedQuiescent ==
  main \in {"idle", "destroyed"} =>
    /\ ~running
    /\ dpc = "none"
    /\ \A w \in Workers : wpc[w] = "none"
    /\ queue = <<>> /\ Held = {}

\* If fewer targets are slow than there are workers, slow scrapes never
\* occupy the whole pool ("a slow scrape does not block others").
SlowScrapesLeaveAWorker ==
  Cardinality(SlowTargets) < PoolSize
    => \E w \in Workers : job[w] \notin SlowTargets

\* stop() returns.
StopReturns == (main = "notify") ~> (main = "idle")

Stopping == main \in {"notify", "joinDispatcher", "joinWorkers"}

\* stop() returns unless it waits for a slow scrape, or its notifications have
\* missed a worker that had found running_ still set: it can hang in no other
\* way.
StopReturnsUnlessAWakeupIsLost ==
  []<>(\/ ~Stopping
       \/ Held \cap SlowTargets # {}
       \/ /\ main = "joinWorkers" /\ queue = <<>>
          /\ \A w \in Workers : wpc[w] \in {"waiting", "done"})

-----------------------------------------------------------------------------
(* The abstract duty this scheduler implements. *)

PhaseOf(t) ==
  IF \E w \in Workers : job[w] = t /\ wpc[w] = "scraping" THEN "scraping"
  ELSE IF \E w \in Workers : job[w] = t THEN "counted"
  ELSE IF t \in Queued THEN "claimed"
  ELSE IF t \in inFlight THEN "abandoned"
  ELSE IF t \in due THEN "due" ELSE "resting"

Duty == INSTANCE ScrapeDuty WITH
          Prompt    <- Targets \ SlowTargets,
          open      <- running,
          phase     <- [t \in Targets |-> PhaseOf(t)],
          successes <- successCount,
          failures  <- failureCount

\* The scheduler implements the duty through stops and restarts: each target
\* goes through its phases in order, each finished scrape is counted once, and
\* only a stop() abandons a target (queue_.clear() at line 76).
ImplementsDuty == Duty!Spec

\* ... and the targets make progress as the duty demands: as long as fewer
\* targets are slow than there are workers, each due target is scraped, after
\* a restart too, unless a stop() has abandoned it.
ImplementsFairDuty == ImplementsDuty /\ Duty!DutyFairness
=============================================================================
