# Verification of simple-metricd

simple-metricd is a metrics daemon: it keeps counters, gauges and histograms in
a registry, fills it from a configuration file, from pushes (`POST /ingest`)
and from scrapes of other endpoints, shows it on `/metrics`, and saves it to a
snapshot file. This directory holds TLA+ models of it, written from the source
code; the TLC configurations that check them; and TLAPS proofs about them.
Paths of the source below are relative to `src/src/simple-metricd/` unless they
say otherwise; `PROJECT.json` gives for every definition the lines it models.

    tlc -workers 2 -config ScrapeScheduler_threads.cfg ScrapeScheduler.tla
    tlapm ScrapeScheduler_proofs.tla

## 1. The system

### Threads and shared state

`main()` creates one `MetricDaemon`. Its threads when it runs:

| thread | started by | does | shares |
|---|---|---|---|
| owner (`main`) | - | `initialize`, `start`, polls a flag of the signal handler, `stop` | everything, by calls |
| HTTP thread | `MetricsServer::start` | accepts, reads, answers; ingests | registry, `running_`, listener |
| dispatcher | `ScrapeScheduler::start` | puts due targets into a queue | `queue_`, `in_flight`, `running_` |
| 1..8 workers | `ScrapeScheduler::start` | GET a target, parse it, merge it | the same, and the registry |
| snapshot thread | `SnapshotStore::start` | saves when the interval has elapsed | registry, `running_`, the files |

The registry has a mutex, the scheduler has one with a condition variable, the
HTTP server and the store have none: their `running_` is atomic, and `join()` is
their only other synchronisation.

### Components

| component | state | operations | what makes it right |
|---|---|---|---|
| Scrape scheduler (`scrape/scheduler.cpp`) | targets with `next_due`, `in_flight`; queue; statistics | `start`, `stop`, `dispatcherLoop`, `workerLoop`, `scrapeOne` | no target twice at once, none forgotten, no lost wakeup, `stop()` returns and leaves nothing |
| Metric registry (`metric/registry.cpp`) | name -> owned object | `registerMetric`, `upsert`, `setValue`, `increment`, `list`, `clear` | pointers given out stay good; names stay |
| Metric types (`metric/metric.cpp`) | value, or buckets, sum, count | constructors, `setValue`, `increment`, `observe` | counters do not fall and are not negative; buckets add up |
| Snapshot store (`metric/snapshot.cpp`) | snapshot and temporary file, `running_` | `load`, `save`, `start`, `stop`, `runLoop` | the file is a whole and goes forward, over crashes and faults; what is loaded is what was saved |
| Daemon (`core/daemon.cpp`, `main/simple-metricd.cpp`) | the components | `initialize`, `start`, `stop` | order of start and stop, clean failure |
| HTTP server (`http/metrics_server.cpp`) | listener, `running_`, one connection | `start`, `stop`, `acceptLoop`, `handleClient` | the answer is that of the request; refusals change nothing; each connection ends |
| Ingest (`http/ingest.cpp`) | - | `ingestBody` | which lines get in, and what is reported |
| Access control (`security/acl.cpp`) | rules | `allow` | who is not permitted changes nothing |
| Rate limiter (`security/rate_limiter.cpp`) | bucket per key | `setMaxPerMinute`, `allow` | a bound on the admissions in any window |
| Exposition (`http/exposition.cpp`) | - | `renderPrometheusText` | walks over pointers it has listed; its page can be read back |
| Prometheus text (`scrape/prometheus_text.cpp`) | - | `parse...`, `mergePrometheusText` | all or nothing of a body that does not parse; what is merged is what was shown |
| Network, HTTP client (`utils/net.cpp`) | sockets | `bindAndListen`, `recvLine`, `recvAvailable`, `recvExact`, `sendAll`, `httpGet` | every read has a timeout (a send has none), a line and a body a limit |
| Configuration (`config/config.cpp`) | a record | `loadFromFile`, `validateDetailed` | reads what is written, refuses the rest |
| Privileges (`utils/privilege.cpp`) | user, group of the process | `dropPrivileges` | after the bind, before anything else |
| TLS (`security/tls.cpp`), logger, platform, command line client | - | - | - |

How they interact: the HTTP server and the workers write to the registry
through `upsert`; the HTTP server (page) and the store read it through `list`
and then dereference; the store alone touches the files; the daemon calls
`start` and `stop` of the others and owns the registry, whose destruction must
come after every other thread. `start()` binds the server, drops privileges,
starts the scheduler, then the store; `stop()` goes store, scheduler, server.

What is hard here: the condition variable notified without its mutex; raw
pointers used after an unlock; a save cut by a crash, a full disk or a second
saver; updates acknowledged while the daemon stops; a single thread that serves
slow, vanishing or silent clients under per-read timeouts and without one for
its own writes; a header that comes too late or is too long, a page that breaks off; lossy text formats; numbers that are cut or
throw; a bad line that the rest of the file must not hide. `PROJECT.json` lists these under `hazards`, each at its
line and with the properties that would catch it.

## 2. Modules

    ScrapeDuty  <== refines ==  ScrapeScheduler  <- ScrapeScheduler_proofs
                                MetricRegistry   <- MetricRegistry_proofs
    RegistryCheckpoint <== ==   SnapshotStore    <- SnapshotStore_proofs
                                    ^ INSTANCE
                                MetricDaemon     <- MetricDaemon_proofs
    RateLimiter <- EXTENDS -    MetricsServer    <- MCMetricsServer, MetricsServer_proofs
                                MetricConfig     <- MCMetricConfig, MetricConfig_proofs
    MetricText <- EXTENDS - SnapshotLine <- MCSnapshotLine
         ^                       ^- EXTENDS - MetricText_proofs
         |                       v
         +- Histogram, PrometheusText <- EXTENDS - ScrapeFetch <- MCScrapeFetch

`FoldFacts` is a module of lemmas about folds, with the operation as its
constant; the proofs that need them INSTANCE it with theirs.

Operators named after a comment "Mutant" are small bugs a change of the code
could bring in. Nothing uses them; each property is known to be violated when
one of them takes the place of the operator below it.

### ScrapeScheduler (abstract: ScrapeDuty)

`queue`, `inFlight`, `running` are the members of the same name; `wpc` and `job`
say where each worker is and what it scrapes; `dpc` and `main` do so for the
dispatcher and the owner. Every critical section is one action; the one place
where two actions are needed under `mutex_` is `cv_.wait`, between the evaluation
of its predicate (`WorkerWillBlock`) and its entry into the wait set
(`WorkerBlock`). As `stop()` and the dispatcher notify without the mutex, their
notifications can fall there. `Start`, `StopClearRunning`, `StopNotify`,
`StopJoinDispatcher`, `StopJoinWorkers`, `Destroy` are the owner's calls; `PoolSize`
is the constructor's choice of a worker count. Time is the set `due` of targets
whose `next_due` has passed. A scrape is one step that ends in success or
failure: what happens in it is the module ScrapeFetch. `ScrapeDuty` is what is
promised: resting, due, claimed, scraping, counted, resting - each scrape
counted once, each due target scraped. A target that is queued when `stop()`
clears the queue keeps its flag and is abandoned for good: the duty has that
phase, and no other way into it.

### MetricRegistry

`metrics` is the map; the object of a name has a generation, so that a pointer is
dangling when its name has moved on. `list()` is `List`, the loop over the pointers
is one `Read` for each; a destroyed object reads as anything. `Upsert`, `SetValue`
and `Increment` have the checks of `makeMetric` and `Metric::setValue`, over
doubles with an infinity and a NaN that compares with nothing. `Clear`,
`RegisterMetric`, `Load` are the calls of `initialize()`, before threads run.

### SnapshotStore (abstract: RegistryCheckpoint) and SnapshotLine

`path` and `tmp` are the two files, `live` the registry as versions. `save()` is
`SaveOpens` (which truncates), `SaveLists`, a `SaveWrites` per line, `SaveCloses`,
`SaveRenames`, with a failure at each place where the code looks for one. The
thread (`LoopSaves`, `LoopEnds`) and `stop()` (`StopBegin`, `StopJoin`) both save.
`Relaunch` is the end of the process at any step. `Update` is an upsert of any other
thread. The memory of a replaced object is taken to be intact for the
writer: whether it is, is what `MetricRegistry` is about (section 4, finding 2). A rename is
atomic and nothing is lost that was written: loss of power is not modelled, and
the code calls no `fsync`. `RegistryCheckpoint` promises that the durable map moves forward only, each
parsed name to a version the registry has had.

`SnapshotLine` is the line of one metric: what `save()` prints, what `load()` makes
of it (the comment cut off, the fields of `parseSnapshotLine`, the new object).
A word is its prefixes `labels=`, `help=`, `value=`, the number it reads as and
whether it has a `#`: what the parser tells apart. The steps are restarts.

### MetricDaemon

`stage` is where `main()` is, `server` and `scraper` whether those are up; the store
is an `INSTANCE` of SnapshotStore whose steps the daemon's steps contain:
`Initialize` is its `Load`, `StartStore` its `Start`, `StopStore` its `StopBegin`. Every way
of `start()` to fail is an action. `Ingest` and `Scrape` update the registry and
record in `acked` what somebody was told has been accepted. That the `stop()` of the
scheduler and of the server return is assumed here; finding 1 and the
exceptions of section 4 say when they do not.

### MetricsServer and RateLimiter

`thread` is where `acceptLoop` or `handleClient` is: `loop`, `accept`, `line`,
`headers`, `length`, `body`, `decide`, `send`. `got` and `body` are the variables of
`handleClient`. A client (`conn`) writes its request in parts, as the code reads
them: request line, `Content-Length`, `Authorization`, blank line, body; it may
stall, hang up, or, if `Chatty`, write other header lines for ever. A read
fails when nothing is there (timeout or a closed connection), and a line fails
that has 8192 bytes and no end (`TooLong`; the field `long` of a request says where
such a line stands). Each place that reads does with the failure what the code
does: `LineFails` closes, `HeadersFail` and `HeaderTooLong` go on as with a blank
line, `BodyFails` closes, and `ReadAstray` is a body that starts with the late
headers or with the rest of the long line, either of which may read as any line
(`Late`). `Permitted` is `AclPolicy::allow` as it is, `Entitled` what the documents say
of it; `AcceptedLines` and `Rejects` are `ingestBody` for its two formats, `Status` is
the dispatch. The answer leaves by `Send`, which returns because what it sends fits
into the buffers of a connection or nobody is there; but a `/metrics` page need not
fit (`SendsPage`), and then `send()` blocks until the client has read enough of it
(`PageTaken`, a step that nothing makes happen). `BrokenPipe` is the SIGPIPE that
nothing in the repository handles: it ends the process.
`RateLimiter` is `allow()` and `setMaxPerMinute()` with its windows; the server
uses its actions with the key `host:port`.

Left out: TLS and the text of pages.

### MetricText, Histogram, PrometheusText and ScrapeFetch

`MetricText` is what the page and the snapshot share: the types, how a number is
written (`Written`), the order of a map (`InOrder`).
`Histogram` is `HistogramMetric`: the constructor's sorted bounds, `observe()` with
a count per bucket, and a history of the samples. `PrometheusText` has no state:
`Render` is `renderPrometheusText()` with `writeExposition()`, a page being a
sequence of lines; `Parse` and `Merged` are `parsePrometheusText()` and
`mergePrometheusText()`. A line is what the parser takes from it; one that is no
sample, but has to be, is `Junk`.
The name of a metric may be one that the parser reads otherwise, because ingest
and the configuration accept any word (`SampleLine`).

`ScrapeFetch` composes the two with `httpGet()` and `scrapeOne()`: `Begin`,
`Connects` or `CannotConnect`, `StatusLine`, `HeaderLine`, `HeadersEnd`, `ReadsBody`,
`BodyEnds`, `Decide`, while the target goes on counting (`Increment`,
`ObserveSample`). A response is a sequence of lines of two units each, so that a
read ends at the end of a line or inside one; every read may instead time out or
find the connection closed, at each of which the code goes on as it does: the
status line fails the scrape, a header ends the headers, a body is taken for
whole. What a torn line reads as (`TornReadings`), and a header line that is read
as a part of the page (`Readings`), are sets of what the text may be.

### MetricConfig

The process from its arguments to a daemon that is ready to bind: `ForegroundFlag`,
`OpenFile`, `ReadLine`, `EndFile`, `GivesUp` are main()'s loop and `loadFromFile()`;
`TestConfig` and `Initialize` are `testConfig()` and the first part of
`initialize()` - validation, registration, TLS files. `config` is the
`MetricConfig` object, `registry` what has been registered, `read` the history of
lines. A line is its key and what the parser tells apart of its value: a text and
what a "#" leaves of it, the items of a list, a number or `NotANumber`, the fields
of a metric (`TakeField` is one round of the loop of `parseMetricLine()`), the
address and options of a target. `Throws` says which lines end the process with
an exception that nothing catches. `metricctl` reads one file in the same way.

## 3. The runs

| run | states | what is checked |
|---|---|---|
| `scheduler_threads` | 93 thousand | three targets, one never answering, two workers, a restart: `SingleFlight`, `FlagsExact`, `NoSleeperBesideWork`, `StoppedQuiescent`, `SlowScrapesLeaveAWorker`; fair threads: every step one of `ScrapeDuty`, and every due target scraped (`ImplementsFairDuty`); `stop()` hangs in one way only |
| `scheduler_stophang` | violation | that way (finding 1) |
| `registry_shared` | 70 thousand | two names, HTTP thread reading and writing, a worker writing: `CounterNotNegative`, `SeenNeverAhead` |
| `registry_dangling` | violation | use of a destroyed object (finding 2) |
| `store_crash` | 469 thousand | two names, one unparsable, faults, three launches: `FileIsOneMoment`, `FinalSaveCovers`, `FileNeverGoesBack`, `ImplementsCheckpoint`; fair: `UpdatesReachTheFile`, `StopReturns` |
| `daemon_life` | 317 thousand | every failure of start, service, stop, relaunch: `ServesRestored`, `FailedStartLeavesFile`, `NothingRunsAtExit`, `AckedBeforeStopIsDurable` |
| `server_serve` | 529 thousand | two clients: `RefusalHasNoEffect`, `OnlyPermittedWrite`, `PromptAnswerIsRight`, `WindowBound`, `StopLeavesNothing`; fair: `EveryConnectionEnds`, `StopReturns` |
| `server_perhost` | violation | a limit per peer that is one per port (finding 3) |
| `server_credentials` | violation | credentials that only name the user (finding 4) |
| `fetch_scrapes` | 2.7 million | two scrapes of a target that counts and observes: `BucketsCumulative`, `FailureMergesNothing`, `WholePageArrives`, `OnlyTheShownArrives`, `CopyNeverBack`; the limit of a body is in `TypeOK` |
| `config_start` | 1.2 million | every sequence of up to three lines and flags: `OneBadLineStopsAll`, `AbortsExactly`, `TheLastLineCounts`, `MetricsAsWritten`, `EveryTargetIsScraped`; the widths of numbers are in `TypeOK` |
| `line_roundtrip` | 2.1 million | every metric over eight words, saved and loaded up to three times: `ExactlyTheCleanSurvive`, `SettlesAfterTwo` |

The type invariants of ScrapeScheduler, MetricRegistry, SnapshotStore,
MetricsServer and MetricDaemon, and with them `NamesNeverVanish`, `OneSaver`,
`FileNotAhead` and `ImplementsDuty`, are proved for all values of the constants
(section 5) and not checked again in a run.

### Bounds, and why they are enough

- Scheduler: two workers are what the races need (one that sleeps or is about to,
  one that takes the work or holds the mutex); three targets leave one queued
  while both workers are busy, and make the default pool (two) smaller than the
  list. One slow target leaves one worker to the other two. Two starts show what a
  restart finds. `StatModulus` 2 makes the statistics wrap.
- Registry: a stale pointer needs two generations; one finite value on each side
  of zero, with the infinity and NaN, distinguishes all the checks; two names so
  that one is read before the other changes.
- Store: versions up to 3 give the file, the list and the registry one each that
  differ; three launches make a file written by a process that itself loaded one;
  one name is configured and one is never parsed.
- Daemon: one relaunch after any failure, and the store's bounds.
- Server: each defect of the kind looked for takes one connection, or the one before it, so
  there are two clients; their offers hold one request of each kind that the
  decision distinguishes, a page, and lines too long in each place where that makes a
  difference: the request line, in front of the credentials and behind them.
  `MaxLate` 1 puts one line, which may be any, in front of what is left of a body.
  `Window` 1 in a time of 2 lets the second request fall into the window of the first
  or into the next one. Under a limit of one, two admissions in a row are a window apart,
  which is `WindowBound` for that limit; its proof is for every limit. `Refused` is empty: `upsert()` refuses no line whose type and name
  have been parsed; the proofs allow for any. The credentials run has no limit.
- Fetch: two scrapes, so that a copy has a value to fall from; up to two events, so
  that two pages differ in the counter, in the histogram or in both; the counter starts at 9, and from
  10 on numbers are written rounded to 2 and have a digit to lose. A page has
  eleven lines, 22 units; a read gives up to three units, one line and a half. The limit of 20
  units is passed, by one unit up to three, and by header lines read as body.
- Configuration: three lines are a value, another one for the same field, and
  something between or behind; lines for one field in both its names, numbers at and past their
  limits (70000, and -1 under a limit cut to 8 instead of 2^32), metrics with up
  to three fields out of seven, good, bad and swallowed by a help text. `MaxSize`
  bounds lines and fields together at five: one line of a metric with all its
  three fields and another line, or three lines of which two have one.
- Line: labels of up to two and help texts of up to three words show what is
  behind a word that changes the meaning; of the values 0, 3, 104 the last is rounded.

`CHECK_DEADLOCK FALSE` is in every configuration but those of MetricRegistry, whose
threads never come to rest: the other systems may stop. A scheduler is destroyed,
a process has exited, a bound is reached.

### Fairness

Threads that can run do run: weak fairness for their steps. Where a step needs
the scheduler's mutex, strong fairness, as a mutex is released again and again
and a thread that waits for it is not passed over for ever. Scrapes outside
`SlowTargets` end because every read has a timeout; slow ones are allowed not
to. The interval of the snapshot thread elapses again and again. Every read of the server ends by data or timeout,
and a send of an answer that fits into the buffers of the connection ends. The send
of a page does not have to: `send()` is called on a blocking socket with no timeout, so
`PageTaken` has no fairness.
ScrapeFetch, MetricConfig and MetricDaemon state safety only and assume no
fairness. Nothing makes the owner call anything, a client write or read its page, time pass, a file operation fail or a
condition variable wake up spuriously. `UpdatesReachTheFile` has the
alternative that saves fail again and again. `EveryConnectionEnds` and
`StopReturns` of the server have two: that one client writes header lines for ever
(the whole request has no timeout, only each read has), or does not take its page.

## 4. Findings

1. `stop()` of the scheduler can hang (`scheduler_stophang`): `running_` is cleared,
   and `cv_` notified, without `mutex_`; both notifications, that of `stop()` and the last of the dispatcher, can
   fall between a worker's predicate and its wait. `StopReturnsUnlessAWakeupIsLost`
   passes: with fast scrapes there is no other way.
2. A page or a save can dereference a destroyed metric (`registry_dangling`):
   `list()` returns raw pointers, `upsert()` of another thread replaces objects.
   `SafeAlone` proves that it cannot happen with one thread that reads and writes.
3. The rate limit is per connection (`server_perhost`): the key has the port.
4. Credentials need no password (`server_credentials`): `security/acl.cpp:68` accepts an
   `Authorization` text without a colon behind "Basic " if the user's name occurs in it, for
   `/metrics` and for ingest, where `docs/security.md:20` says that basic auth gates both
   and `docs/configuration.md:34` that it is "Basic user:pass". `CredentialsGate` states the
   documents; `OnlyPermittedWrite` and `PromptAnswerIsRight` say what holds, and
   name this case (`NamesUser`).

Exceptions that the properties have to name, each a behaviour of the code that a
reader might not expect:

- `AckedBeforeStopIsDurable` speaks of what was accepted before the stop signal was
  noticed. An ingest that is answered with 200 between the last save of the store
  and the stop of the server (`core/daemon.cpp:145-155`) is in no file.
- `ExactlyTheCleanSurvive` leaves out every histogram that has been observed or has buckets
  of its own: `load()` puts an empty one with the default bounds in its place, also where
  the configuration has just made one, although `metric/snapshot.cpp:171` says that
  "Histograms persist as their primary value".
- `OnlyTheShownArrives` has four exceptions: a number whose last digits were lost
  with the connection is merged and counted as a success; a bucket of a histogram
  that is not the last one, for the same reason; a late header line merged as a
  metric; a name such as "x-5" that reads as a metric "x" of value -5.
- `WholePageArrives` requires names that can be read: one name with a character
  that the parser does not know makes every scrape of the whole page fail. A
  histogram arrives as three gauges, of which that of the buckets is the last one.
- `CopyNeverBack` has the exception of the cut number; a large counter's copy is
  rounded to six digits and may be ahead of it.
- `EveryConnectionEnds` and `StopReturns` of the server: one client can hold the only
  thread for ever, and `stop()` with it, by header lines without end
  (`http/metrics_server.cpp:85`) or by not reading a page that is larger than the buffers of
  its connection (`utils/net.cpp:54`). Nothing bounds a request or a send as a whole.
- `PromptAnswerIsRight`: a header line of 8192 bytes or more ends the headers
  (`utils/net.cpp:182`). The request is decided without those behind it: without
  credentials it is refused, without a length it has no body, and with one the body
  is what follows in that line.
- `AbortsExactly`: the number of a port or a limit that cannot be read ends the
  process with an uncaught exception, other bad numbers with a message.
- `TheLastLineCounts` takes a value as the parser has it: with a password cut short
  at a "#", and a limit cut to 32 bits, 2^32 being 0, no limit. That no
  field is wider than its type is in `TypeOK`.
- `MetricsAsWritten`: a number behind a help text is a part of the text.
- `testConfig()` says that a configuration is valid whose start fails, because of two
  metrics of one name or of a TLS file that does not load.

Noted and not stated as a property: a counter may fall when an ingest
replaces it by a smaller one, against the "Non-decreasing" of
`config/README.md:43` (`SeenNeverAhead` says that it is the only way); a gauge may be constructed
with an infinity or a NaN, which `setValue` refuses; a scheduler that is started
a second time finds flags set of targets that were queued when it stopped and
skips them for ever (`MetricDaemon` makes a new scheduler each time); SIGPIPE.

## 5. What is proved

The proofs hold for all values of the constants that meet the module's named
assumptions, which TLC evaluates in the runs. Most are typing of constants:
`ConstantsAssumption`, `RegistryAssumption`, `SnapshotAssumption`,
`LimiterAssumption`, `ServerAssumption`, `DaemonAssumption`, `HistogramAssumption`,
`ConfigAssumption`, `FetchAssumption` (a server's status, header lines and the name
of its gauge are among those the model tells apart). Three say a little more.
`LinesAssumption`: a configuration line that has a number where its key asks for one,
has one that `std::stoi()` and its like can give, or `NotANumber`. `LineAssumption`:
words are what the snapshot's parser tells apart, and a metric's value is
not negative. `TextAssumption`: `Exact`, from where on numbers are rounded, is a multiple of
`Unit`, to which they are rounded - as 1000000 is one of 10, for the six digits of
`operator<<`; without it a larger number could be written smaller.

Each proof follows one pattern: an inductive invariant, with `Init =>` it,
one lemma per action or group of actions, and the property from it.

- **ScrapeScheduler_proofs**: `TypeCorrect`, `NoDoubleScrape`, `NoTargetForgotten`,
  `NoLostWork`, `Quiescence`, `PoolNotExhausted`, `Implementation`. `SingleFlight`
  is not inductive: it needs that a worker has a target exactly while it
  scrapes (`JobMatchesPlace`) and that all who are queued or held are flagged
  (`FlagsSound`), which is what makes the scan's look at the flag enough. `NoSleeperBesideWork` rests on the
  mutex: no worker is in the gap of `cv_.wait` when the queue is filled.
  `ThreadsMatchOwner` ties the threads to the owner's calls, for `Quiescence`.
  `Implementation` maps each action to a step or a stutter of `ScrapeDuty`.
- **SnapshotStore_proofs**: `TypeCorrect`, `SavesExclude`, `Consistent`, `NotAhead`,
  `FinalSave`, `Monotone`, `Implementation`. `Places` derives from the
  join in `stop()` that one save at most is under way, hence that the temporary file
  has what its saver wrote and nothing else (`Cleared`, `PointersListed`, `Filled`,
  `RenameReady`); `ListedFits` keeps what a save has listed between the file and
  the registry, from which the file never goes back; `StopCut` carries the
  registry at the call of `stop()` to the last save, `ConfiguredLive` is for the refinement.
- **MetricRegistry_proofs**: `TypeCorrect`, `NeverNegative`, `ObservationsStand`,
  `NamesStay`, `SafeAlone`. A line that was read is compared in an order with NaN
  first (`SeenBelow`), because a counter constructed as NaN accepts any value;
  `NotOfTheFuture` bounds the generations of pointers and lines.
- **MetricsServer_proofs**: `TypeCorrect`, `NoEffect`, `WritersPermitted`, `NothingLeft`,
  `ImplementsLimiter`, `AdmissionsBounded`, for any clients, requests, rules and
  limits. `ServerInv` says how the parts go together: the thread has a connection
  exactly while it is in `handleClient`, and it is the only open one (`OneOpen`); a
  listener, and a thread, are there as the owner has got (`OwnerMatches`); the backlog
  lists those who wait, each once (`BacklogWaits`); `got` is empty between
  connections and otherwise the client's own (`OwnHeaders`, without which one client
  might be let in with the credentials of another); who has written something is
  being served or is done (`WritersServed`), so that the answer a connection
  gets when it is closed is about what it wrote. `AnswersAreRight` is
  `PromptAnswerIsRight`: `ReadInOrder` says what `got` and `body` are after each part
  that a prompt client's connection has given (the headers found so far, then all
  that are heard, then a body of `BodiesHeard`: the one that belongs to them, or
  what follows a line that is too long), which determines the answer. Where the header
  loop ends decides what is heard of a request (`HeardAtBlank`, `HeardBefore`). A client has
  never sent a part its request does not have (`PartsExist`), and one that is not being
  served has had nothing read (`NothingReadYet`).
  The limiter's own theorem is `LimiterIsBounded`, for every limit, window and number
  of keys: `Fits` relates a key's history to its bucket (the last `count`
  admissions are in the open window, the first of them opened it, those a full
  window older lie a window before its start) and `Spread` is the bound.
  `ImplementsLimiter` and `AdmissionsBounded` carry it over: the server's steps are
  steps of the limiter.
- **MetricDaemon_proofs**: `TypeCorrect`, `RestoresFirst`, `NothingLeftRunning`,
  `AcceptedIsDurable`, `FailedStartSafe`. Every step of the daemon is a step or a stutter
  of the store, so that the invariant of SnapshotStore_proofs holds of it (through
  an INSTANCE of that module). `DaemonInv` adds how the stages of main() go with the
  owner of the store and with what is up, and that no client was told of a version that the
  registry does not have, nor, once `stop()` was called, of one newer at that
  moment than what the last save covers: from which durability follows.
- **MetricConfig_proofs**: `AbortsAtNumbers`, `LastLineCounts`, `RefusedLinesStopAll`, for any
  lines in any files. `ConfigInv` says of each field that it is the default, or
  what the latest line that names it says; that a refused line is counted for
  good (`ErrorsCounted`) and that an exception has ended the process
  (`ThrownEnds`). `ApplyPart` says once what a line does to each part of the configuration,
  so that the invariant follows for flags and lines alike (`ApplyFollows`). On it rest
  `ConfigTyped`, `BadLinesStopAll`, `MetricsFollowLines` and `TargetsFollowLines`, with
  the second invariant `AddedInv`: a metric line that was taken is one that parses and has
  given the next metric, a target line the next target, and the registry is
  the metrics. What `parseMetricLine()` makes of a line is an induction over its
  fields (`FieldsAre`: each part of the metric is what the last field says that
  names it), what `initialize()` registers one over the metrics (`AllRegistered`).
- **FoldFacts**, lemmas for the others: `InTurn`, a left fold of any operation over any sequence has its
  intermediate results, each the operation of the one before. The operation is a
  constant of the module, so that a proof has the fact for its own operation by
  `INSTANCE ... WITH`, and induction over lines, words and fields becomes an
  induction over a set of numbers (`Steps`).
- **MetricText_proofs**, in three parts that share the lemmas about numbers, order
  and sequences.
  *Buckets*: `Cumulative`, `BucketsWithinCount`, `Rising`, for any bounds and samples. A new
  sample adds its position to `NotAbove(b)` exactly if its bucket is counted up.
  *Snapshot lines*: `CleanSurvive` and `DamageEnds`, for labels and help texts of
  any length. `LineInv` says what is true at each launch: what has come back once is
  `Kept`, all of it but the value being such that the line gives it back; what has come back twice
  is `Clean`, since a number written twice is written the same (`WrittenSettles`).
  `KeptIsRead` and `FieldTidy` follow the parser word by word.
  *Scrapes*: `FetchTyped`, `FetchBuckets`, `FailureIsClean`, `CopyRises`, `ShownArrives`,
  `WholeArrives`, for any header lines, pages cut anywhere, sizes of reads and
  limits. `FetchInv` says that the response in flight carries the page of a registry
  that the target has had (`ShownBy`), that the worker stands between two lines until
  the headers are over and reads behind the status line from then on
  (`ReadsInOrder`, `Shows`), and that its copy of the counter is no larger than what
  the target has and, while a response is in flight, than what that shows
  (`CopyBehind`): the link without which a late answer could set the copy back.
  The argument follows a page line by line. `RenderShows`: each sample of a page is what
  `Image` says of its name or an inner bucket, with the lines of its type and help
  before it. `BodyShows`: so it is with what has been read of it, whole or
  torn, but for header lines and the torn line. `MergedExactly`, an induction over
  the lines: each name arrives as its last sample says, and nothing does if one
  line is no sample (`NoJunk`). `WrittenRises` is why rounding does not turn a
  rise into a fall.

Only model-checked: liveness under fairness (`ImplementsFairDuty`,
`StopReturnsUnlessAWakeupIsLost`, `UpdatesReachTheFile`, `EveryConnectionEnds` and the
`StopReturns`), which is beyond the prover. Every invariant and every action
property of a passing run is a theorem.

## 6. What is not modelled

- TLS (`security/tls.cpp`): calls of OpenSSL, without state of the program's own. The
  difference it makes to `recvExact()` and `waitReadable()` is a hazard without a property.
- `CounterRate` and `httpPost()`: nothing but their unit tests uses them.
- The words of an ingest line: `MetricsServer` has whether a line parses. That
  `upsert()` refuses a line cannot happen after its type and name were checked.
- The logger (output under one mutex), the platform constants, the system calls
  that drop privileges.
- `metricctl`'s arguments and output. Its `test-config` and `list` are behaviours of
  MetricConfig with one file and no flag, its `scrape` is the `httpGet()` of ScrapeFetch.
- The matching of prefixes in the access rules, which are sets of hosts.
- Loss of power (the code calls no `fsync`).

`components` in `PROJECT.json` says for each part how far the model goes.

## 7. Plan

Done: the scheduler and its duty; the registry; the store, its checkpoint and its
line; the daemon; the server with limiter and access rules; the histogram, the
page, its parser and the HTTP client; the configuration; the proofs above.
Left, in this order:

1. Locks and destruction composed: registry, scheduler and daemon in one module,
   so that finding 2 is shown in the order of the daemon's own shutdown.
2. The grammar of ingest lines, beside that of snapshot lines.
