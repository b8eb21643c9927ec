---------------------------- MODULE SnapshotStore ----------------------------
(***************************************************************************)
(* The snapshot store: a thread saves the registry to a file now and then, *)
(* the owner loads the file when the process starts and saves it a last    *)
(* time in stop(), and the process may die between any two steps.          *)
(*                                                                         *)
(* A save writes a temporary file line by line and renames it over the     *)
(* snapshot.  The registry is a map from names to versions: version 0 is a *)
(* name that is not registered, and every upsert makes the next version.   *)
(* list() captures the objects of one moment; upsert replaces an object    *)
(* and never changes it, so a captured pointer is a name and a version.    *)
(* (That the replaced object is destroyed under the writer is the subject  *)
(* of MetricRegistry; here its memory is taken to be intact still.)        *)
(* A version is the upsert a line comes from.  What the text of a line      *)
(* preserves of the metric is the subject of SnapshotLine; here it matters  *)
(* only that load() skips the lines it cannot parse.                        *)
(***************************************************************************)
EXTENDS Naturals, FiniteSets

CONSTANTS
  Names,        \* metric names
  Configured,   \* the names the configuration registers
  Unparsed,     \* the names whose lines load() cannot parse, and skips
  MaxVersion,   \* bound: versions of a name
  Faults,       \* whether opening, writing or renaming a file may fail
  MaxRuns       \* bound: how often the process is launched

ASSUME SnapshotAssumption ==
  /\ Configured \subseteq Names
  /\ Unparsed \subseteq Names
  /\ MaxVersion \in Nat \ {0}
  /\ Faults \in BOOLEAN
  /\ MaxRuns \in Nat \ {0}

VARIABLES
  path,     \* the snapshot file: version of each line, 0 if it has no line
  tmp,      \* the temporary file
  live,     \* the registry
  running,  \* running_
  owner,    \* where the owner's load() / start() / stop() is
  thread,   \* where runLoop is
  save,     \* per saver: where its save() is
  left,     \* per saver: the pointers it has listed and not written yet
  broken,   \* per saver: its stream has failed
  listed,   \* history: per saver, the registry when it listed it
  cut,      \* history: the registry when the last complete save listed it
  atStop,   \* history: the registry when stop() was called
  finalOk,  \* history: the save of stop() returned true
  runs      \* launches of the process so far

files == <<path, tmp>>
saving == <<save, left, broken>>
history == <<listed, cut, atStop, finalOk>>
vars == <<files, live, running, owner, thread, saving, history, runs>>

Savers == {"thread", "owner"}
Parsed == Names \ Unparsed
Nothing == [n \in Names |-> 0]
Maps == [Names -> 0..MaxVersion]

\* What MetricDaemon::initialize registers before it loads the snapshot.
FromConfig == [n \in Names |-> IF n \in Configured THEN 1 ELSE 0]

Idle == [a \in Savers |-> "idle"]

Init ==
  /\ live = FromConfig
  /\ running = FALSE
  /\ owner = "constructed"
  /\ thread = "none"
  /\ save = Idle
  /\ left = [a \in Savers |-> {}]
  /\ broken = [a \in Savers |-> FALSE]
  /\ listed = [a \in Savers |-> Nothing]
  /\ atStop = Nothing
  /\ finalOk = FALSE
  /\ path = Nothing
  /\ tmp = Nothing
  /\ cut = Nothing
  /\ runs = 1

-----------------------------------------------------------------------------
(* The process. *)

\* The process dies, or has been left by main(), and is launched again.
Relaunch ==
  /\ runs < MaxRuns
  /\ runs' = runs + 1
  /\ live' = FromConfig
  /\ running' = FALSE
  /\ owner' = "constructed"
  /\ thread' = "none"
  /\ save' = Idle
  /\ left' = [a \in Savers |-> {}]
  /\ broken' = [a \in Savers |-> FALSE]
  /\ listed' = [a \in Savers |-> Nothing]
  /\ atStop' = Nothing
  /\ finalOk' = FALSE
  /\ UNCHANGED <<files, cut>>

\* An ingest or a scrape replaces the object of n.  It may come at any time
\* after the load: the HTTP server starts before the store and stops after it.
Update(n) ==
  /\ owner # "constructed"
  /\ live[n] < MaxVersion
  /\ live' = [live EXCEPT ![n] = @ + 1]
  /\ UNCHANGED <<files, running, owner, thread, saving, history, runs>>

-----------------------------------------------------------------------------
(* The owner. *)

\* Mutant: a metric of the configuration is kept as it is.
LoadKeepsConfigured ==
  /\ owner = "constructed"
  /\ live' = [n \in Names |-> IF n \in Parsed /\ live[n] = 0 THEN path[n] ELSE live[n]]
  /\ owner' = "loaded"
  /\ UNCHANGED <<files, running, thread, saving, history, runs>>

\* load(): the lines of the file replace what the configuration registered.
Load ==
  /\ owner = "constructed"
  /\ live' = [n \in Names |-> IF n \in Parsed /\ path[n] # 0 THEN path[n] ELSE live[n]]
  /\ owner' = "loaded"
  /\ UNCHANGED <<files, running, thread, saving, history, runs>>

Start ==
  /\ owner = "loaded"
  /\ running' = TRUE
  /\ thread' = "loop"
  /\ owner' = "started"
  /\ UNCHANGED <<files, live, saving, history, runs>>

\* Mutant: running_ is not reset.
StopLeavesRunning ==
  /\ owner = "started"
  /\ atStop' = live
  /\ owner' = "joining"
  /\ UNCHANGED <<files, live, running, thread, saving, listed, cut, finalOk, runs>>

\* stop() of a running store.  Called again, by the destructor, it finds
\* running_ false and the thread joined, and returns.
StopBegin ==
  /\ owner = "started"
  /\ running' = FALSE
  /\ atStop' = live
  /\ owner' = "joining"
  /\ UNCHANGED <<files, live, thread, saving, listed, cut, finalOk, runs>>

StopJoin ==
  /\ owner = "joining"
  /\ thread = "done"
  /\ thread' = "none"
  /\ owner' = "saving"
  /\ save' = [save EXCEPT !["owner"] = "open"]
  /\ UNCHANGED <<files, live, running, left, broken, history, runs>>

-----------------------------------------------------------------------------
(* The thread. *)

\* One iteration finds the interval elapsed, or only sleeps.
LoopSaves ==
  /\ thread = "loop"
  /\ running
  /\ thread' = "saving"
  /\ save' = [save EXCEPT !["thread"] = "open"]
  /\ UNCHANGED <<files, live, running, owner, left, broken, history, runs>>

\* Mutant: the loop may end while the store runs.
LoopEndsEarly ==
  /\ thread = "loop"
  /\ thread' = "done"
  /\ UNCHANGED <<files, live, running, owner, saving, history, runs>>

LoopEnds ==
  /\ thread = "loop"
  /\ ~running
  /\ thread' = "done"
  /\ UNCHANGED <<files, live, running, owner, saving, history, runs>>

-----------------------------------------------------------------------------
(* save(), by saver a. *)

\* The caller goes on after save(): the thread with its loop, whatever save()
\* returned, and the owner returns from stop().
Return(a, ok) ==
  /\ save' = [save EXCEPT ![a] = "idle"]
  /\ left' = [left EXCEPT ![a] = {}]
  /\ broken' = [broken EXCEPT ![a] = FALSE]
  /\ IF a = "thread"
       THEN /\ thread' = "loop"
            /\ UNCHANGED <<owner, finalOk>>
       ELSE /\ owner' = "stopped"
            /\ finalOk' = ok
            /\ UNCHANGED thread
  /\ UNCHANGED <<live, running, listed, atStop, runs>>

\* Mutant: the snapshot itself is opened, and thereby truncated.
SaveTruncates(a) ==
  /\ save[a] = "open"
  /\ path' = Nothing
  /\ tmp' = Nothing
  /\ save' = [save EXCEPT ![a] = "list"]
  /\ UNCHANGED <<live, running, owner, thread, left, broken, history, runs>>

SaveOpens(a) ==
  /\ save[a] = "open"
  /\ tmp' = Nothing
  /\ save' = [save EXCEPT ![a] = "list"]
  /\ UNCHANGED <<path, live, running, owner, thread, left, broken, history, runs>>

SaveCannotOpen(a) ==
  /\ Faults
  /\ save[a] = "open"
  /\ Return(a, FALSE)
  /\ UNCHANGED <<files, cut>>

PointersNow == {[name |-> n, version |-> live[n]] :
                  n \in {m \in Names : live[m] # 0}}

SaveLists(a) ==
  /\ save[a] = "list"
  /\ left' = [left EXCEPT ![a] = PointersNow]
  /\ save' = [save EXCEPT ![a] = "write"]
  /\ listed' = [listed EXCEPT ![a] = live]
  /\ UNCHANGED <<files, live, running, owner, thread, broken, cut, atStop,
                 finalOk, runs>>

\* One line; after a failure the stream takes no more.
SaveWrites(a) ==
  /\ save[a] = "write"
  /\ \E p \in left[a], fails \in {FALSE, Faults} :
       /\ left' = [left EXCEPT ![a] = @ \ {p}]
       /\ broken' = [broken EXCEPT ![a] = @ \/ fails]
       /\ tmp' = IF broken[a] \/ fails THEN tmp
                 ELSE [tmp EXCEPT ![p.name] = p.version]
  /\ UNCHANGED <<path, live, running, owner, thread, save, history, runs>>

\* Mutant: the state of the stream is not looked at.
SaveClosesBroken(a) ==
  /\ save[a] = "write"
  /\ left[a] = {}
  /\ save' = [save EXCEPT ![a] = "rename"]
  /\ UNCHANGED <<files, live, running, owner, thread, left, broken, history, runs>>

SaveCloses(a) ==
  /\ save[a] = "write"
  /\ left[a] = {}
  /\ ~broken[a]
  /\ save' = [save EXCEPT ![a] = "rename"]
  /\ UNCHANGED <<files, live, running, owner, thread, left, broken, history, runs>>

\* A write, or the flush of close(), has failed.
SaveCannotFlush(a) ==
  /\ save[a] = "write"
  /\ left[a] = {}
  /\ broken[a] \/ Faults
  /\ Return(a, FALSE)
  /\ UNCHANGED <<files, cut>>

SaveRenames(a) ==
  /\ save[a] = "rename"
  /\ path' = tmp
  /\ tmp' = Nothing
  /\ cut' = listed[a]
  /\ Return(a, TRUE)

\* Mutant: the result of the rename is not looked at.
SaveIgnoresRename(a) ==
  /\ Faults
  /\ save[a] = "rename"
  /\ Return(a, TRUE)
  /\ UNCHANGED <<files, cut>>

SaveCannotRename(a) ==
  /\ Faults
  /\ save[a] = "rename"
  /\ Return(a, FALSE)
  /\ UNCHANGED <<files, cut>>

Save(a) ==
  \/ SaveOpens(a) \/ SaveLists(a) \/ SaveWrites(a) \/ SaveCloses(a)
  \/ SaveRenames(a)
  \/ SaveCannotOpen(a) \/ SaveCannotFlush(a) \/ SaveCannotRename(a)

-----------------------------------------------------------------------------
Next ==
  \/ Relaunch
  \/ \E n \in Names : Update(n)
  \/ Load \/ Start \/ StopBegin \/ StopJoin
  \/ LoopSaves \/ LoopEnds
  \/ \E a \in Savers : Save(a)

Spec == Init /\ [][Next]_vars

\* The threads run, the interval elapses again and again, and the owner, once
\* in a call, goes on.  Nothing makes the owner call start() or stop(), and no
\* fairness is put on faults, updates or the end of the process.
Fairness ==
  /\ WF_vars(StopJoin) /\ WF_vars(LoopSaves) /\ WF_vars(LoopEnds)
  /\ \A a \in Savers : WF_vars(Save(a))

FairSpec == Spec /\ Fairness

-----------------------------------------------------------------------------
(* Properties. *)

\* The type invariant.
TypeOK ==
  /\ path \in Maps /\ tmp \in Maps /\ live \in Maps
  /\ running \in BOOLEAN
  /\ owner \in {"constructed", "loaded", "started", "joining", "saving",
                "stopped"}
  /\ thread \in {"none", "loop", "saving", "done"}
  /\ save \in [Savers -> {"idle", "open", "list", "write", "rename"}]
  /\ left \in [Savers -> SUBSET [name : Names, version : 1..MaxVersion]]
  /\ broken \in [Savers -> BOOLEAN]
  /\ listed \in [Savers -> Maps]
  /\ cut \in Maps /\ atStop \in Maps
  /\ finalOk \in BOOLEAN
  /\ runs \in 1..MaxRuns

\* Two saves never run at once: they share the temporary file.
OneSaver == save["thread"] = "idle" \/ save["owner"] = "idle"

\* The snapshot file always is the registry of one moment, with every name
\* registered then: a save that failed or was cut short leaves no trace.
FileIsOneMoment == path = cut

\* The file is never ahead of the registry that was loaded from it, so the
\* next save cannot take anything back.
FileNotAhead == owner # "constructed" => \A n \in Parsed : path[n] <= live[n]

\* No metric of the file ever goes back or disappears, through saves, faults,
\* crashes and restarts, if its line can be parsed.
FileNeverGoesBack == [][\A n \in Parsed : path[n] <= path'[n]]_path

\* When stop() returns and its save succeeded, the file has every update made
\* before stop() was called ("save periodically/on stop").
FinalSaveCovers ==
  owner = "stopped" /\ finalOk => \A n \in Names : atStop[n] <= path[n]

SaveFails(a) == SaveCannotOpen(a) \/ SaveCannotFlush(a) \/ SaveCannotRename(a)

\* While the store runs, every update gets into the file, unless saves fail
\* again and again, or the save of stop() does, or the process ends.
UpdatesReachTheFile ==
  \/ \A n \in Names, v \in 1..MaxVersion :
       (owner = "started" /\ live[n] = v) ~>
         \/ v <= path[n]
         \/ owner = "constructed"
         \/ owner = "stopped" /\ ~finalOk
  \/ []<><<\E a \in Savers : SaveFails(a)>>_vars

\* stop() returns.
StopReturns == (owner = "joining") ~> (owner \in {"stopped", "constructed"})

-----------------------------------------------------------------------------
(* The abstract checkpoint the store implements. *)

Checkpoint == INSTANCE RegistryCheckpoint WITH
                durable <- path,
                loaded  <- owner # "constructed"

ImplementsCheckpoint == Checkpoint!Spec
=============================================================================
