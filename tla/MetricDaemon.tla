----------------------------- MODULE MetricDaemon -----------------------------
(***************************************************************************)
(* The life of the daemon process: main(), MetricDaemon::start() and       *)
(* stop(), composed with the snapshot store.                               *)
(*                                                                         *)
(* start() brings up the HTTP server, drops privileges, brings up the      *)
(* scrape scheduler and last the snapshot store; stop() stops them in the  *)
(* order store, scheduler, server.  The server accepts ingests, and the    *)
(* scheduler merges scrapes, as long as each is up.  The store is the      *)
(* module SnapshotStore, whose steps the daemon's steps contain; server    *)
(* and scheduler are reduced to being up or down.                          *)
(***************************************************************************)
EXTENDS Naturals

CONSTANTS
  Names, Configured, Unparsed, MaxVersion, Faults, MaxRuns, \* of SnapshotStore
  Scraping                 \* whether scrape targets are configured

ASSUME DaemonAssumption ==
  /\ Configured \subseteq Names /\ Unparsed \subseteq Names
  /\ MaxVersion \in Nat \ {0} /\ MaxRuns \in Nat \ {0}
  /\ Faults \in BOOLEAN /\ Scraping \in BOOLEAN

VARIABLES
  path, tmp, live, running, owner, thread, save, left, broken,
  listed, cut, atStop, finalOk, runs,              \* of SnapshotStore
  stage,        \* where main() is
  server,       \* the HTTP server thread is up
  scraper,      \* the scheduler's threads are up
  acked,        \* history: the newest version of each name a client was told
                \* is accepted, or the daemon logged as scraped
  ackedAtStop   \* history: acked when the stop signal was noticed

Store == INSTANCE SnapshotStore

storeVars == <<path, tmp, live, running, owner, thread, save, left, broken,
               listed, cut, atStop, finalOk, runs>>
daemonVars == <<stage, server, scraper, acked, ackedAtStop>>
vars == <<storeVars, daemonVars>>

Stages == {"launched", "initialized", "bound", "dropped", "scraping",
           "running", "stopping", "failed", "exited"}

Init ==
  /\ Store!Init
  /\ stage = "launched"
  /\ server = FALSE
  /\ scraper = FALSE
  /\ acked = Store!Nothing
  /\ ackedAtStop = Store!Nothing

-----------------------------------------------------------------------------
(* main() and start(). *)

\* initialize(): validation, registration or TLS may fail before the load,
\* which never does.
Initialize ==
  /\ stage = "launched"
  /\ stage' = "initialized"
  /\ Store!Load
  /\ UNCHANGED <<server, scraper, acked, ackedAtStop>>

InitializeFails ==
  /\ stage = "launched"
  /\ stage' = "failed"
  /\ UNCHANGED <<storeVars, server, scraper, acked, ackedAtStop>>

\* Mutant: start() does not initialize first.
BindUninitialized ==
  /\ stage \in {"launched", "initialized"}
  /\ stage' = "bound"
  /\ server' = TRUE
  /\ UNCHANGED <<storeVars, scraper, acked, ackedAtStop>>

Bind ==
  /\ stage = "initialized"
  /\ stage' = "bound"
  /\ server' = TRUE
  /\ UNCHANGED <<storeVars, scraper, acked, ackedAtStop>>

BindFails ==
  /\ stage = "initialized"
  /\ stage' = "failed"
  /\ UNCHANGED <<storeVars, server, scraper, acked, ackedAtStop>>

DropPrivileges ==
  /\ stage = "bound"
  /\ stage' = "dropped"
  /\ UNCHANGED <<storeVars, server, scraper, acked, ackedAtStop>>

\* Mutant: the server goes on when the privileges cannot be dropped.
DropPrivilegesFailsServing ==
  /\ stage = "bound"
  /\ stage' = "failed"
  /\ UNCHANGED <<storeVars, server, scraper, acked, ackedAtStop>>

\* The server, which has been answering since Bind, is stopped again.
DropPrivilegesFails ==
  /\ stage = "bound"
  /\ stage' = "failed"
  /\ server' = FALSE
  /\ UNCHANGED <<storeVars, scraper, acked, ackedAtStop>>

StartScraper ==
  /\ stage = "dropped"
  /\ stage' = "scraping"
  /\ scraper' = Scraping
  /\ UNCHANGED <<storeVars, server, acked, ackedAtStop>>

\* Mutant: the store is started as soon as it is loaded.
StartStoreEarly ==
  /\ \/ stage = "scraping" /\ stage' = "running" /\ UNCHANGED storeVars
     \/ stage = "initialized" /\ Store!Start /\ UNCHANGED stage
  /\ UNCHANGED <<server, scraper, acked, ackedAtStop>>

StartStore ==
  /\ stage = "scraping"
  /\ stage' = "running"
  /\ Store!Start
  /\ UNCHANGED <<server, scraper, acked, ackedAtStop>>

-----------------------------------------------------------------------------
(* stop(), which main() calls when it notices the signal. *)

StopStore ==
  /\ stage = "running"
  /\ stage' = "stopping"
  /\ ackedAtStop' = acked
  /\ Store!StopBegin
  /\ UNCHANGED <<server, scraper, acked>>

StoreJoins ==
  /\ Store!StopJoin
  /\ UNCHANGED daemonVars

\* snapshot_->stop() has returned, its last save done.
StopScraper ==
  /\ stage = "stopping"
  /\ owner = "stopped"
  /\ scraper
  /\ scraper' = FALSE
  /\ UNCHANGED <<storeVars, stage, server, acked, ackedAtStop>>

StopServer ==
  /\ stage = "stopping"
  /\ owner = "stopped"
  /\ ~scraper
  /\ server' = FALSE
  /\ stage' = "exited"
  /\ UNCHANGED <<storeVars, scraper, acked, ackedAtStop>>

\* The process dies, or it has ended, and is launched again.
Relaunch ==
  /\ Store!Relaunch
  /\ stage' = "launched"
  /\ server' = FALSE
  /\ scraper' = FALSE
  /\ acked' = Store!Nothing
  /\ ackedAtStop' = Store!Nothing

-----------------------------------------------------------------------------
(* The threads. *)

Acknowledge(n) ==
  /\ Store!Update(n)
  /\ acked' = [acked EXCEPT ![n] = live'[n]]
  /\ UNCHANGED <<stage, server, scraper, ackedAtStop>>

\* POST /ingest: the upsert, and the 200 the client gets.
Ingest(n) == server /\ Acknowledge(n)

\* A scrape that is merged and counted as a success.
Scrape(n) == scraper /\ Acknowledge(n)

StoreThread ==
  /\ \/ Store!LoopSaves \/ Store!LoopEnds
     \/ \E a \in Store!Savers : Store!Save(a)
  /\ UNCHANGED daemonVars

Next ==
  \/ Initialize \/ InitializeFails \/ Bind \/ BindFails
  \/ DropPrivileges \/ DropPrivilegesFails \/ StartScraper \/ StartStore
  \/ StopStore \/ StoreJoins \/ StopScraper \/ StopServer \/ Relaunch
  \/ StoreThread
  \/ \E n \in Names : Ingest(n) \/ Scrape(n)

Spec == Init /\ [][Next]_vars

-----------------------------------------------------------------------------
(* Properties. *)

\* The type invariant.
TypeOK ==
  /\ Store!TypeOK
  /\ stage \in Stages
  /\ server \in BOOLEAN /\ scraper \in BOOLEAN
  /\ acked \in Store!Maps /\ ackedAtStop \in Store!Maps

\* Nobody is answered, and nothing is scraped, before the snapshot has been
\* loaded: no client sees the configured value of a metric that has a newer
\* one in the file.
ServesRestored ==
  server \/ scraper => owner # "constructed"

\* A start that does not succeed leaves the snapshot as it was, although the
\* server has already accepted ingests.
FailedStartLeavesFile ==
  [][path' # path => stage \in {"running", "stopping"}]_vars

\* When main() returns no thread is left that uses the registry it destroys.
NothingRunsAtExit ==
  stage \in {"failed", "exited"} => ~server /\ ~scraper /\ thread = "none"

\* What was accepted when the stop signal was noticed is in the file when the
\* process exits, if the last save succeeded.
AckedBeforeStopIsDurable ==
  stage = "exited" /\ finalOk => \A n \in Names : ackedAtStop[n] <= path[n]
=============================================================================
