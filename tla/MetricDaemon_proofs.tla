------------------------- MODULE MetricDaemon_proofs -------------------------
(***************************************************************************)
(* Proofs about MetricDaemon.  The daemon's steps contain steps of the     *)
(* snapshot store, so the inductive invariant of the store is one of the   *)
(* daemon (StoreStep), and what is added to it relates the stage of main() *)
(* to what is up (Upness), and what clients were told to the registry      *)
(* (Answered).                                                             *)
(***************************************************************************)
EXTENDS MetricDaemon, TLAPS

\* The store with its theorems.  Its definitions are those of Store.
Proved == INSTANCE SnapshotStore_proofs

\* What is up at each stage, and where the owner of the store is.
Upness ==
  /\ stage = "launched"    => owner = "constructed" /\ ~server /\ ~scraper
  /\ stage = "initialized" => owner = "loaded" /\ ~server /\ ~scraper
  /\ stage \in {"bound", "dropped"} => owner = "loaded" /\ server /\ ~scraper
  /\ stage = "scraping"    => owner = "loaded" /\ server
  /\ stage = "running"     => owner = "started" /\ server
  /\ stage = "stopping"    => owner \in {"joining", "saving", "stopped"} /\ server
  /\ stage = "failed"      => owner \in {"constructed", "loaded"} /\ ~server /\ ~scraper
  /\ stage = "exited"      => owner = "stopped" /\ ~server /\ ~scraper

\* What was accepted is in the registry, and what was accepted by the time of
\* the stop signal is in the registry of that time.
Answered ==
  \A n \in Names :
    /\ acked[n] <= live[n]
    /\ owner = "constructed" => acked[n] = 0
    /\ owner \in {"joining", "saving", "stopped"} => ackedAtStop[n] <= atStop[n]

DaemonInv == TypeOK /\ Proved!IInv /\ Upness /\ Answered

-----------------------------------------------------------------------------
(* The two instances of the store. *)

\* The store is instantiated with constants that it allows.
LEMMA StoreAssumption == Proved!SnapshotAssumption
BY DaemonAssumption DEF Proved!SnapshotAssumption

\* A step of the store under its one name is the step under the other.
LEMMA SameSteps ==
  /\ Store!Init <=> Proved!Init
  /\ Store!Relaunch <=> Proved!Relaunch
  /\ \A n \in Names : Store!Update(n) <=> Proved!Update(n)
  /\ Store!Load <=> Proved!Load
  /\ Store!Start <=> Proved!Start
  /\ Store!StopBegin <=> Proved!StopBegin
  /\ Store!StopJoin <=> Proved!StopJoin
  /\ Store!LoopSaves <=> Proved!LoopSaves
  /\ Store!LoopEnds <=> Proved!LoopEnds
<1> USE DEF Store!Savers, Proved!Savers, Store!Nothing, Proved!Nothing,
            Store!FromConfig, Proved!FromConfig, Store!Idle, Proved!Idle,
            Store!Parsed, Proved!Parsed, Store!files, Proved!files,
            Store!saving, Proved!saving, Store!history, Proved!history
<1>1. Store!Init <=> Proved!Init
  BY DEF Store!Init, Proved!Init
<1>2. Store!Relaunch <=> Proved!Relaunch
  BY DEF Store!Relaunch, Proved!Relaunch
<1>3. \A n \in Names : Store!Update(n) <=> Proved!Update(n)
  BY DEF Store!Update, Proved!Update
<1>4. Store!Load <=> Proved!Load
  BY DEF Store!Load, Proved!Load
<1>5. (Store!Start <=> Proved!Start) /\ (Store!StopBegin <=> Proved!StopBegin)
  BY DEF Store!Start, Proved!Start, Store!StopBegin, Proved!StopBegin
<1>6. Store!StopJoin <=> Proved!StopJoin
  BY DEF Store!StopJoin, Proved!StopJoin
<1>7. (Store!LoopSaves <=> Proved!LoopSaves) /\ (Store!LoopEnds <=> Proved!LoopEnds)
  BY DEF Store!LoopSaves, Proved!LoopSaves, Store!LoopEnds, Proved!LoopEnds
<1> QED
  BY <1>1, <1>2, <1>3, <1>4, <1>5, <1>6, <1>7

\* So is a step of a save.
LEMMA SameSave ==
  /\ Store!Savers = Proved!Savers
  /\ \A a \in Proved!Savers : Store!Save(a) <=> Proved!Save(a)
<1> USE DEF Store!files, Proved!files, Store!history, Proved!history,
            Store!Nothing, Proved!Nothing
<1>1. ASSUME NEW a \in Proved!Savers PROVE Store!Save(a) <=> Proved!Save(a)
  <2>1. \A ok \in BOOLEAN : Store!Return(a, ok) <=> Proved!Return(a, ok)
    BY DEF Store!Return, Proved!Return
  <2>2. /\ Store!SaveOpens(a) <=> Proved!SaveOpens(a)
        /\ Store!SaveWrites(a) <=> Proved!SaveWrites(a)
        /\ Store!SaveCloses(a) <=> Proved!SaveCloses(a)
    BY DEF Store!SaveOpens, Proved!SaveOpens, Store!SaveWrites, Proved!SaveWrites,
           Store!SaveCloses, Proved!SaveCloses
  <2>3. Store!SaveLists(a) <=> Proved!SaveLists(a)
    BY DEF Store!SaveLists, Proved!SaveLists, Store!PointersNow, Proved!PointersNow
  <2>4. /\ Store!SaveCannotOpen(a) <=> Proved!SaveCannotOpen(a)
        /\ Store!SaveCannotFlush(a) <=> Proved!SaveCannotFlush(a)
        /\ Store!SaveCannotRename(a) <=> Proved!SaveCannotRename(a)
        /\ Store!SaveRenames(a) <=> Proved!SaveRenames(a)
    BY <2>1 DEF Store!SaveCannotOpen, Proved!SaveCannotOpen, Store!SaveCannotFlush,
       Proved!SaveCannotFlush, Store!SaveCannotRename, Proved!SaveCannotRename,
       Store!SaveRenames, Proved!SaveRenames
  <2> QED
    BY <2>2, <2>3, <2>4 DEF Store!Save, Proved!Save
<1> QED
  BY <1>1 DEF Store!Savers, Proved!Savers

\* And so are the types.
LEMMA SameTypes ==
  /\ Store!Maps = Proved!Maps
  /\ Store!TypeOK <=> Proved!TypeOK
  /\ Store!TypeOK' <=> Proved!TypeOK'
BY DEF Store!Maps, Proved!Maps, Store!TypeOK, Proved!TypeOK, Store!Savers, Proved!Savers

-----------------------------------------------------------------------------
(* Steps. *)

\* A step of the daemon is one of the store, or leaves the store alone.
LEMMA StoreStep == [Next]_vars => [Proved!Next]_(Proved!vars)
<1> SUFFICES ASSUME [Next]_vars PROVE Proved!Next \/ UNCHANGED storeVars
  BY DEF Proved!vars, Proved!files, Proved!saving, Proved!history, storeVars
<1>1. CASE Initialize \/ StartStore \/ StopStore \/ StoreJoins \/ Relaunch
  BY <1>1, SameSteps DEF Initialize, StartStore, StopStore, StoreJoins, Relaunch, Proved!Next
<1>2. CASE \/ InitializeFails \/ Bind \/ BindFails \/ DropPrivileges
           \/ DropPrivilegesFails \/ StartScraper \/ StopScraper \/ StopServer
           \/ UNCHANGED vars
  BY <1>2 DEF InitializeFails, Bind, BindFails, DropPrivileges, DropPrivilegesFails,
              StartScraper, StopScraper, StopServer, vars
<1>3. CASE StoreThread
  BY <1>3, SameSteps, SameSave DEF StoreThread, Proved!Next
<1>4. CASE \E n \in Names : Ingest(n) \/ Scrape(n)
  BY <1>4, SameSteps DEF Ingest, Scrape, Acknowledge, Proved!Next
<1> QED
  BY <1>1, <1>2, <1>3, <1>4 DEF Next

\* What the threads of the store and the owner's last save leave alone.
LEMMA ThreadStep ==
  ASSUME Proved!IInv, StoreThread
  PROVE  /\ UNCHANGED <<live, atStop>> /\ UNCHANGED daemonVars
         /\ owner' = owner \/ (owner = "saving" /\ owner' = "stopped")
         /\ path' # path => owner \in {"started", "joining", "saving"}
<1>1. CASE Proved!LoopSaves \/ Proved!LoopEnds
  BY <1>1 DEF StoreThread, Proved!LoopSaves, Proved!LoopEnds, Proved!files, Proved!history
<1>2. ASSUME NEW a \in Proved!Savers, Proved!Save(a)
      PROVE  /\ UNCHANGED <<live, atStop>>
             /\ owner' = owner \/ (owner = "saving" /\ owner' = "stopped")
             /\ path' # path => owner \in {"started", "joining", "saving"}
  <2>1. /\ save[a] # "idle" /\ UNCHANGED <<live, atStop>>
        /\ owner' = owner \/ (a = "owner" /\ owner' = "stopped")
    BY <1>2 DEF Proved!Savers, Proved!Save, Proved!SaveOpens, Proved!SaveLists,
       Proved!SaveWrites, Proved!SaveCloses, Proved!SaveRenames, Proved!SaveCannotOpen,
       Proved!SaveCannotFlush, Proved!SaveCannotRename, Proved!Return, Proved!files,
       Proved!history
  <2>2. owner \in {"started", "joining", "saving"} /\ (a = "owner" => owner = "saving")
    BY <2>1, Proved!SaverAlone, StoreAssumption DEF Proved!IInv, Proved!TypeOK
  <2> QED
    BY <2>1, <2>2
<1> QED
  BY <1>1, <1>2, SameSteps, SameSave DEF StoreThread

\* An accepted value is the one in the registry.
LEMMA AcknowledgeStep ==
  ASSUME DaemonInv, NEW n \in Names, Acknowledge(n), Proved!TypeOK'
  PROVE  TypeOK' /\ Upness' /\ Answered'
<1> USE DEF DaemonInv
<1>1. /\ owner # "constructed" /\ live' = [live EXCEPT ![n] = @ + 1]
      /\ acked' = [acked EXCEPT ![n] = live'[n]]
      /\ UNCHANGED <<owner, atStop, stage, server, scraper, ackedAtStop>>
  BY DEF Acknowledge, Store!Update, Store!saving, Store!history
<1>2. \A m \in Names : live[m] \in Nat /\ acked[m] \in Nat /\ live'[m] \in 0..MaxVersion
  <2>1. live \in Store!Maps /\ live' \in Store!Maps /\ acked \in Store!Maps
    BY SameTypes DEF TypeOK, Store!TypeOK
  <2> QED
    BY <2>1, DaemonAssumption DEF Store!Maps
<1>3. acked' \in Store!Maps
  BY <1>1, <1>2 DEF TypeOK, Store!Maps
<1>4. TypeOK'
  BY <1>1, <1>3, SameTypes DEF TypeOK
<1>5. Answered'
  BY <1>1, <1>2, <1>3 DEF Answered, TypeOK, Store!TypeOK, Store!Maps
<1> QED
  BY <1>1, <1>4, <1>5 DEF Upness

\* A first launch satisfies the invariant.
LEMMA DaemonInit == Init => DaemonInv
<1> SUFFICES ASSUME Init PROVE DaemonInv
  OBVIOUS
<1>1. Proved!IInv
  BY Proved!InitHolds, StoreAssumption, SameSteps DEF Init
<1>2. Store!Nothing \in Store!Maps
  BY DaemonAssumption DEF Store!Nothing, Store!Maps
<1>3. TypeOK
  BY <1>1, <1>2, SameTypes DEF Init, TypeOK, Stages, Proved!IInv
<1>4. Upness /\ Answered
  BY DaemonAssumption DEF Init, Upness, Answered, Store!Init, Store!Nothing, Store!FromConfig
<1> QED
  BY <1>1, <1>3, <1>4 DEF DaemonInv

\* Every step of the daemon keeps the invariant.
LEMMA DaemonStep == DaemonInv /\ [Next]_vars => DaemonInv'
<1> SUFFICES ASSUME DaemonInv, [Next]_vars PROVE DaemonInv'
  OBVIOUS
<1> USE DEF DaemonInv
<1>1. Proved!IInv' /\ Proved!TypeOK'
  BY StoreStep, Proved!InvariantStep, StoreAssumption DEF Proved!IInv
<1>2. Store!TypeOK'
  BY <1>1, SameTypes
<1>3. \A m \in Names : live[m] \in Nat /\ atStop[m] \in Nat
  BY DaemonAssumption DEF TypeOK, Store!TypeOK, Store!Maps
<1>4. Store!Nothing \in Store!Maps
  BY DaemonAssumption DEF Store!Nothing, Store!Maps
<1>5. CASE Relaunch
  <2>1. /\ stage' = "launched" /\ server' = FALSE /\ scraper' = FALSE
        /\ acked' = Store!Nothing /\ ackedAtStop' = Store!Nothing
        /\ owner' = "constructed"
    BY <1>5 DEF Relaunch, Store!Relaunch
  <2>2. \A n \in Names : acked'[n] = 0 /\ live'[n] \in Nat
    BY <1>2, <2>1, DaemonAssumption DEF Store!Nothing, Store!TypeOK, Store!Maps
  <2>3. TypeOK'
    BY <1>2, <1>4, <2>1 DEF TypeOK, Stages
  <2> QED
    BY <1>1, <2>1, <2>2, <2>3 DEF Upness, Answered
<1>6. CASE Initialize
  <2>1. /\ stage' = "initialized" /\ owner' = "loaded" /\ owner = "constructed"
        /\ UNCHANGED <<server, scraper, acked, ackedAtStop>> /\ stage = "launched"
    BY <1>6 DEF Initialize, Store!Load
  <2>2. \A n \in Names : acked'[n] = 0 /\ live'[n] \in Nat
    BY <1>2, <2>1, DaemonAssumption DEF Answered, Store!TypeOK, Store!Maps
  <2> QED
    BY <1>1, <1>2, <2>1, <2>2 DEF TypeOK, Stages, Upness, Answered
<1>7. CASE \/ InitializeFails \/ Bind \/ BindFails \/ DropPrivileges
           \/ DropPrivilegesFails \/ StartScraper \/ StopScraper \/ StopServer
           \/ UNCHANGED vars
  <2>1. UNCHANGED <<live, owner, atStop, acked, ackedAtStop>>
    BY <1>7 DEF InitializeFails, Bind, BindFails, DropPrivileges, DropPrivilegesFails,
       StartScraper, StopScraper, StopServer, vars, storeVars, daemonVars
  <2>2. Answered'
    BY <2>1 DEF Answered
  <2>3. stage' \in Stages /\ server' \in BOOLEAN /\ scraper' \in BOOLEAN
    BY <1>7, DaemonAssumption DEF InitializeFails, Bind, BindFails, DropPrivileges,
       DropPrivilegesFails, StartScraper, StopScraper, StopServer, vars, daemonVars,
       TypeOK, Stages
  <2>4. TypeOK'
    BY <1>2, <2>1, <2>3 DEF TypeOK, Store!Maps
  <2>5. Upness'
    BY <1>7, <2>1 DEF InitializeFails, Bind, BindFails, DropPrivileges,
       DropPrivilegesFails, StartScraper, StopScraper, StopServer, vars, daemonVars,
       Upness
  <2> QED
    BY <1>1, <2>2, <2>4, <2>5
<1>8. CASE StartStore
  BY <1>1, <1>2, <1>8 DEF StartStore, Store!Start, Store!history, TypeOK, Stages, Upness, Answered
<1>9. CASE StopStore
  <2>1. /\ stage' = "stopping" /\ owner' = "joining" /\ live' = live /\ atStop' = live
        /\ ackedAtStop' = acked /\ UNCHANGED <<server, scraper, acked>> /\ stage = "running"
    BY <1>9 DEF StopStore, Store!StopBegin, Store!files
  <2> QED
    BY <1>1, <1>2, <2>1 DEF TypeOK, Stages, Upness, Answered
<1>10. CASE StoreJoins
  <2>1. /\ owner = "joining" /\ owner' = "saving" /\ UNCHANGED daemonVars
        /\ UNCHANGED <<live, atStop>>
    BY <1>10 DEF StoreJoins, Store!StopJoin, Store!history
  <2> QED
    BY <1>1, <1>2, <2>1 DEF TypeOK, Stages, Upness, Answered, daemonVars
<1>11. CASE StoreThread
  BY <1>1, <1>2, <1>11, ThreadStep DEF TypeOK, Stages, Upness, Answered, daemonVars
<1>12. CASE \E n \in Names : Ingest(n) \/ Scrape(n)
  BY <1>1, <1>12, AcknowledgeStep DEF Ingest, Scrape
<1> QED
  BY <1>5, <1>6, <1>7, <1>8, <1>9, <1>10, <1>11, <1>12 DEF Next

\* The inductive invariant holds in every state of the daemon (daemon.cpp).
THEOREM DaemonInvariance == Spec => []DaemonInv
BY DaemonInit, DaemonStep, PTL DEF Spec

-----------------------------------------------------------------------------
(* What follows. *)

\* The type invariant holds for any set of names, with any faults and launches.
THEOREM TypeCorrect == Spec => []TypeOK
BY DaemonInvariance, PTL DEF DaemonInv

\* Neither the server nor the scraper is up before the snapshot is loaded
\* (daemon.cpp:29-66, 68-143).
THEOREM RestoresFirst == Spec => []ServesRestored
<1>1. DaemonInv => ServesRestored
  BY DEF DaemonInv, Upness, TypeOK, Stages, ServesRestored
<1> QED
  BY <1>1, DaemonInvariance, PTL

\* Whenever main() returns, after a stop or a start that failed at any step, no
\* thread is left (daemon.cpp:68-168).
THEOREM NothingLeftRunning == Spec => []NothingRunsAtExit
<1>1. DaemonInv => NothingRunsAtExit
  BY DEF DaemonInv, Upness, NothingRunsAtExit, Proved!IInv, Proved!Places
<1> QED
  BY <1>1, DaemonInvariance, PTL

\* What was accepted when the stop signal was noticed is in the file at the
\* exit, unless the last save failed (daemon.cpp:145-168).
THEOREM AcceptedIsDurable == Spec => []AckedBeforeStopIsDurable
<1>1. DaemonInv => AckedBeforeStopIsDurable
  <2> SUFFICES ASSUME DaemonInv, stage = "exited", finalOk, NEW n \in Names
               PROVE  ackedAtStop[n] <= path[n]
    BY DEF AckedBeforeStopIsDurable
  <2>1. owner = "stopped" /\ ackedAtStop[n] <= atStop[n]
    BY DEF DaemonInv, Upness, Answered
  <2>2. atStop[n] <= path[n]
    BY <2>1 DEF DaemonInv, Proved!IInv, Proved!FinalSaveCovers
  <2>3. ackedAtStop[n] \in Nat /\ atStop[n] \in Nat /\ path[n] \in Nat
    BY DaemonAssumption DEF DaemonInv, TypeOK, Store!TypeOK, Store!Maps
  <2> QED
    BY <2>1, <2>2, <2>3
<1> QED
  BY <1>1, DaemonInvariance, PTL

\* Only a daemon that runs, or stops, changes the file: a start that fails
\* leaves it alone (daemon.cpp:68-143).
THEOREM FailedStartSafe == Spec => FailedStartLeavesFile
<1>1. DaemonInv /\ [Next]_vars => [path' # path => stage \in {"running", "stopping"}]_vars
  <2> SUFFICES ASSUME DaemonInv, [Next]_vars, path' # path
               PROVE  stage \in {"running", "stopping"}
    OBVIOUS
  <2>1. StoreThread
    BY DEF Next, vars, storeVars, Initialize, InitializeFails, Bind, BindFails,
       DropPrivileges, DropPrivilegesFails, StartScraper, StartStore, StopStore,
       StoreJoins, StopScraper, StopServer, Relaunch, Ingest, Scrape, Acknowledge,
       Store!Load, Store!Start, Store!StopBegin, Store!StopJoin, Store!Relaunch,
       Store!Update, Store!files
  <2>2. owner \in {"started", "joining", "saving"}
    BY <2>1, ThreadStep DEF DaemonInv
  <2> QED
    BY <2>2 DEF DaemonInv, Upness, TypeOK, Stages
<1> QED
  BY <1>1, DaemonInvariance, PTL DEF Spec, FailedStartLeavesFile
=============================================================================
