------------------------ MODULE SnapshotStore_proofs ------------------------
(***************************************************************************)
(* Proofs about SnapshotStore: the inductive invariant IInv, the safety    *)
(* properties that follow from it, and the refinement of                   *)
(* RegistryCheckpoint.                                                     *)
(*                                                                         *)
(* What makes the file consistent is that one save at most is under way    *)
(* (Places), so that the temporary file holds what its saver has written   *)
(* so far and nothing else (Cleared, Filled); and what makes it never go   *)
(* back is that a save lists a registry the file is not ahead of, which    *)
(* stays between the file and the registry until the rename (ListedFits).  *)
(***************************************************************************)
EXTENDS SnapshotStore, TLAPS

\* Where the owner and the thread are determines who saves.
Places ==
  /\ thread = "saving" <=> save["thread"] # "idle"
  /\ owner = "saving" <=> save["owner"] # "idle"
  /\ owner \in {"constructed", "loaded", "saving", "stopped"} => thread = "none"
  /\ owner = "started" => running /\ thread \in {"loop", "saving"}

InUse(a) == save[a] \in {"write", "rename"}

Cleared ==
  \A a \in Savers : save[a] = "list" => \A n \in Names : tmp[n] = 0

PointersListed ==
  \A a \in Savers : \A p \in left[a] :
    InUse(a) => p.version = listed[a][p.name]

ToWrite(a, n) == \E p \in left[a] : p.name = n

Filled ==
  \A a \in Savers, n \in Names :
    InUse(a) /\ ~broken[a]
      => /\ ToWrite(a, n)  => tmp[n] = 0
         /\ ~ToWrite(a, n) => tmp[n] = listed[a][n]

RenameReady ==
  \A a \in Savers : save[a] = "rename" => left[a] = {} /\ ~broken[a]

ListedFits ==
  \A a \in Savers, n \in Names :
    InUse(a) =>
      /\ listed[a][n] <= live[n]
      /\ n \in Parsed => path[n] <= listed[a][n]
      /\ n \in Configured => listed[a][n] # 0
      /\ a = "owner" => atStop[n] <= listed[a][n]

StopCut ==
  owner \in {"joining", "saving", "stopped"} => \A n \in Names : atStop[n] <= live[n]

ConfiguredLive == \A n \in Configured : live[n] # 0

SaveInv == Cleared /\ PointersListed /\ Filled /\ RenameReady /\ ListedFits

IInv ==
  /\ TypeOK /\ Places /\ SaveInv /\ StopCut /\ ConfiguredLive
  /\ FileIsOneMoment /\ FileNotAhead /\ FinalSaveCovers

-----------------------------------------------------------------------------
USE SnapshotAssumption DEF Savers

\* The versions of a map are bounded naturals.
LEMMA MapsNat ==
  ASSUME NEW f \in Maps, NEW n \in Names
  PROVE  f[n] \in Nat /\ f[n] <= MaxVersion
BY DEF Maps

\* The maps a launch begins with.
LEMMA InitialMaps == Nothing \in Maps /\ FromConfig \in Maps
<1>1. 0 \in 0..MaxVersion /\ 1 \in 0..MaxVersion
  OBVIOUS
<1>2. Nothing \in Maps
  BY <1>1 DEF Nothing, Maps
<1>3. FromConfig \in Maps
  BY <1>1 DEF FromConfig, Maps
<1> QED
  BY <1>2, <1>3

\* The savers a launch begins with.
LEMMA InitialSavers ==
  /\ Idle \in [Savers -> {"idle", "open", "list", "write", "rename"}]
  /\ [a \in Savers |-> {}] \in [Savers -> SUBSET [name : Names, version : 1..MaxVersion]]
  /\ [a \in Savers |-> FALSE] \in [Savers -> BOOLEAN]
  /\ [a \in Savers |-> Nothing] \in [Savers -> Maps]
  /\ Idle["thread"] = "idle" /\ Idle["owner"] = "idle"
BY InitialMaps DEF Idle

\* A first launch without a file satisfies the invariant.
LEMMA InitHolds == Init => IInv
<1> SUFFICES ASSUME Init PROVE IInv
  OBVIOUS
<1>1. TypeOK
  <2>1. runs \in 1..MaxRuns
    BY DEF Init
  <2> QED
    BY <2>1, InitialMaps, InitialSavers DEF Init, TypeOK
<1>2. SaveInv
  BY DEF Init, SaveInv, Cleared, PointersListed, Filled, RenameReady, ListedFits,
         InUse, Idle
<1>3. Places /\ StopCut /\ ConfiguredLive /\ FileIsOneMoment /\ FileNotAhead
      /\ FinalSaveCovers
  BY DEF Init, Places, StopCut, ConfiguredLive, FileIsOneMoment, FileNotAhead,
         FinalSaveCovers, Idle, FromConfig
<1> QED
  BY <1>1, <1>2, <1>3 DEF IInv

\* While one saver saves, the other is idle: the thread is joined first.
LEMMA SaverAlone ==
  ASSUME TypeOK, Places
  PROVE  /\ OneSaver
         /\ \A a, b \in Savers : save[a] # "idle" /\ save[b] # "idle" => a = b
         /\ \A a \in Savers : save[a] # "idle" =>
              /\ owner \notin {"constructed", "loaded", "stopped"}
              /\ a = "owner" => owner = "saving"
              /\ a = "thread" => thread = "saving" /\ owner \in {"started", "joining"}
BY DEF TypeOK, Places, OneSaver

-----------------------------------------------------------------------------
(* Types. *)

\* The return from save() keeps the types of what it changes.
LEMMA ReturnTypes ==
  ASSUME TypeOK, NEW a \in Savers, NEW ok \in BOOLEAN, Return(a, ok)
  PROVE  /\ save' \in [Savers -> {"idle", "open", "list", "write", "rename"}]
         /\ left' \in [Savers -> SUBSET [name : Names, version : 1..MaxVersion]]
         /\ broken' \in [Savers -> BOOLEAN]
         /\ owner' \in {"constructed", "loaded", "started", "joining", "saving",
                        "stopped"}
         /\ thread' \in {"none", "loop", "saving", "done"}
         /\ finalOk' \in BOOLEAN
         /\ UNCHANGED <<live, running, listed, atStop, runs>>
BY DEF TypeOK, Return

\* Every step keeps the type invariant.
LEMMA TypeStep == TypeOK /\ [Next]_vars => TypeOK'
<1> SUFFICES ASSUME TypeOK, [Next]_vars PROVE TypeOK'
  OBVIOUS
<1> USE DEF TypeOK
<1>1. CASE Relaunch
  <2>1. runs' \in 1..MaxRuns
    BY <1>1 DEF Relaunch
  <2> QED
    BY <1>1, <2>1, InitialMaps, InitialSavers DEF Relaunch, files
<1>2. CASE \E n \in Names : Update(n)
  BY <1>2 DEF Update, Maps, files, saving, history
<1>3. CASE Load
  BY <1>3 DEF Load, Maps, files, saving, history
<1>4. CASE Start \/ StopBegin \/ StopJoin \/ LoopSaves \/ LoopEnds
  BY <1>4 DEF Start, StopBegin, StopJoin, LoopSaves, LoopEnds, files, saving, history
<1>5. ASSUME NEW a \in Savers, Save(a) PROVE TypeOK'
  <2>1. CASE SaveOpens(a)
    BY <2>1, InitialMaps DEF SaveOpens, history
  <2>2. CASE SaveLists(a)
    <3>1. PointersNow \subseteq [name : Names, version : 1..MaxVersion]
      BY DEF PointersNow, Maps
    <3> QED
      BY <2>2, <3>1 DEF SaveLists, files
  <2>3. CASE SaveWrites(a)
    <3>1. tmp' \in Maps
      BY <2>3 DEF SaveWrites, Maps
    <3> QED
      BY <2>3, <3>1 DEF SaveWrites, history
  <2>4. CASE SaveCloses(a)
    BY <2>4 DEF SaveCloses, files, history
  <2>5. CASE SaveCannotOpen(a) \/ SaveCannotFlush(a) \/ SaveCannotRename(a)
    BY <2>5, ReturnTypes DEF SaveCannotOpen, SaveCannotFlush, SaveCannotRename, files
  <2>6. CASE SaveRenames(a)
    BY <2>6, ReturnTypes, InitialMaps DEF SaveRenames
  <2> QED
    BY <1>5, <2>1, <2>2, <2>3, <2>4, <2>5, <2>6 DEF Save
<1>6. CASE UNCHANGED vars
  BY <1>6 DEF vars, files, saving, history
<1> QED
  BY <1>1, <1>2, <1>3, <1>4, <1>5, <1>6 DEF Next

-----------------------------------------------------------------------------
(* The owner's and the thread's steps outside a save. *)

\* The steps outside save() keep the invariant: a relaunch, the load, an
\* update, start(), stop() and the loop of the thread.
LEMMA OutsideStep ==
  ASSUME IInv, TypeOK',
         \/ Relaunch \/ Load \/ Start \/ StopBegin \/ StopJoin
         \/ LoopSaves \/ LoopEnds \/ UNCHANGED vars
         \/ \E n \in Names : Update(n)
  PROVE  IInv'
<1> USE DEF IInv
<1>1. Places'
  <2> USE DEF Places, TypeOK
  <2>1. CASE Relaunch
    BY <2>1, InitialSavers DEF Relaunch
  <2>2. CASE Load
    BY <2>2 DEF Load, saving
  <2>3. CASE Start
    BY <2>3 DEF Start, saving
  <2>4. CASE StopBegin
    BY <2>4 DEF StopBegin, saving
  <2>5. CASE StopJoin
    BY <2>5 DEF StopJoin
  <2>6. CASE LoopSaves
    BY <2>6 DEF LoopSaves
  <2>7. CASE LoopEnds \/ UNCHANGED vars \/ \E n \in Names : Update(n)
    BY <2>7 DEF LoopEnds, Update, vars, saving
  <2> QED
    BY <2>1, <2>2, <2>3, <2>4, <2>5, <2>6, <2>7
<1>2. SaveInv'
  <2> USE DEF SaveInv
  <2>1. CASE Relaunch
    BY <2>1 DEF Relaunch, Idle, Cleared, PointersListed, Filled, RenameReady,
                ListedFits, InUse
  <2>2. CASE Load
    <3>1. \A a \in Savers : save[a] = "idle"
      BY <2>2, SaverAlone DEF Load
    <3> QED
      BY <2>2, <3>1 DEF Load, Cleared, PointersListed, Filled, RenameReady,
                ListedFits, InUse, files, saving, history
  <2>3. CASE StopJoin
    <3>1. \A a \in Savers : save[a] = "idle"
      BY <2>3 DEF StopJoin, Places, TypeOK
    <3>2. \A a \in Savers : save'[a] \in {"idle", "open"}
      BY <2>3, <3>1 DEF StopJoin, TypeOK
    <3> QED
      BY <3>2 DEF Cleared, PointersListed, Filled, RenameReady, ListedFits, InUse
  <2>4. CASE LoopSaves
    <3>1. \A a \in Savers : save[a] = "idle"
      BY <2>4 DEF LoopSaves, Places, TypeOK
    <3>2. \A a \in Savers : save'[a] \in {"idle", "open"}
      BY <2>4, <3>1 DEF LoopSaves, TypeOK
    <3> QED
      BY <3>2 DEF Cleared, PointersListed, Filled, RenameReady, ListedFits, InUse
  <2>5. CASE Start \/ LoopEnds \/ UNCHANGED vars
    BY <2>5 DEF Start, LoopEnds, Cleared, PointersListed, Filled, RenameReady,
                ListedFits, InUse, ToWrite, vars, files, saving, history
  <2>6. CASE StopBegin
    <3>1. save["owner"] = "idle"
      BY <2>6 DEF StopBegin, Places, TypeOK
    <3> QED
      BY <2>6, <3>1 DEF StopBegin, Cleared, PointersListed, Filled, RenameReady,
                ListedFits, InUse, ToWrite, files, saving, history
  <2>7. ASSUME NEW n \in Names, Update(n) PROVE SaveInv'
    <3>1. \A m \in Names : live[m] <= live'[m] /\ live[m] \in Nat /\ live'[m] \in Nat
      BY <2>7, MapsNat DEF Update, TypeOK, Maps
    <3>2. \A a \in Savers, m \in Names : listed[a][m] \in Nat
      BY MapsNat DEF TypeOK
    <3> QED
      BY <2>7, <3>1, <3>2 DEF Update, Cleared, PointersListed, Filled, RenameReady,
                ListedFits, InUse, ToWrite, files, saving, history
  <2> QED
    BY <2>1, <2>2, <2>3, <2>4, <2>5, <2>6, <2>7
<1>3. StopCut' /\ ConfiguredLive' /\ FileIsOneMoment' /\ FileNotAhead' /\ FinalSaveCovers'
  <2> USE DEF StopCut, ConfiguredLive, FileIsOneMoment, FileNotAhead, FinalSaveCovers
  <2>1. CASE Relaunch
    BY <2>1 DEF Relaunch, FromConfig, files
  <2>2. CASE Load
    <3>1. \A n \in Names : path[n] \in Nat /\ live[n] \in Nat
      BY MapsNat DEF TypeOK
    <3> QED
      BY <2>2, <3>1 DEF Load, Parsed, files, history
  <2>3. CASE StopBegin
    <3>1. \A n \in Names : live[n] \in Nat
      BY MapsNat DEF TypeOK
    <3> QED
      BY <2>3, <3>1 DEF StopBegin, files, history
  <2>4. CASE Start \/ StopJoin \/ LoopSaves \/ LoopEnds \/ UNCHANGED vars
    BY <2>4 DEF Start, StopJoin, LoopSaves, LoopEnds, vars, files, history
  <2>5. ASSUME NEW n \in Names, Update(n)
        PROVE  StopCut' /\ ConfiguredLive' /\ FileIsOneMoment' /\ FileNotAhead'
               /\ FinalSaveCovers'
    <3>1. \A m \in Names : live[m] <= live'[m] /\ live[m] \in Nat /\ live'[m] \in Nat
                           /\ path[m] \in Nat /\ atStop[m] \in Nat
      BY <2>5, MapsNat DEF Update, TypeOK, Maps
    <3> QED
      BY <2>5, <3>1 DEF Update, Parsed, files, history
  <2> QED
    BY <2>1, <2>2, <2>3, <2>4, <2>5
<1> QED
  BY <1>1, <1>2, <1>3

-----------------------------------------------------------------------------
(* The steps of a save. *)

\* While a saves, the other saver is idle: what holds of a after the step
\* holds of both.
LEMMA SaverOnly ==
  ASSUME TypeOK, Places, NEW a \in Savers, save[a] # "idle", TypeOK',
         \A b \in Savers : b # a => save'[b] = save[b]
  PROVE  \A b \in Savers : b # a => save'[b] = "idle"
BY SaverAlone

\* A save() that gives up keeps it: the file is as it was.
LEMMA ReturnStep ==
  ASSUME IInv, TypeOK', NEW a \in Savers, NEW ok \in BOOLEAN,
         save[a] # "idle", Return(a, ok)
  PROVE  /\ Places' /\ SaveInv' /\ StopCut' /\ ConfiguredLive'
         /\ UNCHANGED <<live, atStop>>
         /\ owner # "constructed" /\ owner' # "constructed"
         /\ owner' = "stopped" => a = "owner" /\ finalOk' = ok
<1> USE DEF IInv
<1>1. \A b \in Savers : save'[b] = "idle"
  BY SaverAlone DEF Return, TypeOK
<1>2. SaveInv'
  BY <1>1 DEF SaveInv, Cleared, PointersListed, Filled, RenameReady, ListedFits, InUse
<1>3. /\ owner # "constructed" /\ owner' # "constructed"
      /\ owner' = "stopped" => a = "owner" /\ finalOk' = ok
  BY SaverAlone DEF Return, TypeOK, Places
<1>4. Places'
  <2>1. CASE a = "thread"
    BY <2>1, <1>1, SaverAlone DEF Return, Places, TypeOK
  <2>2. CASE a = "owner"
    BY <2>2, <1>1, SaverAlone DEF Return, Places, TypeOK
  <2> QED
    BY <2>1, <2>2
<1>5. StopCut' /\ ConfiguredLive' /\ UNCHANGED <<live, atStop>>
  BY SaverAlone DEF Return, StopCut, ConfiguredLive, Places, TypeOK
<1> QED
  BY <1>2, <1>3, <1>4, <1>5

\* The steps of save() keep it; the rename puts the listed registry in place.
LEMMA SaveStep ==
  ASSUME IInv, TypeOK', NEW a \in Savers, Save(a)
  PROVE  IInv'
<1> USE DEF IInv
<1>0. save[a] # "idle"
  BY DEF Save, SaveOpens, SaveLists, SaveWrites, SaveCloses, SaveRenames,
         SaveCannotOpen, SaveCannotFlush, SaveCannotRename
<1>a. \A b \in Savers : b # a => save[b] = "idle"
  BY <1>0, SaverAlone
<1>b. owner \notin {"constructed", "loaded", "stopped"}
  BY <1>0, SaverAlone
<1>c. \A n \in Names : /\ live[n] \in Nat /\ path[n] \in Nat /\ atStop[n] \in Nat
                       /\ tmp[n] \in Nat /\ listed[a][n] \in Nat
  BY MapsNat DEF TypeOK
<1>1. CASE SaveOpens(a)
  <2>1. /\ save'[a] = "list" /\ \A b \in Savers : b # a => save'[b] = "idle"
        /\ UNCHANGED <<path, live, running, owner, thread, left, broken, history>>
    BY <1>1, <1>a DEF SaveOpens, TypeOK
  <2>2. \A n \in Names : tmp'[n] = 0
    BY <1>1 DEF SaveOpens, Nothing
  <2>3. SaveInv'
    BY <2>1, <2>2 DEF SaveInv, Cleared, PointersListed, Filled, RenameReady,
                      ListedFits, InUse
  <2>4. Places'
    BY <2>1, <1>0, <1>a DEF Places
  <2> QED
    BY <2>1, <2>3, <2>4 DEF StopCut, ConfiguredLive, FileIsOneMoment, FileNotAhead,
                            FinalSaveCovers, history
<1>2. CASE SaveLists(a)
  <2>1. /\ save[a] = "list" /\ save'[a] = "write"
        /\ \A b \in Savers : b # a => save'[b] = "idle"
        /\ left'[a] = PointersNow /\ listed'[a] = live
        /\ UNCHANGED <<path, tmp, live, running, owner, thread, broken, cut,
                       atStop, finalOk>>
    BY <1>2, <1>a DEF SaveLists, TypeOK, files
  <2>2. \A p \in left'[a] : p.version = listed'[a][p.name]
    BY <2>1 DEF PointersNow
  <2>3. \A n \in Names : ToWrite(a, n)' <=> live[n] # 0
    <3> TAKE n \in Names
    <3>1. ToWrite(a, n)' <=> \E p \in PointersNow : p.name = n
      BY <2>1 DEF ToWrite
    <3>2. (\E p \in PointersNow : p.name = n) => live[n] # 0
      BY DEF PointersNow
    <3>3. ASSUME live[n] # 0 PROVE \E p \in PointersNow : p.name = n
      <4>1. [name |-> n, version |-> live[n]] \in PointersNow
        BY <3>3 DEF PointersNow
      <4> QED
        BY <4>1
    <3> QED
      BY <3>1, <3>2, <3>3
  <2>4. \A n \in Names : tmp[n] = 0
    BY <2>1 DEF SaveInv, Cleared
  <2>5. (a = "owner" => \A n \in Names : atStop[n] <= live[n])
    BY <1>0, SaverAlone DEF StopCut
  <2>6. \A n \in Parsed : path[n] <= live[n]
    BY <1>b DEF FileNotAhead
  <2>7. Cleared' /\ RenameReady' /\ PointersListed'
    BY <2>1, <2>2 DEF Cleared, RenameReady, PointersListed, InUse
  <2>8. Filled'
    BY <2>1, <2>3, <2>4 DEF Filled, InUse
  <2>9. ListedFits'
    BY <2>1, <2>5, <2>6, <1>c DEF ListedFits, InUse, ConfiguredLive
  <2>10. Places'
    BY <2>1, <1>0, <1>a DEF Places
  <2> QED
    BY <2>1, <2>7, <2>8, <2>9, <2>10
       DEF SaveInv, StopCut, ConfiguredLive, FileIsOneMoment, FileNotAhead,
           FinalSaveCovers
<1>3. CASE SaveWrites(a)
  <2>1. PICK p \in left[a], fails \in {FALSE, Faults} :
          /\ left' = [left EXCEPT ![a] = @ \ {p}]
          /\ broken' = [broken EXCEPT ![a] = @ \/ fails]
          /\ tmp' = IF broken[a] \/ fails THEN tmp
                    ELSE [tmp EXCEPT ![p.name] = p.version]
    BY <1>3 DEF SaveWrites
  <2>2. /\ save[a] = "write" /\ save' = save
        /\ UNCHANGED <<path, live, running, owner, thread, history>>
    BY <1>3 DEF SaveWrites
  <2>3. /\ left'[a] = left[a] \ {p} /\ broken'[a] = (broken[a] \/ fails)
        /\ p.name \in Names /\ p.version \in Nat
        /\ p = [name |-> p.name, version |-> p.version]
        /\ \A q \in left[a] : q.name \in Names /\ q.version \in Nat
                              /\ q = [name |-> q.name, version |-> q.version]
    BY <2>1 DEF TypeOK
  <2>4. \A q \in left[a] : q.version = listed[a][q.name]
    BY <2>2 DEF SaveInv, PointersListed, InUse
  <2>5. \A q \in left[a] : q.name = p.name => q = p
    BY <2>3, <2>4
  <2>6. \A n \in Names : ToWrite(a, n)' <=> ToWrite(a, n) /\ n # p.name
    BY <2>3, <2>5 DEF ToWrite
  <2>7. Cleared' /\ RenameReady' /\ ListedFits'
    BY <2>2, <1>a DEF SaveInv, Cleared, RenameReady, ListedFits, InUse, history
  <2>8. PointersListed'
    BY <2>2, <2>3, <2>4, <1>a DEF PointersListed, InUse, history
  <2>9. Filled'
    <3> SUFFICES ASSUME NEW n \in Names, ~broken'[a]
                 PROVE  /\ ToWrite(a, n)'  => tmp'[n] = 0
                        /\ ~ToWrite(a, n)' => tmp'[n] = listed'[a][n]
      BY <2>2, <1>a DEF Filled, InUse
    <3>1. ~broken[a] /\ tmp' = [tmp EXCEPT ![p.name] = p.version]
      BY <2>1, <2>3
    <3>2. /\ ToWrite(a, n)  => tmp[n] = 0
          /\ ~ToWrite(a, n) => tmp[n] = listed[a][n]
      BY <3>1, <2>2 DEF SaveInv, Filled, InUse
    <3>3. CASE n = p.name
      BY <3>1, <3>3, <2>2, <2>4, <2>6, <2>1 DEF TypeOK, Maps, history
    <3>4. CASE n # p.name
      BY <3>1, <3>2, <3>4, <2>2, <2>6 DEF TypeOK, Maps, history
    <3> QED
      BY <3>3, <3>4
  <2> QED
    BY <2>2, <2>7, <2>8, <2>9
       DEF SaveInv, Places, StopCut, ConfiguredLive, FileIsOneMoment, FileNotAhead,
           FinalSaveCovers, history
<1>4. CASE SaveCloses(a)
  <2>1. /\ save[a] = "write" /\ save'[a] = "rename" /\ left[a] = {} /\ ~broken[a]
        /\ \A b \in Savers : b # a => save'[b] = "idle"
        /\ UNCHANGED <<path, tmp, live, running, owner, thread, left, broken, history>>
    BY <1>4, <1>a DEF SaveCloses, TypeOK, files
  <2>2. SaveInv'
    BY <2>1 DEF SaveInv, Cleared, PointersListed, Filled, RenameReady, ListedFits,
                InUse, ToWrite, history
  <2>3. Places'
    BY <2>1, <1>0, <1>a DEF Places
  <2> QED
    BY <2>1, <2>2, <2>3 DEF StopCut, ConfiguredLive, FileIsOneMoment, FileNotAhead,
                            FinalSaveCovers, history
<1>5. CASE SaveCannotOpen(a) \/ SaveCannotFlush(a) \/ SaveCannotRename(a)
  <2>1. Return(a, FALSE) /\ UNCHANGED <<path, cut>>
    BY <1>5 DEF SaveCannotOpen, SaveCannotFlush, SaveCannotRename, files
  <2> QED
    BY <2>1, <1>0, ReturnStep DEF FileIsOneMoment, FileNotAhead, FinalSaveCovers
<1>6. CASE SaveRenames(a)
  <2>1. /\ save[a] = "rename" /\ Return(a, TRUE)
        /\ path' = tmp /\ cut' = listed[a]
    BY <1>6 DEF SaveRenames
  <2>2. /\ Places' /\ SaveInv' /\ StopCut' /\ ConfiguredLive'
        /\ UNCHANGED <<live, atStop>>
        /\ owner' = "stopped" => a = "owner"
    BY <2>1, <1>0, ReturnStep
  <2>3. \A n \in Names : tmp[n] = listed[a][n]
    BY <2>1 DEF SaveInv, Filled, RenameReady, InUse, ToWrite
  <2>4. tmp = listed[a]
    BY <2>3 DEF TypeOK, Maps
  <2>5. \A n \in Names : /\ listed[a][n] <= live[n]
                         /\ a = "owner" => atStop[n] <= listed[a][n]
    BY <2>1 DEF SaveInv, ListedFits, InUse
  <2> QED
    BY <2>1, <2>2, <2>4, <2>5 DEF FileIsOneMoment, FileNotAhead, FinalSaveCovers, Parsed
<1> QED
  BY <1>1, <1>2, <1>3, <1>4, <1>5, <1>6 DEF Save

-----------------------------------------------------------------------------
\* Every step keeps the invariant.
LEMMA InvariantStep == IInv /\ [Next]_vars => IInv'
<1> SUFFICES ASSUME IInv, [Next]_vars PROVE IInv'
  OBVIOUS
<1>1. TypeOK'
  BY TypeStep DEF IInv
<1>2. CASE \E a \in Savers : Save(a)
  BY <1>1, <1>2, SaveStep
<1>3. CASE ~\E a \in Savers : Save(a)
  BY <1>1, <1>3, OutsideStep DEF Next
<1> QED
  BY <1>2, <1>3

\* The inductive invariant holds in every state of the store (snapshot.cpp).
THEOREM Invariance == Spec => []IInv
<1>1. Init => IInv
  BY InitHolds
<1>2. IInv /\ [Next]_vars => IInv'
  BY InvariantStep
<1> QED
  BY <1>1, <1>2, PTL DEF Spec

\* The type invariant holds for any set of names, with any faults and launches.
THEOREM TypeCorrect == Spec => []TypeOK
BY Invariance, PTL DEF IInv

\* The thread and the owner never save at the same time, so neither writes
\* into the other's temporary file.
THEOREM SavesExclude == Spec => []OneSaver
<1>1. IInv => OneSaver
  BY SaverAlone DEF IInv
<1> QED
  BY <1>1, Invariance, PTL

\* The file is always the registry of one moment, whatever fails and whenever
\* the process ends.
THEOREM Consistent == Spec => []FileIsOneMoment
BY Invariance, PTL DEF IInv

\* The file is never ahead of the registry loaded from it.
THEOREM NotAhead == Spec => []FileNotAhead
BY Invariance, PTL DEF IInv

\* A successful last save has every update made before stop() was called.
THEOREM FinalSave == Spec => []FinalSaveCovers
BY Invariance, PTL DEF IInv

-----------------------------------------------------------------------------
(* Steps of the file. *)

\* A step that changes the file renames, and no parsed name goes back.
LEMMA PathStep ==
  ASSUME IInv, [Next]_vars
  PROVE  \/ path' = path
         \/ /\ owner # "constructed" /\ owner' # "constructed" /\ live' = live
            /\ \A n \in Names : path'[n] <= live[n]
            /\ \A n \in Parsed : path[n] <= path'[n]
            /\ \A n \in Configured : path'[n] # 0
<1> USE DEF IInv
<1>1. CASE \E a \in Savers : SaveRenames(a)
  <2>1. PICK a \in Savers : SaveRenames(a)
    BY <1>1
  <2>2. save[a] = "rename" /\ path' = tmp /\ Return(a, TRUE)
    BY <2>1 DEF SaveRenames
  <2>3. \A n \in Names : tmp[n] = listed[a][n]
    BY <2>2 DEF SaveInv, Filled, RenameReady, InUse, ToWrite
  <2>4. \A n \in Names : /\ listed[a][n] <= live[n]
                         /\ n \in Parsed => path[n] <= listed[a][n]
                         /\ n \in Configured => listed[a][n] # 0
    BY <2>2 DEF SaveInv, ListedFits, InUse
  <2>5. owner # "constructed" /\ owner' # "constructed" /\ live' = live
    BY <2>2, SaverAlone DEF Return
  <2> QED
    BY <2>2, <2>3, <2>4, <2>5 DEF Parsed
<1>2. CASE ~\E a \in Savers : SaveRenames(a)
  BY <1>2 DEF Next, Relaunch, Update, Load, Start, StopBegin, StopJoin, LoopSaves,
     LoopEnds, Save, SaveOpens, SaveLists, SaveWrites, SaveCloses, SaveCannotOpen,
     SaveCannotFlush, SaveCannotRename, vars, files
<1> QED
  BY <1>1, <1>2

\* No metric in the file goes back or disappears, over crashes and restarts.
THEOREM Monotone == Spec => FileNeverGoesBack
<1>1. IInv /\ [Next]_vars => [\A n \in Parsed : path[n] <= path'[n]]_path
  BY PathStep
<1> QED
  BY <1>1, Invariance, PTL DEF Spec, FileNeverGoesBack

-----------------------------------------------------------------------------
(* Refinement. *)

\* An initial state of the store is one of the checkpoint.
LEMMA CheckpointInits == Init => Checkpoint!CheckpointInit
BY DEF Init, Checkpoint!CheckpointInit, FromConfig, Checkpoint!FromConfig, Nothing

\* A step of the store is one of the checkpoint, or stutters.
LEMMA CheckpointSteps ==
  IInv /\ TypeOK' /\ [Next]_vars
    => [Checkpoint!CheckpointNext]_(Checkpoint!checkpointVars)
<1> SUFFICES ASSUME IInv, TypeOK', [Next]_vars
             PROVE  Checkpoint!CheckpointNext \/ UNCHANGED Checkpoint!checkpointVars
  OBVIOUS
<1> USE DEF Checkpoint!checkpointVars
<1>1. CASE path' # path
  <2>1. Checkpoint!Advance
    BY <1>1, PathStep DEF Checkpoint!Advance, Checkpoint!Versions, Checkpoint!Parsed,
                          Parsed, TypeOK, Maps
  <2> QED
    BY <2>1 DEF Checkpoint!CheckpointNext
<1>2. CASE Relaunch
  <2>1. Checkpoint!Lose
    BY <1>2 DEF Relaunch, Checkpoint!Lose, FromConfig, Checkpoint!FromConfig, files
  <2> QED
    BY <2>1 DEF Checkpoint!CheckpointNext
<1>3. ASSUME NEW n \in Names, Update(n) PROVE Checkpoint!CheckpointNext
  <2>1. Checkpoint!Update(n)
    BY <1>3 DEF Update, Checkpoint!Update, files
  <2> QED
    BY <2>1 DEF Checkpoint!CheckpointNext
<1>4. CASE Load
  <2>1. Checkpoint!Recover
    BY <1>4 DEF Load, Checkpoint!Recover, Parsed, Checkpoint!Parsed, files
  <2> QED
    BY <2>1 DEF Checkpoint!CheckpointNext
<1>5. CASE Start \/ StopBegin \/ StopJoin \/ LoopSaves \/ LoopEnds \/ UNCHANGED vars
  BY <1>5 DEF Start, StopBegin, StopJoin, LoopSaves, LoopEnds, vars, files
<1>6. ASSUME NEW a \in Savers, Save(a), path' = path
      PROVE  UNCHANGED Checkpoint!checkpointVars
  <2>1. owner # "constructed" /\ live' = live
    BY <1>6, SaverAlone DEF IInv, Save, SaveOpens, SaveLists, SaveWrites, SaveCloses,
       SaveRenames, SaveCannotOpen, SaveCannotFlush, SaveCannotRename, Return
  <2>2. owner' # "constructed"
    BY <1>6, <2>1 DEF Save, SaveOpens, SaveLists, SaveWrites, SaveCloses,
       SaveRenames, SaveCannotOpen, SaveCannotFlush, SaveCannotRename, Return
  <2> QED
    BY <1>6, <2>1, <2>2
<1> QED
  BY <1>1, <1>2, <1>3, <1>4, <1>5, <1>6 DEF Next

\* The store, with its steps, faults and crashes, implements the checkpoint.
THEOREM Implementation == Spec => ImplementsCheckpoint
<1>1. IInv /\ [Next]_vars => TypeOK'
  BY TypeStep DEF IInv
<1> QED
  BY <1>1, CheckpointInits, CheckpointSteps, Invariance, PTL
     DEF Spec, ImplementsCheckpoint, Checkpoint!Spec
=============================================================================
