------------------------ MODULE ScrapeScheduler_proofs ------------------------
(***************************************************************************)
(* Proofs about ScrapeScheduler, for every number of targets and workers.  *)
(***************************************************************************)
EXTENDS ScrapeScheduler, TLAPS, SequenceTheorems, FiniteSetTheorems

-----------------------------------------------------------------------------
(* The inductive invariant. *)

\* A worker has a target exactly while it scrapes and releases it.
JobMatchesPlace ==
  \A w \in Workers : (job[w] # NoTarget) <=> (wpc[w] \in {"scraping", "counted"})

\* Whoever is in the queue or with a worker is flagged, and was due.
FlagsSound == Queued \cup Held \subseteq inFlight /\ inFlight \subseteq due

\* How far the owner is says what the threads it starts and joins may do.
ThreadsMatchOwner ==
  /\ running <=> main = "started"
  /\ starts = 0 => main \in {"idle", "destroyed"}
  /\ dpc = "none" <=> main \in {"idle", "destroyed", "joinWorkers"}
  /\ dpc \in {"lastNotify", "done"} => ~running
  /\ main \in {"idle", "destroyed"} => /\ queue = <<>>
                                       /\ \A w \in Workers : wpc[w] = "none"

IInv ==
  /\ TypeOK
  /\ JobMatchesPlace
  /\ FlagsSound
  /\ SingleFlight
  /\ FlagsExact
  /\ NoSleeperBesideWork
  /\ ThreadsMatchOwner

-----------------------------------------------------------------------------
(* Sequences without repetition, as the queue is one. *)

\* Taking the front of a queue without repetition removes one element.
LEMMA TailElements ==
  ASSUME NEW S, NEW q \in Seq(S), q # <<>>, Distinct(q)
  PROVE  /\ Tail(q) \in Seq(S)
         /\ Head(q) \in S
         /\ Distinct(Tail(q))
         /\ Head(q) \in Elements(q)
         /\ Elements(Tail(q)) = Elements(q) \ {Head(q)}
<1>1. /\ Tail(q) \in Seq(S) /\ Head(q) \in S
      /\ Len(q) \in Nat \ {0}
      /\ Len(Tail(q)) = Len(q) - 1
      /\ Head(q) = q[1]
      /\ \A i \in 1..Len(Tail(q)) : Tail(q)[i] = q[i+1]
  BY HeadTailProperties, EmptySeq, LenProperties
<1>2. Distinct(Tail(q))
  <2> SUFFICES ASSUME NEW i \in 1..Len(Tail(q)), NEW j \in 1..Len(Tail(q)),
                      Tail(q)[i] = Tail(q)[j]
               PROVE  i = j
    BY DEF Distinct
  <2>1. q[i+1] = q[j+1] /\ i+1 \in 1..Len(q) /\ j+1 \in 1..Len(q)
    BY <1>1
  <2> QED BY <2>1 DEF Distinct
<1>3. Head(q) \in Elements(q)
  BY <1>1 DEF Elements
<1>4. ASSUME NEW x \in Elements(Tail(q)) PROVE x \in Elements(q) \ {Head(q)}
  <2>1. PICK i \in 1..Len(Tail(q)) : x = Tail(q)[i]
    BY DEF Elements
  <2>2. x = q[i+1] /\ i+1 \in 1..Len(q) /\ i+1 # 1
    BY <1>1, <2>1
  <2> QED BY <1>1, <2>2 DEF Elements, Distinct
<1>5. ASSUME NEW x \in Elements(q) \ {Head(q)} PROVE x \in Elements(Tail(q))
  <2>1. PICK i \in 1..Len(q) : x = q[i]
    BY DEF Elements
  <2>2. i # 1 /\ i-1 \in 1..Len(Tail(q))
    BY <1>1, <2>1
  <2>3. Tail(q)[i-1] = q[(i-1)+1] /\ (i-1)+1 = i
    BY <1>1, <2>2
  <2> QED BY <2>1, <2>2, <2>3 DEF Elements
<1> QED BY <1>1, <1>2, <1>3, <1>4, <1>5

\* Appending a listing of targets outside the queue keeps it distinct.
LEMMA ConcatElements ==
  ASSUME NEW S, NEW C, NEW q, NEW n, NEW s,
         q \in Seq(S), Distinct(q), C \subseteq S, C \subseteq Nat,
         n \in Nat, s \in [1..n -> C], ListsInOrder(s, C),
         Elements(q) \cap C = {}
  PROVE  /\ q \o s \in Seq(S)
         /\ Distinct(q \o s)
         /\ \A x : x \in Elements(q \o s) <=> x \in Elements(q) \/ x \in C
<1>1. s \in Seq(C) /\ s \in Seq(S) /\ Len(s) = n /\ DOMAIN s = 1..n
  <2>1. s \in Seq(C)
    BY SeqDef
  <2>2. s \in Seq(S)
    BY <2>1, SeqMonotonic
  <2>3. Len(s) \in Nat /\ DOMAIN s = 1..Len(s) /\ DOMAIN s = 1..n
    BY <2>1, LenProperties
  <2> QED BY <2>1, <2>2, <2>3
<1>2. /\ q \o s \in Seq(S)
      /\ Len(q \o s) = Len(q) + n
      /\ Len(q) \in Nat
      /\ \A i \in 1..(Len(q) + n) :
            (q \o s)[i] = IF i <= Len(q) THEN q[i] ELSE s[i - Len(q)]
  <2>1. Len(q) \in Nat
    BY LenProperties
  <2>2. /\ q \o s \in Seq(S)
        /\ Len(q \o s) = Len(q) + Len(s)
        /\ \A i \in 1..(Len(q) + Len(s)) :
              (q \o s)[i] = IF i <= Len(q) THEN q[i] ELSE s[i - Len(q)]
    BY <1>1, ConcatProperties, Zenon
  <2> QED BY <1>1, <2>1, <2>2
<1>3. \A i, j \in 1..n : s[i] = s[j] => i = j
  <2> SUFFICES ASSUME NEW i \in 1..n, NEW j \in 1..n, i < j
               PROVE  s[i] # s[j]
    OBVIOUS
  <2>1. s[i] \in Nat /\ s[j] \in Nat /\ s[i] < s[j]
    BY <1>1 DEF ListsInOrder
  <2> QED BY <2>1
<1>4. Distinct(q \o s)
  <2> SUFFICES ASSUME NEW i \in 1..(Len(q) + n), NEW j \in 1..(Len(q) + n),
                      (q \o s)[i] = (q \o s)[j]
               PROVE  i = j
    BY <1>2 DEF Distinct
  <2>1. CASE i <= Len(q) /\ j <= Len(q)
    BY <1>2, <2>1 DEF Distinct
  <2>2. CASE i > Len(q) /\ j > Len(q)
    BY <1>2, <1>3, <2>2
  <2>3. CASE i <= Len(q) /\ j > Len(q)
    BY <1>2, <2>3 DEF Elements
  <2>4. CASE i > Len(q) /\ j <= Len(q)
    BY <1>2, <2>4 DEF Elements
  <2> QED BY <1>2, <2>1, <2>2, <2>3, <2>4
<1>5. ASSUME NEW x \in Elements(q \o s) PROVE x \in Elements(q) \/ x \in C
  <2>1. PICK i \in 1..(Len(q) + n) : x = (q \o s)[i]
    BY <1>2 DEF Elements
  <2> QED BY <1>2, <2>1 DEF Elements
<1>6. ASSUME NEW x \in Elements(q) PROVE x \in Elements(q \o s)
  <2>1. PICK i \in 1..Len(q) : x = q[i]
    BY DEF Elements
  <2>2. i \in 1..Len(q \o s) /\ (q \o s)[i] = x
    BY <1>2, <2>1
  <2> QED BY <2>2 DEF Elements
<1>7. ASSUME NEW x \in C PROVE x \in Elements(q \o s)
  <2>1. PICK i \in 1..n : s[i] = x
    BY <1>1 DEF ListsInOrder
  <2>2. i + Len(q) \in 1..Len(q \o s) /\ (q \o s)[i + Len(q)] = x
    BY <1>2, <2>1
  <2> QED BY <2>2 DEF Elements
<1> QED BY <1>2, <1>4, <1>5, <1>6, <1>7

-----------------------------------------------------------------------------
(* The invariant is inductive. *)

\* A scheduler that is constructed satisfies the invariant.
LEMMA InitInv == Init => IInv
<1> SUFFICES ASSUME Init PROVE IInv
  OBVIOUS
<1>1. TypeOK
  <2>1. 0 \in 0..MaxStarts /\ 0 \in 0..(StatModulus - 1)
    BY ConstantsAssumption
  <2>2. queue \in Seq(Targets)
    BY EmptySeq DEF Init
  <2> QED
    BY <2>1, <2>2 DEF Init, TypeOK, WorkerPlaces, DispatcherPlaces, MainPlaces,
                      NoTarget
<1>2. Queued = {} /\ Held = {}
  <2>1. \A i \in 1..Len(queue) : FALSE
    BY EmptySeq DEF Init
  <2>2. Queued = {}
    BY <2>1 DEF Queued, Elements
  <2> QED BY <2>2 DEF Init, Held
<1> QED
  BY <1>1, <1>2
     DEF Init, IInv, JobMatchesPlace, FlagsSound, SingleFlight, QueueDistinct,
         Distinct, JobsDistinct, QueueApartFromJobs, FlagsExact,
         NoSleeperBesideWork, ThreadsMatchOwner, NoTarget

\* Steps that move threads but touch neither the queue nor a target.
LEMMA ControlStepInv ==
  ASSUME IInv,
         \/ StopClearRunning \/ StopNotify \/ StopJoinDispatcher \/ Destroy
         \/ DispatcherCheck \/ DispatcherNotify \/ DispatcherLastNotify
         \/ \E w \in Workers : \/ WorkerExit(w) \/ WorkerWillBlock(w)
                                \/ WorkerBlock(w) \/ SpuriousWake(w)
  PROVE  IInv'
<1> USE DEF IInv
<1>1. /\ UNCHANGED <<queue, inFlight, due, job, starts>>
      /\ Queued' = Queued /\ Held' = Held
  BY DEF StopClearRunning, StopNotify, StopJoinDispatcher, Destroy,
         DispatcherCheck, DispatcherNotify, DispatcherLastNotify, WorkerExit,
         WorkerWillBlock, WorkerBlock, SpuriousWake, Queued, Held
<1>2. TypeOK'
  BY DEF TypeOK, StopClearRunning, StopNotify, StopJoinDispatcher, Destroy,
         DispatcherCheck, DispatcherNotify, DispatcherLastNotify, WorkerExit,
         WorkerWillBlock, WorkerBlock, SpuriousWake, Notified, WorkerPlaces,
         DispatcherPlaces, MainPlaces
<1>3. \A w \in Workers : wpc'[w] \in {"scraping", "counted"}
                         <=> wpc[w] \in {"scraping", "counted"}
  BY DEF TypeOK, StopClearRunning, StopNotify, StopJoinDispatcher, Destroy,
         DispatcherCheck, DispatcherNotify, DispatcherLastNotify, WorkerExit,
         WorkerWillBlock, WorkerBlock, SpuriousWake, Notified
<1>4. JobMatchesPlace'
  BY <1>1, <1>3 DEF JobMatchesPlace
<1>5. FlagsSound' /\ SingleFlight'
  BY <1>1 DEF FlagsSound, SingleFlight, QueueDistinct, JobsDistinct,
              QueueApartFromJobs
<1>6. ThreadsMatchOwner'
  BY <1>1 DEF TypeOK, ThreadsMatchOwner, StopClearRunning, StopNotify,
         StopJoinDispatcher, Destroy, DispatcherCheck, DispatcherNotify,
         DispatcherLastNotify, WorkerExit, WorkerWillBlock, WorkerBlock,
         SpuriousWake, Notified
<1>7. FlagsExact'
  BY <1>1 DEF FlagsExact, FirstRun, ThreadsMatchOwner, StopClearRunning, StopNotify,
         StopJoinDispatcher, Destroy, DispatcherCheck, DispatcherNotify,
         DispatcherLastNotify, WorkerExit, WorkerWillBlock, WorkerBlock,
         SpuriousWake
<1>8. NoSleeperBesideWork'
  BY <1>1 DEF TypeOK, NoSleeperBesideWork, ThreadsMatchOwner, StopClearRunning,
         StopNotify, StopJoinDispatcher, Destroy, DispatcherCheck,
         DispatcherNotify, DispatcherLastNotify, WorkerExit, WorkerWillBlock,
         WorkerBlock, SpuriousWake, Notified
<1> QED
  BY <1>2, <1>4, <1>5, <1>6, <1>7, <1>8

\* start() keeps it: there is no thread and no work when it begins.
LEMMA StartInv == IInv /\ Start => IInv'
<1> SUFFICES ASSUME IInv, Start PROVE IInv'
  OBVIOUS
<1> USE DEF IInv
<1>1. UNCHANGED <<queue, inFlight, due, job>> /\ Queued' = Queued /\ Held' = Held
  BY DEF Start, Queued, Held
<1>2. TypeOK'
  BY ConstantsAssumption
     DEF TypeOK, Start, WorkerPlaces, DispatcherPlaces, MainPlaces
<1>3. JobMatchesPlace'
  BY DEF JobMatchesPlace, ThreadsMatchOwner, Start
<1>4. FlagsSound' /\ SingleFlight'
  BY <1>1 DEF FlagsSound, SingleFlight, QueueDistinct, JobsDistinct,
              QueueApartFromJobs
<1>5. FlagsExact'
  BY <1>1 DEF FlagsExact, FirstRun, TypeOK, Start
<1>6. NoSleeperBesideWork' /\ ThreadsMatchOwner'
  BY DEF NoSleeperBesideWork, ThreadsMatchOwner, TypeOK, Start
<1> QED
  BY <1>2, <1>3, <1>4, <1>5, <1>6

\* The last join of stop() keeps it: the queue it clears belongs to nobody.
LEMMA StopJoinWorkersInv == IInv /\ StopJoinWorkers => IInv'
<1> SUFFICES ASSUME IInv, StopJoinWorkers PROVE IInv'
  OBVIOUS
<1> USE DEF IInv
<1>1. /\ UNCHANGED <<starts, inFlight, due, job>>
      /\ Queued' = {} /\ Held' = Held
  <2>1. \A i \in 1..Len(queue') : FALSE
    BY EmptySeq DEF StopJoinWorkers
  <2> QED BY <2>1 DEF StopJoinWorkers, Queued, Elements, Held
<1>2. TypeOK'
  BY EmptySeq DEF TypeOK, StopJoinWorkers, WorkerPlaces, MainPlaces
<1>3. JobMatchesPlace'
  BY DEF JobMatchesPlace, StopJoinWorkers
<1>4. FlagsSound' /\ QueueApartFromJobs' /\ JobsDistinct'
  BY <1>1 DEF FlagsSound, SingleFlight, JobsDistinct, QueueApartFromJobs
<1>5. QueueDistinct'
  BY EmptySeq DEF QueueDistinct, Distinct, StopJoinWorkers
<1>6. FlagsExact'
  BY <1>1 DEF FlagsExact, FirstRun, ThreadsMatchOwner, StopJoinWorkers
<1>7. NoSleeperBesideWork' /\ ThreadsMatchOwner'
  BY DEF NoSleeperBesideWork, ThreadsMatchOwner, StopJoinWorkers
<1> QED
  BY <1>2, <1>3, <1>4, <1>5, <1>6, <1>7 DEF SingleFlight

\* The scan appends the claimable targets, each once.
LEMMA ScanQueues ==
  ASSUME IInv, DispatcherScan
  PROVE  /\ queue' \in Seq(Targets) /\ Distinct(queue')
         /\ Queued' = Queued \cup Claimable
<1> USE DEF IInv
<1>1. Cardinality(Claimable) \in Nat
  <2>1. IsFiniteSet(Targets)
    BY ConstantsAssumption, FS_Interval DEF Targets
  <2>2. Claimable \subseteq Targets
    BY DEF TypeOK, Claimable
  <2> QED BY <2>1, <2>2, FS_Subset, FS_CardinalityType
<1>2. PICK s \in [1..Cardinality(Claimable) -> Claimable] :
           ListsInOrder(s, Claimable) /\ queue' = queue \o s
  BY DEF DispatcherScan
<1>3. /\ queue' \in Seq(Targets) /\ Distinct(queue')
      /\ Elements(queue') = Elements(queue) \cup Claimable
  <2>1. Claimable \subseteq Targets /\ Claimable \subseteq Nat
    BY DEF TypeOK, Claimable, Targets
  <2>2. Elements(queue) \cap Claimable = {}
    BY DEF FlagsSound, Queued, Claimable
  <2>3. queue \in Seq(Targets) /\ Distinct(queue)
    BY DEF TypeOK, SingleFlight, QueueDistinct
  <2>4. ListsInOrder(s, Claimable) /\ s \in [1..Cardinality(Claimable) -> Claimable]
    BY <1>2
  <2>5. /\ queue \o s \in Seq(Targets) /\ Distinct(queue \o s)
        /\ \A x : x \in Elements(queue \o s)
                   <=> x \in Elements(queue) \/ x \in Claimable
    BY <1>1, <2>1, <2>2, <2>3, <2>4, ConcatElements, Zenon
  <2> QED
    BY <1>2, <2>5
<1> QED
  BY <1>3 DEF Queued

\* The scan keeps it: it queues only targets without a flag, and flags them.
LEMMA DispatcherScanInv == IInv /\ DispatcherScan => IInv'
<1> SUFFICES ASSUME IInv, DispatcherScan PROVE IInv'
  OBVIOUS
<1> USE DEF IInv
<1>3. queue' \in Seq(Targets) /\ Distinct(queue')
  BY ScanQueues
<1>4. Queued' = Queued \cup Claimable /\ Held' = Held
  BY ScanQueues DEF Held, DispatcherScan
<1>5. TypeOK'
  BY <1>3 DEF TypeOK, DispatcherScan, Claimable, DispatcherPlaces
<1>6. JobMatchesPlace'
  BY DEF JobMatchesPlace, DispatcherScan
<1>7. FlagsSound' /\ FlagsExact'
  BY <1>4 DEF FlagsSound, FlagsExact, FirstRun, DispatcherScan, Claimable
<1>8. SingleFlight'
  BY <1>3, <1>4 DEF SingleFlight, QueueDistinct, JobsDistinct, FlagsSound,
                    QueueApartFromJobs, DispatcherScan, Claimable
<1>9. NoSleeperBesideWork'
  BY DEF NoSleeperBesideWork, DispatcherScan, MutexFree
<1>10. ThreadsMatchOwner'
  BY DEF ThreadsMatchOwner, DispatcherScan
<1> QED
  BY <1>5, <1>6, <1>7, <1>8, <1>9, <1>10

\* Taking the front of the queue keeps it: the target changes hands.
LEMMA WorkerTakeInv ==
  ASSUME IInv, NEW w \in Workers, WorkerTake(w) PROVE IInv'
<1> USE DEF IInv
<1>1. /\ queue' \in Seq(Targets) /\ Distinct(queue')
      /\ Head(queue) \in Targets /\ Head(queue) # NoTarget
      /\ Head(queue) \in Queued
      /\ Queued' = Queued \ {Head(queue)}
  <2>1. queue \in Seq(Targets) /\ queue # <<>> /\ Distinct(queue)
    BY DEF WorkerTake, TypeOK, SingleFlight, QueueDistinct
  <2>2. /\ Tail(queue) \in Seq(Targets) /\ Distinct(Tail(queue))
        /\ Head(queue) \in Targets /\ Head(queue) \in Elements(queue)
        /\ Elements(Tail(queue)) = Elements(queue) \ {Head(queue)}
    BY <2>1, TailElements, Zenon
  <2> QED
    BY <2>2 DEF WorkerTake, Queued, Targets, NoTarget
<1>2. /\ job[w] = NoTarget
      /\ Held' = Held \cup {Head(queue)}
  <2>1. job[w] = NoTarget
    BY DEF JobMatchesPlace, WorkerTake
  <2>2. /\ job'[w] = Head(queue)
        /\ \A v \in Workers \ {w} : job'[v] = job[v]
    BY DEF WorkerTake, TypeOK
  <2> QED BY <1>1, <2>1, <2>2 DEF Held
<1>3. TypeOK'
  BY <1>1 DEF TypeOK, WorkerTake, WorkerPlaces
<1>4. JobMatchesPlace'
  BY <1>1 DEF JobMatchesPlace, WorkerTake, TypeOK
<1>5. FlagsSound' /\ FlagsExact'
  BY <1>1, <1>2 DEF FlagsSound, FlagsExact, FirstRun, WorkerTake
<1>6. JobsDistinct'
  <2>1. \A v \in Workers : job[v] # Head(queue)
    BY <1>1 DEF SingleFlight, QueueApartFromJobs, Held
  <2> QED
    BY <2>1 DEF SingleFlight, JobsDistinct, WorkerTake, TypeOK
<1>7. SingleFlight'
  BY <1>1, <1>2, <1>6 DEF SingleFlight, QueueDistinct, QueueApartFromJobs
<1>8. NoSleeperBesideWork' /\ ThreadsMatchOwner'
  BY DEF NoSleeperBesideWork, ThreadsMatchOwner, WorkerTake, TypeOK
<1> QED
  BY <1>3, <1>4, <1>5, <1>7, <1>8

\* The end of a scrape keeps it, whichever statistic counts it.
LEMMA ScrapeEndsInv ==
  ASSUME IInv, NEW w \in Workers, ScrapeSucceeds(w) \/ ScrapeFails(w)
  PROVE  IInv'
<1> USE DEF IInv
<1>1. /\ UNCHANGED <<starts, queue, inFlight, due, job>>
      /\ Queued' = Queued /\ Held' = Held
  BY DEF ScrapeSucceeds, ScrapeFails, Queued, Held
<1>2. TypeOK'
  BY ConstantsAssumption
     DEF TypeOK, ScrapeSucceeds, ScrapeFails, WorkerPlaces
<1>3. JobMatchesPlace' /\ NoSleeperBesideWork' /\ ThreadsMatchOwner'
  BY DEF JobMatchesPlace, NoSleeperBesideWork, ThreadsMatchOwner, TypeOK,
         ScrapeSucceeds, ScrapeFails
<1>4. FlagsSound' /\ SingleFlight' /\ FlagsExact'
  BY <1>1 DEF FlagsSound, SingleFlight, QueueDistinct, JobsDistinct,
              QueueApartFromJobs, FlagsExact, FirstRun, ScrapeSucceeds,
              ScrapeFails
<1> QED
  BY <1>2, <1>3, <1>4

\* The release keeps it: the flag goes with the only holder of the target.
LEMMA ScrapeReleasesInv ==
  ASSUME IInv, NEW w \in Workers, ScrapeReleases(w) PROVE IInv'
<1> USE DEF IInv
<1>1. /\ UNCHANGED <<starts, queue>> /\ Queued' = Queued
      /\ job[w] # NoTarget /\ job[w] \in Held /\ job[w] \notin Queued
  BY DEF ScrapeReleases, Queued, JobMatchesPlace, Held, SingleFlight,
         QueueApartFromJobs
<1>2. Held' = Held \ {job[w]}
  BY <1>1 DEF ScrapeReleases, Held, SingleFlight, JobsDistinct, TypeOK
<1>3. TypeOK'
  BY DEF TypeOK, ScrapeReleases, WorkerPlaces
<1>4. JobMatchesPlace' /\ NoSleeperBesideWork' /\ ThreadsMatchOwner'
  BY DEF JobMatchesPlace, NoSleeperBesideWork, ThreadsMatchOwner, TypeOK,
         ScrapeReleases
<1>5. FlagsSound' /\ FlagsExact'
  BY <1>1, <1>2 DEF FlagsSound, FlagsExact, FirstRun, ScrapeReleases
<1>6. SingleFlight'
  BY <1>1, <1>2 DEF SingleFlight, QueueDistinct, JobsDistinct,
                    QueueApartFromJobs, ScrapeReleases, TypeOK
<1> QED
  BY <1>3, <1>4, <1>5, <1>6

\* The passing of an interval keeps it.
LEMMA ElapseInv == ASSUME IInv, NEW t \in Targets, Elapse(t) PROVE IInv'
<1> USE DEF IInv
<1>1. Queued' = Queued /\ Held' = Held
  BY DEF Elapse, Queued, Held
<1> QED
  BY <1>1
     DEF TypeOK, JobMatchesPlace, FlagsSound, SingleFlight, QueueDistinct,
         JobsDistinct, QueueApartFromJobs, FlagsExact, FirstRun,
         NoSleeperBesideWork, ThreadsMatchOwner, Elapse

\* A stuttering step keeps it.
LEMMA StutterInv == IInv /\ UNCHANGED vars => IInv'
  BY DEF IInv, vars, TypeOK, JobMatchesPlace, FlagsSound, SingleFlight,
         QueueDistinct, JobsDistinct, QueueApartFromJobs, FlagsExact, FirstRun,
         NoSleeperBesideWork, ThreadsMatchOwner, Queued, Held

\* Every step keeps the invariant.
LEMMA NextInv == IInv /\ [Next]_vars => IInv'
<1> SUFFICES ASSUME IInv, [Next]_vars PROVE IInv'
  OBVIOUS
<1>1. CASE Owner
  BY <1>1, StartInv, StopJoinWorkersInv, ControlStepInv DEF Owner
<1>2. CASE Dispatcher
  BY <1>2, DispatcherScanInv, ControlStepInv DEF Dispatcher
<1>3. ASSUME NEW w \in Workers, Worker(w) PROVE IInv'
  BY <1>3, WorkerTakeInv, ScrapeEndsInv, ScrapeReleasesInv, ControlStepInv
     DEF Worker
<1>4. ASSUME NEW t \in Targets, Elapse(t) PROVE IInv'
  BY <1>4, ElapseInv
<1>5. CASE UNCHANGED vars
  BY <1>5, StutterInv
<1> QED
  BY <1>1, <1>2, <1>3, <1>4, <1>5 DEF Next

-----------------------------------------------------------------------------
(* The theorems. *)

\* Every reachable state satisfies the inductive invariant.
THEOREM Invariance == Spec => []IInv
<1> QED
  BY InitInv, NextInv, PTL DEF Spec

\* The variables of the scheduler keep their types (scheduler.hpp).
THEOREM TypeCorrect == Spec => []TypeOK
<1>1. IInv => TypeOK
  BY DEF IInv
<1> QED
  BY <1>1, Invariance, PTL

\* No target is ever scraped twice at once, however many targets and workers
\* there are, and however often the scheduler is restarted.
THEOREM NoDoubleScrape == Spec => []SingleFlight
<1>1. IInv => SingleFlight
  BY DEF IInv
<1> QED
  BY <1>1, Invariance, PTL

\* In the first run a target that is flagged is queued or with a worker, so
\* no target is skipped by the dispatcher for ever.
THEOREM NoTargetForgotten == Spec => []FlagsExact
<1>1. IInv => FlagsExact
  BY DEF IInv
<1> QED
  BY <1>1, Invariance, PTL

\* No notification of the dispatcher is lost.
THEOREM NoLostWork == Spec => []NoSleeperBesideWork
<1>1. IInv => NoSleeperBesideWork
  BY DEF IInv
<1> QED
  BY <1>1, Invariance, PTL

\* Between runs, and for the destructor, nothing of a run is left.
THEOREM Quiescence == Spec => []StoppedQuiescent
<1>1. IInv => StoppedQuiescent
  <2> SUFFICES ASSUME IInv, main \in {"idle", "destroyed"}
               PROVE  /\ ~running /\ dpc = "none" /\ queue = <<>>
                      /\ \A w \in Workers : wpc[w] = "none"
                      /\ Held = {}
    BY DEF StoppedQuiescent
  <2>1. /\ ~running /\ dpc = "none" /\ queue = <<>>
        /\ \A w \in Workers : wpc[w] = "none"
    BY DEF IInv, ThreadsMatchOwner
  <2>2. \A w \in Workers : job[w] = NoTarget
    BY <2>1 DEF IInv, JobMatchesPlace
  <2> QED BY <2>1, <2>2 DEF Held
<1> QED
  BY <1>1, Invariance, PTL

\* With fewer slow targets than workers, some worker is never with a slow one:
\* two workers with the same target would be needed to occupy the pool.
THEOREM PoolNotExhausted == Spec => []SlowScrapesLeaveAWorker
<1>1. ASSUME IInv, Cardinality(SlowTargets) < PoolSize,
             \A w \in Workers : job[w] \in SlowTargets
      PROVE  FALSE
  <2>1. PoolSize \in Nat
    BY ConstantsAssumption DEF PoolSize, Greatest, Least
  <2>2. IsFiniteSet(Workers) /\ Cardinality(Workers) = PoolSize
    BY <2>1, FS_Interval DEF Workers
  <2>3. IsFiniteSet(SlowTargets)
    <3>1. IsFiniteSet(1..NumTargets) /\ SlowTargets \in SUBSET (1..NumTargets)
      BY ConstantsAssumption, FS_Interval
    <3> QED BY <3>1, FS_Subset
  <2>4. job \in [Workers -> SlowTargets]
    BY <1>1 DEF IInv, TypeOK
  <2>5. PICK v \in Workers, w \in Workers : v # w /\ job[v] = job[w]
    BY <1>1, <2>2, <2>3, <2>4, FS_PigeonHole
  <2>6. job[v] # NoTarget
    BY <1>1, ConstantsAssumption DEF NoTarget
  <2> QED
    BY <1>1, <2>5, <2>6 DEF IInv, SingleFlight, JobsDistinct
<1>2. IInv => SlowScrapesLeaveAWorker
  BY <1>1 DEF SlowScrapesLeaveAWorker
<1> QED
  BY <1>2, Invariance, PTL

-----------------------------------------------------------------------------
(* The scheduler implements ScrapeDuty. *)

\* The phase of a target somebody holds, and of one nobody holds.
LEMMA PhaseHeld ==
  ASSUME IInv, NEW w \in Workers, job[w] # NoTarget
  PROVE  PhaseOf(job[w]) = wpc[w]
  BY DEF IInv, SingleFlight, JobsDistinct, JobMatchesPlace, PhaseOf

\* The phase of a target that no worker holds.
LEMMA PhaseFree ==
  ASSUME NEW t, \A w \in Workers : job[w] # t
  PROVE  PhaseOf(t) = IF t \in Queued THEN "claimed"
                      ELSE IF t \in inFlight THEN "abandoned"
                      ELSE IF t \in due THEN "due" ELSE "resting"
  BY DEF PhaseOf

\* A phase depends on nothing but the queue, the flags, the jobs and who is
\* scraping.
LEMMA PhaseUnchanged ==
  ASSUME UNCHANGED <<inFlight, due, job>>, Queued' = Queued,
         \A w \in Workers : wpc'[w] = "scraping" <=> wpc[w] = "scraping",
         NEW t
  PROVE  PhaseOf(t)' = PhaseOf(t)
  BY DEF PhaseOf

\* One target moves on, the others stay.
LEMMA PhaseMoves ==
  ASSUME NEW t \in Targets, NEW a, NEW b,
         PhaseOf(t) = a, PhaseOf(t)' = b,
         \A u \in Targets \ {t} : PhaseOf(u)' = PhaseOf(u),
         UNCHANGED running
  PROVE  Duty!Move(t, a, b)
  BY Zenon DEF Duty!Move

\* A step that moves no target and no counter is a stutter of the duty.
LEMMA DutyStutter ==
  ASSUME UNCHANGED <<running, successCount, failureCount>>,
         \A t \in Targets : PhaseOf(t)' = PhaseOf(t)
  PROVE  UNCHANGED Duty!dutyVars
  BY DEF Duty!dutyVars

\* The worker that takes a target begins its scrape.
LEMMA TakeBegins ==
  ASSUME IInv, NEW w \in Workers, WorkerTake(w)
  PROVE  Duty!Begin(Head(queue)) /\ Head(queue) \in Targets
<1>1. PICK h \in Targets : h = Head(queue) /\ h # NoTarget /\ h \in Queued
  <2>1. queue \in Seq(Targets) /\ queue # <<>> /\ Distinct(queue)
    BY DEF IInv, WorkerTake, TypeOK, SingleFlight, QueueDistinct
  <2>2. Head(queue) \in Targets /\ Head(queue) \in Elements(queue)
    BY <2>1, TailElements, Zenon
  <2> QED BY <2>2 DEF Queued, Targets, NoTarget
<1>2. /\ job[w] = NoTarget /\ h \in inFlight
      /\ \A v \in Workers : job[v] # h
      /\ Queued' = Queued \ {h}
  <2>1. queue \in Seq(Targets) /\ queue # <<>> /\ Distinct(queue)
    BY DEF IInv, WorkerTake, TypeOK, SingleFlight, QueueDistinct
  <2>2. Elements(Tail(queue)) = Elements(queue) \ {Head(queue)}
    BY <2>1, TailElements, Zenon
  <2>3. Queued' = Queued \ {h}
    BY <1>1, <2>2 DEF WorkerTake, Queued
  <2> QED
    BY <1>1, <2>3 DEF IInv, JobMatchesPlace, WorkerTake, FlagsSound,
                      SingleFlight, QueueApartFromJobs, Held
<1>3. /\ job'[w] = h /\ wpc'[w] = "scraping"
      /\ \A v \in Workers \ {w} : job'[v] = job[v] /\ wpc'[v] = wpc[v]
      /\ UNCHANGED <<inFlight, due, running, successCount, failureCount>>
  BY <1>1 DEF WorkerTake, IInv, TypeOK
<1>4. PhaseOf(h) = "claimed"
  BY <1>1, <1>2, PhaseFree
<1>5. PhaseOf(h)' = "scraping"
  BY <1>3 DEF PhaseOf
<1>6. ASSUME NEW u \in Targets \ {h} PROVE PhaseOf(u)' = PhaseOf(u)
  <2>1. u # NoTarget
    BY DEF Targets, NoTarget
  <2> QED BY <1>2, <1>3, <2>1 DEF PhaseOf
<1>7. Duty!Move(h, "claimed", "scraping")
  BY <1>1, <1>3, <1>4, <1>5, <1>6, PhaseMoves
<1> QED
  BY <1>1, <1>3, <1>7 DEF Duty!Begin, Duty!counters

\* The end of a scrape is counted.
LEMMA EndCounts ==
  ASSUME IInv, NEW w \in Workers, ScrapeSucceeds(w) \/ ScrapeFails(w)
  PROVE  Duty!Count(job[w]) /\ job[w] \in Targets
<1>1. PICK h \in Targets : wpc[w] = "scraping" /\ h = job[w] /\ h # NoTarget
  BY DEF ScrapeSucceeds, ScrapeFails, IInv, JobMatchesPlace, TypeOK
<1>2. /\ wpc'[w] = "counted"
      /\ \A v \in Workers \ {w} : wpc'[v] = wpc[v] /\ job[v] # h
      /\ UNCHANGED <<job, inFlight, due, running>> /\ Queued' = Queued
  BY <1>1 DEF ScrapeSucceeds, ScrapeFails, IInv, TypeOK, SingleFlight,
              JobsDistinct, Queued
<1>3. PhaseOf(h) = "scraping" /\ PhaseOf(h)' = "counted"
  BY <1>1, <1>2 DEF PhaseOf
<1>4. ASSUME NEW u \in Targets \ {h} PROVE PhaseOf(u)' = PhaseOf(u)
  BY <1>1, <1>2 DEF PhaseOf
<1>5. Duty!Move(h, "scraping", "counted")
  BY <1>1, <1>2, <1>3, <1>4, PhaseMoves
<1> QED
  BY <1>1, <1>5 DEF Duty!Count, ScrapeSucceeds, ScrapeFails

\* The release of a target makes it rest.
LEMMA ReleaseReleases ==
  ASSUME IInv, NEW w \in Workers, ScrapeReleases(w)
  PROVE  Duty!Release(job[w]) /\ job[w] \in Targets
<1>1. PICK h \in Targets : wpc[w] = "counted" /\ h = job[w] /\ h # NoTarget
  BY DEF ScrapeReleases, IInv, JobMatchesPlace, TypeOK
<1>2. /\ job'[w] = NoTarget /\ wpc'[w] = "ready"
      /\ \A v \in Workers \ {w} :
            wpc'[v] = wpc[v] /\ job'[v] = job[v] /\ job[v] # h
      /\ inFlight' = inFlight \ {h} /\ due' = due \ {h}
      /\ UNCHANGED <<running, successCount, failureCount>>
      /\ Queued' = Queued /\ h \notin Queued
  BY <1>1 DEF ScrapeReleases, IInv, TypeOK, SingleFlight, JobsDistinct,
              QueueApartFromJobs, Queued, Held
<1>3. PhaseOf(h) = "counted"
  BY <1>1, PhaseHeld
<1>4. PhaseOf(h)' = "resting"
  BY <1>1, <1>2 DEF PhaseOf
<1>5. ASSUME NEW u \in Targets \ {h} PROVE PhaseOf(u)' = PhaseOf(u)
  <2>1. u # NoTarget
    BY DEF Targets, NoTarget
  <2> QED BY <1>1, <1>2, <2>1 DEF PhaseOf
<1>6. Duty!Move(h, "counted", "resting")
  BY <1>1, <1>2, <1>3, <1>4, <1>5, PhaseMoves
<1> QED
  BY <1>1, <1>2, <1>6 DEF Duty!Release, Duty!counters

\* A target whose interval passes becomes due if it rests.
LEMMA ElapseBecomesDue ==
  ASSUME IInv, NEW t \in Targets, Elapse(t)
  PROVE  Duty!BecomeDue(t)
<1>1. /\ t \notin inFlight /\ \A w \in Workers : job[w] # t
      /\ UNCHANGED <<running, inFlight, job, wpc, successCount, failureCount>>
      /\ due' = due \cup {t} /\ Queued' = Queued /\ t \notin Queued
  BY DEF Elapse, IInv, FlagsSound, Held, Queued, Targets, NoTarget
<1>2. PhaseOf(t) = "resting" /\ PhaseOf(t)' = "due"
  BY <1>1 DEF PhaseOf, Elapse
<1>3. ASSUME NEW u \in Targets \ {t} PROVE PhaseOf(u)' = PhaseOf(u)
  BY <1>1 DEF PhaseOf
<1>4. Duty!Move(t, "resting", "due")
  BY <1>1, <1>2, <1>3, PhaseMoves
<1> QED
  BY <1>1, <1>4 DEF Duty!BecomeDue, Duty!counters

\* The scan claims the targets it queues.
LEMMA ScanClaims ==
  ASSUME IInv, DispatcherScan
  PROVE  Duty!Claim(Claimable) /\ Claimable \in SUBSET Targets
<1>0. Queued' = Queued \cup Claimable
  BY ScanQueues
<1>1. /\ inFlight' = inFlight \cup Claimable
      /\ UNCHANGED <<running, due, job, wpc, successCount, failureCount>>
      /\ Claimable \in SUBSET Targets
  BY DEF DispatcherScan, IInv, TypeOK, Claimable
<1>2. \A t \in Claimable : PhaseOf(t) = "due" /\ PhaseOf(t)' = "claimed"
  <2> SUFFICES ASSUME NEW t \in Claimable
               PROVE  PhaseOf(t) = "due" /\ PhaseOf(t)' = "claimed"
    OBVIOUS
  <2>1. t \in due /\ t \notin inFlight /\ t \in Queued' /\ t # NoTarget
    BY <1>0, <1>1 DEF Claimable, Targets, NoTarget
  <2>2. \A w \in Workers : job[w] # t /\ job'[w] # t
    BY <1>1, <2>1 DEF IInv, FlagsSound, Held
  <2>3. t \notin Queued
    BY <2>1 DEF IInv, FlagsSound
  <2> QED BY <2>1, <2>2, <2>3 DEF PhaseOf
<1>3. \A t \in Targets \ Claimable : PhaseOf(t)' = PhaseOf(t)
  BY <1>0, <1>1 DEF PhaseOf
<1> QED
  BY <1>1, <1>2, <1>3 DEF Duty!Claim, Duty!counters

\* The end of stop() abandons the targets that are still queued.
LEMMA StopAbandons ==
  ASSUME IInv, StopJoinWorkers
  PROVE  Duty!Abandon(Queued) /\ Queued \in SUBSET Targets
<1>1. /\ ~running /\ Queued' = {}
      /\ UNCHANGED <<running, inFlight, due, job, successCount, failureCount>>
      /\ Queued \in SUBSET Targets
  <2>1. \A i \in 1..Len(queue') : FALSE
    BY EmptySeq DEF StopJoinWorkers
  <2>2. Queued' = {}
    BY <2>1 DEF Queued, Elements
  <2> QED
    BY <2>2 DEF StopJoinWorkers, IInv, ThreadsMatchOwner, FlagsSound, TypeOK
<1>2. \A w \in Workers : job[w] = NoTarget /\ job'[w] = NoTarget
  BY <1>1 DEF StopJoinWorkers, IInv, JobMatchesPlace
<1>3. \A t \in Targets : \A w \in Workers : job[w] # t /\ job'[w] # t
  BY <1>2 DEF Targets, NoTarget
<1>4. \A t \in Queued : PhaseOf(t) = "claimed" /\ PhaseOf(t)' = "abandoned"
  <2> SUFFICES ASSUME NEW t \in Queued
               PROVE  PhaseOf(t) = "claimed" /\ PhaseOf(t)' = "abandoned"
    OBVIOUS
  <2>1. t \in inFlight' /\ t \notin Queued'
    BY <1>1 DEF IInv, FlagsSound
  <2> QED BY <1>1, <1>3, <2>1 DEF PhaseOf
<1>5. \A t \in Targets \ Queued : PhaseOf(t)' = PhaseOf(t)
  BY <1>1, <1>3 DEF PhaseOf
<1> QED
  BY <1>1, <1>4, <1>5 DEF Duty!Abandon, Duty!counters

\* A step of the scheduler is a step of the duty, or none.
LEMMA StepImplements == IInv /\ [Next]_vars => [Duty!DutyNext]_(Duty!dutyVars)
<1> SUFFICES ASSUME IInv, [Next]_vars
             PROVE  Duty!DutyNext \/ UNCHANGED Duty!dutyVars
  OBVIOUS
<1>1. CASE Start
  <2>1. \A t \in Targets : PhaseOf(t)' = PhaseOf(t)
    BY <1>1, PhaseUnchanged DEF Start, IInv, ThreadsMatchOwner, Queued
  <2>2. Duty!Open
    BY <1>1, <2>1
       DEF Start, IInv, ThreadsMatchOwner, Duty!Open, Duty!counters
  <2> QED BY <2>2 DEF Duty!DutyNext
<1>2. CASE StopClearRunning
  <2>1. \A t \in Targets : PhaseOf(t)' = PhaseOf(t)
    BY <1>2, PhaseUnchanged DEF StopClearRunning, Queued
  <2>2. Duty!Close
    BY <1>2, <2>1
       DEF StopClearRunning, IInv, ThreadsMatchOwner, Duty!Close, Duty!counters
  <2> QED BY <2>2 DEF Duty!DutyNext
<1>3. CASE \/ StopNotify \/ StopJoinDispatcher \/ Destroy \/ DispatcherCheck
           \/ DispatcherNotify \/ DispatcherLastNotify
  <2>1. /\ UNCHANGED <<inFlight, due, job, running, successCount, failureCount>>
        /\ Queued' = Queued
        /\ \A w \in Workers : wpc'[w] = "scraping" <=> wpc[w] = "scraping"
    BY <1>3 DEF StopNotify, StopJoinDispatcher, Destroy, DispatcherCheck,
                DispatcherNotify, DispatcherLastNotify, Notified, Queued
  <2> QED BY <2>1, PhaseUnchanged, DutyStutter
<1>4. CASE DispatcherScan
  BY <1>4, ScanClaims DEF Duty!DutyNext
<1>5. ASSUME NEW w \in Workers, Worker(w)
      PROVE  Duty!DutyNext \/ UNCHANGED Duty!dutyVars
  <2>1. CASE WorkerTake(w)
    BY <2>1, TakeBegins DEF Duty!DutyNext
  <2>2. CASE ScrapeSucceeds(w) \/ ScrapeFails(w)
    BY <2>2, EndCounts DEF Duty!DutyNext
  <2>3. CASE ScrapeReleases(w)
    BY <2>3, ReleaseReleases DEF Duty!DutyNext
  <2>4. CASE \/ WorkerExit(w) \/ WorkerWillBlock(w) \/ WorkerBlock(w)
             \/ SpuriousWake(w)
    <3>1. /\ UNCHANGED <<inFlight, due, job, running, successCount, failureCount>>
          /\ Queued' = Queued
          /\ \A v \in Workers : wpc'[v] = "scraping" <=> wpc[v] = "scraping"
      BY <2>4 DEF WorkerExit, WorkerWillBlock, WorkerBlock, SpuriousWake, IInv,
                  TypeOK, Queued
    <3> QED BY <3>1, PhaseUnchanged, DutyStutter
  <2> QED BY <1>5, <2>1, <2>2, <2>3, <2>4 DEF Worker
<1>6. ASSUME NEW t \in Targets, Elapse(t) PROVE Duty!DutyNext
  BY <1>6, ElapseBecomesDue DEF Duty!DutyNext
<1>7. CASE UNCHANGED vars
  BY <1>7, PhaseUnchanged, DutyStutter DEF vars, Queued
<1>8. CASE StopJoinWorkers
  BY <1>8, StopAbandons DEF Duty!DutyNext
<1> QED
  BY <1>1, <1>2, <1>3, <1>4, <1>5, <1>6, <1>7, <1>8 DEF Next, Owner, Dispatcher

\* The scheduler implements its duty: with every number of targets, workers
\* and restarts, each target goes round its phases in order, and each scrape
\* that ends is counted exactly once.
THEOREM Implementation == Spec => ImplementsDuty
<1>1. Init => Duty!DutyInit
  <2> SUFFICES ASSUME Init PROVE Duty!DutyInit
    OBVIOUS
  <2>0. \A i \in 1..Len(queue) : FALSE
    BY EmptySeq DEF Init
  <2>1. \A t \in Targets : PhaseOf(t) = "due"
    BY <2>0 DEF Init, PhaseOf, Queued, Elements, Targets, NoTarget
  <2> QED BY <2>1 DEF Init, Duty!DutyInit
<1> QED
  BY <1>1, StepImplements, Invariance, PTL DEF Spec, ImplementsDuty, Duty!Spec
=============================================================================
