\* Three targets on the default pool of a two-core machine, two workers; one
\* target may never answer.  The scheduler is restarted once.
CONSTANTS
  NumTargets = 3
  ConfiguredWorkers = 0
  HardwareThreads = 1
  StatModulus = 2
  MaxStarts = 2
  SlowTargets = {1}
SPECIFICATION FairSpec
INVARIANTS SingleFlight FlagsExact NoSleeperBesideWork StoppedQuiescent SlowScrapesLeaveAWorker
PROPERTIES ImplementsFairDuty StopReturnsUnlessAWakeupIsLost
CHECK_DEADLOCK FALSE
