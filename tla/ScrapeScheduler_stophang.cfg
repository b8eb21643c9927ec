\* stop() with two workers and two targets.
CONSTANTS
  NumTargets = 2
  ConfiguredWorkers = 2
  HardwareThreads = 1
  StatModulus = 1
  MaxStarts = 1
  SlowTargets = {}
SPECIFICATION FairSpec
PROPERTIES StopReturns
CHECK_DEADLOCK FALSE
