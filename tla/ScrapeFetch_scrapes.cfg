\* Two scrapes of one target, updated up to twice.
CONSTANTS
  GivenBounds <- MCBounds
  Samples <- MCSamples
  NotFinite = NotFinite
  Exact = 10
  Unit = 2
  Headers <- MCHeaders
  Codes = {"200", "500", "garbage"}
  Texts = {"plain", "unreadable", "misread"}
  FirstTotal = 9
  MaxEvents = 2
  MaxFetches = 2
  Chunk = 3
  BodyLimit = 20
SPECIFICATION Spec
INVARIANTS TypeOK BucketsCumulative
PROPERTIES FailureMergesNothing WholePageArrives OnlyTheShownArrives CopyNeverBack
CHECK_DEADLOCK FALSE
