\* Two metrics, scrape targets, a file system that may fail, two launches.
CONSTANTS
  Names = {m, n}
  Configured = {m}
  Unparsed = {}
  MaxVersion = 3
  Faults = TRUE
  MaxRuns = 2
  Scraping = TRUE
SPECIFICATION Spec
INVARIANTS ServesRestored NothingRunsAtExit AckedBeforeStopIsDurable
PROPERTIES FailedStartLeavesFile
CHECK_DEADLOCK FALSE
