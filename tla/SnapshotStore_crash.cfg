\* Two metrics, one configured and one whose line load() skips; any file
\* operation may fail, and the process may end at any step, twice.
CONSTANTS
  Names = {m, n}
  Configured = {m}
  Unparsed = {n}
  MaxVersion = 3
  Faults = TRUE
  MaxRuns = 3
SPECIFICATION FairSpec
INVARIANTS FileIsOneMoment FinalSaveCovers
PROPERTIES   UpdatesReachTheFile StopReturns
CHECK_DEADLOCK FALSE
