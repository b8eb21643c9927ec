CONSTANTS
  NoNumber = NoNumber
  Lost = Lost
  Words <- MCWords
  MaxLabels = 2
  MaxHelp = 3
  Values = {0, 3, 104}
  Exact = 100
  Unit = 10
  MaxLaunches = 4
SPECIFICATION LineSpec
CHECK_DEADLOCK FALSE
INVARIANTS ExactlyTheCleanSurvive SettlesAfterTwo
