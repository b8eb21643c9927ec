\* Up to three lines, in up to two files, with up to three fields of metrics.
CONSTANTS
  Lines <- MCLines
  NotANumber = NotANumber
  NoPort = NoPort
  LimitSpan = 8
  MaxLines = 3
  MaxFields = 3
  MaxSize = 5
SPECIFICATION Spec
INVARIANTS TypeOK OneBadLineStopsAll AbortsExactly TheLastLineCounts MetricsAsWritten EveryTargetIsScraped
CHECK_DEADLOCK FALSE
