\* Two goroutines, two names, a small and a large value; the channel holds one metric.
SPECIFICATION FairSpec
CONSTANTS
  Reporter = {r1, r2}
  Name = {a, b}
  LogMetric = LogMetric
  Value = {1, 3}
  Cap = 1
  MaxReports = 3
INVARIANTS
  TypeOK
  CountedOnce
  FiguresRight
PROPERTIES
  ReportReturns
  GetsLogged
CHECK_DEADLOCK FALSE
