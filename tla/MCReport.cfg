CONSTANTS
  w1 = w1
  w2 = w2
  NoOwner = NoOwner
  NoEntry = NoEntry
  Workers = {w1, w2}
  NumWorkers = 2
  NumDays = 3
  Schedule <- ThreeNights
  MaxReports = 2
  MaxEntries = 3
  ReportingAmount = 4
  AccountNumbers = {10, 11, 12, 13, 14, 20, 21, 22, 23}
SPECIFICATION FairSpec
INVARIANTS TypeOK LocksHeld OverflowOnlyWhenFull FirstReportIsSequential LoggedOnce FirstNightInOrder
PROPERTIES ClosedReportsFrozen FirstReportWritten FirstNightEnds
CHECK_DEADLOCK FALSE
