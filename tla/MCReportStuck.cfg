CONSTANTS
  w1 = w1
  w2 = w2
  NoOwner = NoOwner
  NoEntry = NoEntry
  Workers = {w1, w2}
  NumWorkers = 2
  NumDays = 3
  Schedule <- QuietNights
  MaxReports = 8
  MaxEntries = 3
  ReportingAmount = 4
  AccountNumbers = {10, 11, 12, 13, 14, 20, 21, 22, 23}
SPECIFICATION FairSpec
PROPERTIES EveryWorkerFinishes
CHECK_DEADLOCK FALSE
