CONSTANTS
  w1 = w1
  w2 = w2
  w3 = w3
  NoOwner = NoOwner
  Workers = {w1, w2, w3}
  NumBranches = 3
  AcctsPerBranch = 2
  InitialAmount = 2
  TestFailureCode = TRUE
  Calls <- NoFlowCalls
  MaxCommands = 1
SPECIFICATION FairSpec
INVARIANTS FixedBankBalance
PROPERTIES EveryWorkerFinishes
