CONSTANTS
  Workers = {0, 1}
  NumWorkers = 2
  MaxWorkers = 16
  NumCommands = 64
  NumBranches = 3
  AcctsPerBranch = 5
  InitialAmount = 500
  TestFailureCode = TRUE
  Calls = {}
  MaxTransaction = 7
  RandR <- Mixture
  BranchShift = 32
  SubaccountRange = 8
SPECIFICATION DriverSpec
INVARIANTS TypeOK NoSharedSeed ThreeReports SameCommands SameDays BanksAgree NoBalanceErrors
