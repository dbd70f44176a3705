CONSTANTS
  w1 = w1
  w2 = w2
  w3 = w3
  NoOwner = NoOwner
  Workers = {w1, w2}
  NumBranches = 2
  AcctsPerBranch = 1
  InitialAmount = 3
  TestFailureCode = FALSE
  Calls <- TwoBranchCalls
  MaxCommands = 2
SPECIFICATION Spec
SYMMETRY Symmetry
PROPERTIES NoHalfTransferSeen
