CONSTANTS
  w1 = w1
  w2 = w2
  w3 = w3
  NoOwner = NoOwner
  Workers = {w1, w2}
  NumBranches = 2
  AcctsPerBranch = 2
  InitialAmount = 1
  TestFailureCode = FALSE
  Calls <- MixedCalls
  MaxCommands = 2
SPECIFICATION Spec
SYMMETRY Symmetry
INVARIANTS TypeOK HeldLocks LocksAscend BooksBalance
PROPERTIES NeverOverdrawn CommandsAreAtomic
