CONSTANTS
  w1 = w1
  w2 = w2
  governed = governed
  adapter = adapter
  run = run
  NoLine = NoLine
  Workers <- MCWorkers
  Calls <- BothCalls
  Runs <- MCRuns
  RunOf <- MCRunOf
  PathOf <- MCPathOf
  Costs <- OneCost
  Estimate = 2
  Limit = 6
  Window = 9
  Managed = FALSE
  Operators <- AllOperators
  Faults <- AllFaults
  MaxTries = 1
SYMMETRY MCSymmetry
SPECIFICATION Spec
INVARIANTS TypeOK LedgerFirst
CHECK_DEADLOCK FALSE
