CONSTANTS
  w1 = w1
  w2 = w2
  governed = governed
  adapter = adapter
  run = run
  NoLine = NoLine
  Workers <- MCWorkers
  Calls <- BothCalls
  Runs <- MCRuns
  RunOf <- MCRunOf
  PathOf <- MCPathOf
  Costs <- MCCosts
  Estimate = 2
  Limit = 6
  Window = 9
  Managed = TRUE
  Operators <- Nobody
  Faults <- Crashes
  MaxTries = 2
SYMMETRY MCSymmetry
SPECIFICATION Spec
INVARIANTS OneLinePerCall OneMarkerPerCall BudgetExact EvidenceOnce
PROPERTIES ImplementsAccount
CHECK_DEADLOCK FALSE
