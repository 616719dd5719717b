CONSTANTS
  w1 = w1
  w2 = w2
  governed = governed
  adapter = adapter
  run = run
  NoLine = NoLine
  Workers <- OneWorker
  Calls <- OneAdapter
  Runs <- MCRuns
  RunOf <- MCRunOf
  PathOf <- MCPathOf
  Costs <- MCCosts
  Estimate = 2
  Limit = 6
  Window = 9
  Managed = TRUE
  Operators <- Daemon
  Faults <- NoFaults
  MaxTries = 1
SPECIFICATION Spec
INVARIANTS BudgetExact
CHECK_DEADLOCK FALSE
