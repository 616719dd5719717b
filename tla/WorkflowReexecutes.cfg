CONSTANTS
  d1 = d1
  d2 = d2
  N = 2
  Gate <- MCGate
  Adapter <- MCAdapter
  OnFailure <- ShortFlow
  Drivers <- OneDriver
  Verdicts <- NoVerdicts
  MaxFaults = 2
SPECIFICATION Spec
PROPERTIES NeverReexecuted
CHECK_DEADLOCK FALSE
