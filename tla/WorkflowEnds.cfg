CONSTANTS
  d1 = d1
  d2 = d2
  N = 4
  Gate <- LongGate
  Adapter <- LongAdapter
  OnFailure <- LongFlow
  Drivers <- OneDriver
  Verdicts <- MCVerdicts
  MaxFaults = 4
SPECIFICATION FairSpec
PROPERTIES RunEnds
CHECK_DEADLOCK FALSE
