CONSTANTS
  d1 = d1
  d2 = d2
  N = 3
  Gate <- MCGate
  Adapter <- MCAdapter
  OnFailure <- MCOnFailure
  Drivers <- MCDrivers
  Verdicts <- MCVerdicts
  MaxFaults = 2
SYMMETRY MCSymmetry
SPECIFICATION Spec
INVARIANTS TypeOK WorkInOrder PositionTruthful WaitingHasToken DecisionsEvidenced
PROPERTIES ImplementsGovernedRun
CHECK_DEADLOCK FALSE
