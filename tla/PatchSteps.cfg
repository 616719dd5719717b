SPECIFICATION FairSpec
CONSTANTS
  r1 = r1
  r2 = r2
  Runs = {r1, r2}
  NumAreas = 3
  Touches <- Pair
  Nobody = Nobody
  MaxClaims = 3
  MaxFaults = 2
INVARIANTS TypeOK ClaimsSettled Undoable
PROPERTIES CheckedIsApplied SomeoneServed
CHECK_DEADLOCK FALSE
