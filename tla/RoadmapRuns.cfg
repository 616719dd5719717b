CONSTANTS
  f = f
  d = d
  g = g
  a = a
  b = b
  m1 = m1
  m2 = m2
  Paths = {f, d, g}
  Lines = {a, b}
  Milestones = {m1, m2}
  Above <- MCAbove
  Plans <- MCPlans
  StepsOf <- MCStepsOf
  LimitsOf <- MCLimitsOf
  StoredPath <- MCStoredPath
  Ignored = {f}
  Trees <- MCTrees
  Texts <- MCTexts
  Absent = Absent
  Dir = Dir
  None = None
  MaxRuns = 3
SPECIFICATION Spec
INVARIANTS TypeOK DryRunPredicts RerunConverges ReadonlyUnchanged
CONSTRAINT Explored
CHECK_DEADLOCK FALSE
