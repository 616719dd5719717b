SPECIFICATION Spec
CONSTANTS
  t1 = t1
  t2 = t2
  p = p
  q = q
  Tasks = {t1, t2}
  Paths = {p, q}
  Graphs <- TwoGraphs
  Native <- NativeLast
  NoFile = NoFile
  Operators = {o1}
  MaxPlans = 2
  MaxHead = 2
INVARIANTS TypeOK EvidenceIsCurrent AcceptedWithinPlan MergedIsVerified
CONSTRAINT Explored
CHECK_DEADLOCK FALSE
