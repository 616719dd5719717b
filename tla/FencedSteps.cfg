CONSTANTS
  a1 = a1
  a2 = a2
  r1 = r1
  r2 = r2
  Nobody = Nobody
  Nowhere = Nowhere
  Agents <- MCAgents
  Resources <- OneResource
  Expiry = 1
  Grace = 1
  MaxClaims = 0
  Faults <- CrashFaults
  MaxToken = 3
SPECIFICATION StepFairSpec
INVARIANTS TypeOK LiveOwnerNotFenced FormerOwnerFenced
PROPERTIES OrphanTakenOver AdmitsOwnerOnly AdmittedInOrder OnlyOwnerEndsLiveClaim ImplementsLease
