CONSTANTS
  a1 = a1
  a2 = a2
  r1 = r1
  r2 = r2
  Nobody = Nobody
  Nowhere = Nowhere
  Agents <- MCAgents
  Resources <- TwoResources
  Expiry = 1
  Grace = 1
  MaxClaims = 1
  Faults <- FencingLosses
  MaxToken = 3
SYMMETRY MCSymmetry
SPECIFICATION UndisturbedSpec
INVARIANTS QuotaRespected IndexExact
