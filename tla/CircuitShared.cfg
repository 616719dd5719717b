CONSTANTS
  c1 = c1
  c2 = c2
  c3 = c3
  c4 = c4
  Calls <- MCCalls
  Streams <- OneStream
  FailureThreshold = 3
  RecoveryTimeout = 2
  HalfOpenMaxCalls = 2
SPECIFICATION FairSpec
INVARIANTS TypeOK
PROPERTIES TestsReported RecoversOverHttp
