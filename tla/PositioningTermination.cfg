SPECIFICATION FairSpec
CONSTANTS
  i1 = i1
  i2 = i2
  w1 = w1
  w2 = w2
  run = run
  NoItem = NoItem
  Items = {i1}
  Runs = {run}
  RunOf <- OneRun
  ArtifactItems <- Artifacts
  Workers = {w1, w2}
  MaxAttempts = 2
  ClaimLimit = 10
  MaxLeaseExpiries = 1
  MaxFaults = 0
INVARIANTS
  RetryLimitKept
  HoldersBounded
PROPERTIES
  EventuallyTerminal
