SPECIFICATION FairSpec
CONSTANTS
  i1 = i1
  i2 = i2
  w1 = w1
  w2 = w2
  run = run
  NoItem = NoItem
  Items = {i1}
  Runs = {run}
  RunOf <- OneRun
  ArtifactItems <- Artifacts
  Workers = {w1}
  MaxAttempts = 3
  ClaimLimit = 10
  MaxLeaseExpiries = 3
  MaxFaults = 1
PROPERTIES
  FailedJobFailsItem
