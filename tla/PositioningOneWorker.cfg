SPECIFICATION Spec
CONSTANTS
  i1 = i1
  i2 = i2
  w1 = w1
  w2 = w2
  run = run
  NoItem = NoItem
  Items = {i1, i2}
  Runs = {run}
  RunOf <- OneRun
  ArtifactItems <- AllArtifacts
  Workers = {w1}
  MaxAttempts = 1
  ClaimLimit = 10
  MaxLeaseExpiries = 1
  MaxFaults = 1
SYMMETRY ItemSymmetry
INVARIANTS
  TypeOK
  ItemRowsConsistent
  CompletedOnce
  RunStatusBacked
  NoLostDispatch
PROPERTIES
  CallbackNeverUndoesCompleted
