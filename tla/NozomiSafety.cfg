SPECIFICATION NozomiSpec
CONSTANTS
  Items = {i1, i2}
  RetryThread = retry
  NoItem = NoItem
  SignedUrls = {u1, u2}
  GroundTruth = {}
  MaxTries = 2
  MaxCrashes = 1
SYMMETRY ItemSymmetry
INVARIANTS
  NozomiTypeOK
  CallbacksWithinContract
  NoStaleProcessing
  NoOrphanExecution
PROPERTIES
  ContractSpec
  OnlyCrashesLoseVerdicts
