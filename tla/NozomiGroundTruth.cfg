SPECIFICATION NozomiSpec
CONSTANTS
  Items = {i1}
  RetryThread = retry
  NoItem = NoItem
  SignedUrls = {u1, u2}
  GroundTruth = {i1}
  MaxTries = 2
  MaxCrashes = 0
INVARIANTS
  RedispatchIsIdempotent
