SPECIFICATION FairNozomiSpec
CONSTANTS
  Items = {i1, i2}
  RetryThread = retry
  NoItem = NoItem
  SignedUrls = {u1, u2}
  GroundTruth = {}
  MaxTries = 1
  MaxCrashes = 0
PROPERTIES
  VerdictDelivered
