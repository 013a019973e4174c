SPECIFICATION FairNozomiSpec
CONSTANTS
  Items = {i1}
  RetryThread = retry
  NoItem = NoItem
  SignedUrls = {u1, u2}
  GroundTruth = {}
  MaxTries = 2
  MaxCrashes = 1
PROPERTIES
  VerdictDelivered
