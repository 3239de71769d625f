SPECIFICATION Spec
CONSTANTS
  BucketSize = 3
  TokenRate = 2
  Second = 3
  AgeLen = 1
  Sizes = {1, 3}
  Horizon = 10
INVARIANTS
  BucketTypeOK
  CreditBacked
  RoundingLoss
PROPERTIES
  ImplementsRateLimit
