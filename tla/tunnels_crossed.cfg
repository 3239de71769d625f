SPECIFICATION Spec
CONSTANTS
  ListenFd = 3
  MaxFd = 7
  Urls = {u1}
  NoUrl = NoUrl
  NULL = NULL
  MaxAges = {0}
  DefaultMaxAge = 0
  TimeCap = 0
  BucketSize = 0
  TokenRate = 0
  Second = 1
  ResLen = 0
  AgeLen = 0
  KeysRead <- MCKeysRead
  ClientChunks <- MCClientChunks
  OriginChunks <- MCOriginChunks
  MaxSends = 2
  MaxConns = 2
INVARIANTS
  TunnelTruth
