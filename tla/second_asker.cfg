SPECIFICATION Spec
CONSTANTS
  ListenFd = 3
  MaxFd = 6
  Urls = {u1}
  NoUrl = NoUrl
  NULL = NULL
  MaxAges = {1}
  DefaultMaxAge = 1
  TimeCap = 1
  BucketSize = 2
  TokenRate = 2
  Second = 1
  ResLen = 1
  AgeLen = 1
  KeysRead <- MCKeysRead
  ClientChunks <- OneGet
  OriginChunks <- InOnePiece
  MaxSends = 1
  MaxConns = 2
INVARIANTS
  EveryAskerWaits
