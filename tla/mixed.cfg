SPECIFICATION BusySpec
CONSTANTS
  ListenFd = 3
  MaxFd = 6
  Urls = {u1}
  NoUrl = NoUrl
  NULL = NULL
  MaxAges = {0}
  DefaultMaxAge = 0
  TimeCap = 0
  BucketSize = 0
  TokenRate = 0
  Second = 1
  ResLen = 0
  AgeLen = 0
  KeysRead <- MCKeysRead
  ClientChunks <- OneRequest
  OriginChunks <- AnswerOrPiece
  MaxSends = 1
  MaxConns = 2
INVARIANTS
  WaitersAreAskers
  WatchedSockets
  TunnelTruth
PROPERTIES
  EverythingRead
