SPECIFICATION Spec
CONSTANTS
  ListenFd = 3
  MaxFd = 5
  MAX_LENGTH = 6
  BUFFSIZE = 2
  Bytes = {1}
  Junk = Junk
  MaxRead = 4
  Urls = {u1, u2}
  NULL = NULL
CHECK_DEADLOCK FALSE
INVARIANTS
  LegacyTypeOK
  MessagesFit
  TextArrives
  PresentOrigin
