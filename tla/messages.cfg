SPECIFICATION Spec
CONSTANTS
  ListenFd = 3
  MaxFd = 5
  BufSize = 3
  BufListSize = 1
  MaxInt = 23
  Numeral <- MCNumeral
  MaxHeaderSize = 9
  StackSize = 9
  DefaultMaxAge = 60
  NoMessage = NoMessage
  Part <- MCPart
  MaxNodes = 2
  Requests <- MCRequests
  Responses <- MCResponses
CHECK_DEADLOCK FALSE
INVARIANTS
  AssemblyTypeOK
  Fits
  ScanInBounds
  RequestMeant
  RecognisedAtItsEnd
PROPERTIES
  PlainNeverFaults
