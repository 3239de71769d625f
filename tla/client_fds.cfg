SPECIFICATION Spec
CONSTANTS
  NULL = NULL
  Junk = Junk
  InitialSlots = 1
  Descriptors = {4, 5, 6}
  MaxLen = 4
INVARIANTS
  UtArrayTypeOK
  WaitersAnswered
PROPERTIES
  ImplementsFdList
