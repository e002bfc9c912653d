CONSTANTS
  s1 = s1
  s2 = s2
  v1 = v1
  v2 = v2
  Bad = Bad
  None = None
  Sources <- MCSources
  Len <- MCLen
  Values <- MCValues
  Direct = FALSE
SPECIFICATION Spec
INVARIANTS DestinationsLive
PROPERTIES ElementsArrive ImplementsWriteback
