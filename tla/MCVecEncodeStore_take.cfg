CONSTANTS
  p1 = p1
  p2 = p2
  v0 = v0
  v1 = v1
  v2 = v2
  Bad = Bad
  None = None
  Places <- MCPlaces
  Len <- MCLen
  Values <- MCValues
  Default <- v0
  Kind = "take"
SPECIFICATION Spec
INVARIANTS WritebackPaired
PROPERTIES SyncRestores ImplementsWriteback
