CONSTANTS
  c1 = c1
  c2 = c2
  c3 = c3
  v0 = v0
  v1 = v1
  v2 = v2
  Bad = Bad
  NoCarrier = NoCarrier
  NoCell = NoCell
  Cells <- MCCells
  Values <- MCValues
  Default <- v0
  MoveOut = TRUE
  MaxCarriers = 3
SPECIFICATION Spec
INVARIANTS TypeOK CarrierDecodedOnce PendingOfOriginal
PROPERTIES WritebackOnlyToSource ImplementsWriteback
