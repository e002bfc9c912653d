CONSTANTS
  s1 = s1
  s2 = s2
  s3 = s3
  v1 = v1
  v2 = v2
  Bad = Bad
  Null = Null
  None = None
  Slices <- MCSlices
  Len <- MCLen
  Values <- MCValues
  MaxDecodes = 2
SPECIFICATION SliceSpec
INVARIANTS LentMatchesSource
PROPERTIES SyncWhole
