CONSTANTS
  s1 = s1
  s2 = s2
  v1 = v1
  v2 = v2
  Bad = Bad
  NoValue = NoValue
  NoSource = NoSource
  Sources <- MCSources
  Values <- MCValues
  NullReleases = TRUE
SPECIFICATION Spec
PROPERTIES WritesHeldSource
