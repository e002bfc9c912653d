CONSTANTS
  v0 = v0
  v1 = v1
  Bad = Bad
  Nothing = Nothing
  Values <- MCValues
  Default <- v0
  NArgs = 4
  Kind <- TakeCopyOwnedView
  Configs <- MCConfigs
SPECIFICATION Spec
INVARIANTS TypeOK UntouchedUnlessRan OwnedSettled OutputSettled ValuesArrive ErrorModeReturns
PROPERTIES ImplementsCallSpec
