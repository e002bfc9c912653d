CONSTANTS
  P = P
  Q = Q
  R = R
  ta = ta
  tb = tb
  tc = tc
  td = td
  te = te
  tf = tf
  None = None
  ImplParams <- NoTags
  FnParams <- FnPQR
  Types <- MCTypes
  Kind <- MCKind
  Family <- MCFamily
  Tag <- MCTag
  Readable <- MCReadable
  Groups <- MCGroups
  Targets <- MCTargets
  ImportArms <- MCImportArms
  ExportRank <- Swapped
  ImportRank <- Renamed
  Explicit <- NoTags
  Foreign = TRUE
  Output = Q
SPECIFICATION Spec
INVARIANTS DocumentedOrderSelects
