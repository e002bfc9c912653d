CONSTANTS
  P = P
  Q = Q
  R = R
  ta = ta
  tb = tb
  tc = tc
  td = td
  te = te
  tf = tf
  None = None
  ImplParams <- ImplR
  FnParams <- FnPQ
  Types <- MCTypes
  Kind <- MCKind
  Family <- MCFamily
  Tag <- MCTag
  Readable <- MCReadable
  Groups <- MCGroups
  Targets <- MCTargets
  ImportArms <- MCImportArms
  ExportRank <- Alphabetical
  ImportRank <- Renamed
  Explicit <- TagR
  Foreign = FALSE
  Output = Q
SPECIFICATION Spec
INVARIANTS DecodedAsErased KnownNeverRefused
