CONSTANTS
  Types <- AllTypes
  Stable <- MCStable
  Robust <- MCRobust
  OwnedBy <- MCOwnedBy
  CloneAt <- MCCloneAt
  HasNiche <- MCHasNiche
  NicheOf <- MCNicheOf
  IsNiche <- MCIsNiche
  IsValid <- MCIsValid
  Assign <- MCAssign
  Lends <- MCLends
  Vacated <- MCVacated
  Encode <- MCEncode
  Share <- MCShare
  Lend <- MCLend
  Decode <- MCDecode
  View <- MCView
  Borrowed <- MCBorrowed
  DefaultDecodeStore <- MCDefaultDecodeStore
  SyncEncode <- MCSyncEncode
  SyncDecode <- MCSyncDecode
  Strip <- MCStrip
  Mentions <- MCMentions
  IsValue <- MCIsValue
  IsCarrier <- MCIsCarrier
  Allocs <- MCAllocs
  Sole <- MCSole
  Lost <- MCLost
  Settles <- MCSettles
  After <- MCAfter
  Values <- MCValues
  Rewrites <- MCRewrites
  Lent <- MCLent
SPECIFICATION Spec
INVARIANTS TypeOK OnlyValues RoundTrip Ownership RefusalReclaims OnlyValidAccepted TwinsAgree StoreFresh SyncSettles
PROPERTIES SyncWrites
CHECK_DEADLOCK FALSE
