SPECIFICATION Spec
CONSTANTS
  i1 = i1
  i2 = i2
  NoId = NoId
  None = None
  Subs <- TwoSubs
  Ids <- TwoIds
  MaxEvents = 0
  ChanCap = 1
  InboxCap = 2
  Patient = TRUE
  Reuse = FALSE
  GateCancels = FALSE
INVARIANTS
  TypeOK
  RegistryExact
  StopCancels
