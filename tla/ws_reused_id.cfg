SPECIFICATION Spec
CONSTANTS
  i1 = i1
  i2 = i2
  NoId = NoId
  None = None
  Subs <- TwoSubs
  Ids <- OneId
  MaxEvents = 1
  ChanCap = 1
  InboxCap = 2
  Patient = TRUE
  Reuse = TRUE
  GateCancels = FALSE
INVARIANTS
  StopCancels
