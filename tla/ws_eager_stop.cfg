SPECIFICATION FairSpec
CONSTANTS
  i1 = i1
  i2 = i2
  NoId = NoId
  None = None
  Subs <- OneSub
  Ids <- OneId
  MaxEvents = 1
  ChanCap = 1
  InboxCap = 2
  Patient = FALSE
  Reuse = FALSE
  GateCancels = FALSE
PROPERTIES
  StopAnswered
