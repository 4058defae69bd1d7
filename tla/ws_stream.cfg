SPECIFICATION FairSpec
CONSTANTS
  i1 = i1
  i2 = i2
  NoId = NoId
  None = None
  Subs <- OneSub
  Ids <- OneId
  MaxEvents = 3
  ChanCap = 1
  InboxCap = 2
  Patient = TRUE
  Reuse = FALSE
  GateCancels = FALSE
INVARIANTS
  AtMostOneLate
PROPERTIES
  CloseDrains
  Teardown
  StreamContract
  StopAnswered
