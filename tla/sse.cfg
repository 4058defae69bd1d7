SPECIFICATION FairSpec
CONSTANTS
  None = None
  Subs <- Requests
  MaxEvents = 3
  ChanCap = 1
  Bad <- OneBad
  Tracked = TRUE
  GateCancels = FALSE
INVARIANTS
  TypeOK
  ResumeExact
  ReturnedComplete
PROPERTIES
  StreamContract
  RequestsEnd
  StreamEnds
