SPECIFICATION Spec
CONSTANTS
  None = None
  Subs <- Requests
  MaxEvents = 2
  ChanCap = 1
  Bad <- NoneBad
  Tracked = TRUE
  GateCancels = TRUE
INVARIANTS
  ReturnedComplete
