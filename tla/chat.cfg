SPECIFICATION Spec
CONSTANTS
  s1 = s1
  s2 = s2
  k1 = k1
  k2 = k2
  Senders <- TwoSenders
  Listeners <- TwoListeners
  Rooms <- TwoRooms
  Past = 2
  MaxMessages = 4
  Cap = 2
  ChanCap = 1
SYMMETRY ChatSymmetry
INVARIANTS
  TypeOK
  HistoryExact
  NotSkipped
  OncePerListener
  FailsOnlyForLeavers
PROPERTY
  ListsStable
CHECK_DEADLOCK FALSE
