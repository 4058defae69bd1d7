SPECIFICATION Spec
CONSTANTS
  c1 = c1
  c2 = c2
  None = None
  Conns <- TwoConns
  Requests <- CallRequests
  Procs <- ProcTable
  Global <- Limiters
  Capacity = 2
  Limit = 1
  Rate = 1
  Idle = 1
  Thrown <- HandlerErrors
  Cors = TRUE
  Panel = TRUE
  Transformer = TRUE
SYMMETRY ConnSymmetry
INVARIANTS
  TypeOK
  KeyRate
  ReplyFaithful

  
