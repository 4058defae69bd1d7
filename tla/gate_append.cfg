SPECIFICATION Spec
CONSTANTS
  c1 = c1
  c2 = c2
  None = None
  Conns <- TwoConns
  Requests <- FeedRequests
  Procs <- TwoFeeds
  Global <- Guards
  Capacity = 4
  Limit = 1
  Rate = 1
  Idle = 1
  Thrown <- HandlerErrors
  Cors = TRUE
  Panel = TRUE
  Transformer = TRUE
INVARIANTS
  OwnMiddlewares
