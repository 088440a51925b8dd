SPECIFICATION FairSpec
CONSTANTS
  Streams = {s1, s2}
  Publishers = {p1}
  Requests = {}
  BufSize = 2
  MaxEvents = 3
  NoMap = NoMap
INVARIANTS TypeOK OpenIsReachable InOrder
PROPERTIES NothingLost PublishReturns StreamIsReleased
CHECK_DEADLOCK FALSE
