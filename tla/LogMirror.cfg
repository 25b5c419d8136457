\* Two tasks log two lines into queues of one line, two viewers come and go.
SPECIFICATION LoggersSpec
CONSTANTS
  rx = rx
  stdk = stdk
  v1 = v1
  v2 = v2
  Nobody = Nobody
  Loggers <- MCLoggers
  Viewers <- MCViewers
  MAX_SUBS = 2
  QUEUE_DEPTH = 1
  MaxLines = 2
INVARIANTS TypeOK CopiesAccounted OwnLinesInOrder
PROPERTIES LoggingReturns SlotReleased
