\* The robot refuses a tap and echoes the value the cache already holds; the
\* bridge is hydrated and idle when the app taps.
SPECIFICATION Spec
CONSTANTS
  DumpOrder <- SuctionDumpOrder
  DpValues <- SuctionValues
  McuBoot <- SuctionBoot
  Attrs <- SuctionAttrs
  Taps <- SuctionTaps
  StMoves <- BootMoves
  SendMayFail = FALSE
  Lossy = FALSE
  McuMayReject = TRUE
  MaxRx = 1
  MaxChanges = 0
  MaxBreaks = 0
  MaxTaps = 1
INVARIANT CacheIsLastPublished
ACTION_CONSTRAINT TapsWhenQuiet
