\* One settable tile and Find Me: a tap, a lost session, a restart, in any
\* order, and a robot that never repeats an unchanged DP unless it wants to.
SPECIFICATION FairSpec
CONSTANTS
  DumpOrder <- SuctionDumpOrder
  DpValues <- SuctionValues
  McuBoot <- SuctionBoot
  Attrs <- SuctionAttrs
  Taps <- SuctionOrLocate
  StMoves <- BootMoves
  SendMayFail = FALSE
  Lossy = FALSE
  McuMayReject = TRUE
  MaxRx = 1
  MaxChanges = 1
  MaxBreaks = 1
  MaxTaps = 1
INVARIANTS TypeOK IconInStep
PROPERTY Converges
