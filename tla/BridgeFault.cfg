\* The fault and status tiles over a lossy UART, a broken session and a
\* re-hydration: no taps.
SPECIFICATION Spec
CONSTANTS
  DumpOrder <- FaultDumpOrder
  DpValues <- FaultValues
  McuBoot <- FaultBoot
  Attrs <- FaultAttrs
  Taps <- NoTaps
  StMoves <- FaultMoves
  SendMayFail = FALSE
  Lossy = TRUE
  McuMayReject = FALSE
  MaxRx = 2
  MaxChanges = 1
  MaxBreaks = 1
  MaxTaps = 0
INVARIANTS SuppressionSound FaultAndStateAgree HydratedOncePerSession
