\* A report, a command and an init_cb on one of two strings, with failing
\* allocations, fairly scheduled.
SPECIFICATION FairTextSpec
CONSTANTS
  rx = rx
  cmd = cmd
  st = st
  b1 = b1
  b2 = b2
  b3 = b3
  auto = auto
  spot = spot
  Reporters <- MCReporters
  Commanders <- MCCommanders
  Initers <- MCIniters
  Blocks <- MCBlocks
  Strings <- MCStrings
  NULL = NULL
  NoTask = NoTask
  AllocMayFail = TRUE
INVARIANTS LockedAccessSafe HeapAccounted NoLockAcrossPublish
PROPERTIES SetsAndSendsAreAtomic EveryCallReturns
