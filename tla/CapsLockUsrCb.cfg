\* A report frees the string while a command's user callback reads it.
SPECIFICATION TextSpec
CONSTANTS
  rx = rx
  cmd = cmd
  st = st
  b1 = b1
  b2 = b2
  b3 = b3
  auto = auto
  spot = spot
  Reporters <- MCReporters
  Commanders <- MCCommanders
  Initers <- MCIniters
  Blocks <- MCBlocks
  Strings <- MCStrings
  NULL = NULL
  NoTask = NoTask
  AllocMayFail = FALSE
INVARIANT NoUseAfterFree
