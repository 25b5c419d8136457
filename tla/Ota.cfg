\* Good and bad builds, published in any order, with lost power.
SPECIFICATION FairSpec
CONSTANTS
  v1 = v1
  v2 = v2
  v3 = v3
  v4 = v4
  v5 = v5
  v6 = v6
  Images <- MCImages
  Version <- MCVersion
  Starts <- MCStarts
  Connects <- MCConnects
  Fetches <- MCFetches
  Factory = v1
  NoImage = NoImage
  Interval = 30
  Deadline = 60
  MarkMayFail = TRUE
  MaxReleases = 3
  MaxPowerLosses = 2
INVARIANTS TypeOK Recoverable NeverOlderThanConfirmed
PROPERTY ConvergesToRelease
