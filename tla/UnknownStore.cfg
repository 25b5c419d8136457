\* A poller that may lose its connection against frames that keep arriving.
SPECIFICATION StoreSpec
CONSTANTS
  s1 = s1
  s2 = s2
  s3 = s3
  Signatures <- MCSignatures
  Free = Free
  N = 2
  MaxRecords = 4
INVARIANTS OneRowEach CountsAddUp
PROPERTY RenderedRowsSurvive
