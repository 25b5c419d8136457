\* Three tasks transmit at once.
SPECIFICATION FairSpec
CONSTANTS
  heartbeat = heartbeat
  cmd = cmd
  rx = rx
  dpWrite = dpWrite
  queryAll = queryAll
  NoTask = NoTask
  Tasks <- MCTasks
  Frames <- MCFrames
  Bare <- MCBare
  MaxFrames = 2
INVARIANT NothingDropped
PROPERTIES SendsWholeFrames EverySendReturns
\* The bound MaxFrames stops the senders once the wire is full: no deadlock of the code.
CHECK_DEADLOCK FALSE
