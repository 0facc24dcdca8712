CONSTANTS
  Last = 5
  MonitorChunks = {1}
  ImageChunks = {2, 3}
  Bl1Chunks = {4}
  DtbChunks = {5}
  Probed = {2}
  Queries = 1
  Attempts = 2
SPECIFICATION Spec
INVARIANT EveryImageVerified
CHECK_DEADLOCK FALSE
