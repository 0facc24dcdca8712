CONSTANTS
  Last = 5
  MonitorChunks = {1}
  ImageChunks = {2, 3}
  Bl1Chunks = {4}
  DtbChunks = {5}
  Probed = {2}
  Queries = 1
  Attempts = 2
SPECIFICATION Spec
INVARIANTS BootInv AnswersMatch VerifiedAtEntry
PROPERTY SessionEnds
CHECK_DEADLOCK FALSE
