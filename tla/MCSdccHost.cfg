CONSTANTS
  Words = 2
  FifoDepth = 1
  Jiffies = 6
  CmdTicks = 1
  DataTicks = 2
  Requests <- MCRequests
  Settings <- MCSettings
SPECIFICATION Spec
INVARIANTS SdccInv ReportTrue OwnAnswer
PROPERTIES CompletionKept RequestEnds
