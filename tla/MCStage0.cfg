CONSTANTS
  Modulus = 8
  SafeStart = 2
  SafeEnd = 5
  Align = 2
  Byte = {0, 1}
  Queries = 2
  MaxRuns = 2
  MaxLink = 2
  DirectStart = 1
  DirectEnd = 3
  MonitorBase = 4
  MonitorSize = 1
  ExtraStart = 6
  RamEnd = 8
  MaxChunk = 1
  Attempts = 3
  MaxImages = 2
  MaxLength = 2
SPECIFICATION MCSpec
INVARIANTS ReadsInside CrcExact ToolInv PassSound LoaderInv
CHECK_DEADLOCK FALSE
