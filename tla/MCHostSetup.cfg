CONSTANTS
  Payload = {image}
  Pinned = {}
  Plain = {readme}
  Runs = {r1, r2}
  Kit = kit
  Relative = FALSE
  Modems = {m1, m2}
  MaxCycles = 1
  Payloads <- FourPayloads
  Alphabet = {0, 65, 93, 94, 125, 126, 255}
  MaxLen = 2
SPECIFICATION MCSpec
INVARIANTS KitInv SessionComplete LeftoverExplained StreamInv
PROPERTY UploadsToSwitched
SYMMETRY RunSymmetry
CHECK_DEADLOCK FALSE
