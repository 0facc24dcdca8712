CONSTANTS
  PidOne = init
  Children = {child}
  Kworkers = {kw1, kw2}
  InitPgd = init_mm
  NoMm = none
SPECIFICATION BridgeSpec
INVARIANTS RuntimeMapped NotReentered WindowMasked OwnAddressSpace IrqDiscipline
