CONSTANTS
  Script = 2
  MaxTyped = 2
  MaxPrompts = 2
  Idle = 2
  Runtime = 3
  KeptLines = 1
  MaxFrames = 1
SPECIFICATION MCSpec
INVARIANTS ConsoleInv FollowInv
PROPERTIES TypedSent RuntimeEnds
CHECK_DEADLOCK FALSE
