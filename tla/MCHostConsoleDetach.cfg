CONSTANTS
  Script = 2
  MaxTyped = 2
  MaxPrompts = 2
SPECIFICATION Spec
PROPERTIES DetachWorks
CHECK_DEADLOCK FALSE
