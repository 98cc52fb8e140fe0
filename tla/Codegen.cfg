SPECIFICATION Spec
CONSTANTS
  Programs <- Agreeing
  MaxFrame = 13
  MaxNodes = 20
  MaxDepth = 2
  Registers = 40
INVARIANTS
  SameAnswer
  FramesAreTight
PROPERTY
  Finishes
CHECK_DEADLOCK FALSE
