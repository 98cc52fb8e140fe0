SPECIFICATION Spec
CONSTANTS
  Programs <- Disagreeing
  MaxFrame = 16
  MaxNodes = 20
  MaxDepth = 2
  Registers = 40
INVARIANTS
  SameAnswer
CHECK_DEADLOCK FALSE
