\* Every strategy, with and without a stop deadline.
SPECIFICATION Spec
CONSTANTS
  Children = 3
  MaxCrashes = 2
  Settings <- AllSettings
INVARIANTS
  BlamedHasEnded
  EndsInOrder
  NobodyIsOrphaned
PROPERTIES
  StopEndsIt
  CrashIsAnswered
