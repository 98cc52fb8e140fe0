\* A restart while the world ends: the successor is not told.
SPECIFICATION Spec
CONSTANTS
  MaxId = 4
  Capacity = 1
  MaxMonitors = 1
  Calls <- RestartCalls
INVARIANTS
  EveryActorGetsStop
