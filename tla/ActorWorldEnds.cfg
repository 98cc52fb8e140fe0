\* Actors, tasks and inboxes made while the world ends; monitors; the destructor returns.
SPECIFICATION FairSpec
CONSTANTS
  MaxId = 2
  Capacity = 1
  MaxMonitors = 1
  Calls <- EndingCalls
INVARIANTS
  WorldOutlivesIsolates
  NoActorMissesTheEnd
  ExactlyOneReport
PROPERTIES
  WorldEnds
