\* Slots: restarts and releases.
SPECIFICATION Spec
CONSTANTS
  MaxId = 3
  Capacity = 1
  MaxMonitors = 1
  Calls <- SlotCalls
INVARIANTS
  TypeOK
  MessagesCounted
  OneActorPerSlot
  ReportedActorIsGone
  SuccessorGetsFreshMail
  ReleasedActorIsTold
