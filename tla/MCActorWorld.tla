---------------------------- MODULE MCActorWorld ----------------------------
(***************************************************************************)
(* Instances of ActorWorld for TLC: what the programs of one run call.     *)
(***************************************************************************)
EXTENDS ActorWorld

\* The root restarts and releases slots, the actors in them crash and return.
SlotCalls ==
  [i \in Id |->
     IF i = Root
     THEN {"newSlot", "spawnInto", "releaseSlot", "stopActor", "send", "return", "fault",
           "threadFails"}
     ELSE {"receive", "send", "return", "fault"}]

\* A supervising actor restarts the actor in a slot while the root ends the world.
RestartCalls ==
  [i \in Id |->
     CASE i = Root -> {"spawnActor", "return"}
       [] i = 1 -> {"newSlot", "spawnInto", "receive"}
       [] OTHER -> {"receive", "fault"}]

\* Actors that receive until they are stopped, or crash; the first of them starts another
\* actor or makes another inbox meanwhile, and watches itself, the other or an address long
\* gone; the root starts a task that it may join.
EndingCalls ==
  [i \in Id |->
     CASE i = Root -> {"spawnActor", "spawn", "join", "return"}
       [] i = 1 -> {"spawnActor", "newInbox", "closeInbox", "monitor", "receive", "return"}
       [] OTHER -> {"spawnActor", "newInbox", "receive", "return", "fault"}]
=============================================================================
