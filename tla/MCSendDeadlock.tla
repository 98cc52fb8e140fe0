--------------------------- MODULE MCSendDeadlock ---------------------------
(***************************************************************************)
(* Instances of SendDeadlock for TLC: who has which inbox, and what each   *)
(* isolate sends to or joins.                                              *)
(***************************************************************************)
EXTENDS SendDeadlock, TLC

CONSTANTS one, two, three, job, boxA, boxB

\* The first actor has an inbox of its own; the others live in a slot, one after the other.
Homes == (one :> boxA) @@ (two :> boxB) @@ (three :> boxB)

\* The first actor and whoever is in the slot send to each other.  The first in the slot
\* may join a task as well, and the second finds its own inbox full.
SlotTargets == (one :> {boxB}) @@ (two :> {boxA, job}) @@ (three :> {boxA, boxB}) @@ (job :> {})

\* One inbox each.
JoinHomes == (one :> boxA) @@ (two :> boxB)

\* A ring of three: an actor joins a task, which sends to an actor, which sends to the first.
RingTargets == (one :> {job}) @@ (two :> {boxA}) @@ (job :> {boxB})

\* One wait of each actor; the task only ends.
SlotWaits == [t \in Isolate |-> IF t \in Task THEN 0 ELSE 1]

\* One wait of each isolate.
OneWait == [t \in Isolate |-> 1]
=============================================================================
