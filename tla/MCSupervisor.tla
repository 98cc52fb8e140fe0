---------------------------- MODULE MCSupervisor ----------------------------
(***************************************************************************)
(* Instances of Supervisor for TLC: which settings superviseWith is called *)
(* with.                                                                   *)
(***************************************************************************)
EXTENDS Supervisor

Setting(strategy, timeout, in_slot, count) ==
  [strategy |-> strategy, maxRestarts |-> 1, within |-> 1, stopTimeout |-> timeout,
   count |-> count, in_slot |-> in_slot, obedient |-> timeout = 0, returns |-> count < 3]

\* One child at a time in slots, groups at addresses of their own, with and without a
\* deadline; three children where a second crash may widen the group.
AllSettings ==
  {Setting("OneForOne", 1, {1}, 2), Setting("OneForAll", 0, {}, 2),
   Setting("OneForAll", 1, {}, 2), Setting("RestForOne", 0, {}, 3)}
=============================================================================
