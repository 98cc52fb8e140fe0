----------------------------- MODULE Supervisor -----------------------------
(***************************************************************************)
(* superviseWith (src/static_compiler/std/supervisor.skn): the loop that   *)
(* starts children, reads the reports of their ends, restarts what the     *)
(* strategy says, gives up at the restart limit or at a stop deadline, and *)
(* shuts down at Stop.                                                     *)
(*                                                                         *)
(* Beside the supervisor run the children's threads.  Of their lives only  *)
(* the epilogue is told apart (run_isolate, src/vmcore/vmcore.cpp): the    *)
(* address is given up, then a crash is reported to the starter, then the  *)
(* watchers get their report; the supervisor runs between any two of them. *)
(* One action is one call of the runtime with the local work around it.    *)
(*                                                                         *)
(* A child is a number, an actor is the n-th one started for its child.    *)
(* Its address is its own, or the child's when the child lives in a slot;  *)
(* reports name addresses.  Time is counted in ticks: deadlines run down,  *)
(* and a crash remembers its age, so no clock value is bounded.  Messages, *)
(* which the loop ignores, are left out.                                   *)
(***************************************************************************)
EXTENDS Integers, Sequences, FiniteSetsExt

CONSTANTS
  Children,     \* bound: of one supervisor
  MaxCrashes,   \* bound: crashes in the whole run
  Settings      \* the specs and children a program may call superviseWith with

Strategies == {"OneForOne", "OneForAll", "RestForOne"}
Child == 1 .. Children
Nth == 1 .. MaxCrashes + 1      \* actors of one child; a child is restarted once per crash
NoChild == 0                    \* restartFrom = -1

\* count: how many children; in_slot: those made with childIn; obedient: every child comes to
\* a receive; returns: a child may also end unasked.
SettingOf ==
  [strategy: Strategies, maxRestarts: Nat, within: Nat, stopTimeout: Nat,
   count: Child, in_slot: SUBSET Child, obedient: BOOLEAN, returns: BOOLEAN]

ASSUME ChildrenAssumption == Children \in Nat \ {0}
ASSUME MaxCrashesAssumption == MaxCrashes \in Nat
\* What superviseWith demands before it starts anybody.
ASSUME SettingsAssumption ==
  \A s \in Settings : s \in SettingOf /\ s.within >= 1

VARIABLES
  spec,         \* the SupervisorSpec and the children it was called with
  pc, i,        \* where the supervisor is, and at which child
  state,        \* of each child as the supervisor sees it
  running,      \* which actor of each child it holds the address of, 0 before the first
  recent,       \* ages of the crashes it counts, oldest first
  restartFrom,
  left,         \* what is left until the deadline
  q,            \* the supervisor's main inbox
  stop_put,     \* Stop has been put there
  actor,        \* the actors, [child][nth]
  released,     \* the children whose slot was released
  crashes,      \* history: how many actors crashed
  told_down,    \* history: the children told to stop by the shutdown ...
  abandoned     \* ... and those it did not wait for to the end

vars == <<spec, pc, i, state, running, recent, restartFrom, left, q, stop_put, actor,
          released, crashes, told_down, abandoned>>
history == <<told_down, abandoned>>

Over == {"returned", "limit", "deadline", "fault"}

Report(address) == [kind |-> "exited", of |-> address]
StopMail == [kind |-> "stop", of |-> <<1, 0>>]

Init ==
  /\ spec \in Settings
  /\ pc = "start" /\ i = 1
  /\ state = [c \in Child |-> "DOWN"]
  /\ running = [c \in Child |-> 0]
  /\ recent = <<>> /\ restartFrom = NoChild /\ left = 0
  /\ q = <<>> /\ stop_put = FALSE
  /\ actor = [c \in Child |-> [n \in Nth |->
       [at |-> "none", faulted |-> FALSE, watched |-> FALSE, stop |-> FALSE]]]
  /\ released = {}
  /\ crashes = 0 /\ told_down = {} /\ abandoned = {}

-----------------------------------------------------------------------------
(* The runtime's calls, as the supervisor meets them.                      *)

\* Mutant: an actor is known by its child.
AddressOfChild(c, n) == <<c, 0>>

Address(c, n) == IF c \in spec.in_slot THEN <<c, 0>> ELSE <<c, n>>

Lives(c, n) == actor[c][n].at = "running"
Occupied(c) == \E n \in Nth : Lives(c, n)

\* The actor that the address held for child c leads to: there is at most one.
Reached(c) ==
  {n \in Nth : Lives(c, n) /\ c \notin released /\ Address(c, n) = Address(c, running[c])}

\* rawMonitor: whoever runs there will report, or a report is made at once.
Watch(c) ==
  /\ actor' = [actor EXCEPT ![c] = [n \in Nth |->
                 [actor[c][n] EXCEPT !.watched = @ \/ n \in Reached(c)]]]
  /\ q' = IF Reached(c) = {} THEN Append(q, Report(Address(c, running[c]))) ELSE q

\* rawStopActor.
Tell(c) ==
  actor' = [actor EXCEPT ![c] = [n \in Nth |->
              [actor[c][n] EXCEPT !.stop = @ \/ n \in Reached(c)]]]

\* rawSpawnInto faults when the slot has an actor or is gone.
Refused(c) == c \in spec.in_slot /\ (Occupied(c) \/ c \in released)

\* children[c].start(): pc' is "then" unless the call faults.
Start(c, then) ==
  IF Refused(c)
  THEN pc' = "fault" /\ UNCHANGED <<running, state, actor>>
  ELSE /\ pc' = then
       /\ running' = [running EXCEPT ![c] = @ + 1]
       /\ state' = [state EXCEPT ![c] = "UP"]
       /\ actor' = [actor EXCEPT ![c][running[c] + 1].at = "running"]

\* The actors once the supervisor has told the children of "told" to stop and released
\* every slot, which tells whoever is in one.
ToldAndReleased(told) ==
  [c \in Child |-> [n \in Nth |->
     [actor[c][n] EXCEPT !.stop = \/ @
                                  \/ Lives(c, n) /\ c \in spec.in_slot
                                  \/ c \in told /\ n \in Reached(c)]]]

ReleaseAll == released' = released \cup spec.in_slot

-----------------------------------------------------------------------------
(* The supervisor.                                                         *)

CountStopping(s) == Cardinality({c \in Child : s[c] = "STOPPING"})

Waits(s) == CountStopping(s) > 0 /\ spec.stopTimeout > 0

\* The top of the loop: a place of its own only when there is a deadline to look at.
Top(s) == IF Waits(s) THEN "loop" ELSE "recv"

StartFirst ==
  /\ pc = "start"
  /\ Start(i, IF i = spec.count THEN "recv" ELSE "start")
  /\ i' = i + 1
  /\ UNCHANGED <<spec, recent, restartFrom, left, q, stop_put, released, crashes, history>>

\* A deadline that has not passed is waited for.
Look ==
  /\ pc = "loop" /\ left > 0
  /\ pc' = "recv"
  /\ UNCHANGED <<spec, i, state, running, recent, restartFrom, left, q, stop_put, actor,
                 released, crashes, history>>

\* Mail is None: the addresses are given up and the supervisor panics.
TooLate ==
  /\ Waits(state) /\ left = 0
  /\ pc = "loop" \/ (pc = "recv" /\ q = <<>>)
  /\ actor' = ToldAndReleased({})
  /\ ReleaseAll
  /\ pc' = "deadline"
  /\ UNCHANGED <<spec, i, state, running, recent, restartFrom, left, q, stop_put, crashes,
                 history>>

TakeStop ==
  /\ pc = "recv" /\ q # <<>> /\ Head(q).kind = "stop"
  /\ q' = Tail(q)
  /\ pc' = "down" /\ i' = spec.count
  /\ UNCHANGED <<spec, state, running, recent, restartFrom, left, stop_put, actor,
                 released, crashes, history>>

\* _indexOf: the children whose present address a report names, one at most.
IndexOf(address) == {c \in Child : address = Address(c, running[c])}

ReportFromUp(c) ==
  /\ pc = "recv" /\ q # <<>> /\ Head(q).kind = "exited"
  /\ c \in IndexOf(Head(q).of) /\ state[c] = "UP"

\* A report of nobody's, or of a child that is down already.
TakeReportIgnored ==
  /\ pc = "recv" /\ q # <<>> /\ Head(q).kind = "exited"
  /\ \A c \in IndexOf(Head(q).of) : state[c] = "DOWN"
  /\ q' = Tail(q)
  /\ pc' = Top(state)
  /\ UNCHANGED <<spec, i, state, running, recent, restartFrom, left, stop_put, actor,
                 released, crashes, history>>

\* Mutant: the first child of a group that has ended starts the group again.
TakeReportStoppedEarly(c) ==
  /\ pc = "recv" /\ q # <<>> /\ Head(q).kind = "exited"
  /\ c \in IndexOf(Head(q).of) /\ state[c] = "STOPPING"
  /\ q' = Tail(q)
  /\ state' = [state EXCEPT ![c] = "DOWN"]
  /\ IF restartFrom # NoChild THEN pc' = "restart" /\ i' = restartFrom
     ELSE pc' = Top(state') /\ UNCHANGED i
  /\ UNCHANGED <<spec, running, recent, restartFrom, left, stop_put, actor, released,
                 crashes, history>>

\* A child that was asked to stop has ended; with the last one the group starts again.
TakeReportStopped(c) ==
  /\ pc = "recv" /\ q # <<>> /\ Head(q).kind = "exited"
  /\ c \in IndexOf(Head(q).of) /\ state[c] = "STOPPING"
  /\ q' = Tail(q)
  /\ state' = [state EXCEPT ![c] = "DOWN"]
  /\ IF CountStopping(state') = 0 /\ restartFrom # NoChild
     THEN pc' = "restart" /\ i' = restartFrom
     ELSE pc' = Top(state') /\ UNCHANGED i
  /\ UNCHANGED <<spec, running, recent, restartFrom, left, stop_put, actor, released,
                 crashes, history>>

\* _since.
Since(ages, within) == SelectSeq(ages, LAMBDA a : a < within)

\* A crash: counted, and answered as the strategy says.
TakeCrash(c) ==
  LET counted == Since(recent, spec.within) IN
  /\ ReportFromUp(c)
  /\ q' = Tail(q)
  /\ state' = [state EXCEPT ![c] = "DOWN"]
  /\ IF Len(counted) >= spec.maxRestarts
     THEN /\ pc' = "give_up" /\ recent' = counted
          /\ UNCHANGED <<i, restartFrom>>
     ELSE /\ recent' = Append(counted, 0)
          /\ CASE spec.strategy = "OneForOne" ->
                    pc' = "again" /\ i' = c /\ UNCHANGED restartFrom
               [] spec.strategy = "OneForAll" ->
                    pc' = "group" /\ i' = 1 /\ restartFrom' = 1
               [] spec.strategy = "RestForOne" ->
                    pc' = "group" /\ i' = c + 1 /\ restartFrom' = c
  /\ UNCHANGED <<spec, running, left, stop_put, actor, released, crashes, history>>

\* Mutant: the addresses are released, the children not told.
GiveUpQuietly ==
  /\ pc = "give_up"
  /\ actor' = ToldAndReleased({})
  /\ ReleaseAll
  /\ pc' = "limit"
  /\ UNCHANGED <<spec, i, state, running, recent, restartFrom, left, q, stop_put, crashes,
                 history>>

\* Too many: _tellToStop, every address released, a panic.
GiveUp ==
  /\ pc = "give_up"
  /\ actor' = ToldAndReleased({c \in Child : state[c] = "UP"})
  /\ ReleaseAll
  /\ pc' = "limit"
  /\ UNCHANGED <<spec, i, state, running, recent, restartFrom, left, q, stop_put, crashes,
                 history>>

StartAgain ==
  /\ pc = "again"
  /\ Start(i, "recv")
  /\ UNCHANGED <<spec, i, recent, restartFrom, left, q, stop_put, released, crashes,
                 history>>

UpFrom(from) == {c \in from .. spec.count : state[c] = "UP"}
DownFrom(from) == {c \in from .. spec.count : state[c] = "DOWN"}

\* _stopGroup: the next child that is up is watched ...
GroupWatch ==
  /\ pc = "group" /\ UpFrom(i) # {}
  /\ i' = Min(UpFrom(i))
  /\ Watch(i')
  /\ pc' = "group_tell"
  /\ UNCHANGED <<spec, state, running, recent, restartFrom, left, stop_put, released,
                 crashes, history>>

\* ... and then told.
GroupTell ==
  /\ pc = "group_tell"
  /\ Tell(i)
  /\ state' = [state EXCEPT ![i] = "STOPPING"]
  /\ pc' = "group"
  /\ UNCHANGED <<spec, i, running, recent, restartFrom, left, q, stop_put, released, crashes,
                 history>>

\* Mutant: the group is always waited for, also when nobody of it was up.
GroupToldWaits ==
  /\ pc = "group" /\ UpFrom(i) = {}
  /\ pc' = Top(state) /\ left' = spec.stopTimeout
  /\ UNCHANGED <<spec, i, state, running, recent, restartFrom, q, stop_put, actor, released,
                 crashes, history>>

\* The whole group is told: wait for it, or start it at once when nobody was up.
GroupTold ==
  /\ pc = "group" /\ UpFrom(i) = {}
  /\ IF CountStopping(state) > 0
     THEN pc' = Top(state) /\ left' = spec.stopTimeout /\ UNCHANGED i
     ELSE pc' = "restart" /\ i' = restartFrom /\ UNCHANGED left
  /\ UNCHANGED <<spec, state, running, recent, restartFrom, q, stop_put, actor, released,
                 crashes, history>>

\* _startDown.
Restart ==
  /\ pc = "restart" /\ DownFrom(i) # {}
  /\ i' = Min(DownFrom(i))
  /\ Start(i', "restart")
  /\ UNCHANGED <<spec, recent, restartFrom, left, q, stop_put, released, crashes, history>>

Restarted ==
  /\ pc = "restart" /\ DownFrom(i) = {}
  /\ restartFrom' = NoChild
  /\ pc' = "recv"
  /\ UNCHANGED <<spec, i, state, running, recent, left, q, stop_put, actor, released,
                 crashes, history>>

UpTo(to) == {c \in 1 .. to : state[c] = "UP"}

\* _shutdown, from the last child to the first.
DownWatch ==
  /\ pc = "down" /\ UpTo(i) # {}
  /\ i' = Max(UpTo(i))
  /\ Watch(i')
  /\ pc' = "down_tell"
  /\ UNCHANGED <<spec, state, running, recent, restartFrom, left, stop_put, released,
                 crashes, history>>

\* Mutant: no child is waited for.
DownTellAll ==
  /\ pc = "down_tell"
  /\ Tell(i)
  /\ state' = [state EXCEPT ![i] = "STOPPING"]
  /\ left' = spec.stopTimeout
  /\ pc' = "down"
  /\ told_down' = told_down \cup {i}
  /\ UNCHANGED <<spec, i, running, recent, restartFrom, q, stop_put, released, crashes,
                 abandoned>>

DownTell ==
  /\ pc = "down_tell"
  /\ Tell(i)
  /\ state' = [state EXCEPT ![i] = "STOPPING"]
  /\ left' = spec.stopTimeout
  /\ pc' = IF spec.stopTimeout > 0 THEN "poll" ELSE "down"
  /\ told_down' = told_down \cup {i}
  /\ UNCHANGED <<spec, i, running, recent, restartFrom, q, stop_put, released, crashes,
                 abandoned>>

\* _drain, one mail at a time.
Drain ==
  /\ pc = "poll" /\ q # <<>>
  /\ q' = Tail(q)
  /\ state' = [c \in Child |-> IF c \in IndexOf(Head(q).of) /\ state[c] = "STOPPING"
                               THEN "DOWN" ELSE state[c]]
  /\ UNCHANGED <<spec, pc, i, running, recent, restartFrom, left, stop_put, actor, released,
                 crashes, history>>

\* Nothing more to read: a receive now answers the Stop again.
Drained ==
  /\ pc = "poll" /\ q = <<>>
  /\ pc' = "check"
  /\ UNCHANGED <<spec, i, state, running, recent, restartFrom, left, q, stop_put, actor,
                 released, crashes, history>>

\* Mutant: the shutdown waits for every child to the end.
CheckForever ==
  /\ pc = "check"
  /\ pc' = IF state[i] # "STOPPING" THEN "down" ELSE "poll"
  /\ UNCHANGED <<spec, i, state, running, recent, restartFrom, left, q, stop_put, actor,
                 released, crashes, history>>

\* Ended, abandoned, or slept on for a millisecond.
Check ==
  /\ pc = "check"
  /\ pc' = IF state[i] # "STOPPING" \/ left = 0 THEN "down" ELSE "poll"
  /\ abandoned' = abandoned \cup
       (IF state[i] = "STOPPING" /\ left = 0 THEN {i} ELSE {})
  /\ UNCHANGED <<spec, i, state, running, recent, restartFrom, left, q, stop_put, actor,
                 released, crashes, told_down>>

ShutDown ==
  /\ pc = "down" /\ UpTo(i) = {}
  /\ actor' = ToldAndReleased({})
  /\ ReleaseAll
  /\ pc' = "returned"
  /\ UNCHANGED <<spec, i, state, running, recent, restartFrom, left, q, stop_put, crashes,
                 history>>

-----------------------------------------------------------------------------
(* The children, and whoever stops the supervisor.                         *)

Goes(c, n, at) == actor' = [actor EXCEPT ![c][n].at = at]

\* What happens to a child after its supervisor is over is not followed.
Followed(c, n, at) == pc \notin Over /\ actor[c][n].at = at

Tells(c, n) == q' = Append(q, Report(Address(c, n)))

\* The program is over and the address given up; a thread with nobody to tell is done.
Ends(c, n, faulted) ==
  actor' = [actor EXCEPT ![c][n].faulted = faulted,
                         ![c][n].at = IF faulted THEN "closed"
                                      ELSE IF actor[c][n].watched THEN "told" ELSE "done"]

ActorReturns(c, n) ==
  /\ Followed(c, n, "running") /\ (spec.returns \/ actor[c][n].stop)
  /\ Ends(c, n, FALSE)
  /\ UNCHANGED <<spec, pc, i, state, running, recent, restartFrom, left, q, stop_put,
                 released, crashes, history>>

ActorCrashes(c, n) ==
  /\ Followed(c, n, "running") /\ crashes < MaxCrashes
  /\ Ends(c, n, TRUE)
  /\ crashes' = crashes + 1
  /\ UNCHANGED <<spec, pc, i, state, running, recent, restartFrom, left, q, stop_put,
                 released, history>>

\* The crash report.
TellStarter(c, n) ==
  /\ Followed(c, n, "closed")
  /\ Goes(c, n, IF actor[c][n].watched THEN "told" ELSE "done")
  /\ Tells(c, n)
  /\ UNCHANGED <<spec, pc, i, state, running, recent, restartFrom, left, stop_put, released,
                 crashes, history>>

\* The report to the watcher.
TellWatchers(c, n) ==
  /\ Followed(c, n, "told")
  /\ Goes(c, n, "done")
  /\ Tells(c, n)
  /\ UNCHANGED <<spec, pc, i, state, running, recent, restartFrom, left, stop_put, released,
                 crashes, history>>

SomebodyStopsIt ==
  /\ ~stop_put /\ pc \notin Over
  /\ stop_put' = TRUE /\ q' = Append(q, StopMail)
  /\ UNCHANGED <<spec, pc, i, state, running, recent, restartFrom, left, actor, released,
                 crashes, history>>

\* Older than the window is as old as it matters.
Older(a) == IF a < spec.within THEN a + 1 ELSE a

Tick ==
  /\ pc \notin Over
  /\ left > 0 \/ (\E k \in DOMAIN recent : recent[k] < spec.within)
  /\ left' = IF left > 0 THEN left - 1 ELSE 0
  /\ recent' = [k \in DOMAIN recent |-> Older(recent[k])]
  /\ UNCHANGED <<spec, pc, i, state, running, restartFrom, q, stop_put, actor, released,
                 crashes, history>>

Finished == pc \in Over /\ UNCHANGED vars

-----------------------------------------------------------------------------

Supervise ==
  \/ StartFirst \/ Look \/ TooLate \/ TakeStop \/ TakeReportIgnored
  \/ \E c \in Child : TakeReportStopped(c) \/ TakeCrash(c)
  \/ GiveUp \/ StartAgain
  \/ GroupWatch \/ GroupTell \/ GroupTold \/ Restart \/ Restarted
  \/ DownWatch \/ DownTell \/ Drain \/ Drained \/ Check \/ ShutDown

Epilogue(c, n) == TellStarter(c, n) \/ TellWatchers(c, n)

Next ==
  \/ Supervise
  \/ \E c \in Child, n \in Nth :
       ActorReturns(c, n) \/ ActorCrashes(c, n) \/ Epilogue(c, n)
  \/ SomebodyStopsIt \/ Tick \/ Finished

\* The supervisor and the children's threads are scheduled, time passes; a child obeys only
\* where the setting says that it comes to a receive.  Both kinds of the children's steps
\* are few, so fairness to all of them at once is fairness to each.
Obeys(c, n) == spec.obedient /\ actor[c][n].stop /\ ActorReturns(c, n)

Spec ==
  /\ Init /\ [][Next]_vars
  /\ WF_vars(Supervise) /\ WF_vars(Tick)
  /\ WF_vars(\E c \in Child, n \in Nth : Epilogue(c, n))
  /\ WF_vars(\E c \in Child, n \in Nth : Obeys(c, n))

-----------------------------------------------------------------------------
(* Safety.                                                                 *)

\* Whoever is blamed for a crash has crashed: the report that makes a child count as
\* crashed is never a second one about an earlier actor at the address (supervisor.skn,
\* the comment at 166).
BlamedHasEnded ==
  pc \in {"again", "group", "give_up"} =>
    \A c \in Child : state[c] = "DOWN" => ~Occupied(c)

\* A group is started again only when every actor of it has ended: in between, nobody
\* from restartFrom on is left of the old group (supervisor.skn, 29-30).
GroupEndsFirst ==
  pc = "restart" =>
    \A c \in Child : c >= restartFrom =>
      /\ state[c] # "STOPPING"
      /\ \A n \in Nth : Lives(c, n) => n = running[c]

\* Whoever still runs once the supervisor has returned, or has given up for too many
\* crashes, was told to stop, and no slot is left to take messages nobody reads.  The panic
\* at a passed deadline is another end and promises neither (supervisor.skn, 145-149).
NobodyIsOrphaned ==
  pc \in {"returned", "limit"} =>
    /\ spec.in_slot \subseteq released
    /\ \A c \in Child, n \in Nth : Lives(c, n) => actor[c][n].stop

\* With a deadline, a child is told by the shutdown only when those told before it, the
\* later ones, have ended or were given up on (supervisor.skn, 269-270).
LaterChildrenEndFirst ==
  pc \in {"down_tell", "returned"} /\ spec.stopTimeout > 0 =>
    \A c \in told_down \ abandoned : ~Occupied(c)

\* Ends come in order: of a group before it starts again, of a later child before the
\* shutdown tells an earlier one.
EndsInOrder == GroupEndsFirst /\ LaterChildrenEndFirst

-----------------------------------------------------------------------------
(* Liveness.                                                               *)

\* A supervisor that was told to stop ends, whether its children obey or not
\* (supervisor.skn, 43-48).
StopEndsIt == stop_put ~> pc \in Over

\* A crash is answered: the child is started again, or the supervisor ends.  Children that
\* do not obey are answered by the deadline.
CrashIsAnswered ==
  \A c \in Child :
    (actor[c][1].faulted) ~> (running[c] > 1 \/ pc \in Over)
=============================================================================
