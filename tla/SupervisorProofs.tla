-------------------------- MODULE SupervisorProofs --------------------------
(***************************************************************************)
(* Theorems about Supervisor, for every number of children and crashes and *)
(* for any settings.  The supervisor knows of its children only what the   *)
(* reports in its mail have told it, while their threads end, tell and are *)
(* replaced: the invariant ties what it believes of a child (state) to the *)
(* reports under way and to the actor that runs at the child's address.    *)
(***************************************************************************)
EXTENDS Supervisor, FiniteSetTheorems, SequenceTheorems, WellFoundedInduction, TLAPS

\* In such settings no report is taken for a later actor's.  A child that crashes while its
\* group is stopping reports twice, and in a slot both reports name one address.
GroupsHaveNoSlots == \A s \in Settings : s.strategy # "OneForOne" => s.in_slot = {}

Places == {"start", "loop", "recv", "again", "group", "group_tell", "give_up", "restart",
           "down", "down_tell", "poll", "check"} \cup Over
Closing == pc \in {"down", "down_tell", "poll", "check", "returned"}
ActorState == [at : {"none", "running", "closed", "told", "done"}, faulted : BOOLEAN,
               watched : BOOLEAN, stop : BOOLEAN]
MailState == [kind : {"exited"}, of : Child \X Nat] \cup {StopMail}

\* recent is left out: it only says when the limit is reached.
TypeOK ==
  /\ spec \in Settings /\ pc \in Places /\ i \in Nat
  /\ state \in [Child -> {"UP", "DOWN", "STOPPING"}] /\ running \in [Child -> Nat]
  /\ restartFrom \in Nat /\ left \in Nat /\ q \in Seq(MailState) /\ stop_put \in BOOLEAN
  /\ actor \in [Child -> [Nth -> ActorState]]
  /\ released \in SUBSET Child /\ crashes \in 0 .. MaxCrashes
  /\ told_down \in SUBSET Child /\ abandoned \in SUBSET Child

\* Where the supervisor can be, and at which child.
Control ==
  /\ pc \in {"start", "again", "group_tell", "down", "down_tell", "poll", "check"} => i \in 1 .. spec.count
  /\ pc = "start" => \A c \in Child : c >= i => running[c] = 0
  /\ pc = "again" => state[i] = "DOWN"
  /\ pc \in {"group", "restart"} => i >= 1
  /\ pc \in {"group_tell", "down_tell"} => state[i] = "UP"
  /\ pc \in {"group", "group_tell"} => restartFrom >= 1
  /\ released = IF pc \in Over \ {"fault"} THEN spec.in_slot ELSE {}

\* A Stop is read once, and then the supervisor shuts down.
Stops(k) == k \in 1 .. Len(q) /\ q[k].kind = "stop"
StopOnce ==
  /\ \A k, l \in 1 .. Len(q) : Stops(k) /\ Stops(l) => k = l
  /\ ~stop_put \/ Closing => \A k \in 1 .. Len(q) : ~Stops(k)
  /\ Closing => stop_put

\* A child's actors come one after the other, and only the last may live.
Numbers ==
  \A c \in Child :
    /\ c > spec.count => running[c] = 0
    /\ running[c] = 0 => state[c] = "DOWN"
    /\ \A n \in Nth : n > running[c] =>
         actor[c][n] = [at |-> "none", faulted |-> FALSE, watched |-> FALSE, stop |-> FALSE]
    /\ \A n \in Nth : n <= running[c] => actor[c][n].at # "none"
    /\ \A n \in Nth : Lives(c, n) => n = running[c]
    /\ \A n \in Nth : actor[c][n].at = "told" => actor[c][n].watched
    /\ \A n \in Nth : actor[c][n].at = "closed" => actor[c][n].faulted

\* No two actors of the child report under one address, or no second one meets the first's.
Sole(c) == c \notin spec.in_slot \/ spec.strategy = "OneForOne"

Names(k, c) == k \in 1 .. Len(q) /\ q[k].kind = "exited" /\ q[k].of = Address(c, running[c])

\* No report comes before its actor, and only a slot's report has no number.
ReportsKnown ==
  \A k \in 1 .. Len(q) : q[k].kind = "exited" =>
    /\ q[k].of[2] <= running[q[k].of[1]]
    /\ q[k].of[2] = 0 <=> q[k].of[1] \in spec.in_slot

\* Reports of the present actors, and children counted as ended, are right.
DeadAreDead ==
  \A c \in Child : Sole(c) =>
    /\ state[c] = "DOWN" => ~Occupied(c)
    /\ \A k \in 1 .. Len(q) : Names(k, c) => ~Occupied(c)

\* A slot's actor reports once before its successor is started.
SlotsReportOnce ==
  \A c \in spec.in_slot : spec.strategy = "OneForOne" =>
    /\ \A n \in Nth : n < running[c] => actor[c][n].at = "done"
    /\ ~Closing =>
         /\ \A n \in Nth : ~actor[c][n].watched
         /\ \A k, l \in 1 .. Len(q) : Names(k, c) /\ Names(l, c) => k = l
         /\ \A k \in 1 .. Len(q) : Names(k, c) => \A n \in Nth : n = running[c] => actor[c][n].at = "done"
         /\ state[c] = "DOWN" =>
              /\ \A k \in 1 .. Len(q) : ~Names(k, c)
              /\ \A n \in Nth : n = running[c] => actor[c][n].at = "done"

\* Without groups nobody is told to stop before the shutdown.
OneByOne ==
  spec.strategy = "OneForOne" =>
    /\ pc \notin {"group", "group_tell", "restart"} /\ restartFrom = NoChild
    /\ ~Closing => \A c \in Child : state[c] # "STOPPING"

\* Who is stopping was told.
StoppingTold ==
  \A c \in Child : state[c] = "STOPPING" => \A n \in Nth : Lives(c, n) => actor[c][n].stop

\* A group is waited for.
GroupWaits == pc = "restart" => \A c \in Child : state[c] # "STOPPING"

\* The shutdown goes from the last child to the first.
Shutdown ==
  /\ pc \in {"down", "poll", "check"} => \A c \in Child : c > i => state[c] # "UP"
  /\ pc \in {"poll", "check"} => state[i] # "UP"
  /\ pc = "down_tell" => \A c \in Child : c > i => state[c] # "UP"
  /\ pc = "returned" => \A c \in Child : state[c] # "UP"
  /\ ~Closing => told_down = {}
  /\ Closing /\ spec.stopTimeout > 0 =>
       \A c \in told_down \ abandoned :
         state[c] = "DOWN" \/ (pc \in {"poll", "check"} /\ c = i)
  /\ pc = "poll" \/ pc = "check" => spec.stopTimeout > 0

SupInv == /\ TypeOK /\ Control /\ StopOnce /\ Numbers /\ ReportsKnown /\ DeadAreDead
          /\ SlotsReportOnce /\ OneByOne /\ StoppingTold /\ GroupWaits /\ Shutdown

-----------------------------------------------------------------------------
(* What the runtime's calls do to the actors.                              *)

ActorTypes == actor \in [Child -> [Nth -> ActorState]]

\* Beside "stop" and "watched", which only become true, an actor is what it was.
Kept(d, n) ==
  /\ actor'[d][n].at = actor[d][n].at /\ actor'[d][n].faulted = actor[d][n].faulted
  /\ actor[d][n].stop => actor'[d][n].stop
  /\ actor[d][n].watched => actor'[d][n].watched

LEMMA WatchEffect ==
  ASSUME ActorTypes, NEW c \in Child, Watch(c)
  PROVE  /\ ActorTypes'
         /\ \A d \in Child, n \in Nth :
              /\ Kept(d, n) /\ actor'[d][n].stop = actor[d][n].stop
              /\ actor'[d][n].watched <=> actor[d][n].watched \/ (d = c /\ n \in Reached(c))
<1> DEFINE row == [n \in Nth |-> [actor[c][n] EXCEPT !.watched = @ \/ n \in Reached(c)]]
<1>1. actor' = [actor EXCEPT ![c] = row] BY DEF Watch
<1>2. \A d \in Child, n \in Nth : actor[d][n] \in ActorState BY DEF ActorTypes
<1>3. \A n \in Nth : row[n] \in ActorState
  BY <1>2 DEF ActorState
<1>4. row \in [Nth -> ActorState] BY <1>3
<1>5. ActorTypes' BY <1>1, <1>4 DEF ActorTypes
<1>6. \A d \in Child : actor'[d] = IF d = c THEN row ELSE actor[d] BY <1>1 DEF ActorTypes
<1>7. \A n \in Nth :
        /\ row[n].at = actor[c][n].at /\ row[n].faulted = actor[c][n].faulted
        /\ row[n].stop = actor[c][n].stop
        /\ row[n].watched <=> actor[c][n].watched \/ n \in Reached(c)
  BY <1>2 DEF ActorState
<1> HIDE DEF row
<1>8. ASSUME NEW d \in Child, NEW n \in Nth
      PROVE  /\ Kept(d, n) /\ actor'[d][n].stop = actor[d][n].stop
             /\ actor'[d][n].watched <=> actor[d][n].watched \/ (d = c /\ n \in Reached(c))
  <2>1. CASE d = c BY <2>1, <1>6, <1>7 DEF Kept
  <2>2. CASE d # c BY <2>2, <1>6 DEF Kept
  <2> QED BY <2>1, <2>2
<1> QED BY <1>5, <1>8

LEMMA TellEffect ==
  ASSUME ActorTypes, NEW c \in Child, Tell(c)
  PROVE  /\ ActorTypes'
         /\ \A d \in Child, n \in Nth :
              /\ Kept(d, n) /\ actor'[d][n].watched = actor[d][n].watched
              /\ actor'[d][n].stop <=> actor[d][n].stop \/ (d = c /\ n \in Reached(c))
<1> DEFINE row == [n \in Nth |-> [actor[c][n] EXCEPT !.stop = @ \/ n \in Reached(c)]]
<1>1. actor' = [actor EXCEPT ![c] = row] BY DEF Tell
<1>2. \A d \in Child, n \in Nth : actor[d][n] \in ActorState BY DEF ActorTypes
<1>3. \A n \in Nth : row[n] \in ActorState
  BY <1>2 DEF ActorState
<1>4. row \in [Nth -> ActorState] BY <1>3
<1>5. ActorTypes' BY <1>1, <1>4 DEF ActorTypes
<1>6. \A d \in Child : actor'[d] = IF d = c THEN row ELSE actor[d] BY <1>1 DEF ActorTypes
<1>7. \A n \in Nth :
        /\ row[n].at = actor[c][n].at /\ row[n].faulted = actor[c][n].faulted
        /\ row[n].watched = actor[c][n].watched
        /\ row[n].stop <=> actor[c][n].stop \/ n \in Reached(c)
  BY <1>2 DEF ActorState
<1> HIDE DEF row
<1>8. ASSUME NEW d \in Child, NEW n \in Nth
      PROVE  /\ Kept(d, n) /\ actor'[d][n].watched = actor[d][n].watched
             /\ actor'[d][n].stop <=> actor[d][n].stop \/ (d = c /\ n \in Reached(c))
  <2>1. CASE d = c BY <2>1, <1>6, <1>7 DEF Kept
  <2>2. CASE d # c BY <2>2, <1>6 DEF Kept
  <2> QED BY <2>1, <2>2
<1> QED BY <1>5, <1>8

LEMMA ReleaseEffect ==
  ASSUME ActorTypes, NEW told, actor' = ToldAndReleased(told)
  PROVE  /\ ActorTypes'
         /\ \A d \in Child, n \in Nth :
              /\ Kept(d, n) /\ actor'[d][n].watched = actor[d][n].watched
              /\ actor'[d][n].stop <=> \/ actor[d][n].stop
                                       \/ Lives(d, n) /\ d \in spec.in_slot
                                       \/ d \in told /\ n \in Reached(d)
<1> DEFINE flag(d, n) == \/ actor[d][n].stop
                         \/ Lives(d, n) /\ d \in spec.in_slot
                         \/ d \in told /\ n \in Reached(d)
<1>1. actor' = [d \in Child |-> [n \in Nth |-> [actor[d][n] EXCEPT !.stop = flag(d, n)]]]
  BY Zenon DEF ToldAndReleased
<1>2. \A d \in Child, n \in Nth : actor[d][n] \in ActorState BY DEF ActorTypes
<1>3. \A d \in Child, n \in Nth : flag(d, n) \in BOOLEAN BY <1>2 DEF ActorState
<1> HIDE DEF flag
<1>4. \A d \in Child, n \in Nth : actor'[d][n] = [actor[d][n] EXCEPT !.stop = flag(d, n)]
  BY <1>1
<1>5. ASSUME NEW d \in Child, NEW n \in Nth
      PROVE  /\ actor'[d][n] \in ActorState /\ actor'[d][n].at = actor[d][n].at
             /\ actor'[d][n].faulted = actor[d][n].faulted
             /\ actor'[d][n].watched = actor[d][n].watched
             /\ actor'[d][n].stop = flag(d, n)
  <2>1. \A x \in BOOLEAN : actor'[d][n] = [actor[d][n] EXCEPT !.stop = x] =>
          /\ actor'[d][n] \in ActorState /\ actor'[d][n].at = actor[d][n].at
          /\ actor'[d][n].faulted = actor[d][n].faulted
          /\ actor'[d][n].watched = actor[d][n].watched
          /\ actor'[d][n].stop = x
    BY <1>2 DEF ActorState
  <2> QED BY <1>3, <1>4, <2>1
<1>6. ActorTypes'
  <2>1. actor' = [d \in Child |-> actor'[d]] BY <1>1
  <2>2. \A d \in Child : actor'[d] = [n \in Nth |-> actor'[d][n]] BY <1>1
  <2> QED BY <1>5, <2>1, <2>2 DEF ActorTypes
<1>7. ASSUME NEW d \in Child, NEW n \in Nth
      PROVE  /\ Kept(d, n) /\ actor'[d][n].watched = actor[d][n].watched
             /\ actor'[d][n].stop <=> flag(d, n)
  <2>1. actor[d][n].stop => flag(d, n) BY DEF flag
  <2> QED BY <1>5, <2>1 DEF Kept
<1> QED BY <1>6, <1>7 DEF flag

LEMMA SetAt ==
  ASSUME ActorTypes, NEW c \in Child, NEW m, NEW x \in {"running", "closed", "told", "done"},
         actor' = [actor EXCEPT ![c][m].at = x]
  PROVE  /\ ActorTypes'
         /\ \A d \in Child, n \in Nth :
              actor'[d][n] = IF d = c /\ n = m THEN [actor[d][n] EXCEPT !.at = x] ELSE actor[d][n]
<1>1. \A d \in Child, n \in Nth : actor[d][n] \in ActorState BY DEF ActorTypes
<1>2. \A d \in Child, n \in Nth :
        actor'[d][n] = IF d = c /\ n = m THEN [actor[d][n] EXCEPT !.at = x] ELSE actor[d][n]
  BY DEF ActorTypes
<1>3. \A d \in Child, n \in Nth : actor'[d][n] \in ActorState BY <1>1, <1>2 DEF ActorState
<1>4. actor' = [d \in Child |-> actor'[d]] BY DEF ActorTypes
<1>5. \A d \in Child : actor'[d] = [n \in Nth |-> actor'[d][n]] BY DEF ActorTypes
<1>6. ActorTypes' BY <1>3, <1>4, <1>5 DEF ActorTypes
<1> QED BY <1>2, <1>6

LEMMA EndsEffect ==
  ASSUME ActorTypes, NEW c \in Child, NEW m \in Nth, NEW f \in BOOLEAN, Ends(c, m, f)
  PROVE  /\ ActorTypes'
         /\ \A d \in Child, n \in Nth : d # c \/ n # m => actor'[d][n] = actor[d][n]
         /\ actor'[c][m].faulted = f /\ actor'[c][m].watched = actor[c][m].watched
         /\ actor'[c][m].at = IF f THEN "closed" ELSE IF actor[c][m].watched THEN "told" ELSE "done"
<1> DEFINE l == IF f THEN "closed" ELSE IF actor[c][m].watched THEN "told" ELSE "done"
<1>1. actor' = [actor EXCEPT ![c][m].faulted = f, ![c][m].at = l] BY DEF Ends
<1>2. l \in {"closed", "told", "done"} OBVIOUS
<1> HIDE DEF l
<1>3. \A d \in Child, n \in Nth : actor[d][n] \in ActorState BY DEF ActorTypes
<1>4. \A d \in Child, n \in Nth : d # c \/ n # m => actor'[d][n] = actor[d][n]
  BY <1>1 DEF ActorTypes
<1>5. actor'[c][m] = [actor[c][m] EXCEPT !.faulted = f, !.at = l] BY <1>1 DEF ActorTypes
<1>6. actor'[c][m] \in ActorState /\ actor'[c][m].faulted = f /\ actor'[c][m].at = l
      /\ actor'[c][m].watched = actor[c][m].watched
  BY <1>2, <1>3, <1>5 DEF ActorState
<1>7. \A d \in Child, n \in Nth : actor'[d][n] \in ActorState BY <1>3, <1>4, <1>6
<1>8. actor' = [d \in Child |-> actor'[d]] BY <1>1 DEF ActorTypes
<1>9. \A d \in Child : actor'[d] = [n \in Nth |-> actor'[d][n]] BY <1>1 DEF ActorTypes
<1>10. ActorTypes' BY <1>7, <1>8, <1>9 DEF ActorTypes
<1> QED BY <1>4, <1>6, <1>10 DEF l

-----------------------------------------------------------------------------
(* What is true of children, actors and reports, kept by each kind of step.*)

World == Numbers /\ ReportsKnown /\ DeadAreDead /\ SlotsReportOnce /\ StoppingTold

\* An address names one child, and one actor unless it is a slot's.
LEMMA Addresses ==
  ASSUME TypeOK, NEW c \in Child, NEW d \in Child, NEW n \in Nat, NEW m \in Nat,
         Address(c, n) = Address(d, m)
  PROVE  c = d /\ (c \notin spec.in_slot => n = m)
BY DEF Address

\* Children that a report has named are counted as ended; nothing else happens to a child.
\* Reports are read from the front (shift = 1) or stay.
LEMMA WorldKept ==
  ASSUME TypeOK, TypeOK', World, spec' = spec, running' = running, Closing => Closing',
         NEW shift \in {0, 1},
         \A k \in 1 .. Len(q') : q'[k].kind = "exited" =>
           k + shift \in 1 .. Len(q) /\ q'[k] = q[k + shift],
         \A c \in Child : state'[c] = state[c] \/ (state'[c] = "DOWN" /\ shift = 1 /\ Names(1, c)),
         \A c \in Child, n \in Nth : Kept(c, n) /\ actor'[c][n].watched = actor[c][n].watched,
         \A c \in Child, n \in Nth : actor[c][n].at = "none" => actor'[c][n] = actor[c][n]
  PROVE  World'
<1>1. \A c \in Child, n \in Nth :
        /\ actor'[c][n].at = actor[c][n].at /\ actor'[c][n].faulted = actor[c][n].faulted
        /\ Lives(c, n)' <=> Lives(c, n)
  BY DEF Kept, Lives
<1>2. \A c \in Child : Occupied(c)' <=> Occupied(c) BY <1>1 DEF Occupied
<1>3. \A c \in Child : Address(c, running[c])' = Address(c, running[c]) BY DEF Address
<1>4. \A c \in Child : \A k \in 1 .. Len(q') : Names(k, c)' => Names(k + shift, c)
  BY <1>3 DEF Names
<1>5. Numbers'
  <2> SUFFICES ASSUME NEW c \in Child
               PROVE  /\ c > spec.count => running[c] = 0
                      /\ running[c] = 0 => state'[c] = "DOWN"
                      /\ \A n \in Nth : n > running[c] =>
                           actor'[c][n] = [at |-> "none", faulted |-> FALSE,
                                           watched |-> FALSE, stop |-> FALSE]
                      /\ \A n \in Nth : n <= running[c] => actor'[c][n].at # "none"
                      /\ \A n \in Nth : Lives(c, n)' => n = running[c]
                      /\ \A n \in Nth : actor'[c][n].at = "told" => actor'[c][n].watched
                      /\ \A n \in Nth : actor'[c][n].at = "closed" => actor'[c][n].faulted
    BY DEF Numbers
  <2>1. running[c] = 0 => state'[c] = "DOWN" BY DEF World, Numbers
  <2>2. ASSUME NEW n \in Nth, n > running[c]
        PROVE  actor'[c][n] = [at |-> "none", faulted |-> FALSE, watched |-> FALSE, stop |-> FALSE]
    <3>1. actor[c][n] = [at |-> "none", faulted |-> FALSE, watched |-> FALSE, stop |-> FALSE]
      BY <2>2 DEF World, Numbers
    <3>2. actor[c][n].at = "none" BY <3>1
    <3> QED BY <3>1, <3>2
  <2>3. \A n \in Nth : actor'[c][n].watched <=> actor[c][n].watched OBVIOUS
  <2> QED BY <1>1, <2>1, <2>2, <2>3 DEF World, Numbers
<1>6. ReportsKnown' BY DEF World, ReportsKnown
<1>7. \A c \in Child : Sole(c)' <=> Sole(c) BY DEF Sole
<1>8. DeadAreDead'
  <2> SUFFICES ASSUME NEW c \in Child, Sole(c)
               PROVE  /\ state'[c] = "DOWN" => ~Occupied(c)
                      /\ \A k \in 1 .. Len(q') : Names(k, c)' => ~Occupied(c)
    BY <1>2, <1>7 DEF DeadAreDead
  <2>1. state'[c] = "DOWN" => ~Occupied(c) BY DEF World, DeadAreDead, Names
  <2>2. \A k \in 1 .. Len(q') : Names(k, c)' => ~Occupied(c)
    BY <1>4 DEF World, DeadAreDead, Names
  <2> QED BY <2>1, <2>2
<1>9. SlotsReportOnce'
  <2> SUFFICES ASSUME spec.strategy = "OneForOne", NEW c \in Child, c \in spec.in_slot
               PROVE  /\ \A n \in Nth : n < running[c] => actor'[c][n].at = "done"
                      /\ ~Closing' =>
                          /\ \A n \in Nth : ~actor'[c][n].watched
                          /\ \A k, l \in 1 .. Len(q') : Names(k, c)' /\ Names(l, c)' => k = l
                          /\ \A k \in 1 .. Len(q') :
                               Names(k, c)' => \A n \in Nth : n = running[c] => actor'[c][n].at = "done"
                          /\ state'[c] = "DOWN" =>
                               /\ \A k \in 1 .. Len(q') : ~Names(k, c)'
                               /\ \A n \in Nth : n = running[c] => actor'[c][n].at = "done"
    BY SettingsAssumption DEF SlotsReportOnce, TypeOK, SettingOf
  <2>1. \A n \in Nth : n < running[c] => actor[c][n].at = "done" BY DEF World, SlotsReportOnce
  <2>2. ASSUME ~Closing'
        PROVE  /\ \A n \in Nth : ~actor[c][n].watched
               /\ \A k, l \in 1 .. Len(q) : Names(k, c) /\ Names(l, c) => k = l
               /\ \A k \in 1 .. Len(q) :
                    Names(k, c) => \A n \in Nth : n = running[c] => actor[c][n].at = "done"
               /\ state[c] = "DOWN" =>
                    /\ \A k \in 1 .. Len(q) : ~Names(k, c)
                    /\ \A n \in Nth : n = running[c] => actor[c][n].at = "done"
    BY <2>2 DEF World, SlotsReportOnce
  <2>3. \A k \in 1 .. Len(q') : Names(k, c)' => k + shift \in 1 .. Len(q)
    BY <1>4 DEF Names
  <2>4. ASSUME ~Closing' PROVE \A k, l \in 1 .. Len(q') : Names(k, c)' /\ Names(l, c)' => k = l
    <3> SUFFICES ASSUME NEW k \in 1 .. Len(q'), NEW l \in 1 .. Len(q'), Names(k, c)', Names(l, c)'
                 PROVE  k = l
      OBVIOUS
    <3>1. k + shift = l + shift BY <1>4, <2>2, <2>3, <2>4
    <3>2. k \in Int /\ l \in Int BY DEF TypeOK
    <3> QED BY <3>1, <3>2
  <2>5. ASSUME ~Closing', state'[c] = "DOWN", state[c] # "DOWN"
        PROVE  /\ \A k \in 1 .. Len(q') : ~Names(k, c)'
               /\ \A n \in Nth : n = running[c] => actor[c][n].at = "done"
    <3>1. shift = 1 /\ Names(1, c) /\ 1 \in 1 .. Len(q) BY <2>5 DEF Names
    <3>2. \A k \in 1 .. Len(q') : ~Names(k, c)' BY <1>4, <2>2, <2>3, <2>5, <3>1
    <3> QED BY <2>2, <2>5, <3>1, <3>2
  <2> QED BY <1>1, <1>4, <2>1, <2>2, <2>3, <2>4, <2>5
<1>10. StoppingTold'
  <2> SUFFICES ASSUME NEW c \in Child, state'[c] = "STOPPING", NEW n \in Nth, Lives(c, n)'
               PROVE  actor'[c][n].stop
    BY DEF StoppingTold
  <2>1. state[c] = "STOPPING" /\ Lives(c, n) BY <1>1
  <2>2. actor[c][n].stop BY <2>1 DEF World, StoppingTold
  <2>3. Kept(c, n) OBVIOUS
  <2> QED BY <2>2, <2>3 DEF Kept
<1> QED BY <1>5, <1>6, <1>8, <1>9, <1>10 DEF World

\* Appending leaves the reports where they are.
LEMMA Appended ==
  ASSUME TypeOK, NEW m, q' = Append(q, m)
  PROVE  /\ Len(q') = Len(q) + 1 /\ q'[Len(q) + 1] = m
         /\ \A k \in 1 .. Len(q) : q'[k] = q[k]
         /\ \A k \in 1 .. Len(q') : k \in 1 .. Len(q) \/ k = Len(q) + 1
         /\ Len(q) \in Nat
BY DEF TypeOK

\* A watch: if nobody is reached, the report that is made at once is true.
LEMMA WorldWatch ==
  ASSUME TypeOK, TypeOK', World, spec' = spec, running' = running, state' = state,
         NEW c \in Child, Watch(c), state[c] = "UP", c \notin released, Closing => Closing',
         spec.strategy = "OneForOne" => Closing
  PROVE  World'
<1>1. \A d \in Child, n \in Nth :
        /\ Kept(d, n) /\ actor'[d][n].stop = actor[d][n].stop
        /\ actor'[d][n].watched <=> actor[d][n].watched \/ (d = c /\ n \in Reached(c))
  BY WatchEffect DEF TypeOK, ActorTypes
<1>2. \A d \in Child, n \in Nth : Lives(d, n)' <=> Lives(d, n) BY <1>1 DEF Kept, Lives
<1>3. \A d \in Child : Occupied(d)' <=> Occupied(d) BY <1>2 DEF Occupied
<1>4. \A d \in Child : Address(d, running[d])' = Address(d, running[d]) BY DEF Address
<1>5. running[c] \in Nat /\ running[c] # 0 BY DEF World, Numbers, TypeOK
<1>6. Reached(c) = {} => ~Occupied(c)
  BY DEF World, Numbers, Occupied, Reached
<1>7. q' = q \/ (Reached(c) = {} /\ q' = Append(q, Report(Address(c, running[c])))) BY DEF Watch
<1>8. \A d \in Child : \A k \in 1 .. Len(q') : Names(k, d)' => Names(k, d) \/ ~Occupied(d)
  <2>1. CASE q' = q BY <1>4, <2>1 DEF Names
  <2>2. CASE Reached(c) = {} /\ q' = Append(q, Report(Address(c, running[c])))
    <3> SUFFICES ASSUME NEW d \in Child, NEW k \in 1 .. Len(q'), Names(k, d)'
                 PROVE  Names(k, d) \/ ~Occupied(d)
      OBVIOUS
    <3>1. CASE k \in 1 .. Len(q) BY <1>4, <2>2, <3>1, Appended DEF Names
    <3>2. CASE k = Len(q) + 1
      <4>1. Address(c, running[c]) = Address(d, running[d])
        BY <1>4, <2>2, <3>2, Appended DEF Names, Report
      <4>2. c = d BY <4>1, Addresses DEF TypeOK
      <4> QED BY <1>6, <2>2, <4>2
    <3> QED BY <2>2, <3>1, <3>2, Appended
  <2> QED BY <1>7, <2>1, <2>2
<1>9. Numbers'
  <2> SUFFICES ASSUME NEW d \in Child
               PROVE  /\ d > spec.count => running[d] = 0
                      /\ running[d] = 0 => state[d] = "DOWN"
                      /\ \A n \in Nth : n > running[d] =>
                           actor'[d][n] = [at |-> "none", faulted |-> FALSE,
                                           watched |-> FALSE, stop |-> FALSE]
                      /\ \A n \in Nth : n <= running[d] => actor'[d][n].at # "none"
                      /\ \A n \in Nth : Lives(d, n)' => n = running[d]
                      /\ \A n \in Nth : actor'[d][n].at = "told" => actor'[d][n].watched
                      /\ \A n \in Nth : actor'[d][n].at = "closed" => actor'[d][n].faulted
    BY DEF Numbers
  <2>1. ASSUME NEW n \in Nth, n > running[d]
        PROVE  actor'[d][n] = [at |-> "none", faulted |-> FALSE, watched |-> FALSE, stop |-> FALSE]
    <3>1. actor[d][n] = [at |-> "none", faulted |-> FALSE, watched |-> FALSE, stop |-> FALSE]
      BY <2>1 DEF World, Numbers
    <3>2. n \notin Reached(d) BY <3>1 DEF Reached, Lives
    <3>3. actor'[d][n].at = "none" /\ actor'[d][n].faulted = FALSE /\ actor'[d][n].stop = FALSE
          /\ ~actor'[d][n].watched
      BY <1>1, <3>1, <3>2 DEF Kept
    <3>4. actor'[d][n] \in ActorState BY DEF TypeOK
    <3> QED BY <3>3, <3>4 DEF ActorState
  <2>2. \A n \in Nth : actor[d][n].watched => actor'[d][n].watched BY <1>1
  <2>3. \A n \in Nth : actor'[d][n].at = actor[d][n].at /\ actor'[d][n].faulted = actor[d][n].faulted
    BY <1>1 DEF Kept
  <2> QED BY <1>2, <2>1, <2>2, <2>3 DEF World, Numbers
<1>10. ReportsKnown'
  <2>1. ASSUME NEW k \in 1 .. Len(q'), q'[k].kind = "exited"
        PROVE  /\ q'[k].of[2] <= running[q'[k].of[1]]
               /\ q'[k].of[2] = 0 <=> q'[k].of[1] \in spec.in_slot
    <3>1. CASE k \in 1 .. Len(q) /\ q'[k] = q[k] BY <2>1, <3>1 DEF World, ReportsKnown
    <3>2. CASE q'[k] = Report(Address(c, running[c])) BY <1>5, <3>2 DEF Report, Address
    <3> QED BY <1>7, <3>1, <3>2, Appended
  <2> QED BY <2>1 DEF ReportsKnown
<1>11. DeadAreDead'
  <2>1. \A d \in Child : Sole(d)' <=> Sole(d) BY DEF Sole
  <2>2. \A d \in Child : \A k : Names(k, d) => k \in 1 .. Len(q) BY DEF Names
  <2> QED BY <1>3, <1>8, <2>1, <2>2 DEF World, DeadAreDead
<1>12. SlotsReportOnce'
  <2>1. \A d \in Child, n \in Nth : actor'[d][n].at = actor[d][n].at BY <1>1 DEF Kept
  <2>2. spec.in_slot \subseteq Child BY SettingsAssumption DEF TypeOK, SettingOf
  <2> QED BY <2>1, <2>2 DEF World, SlotsReportOnce
<1>13. StoppingTold' BY <1>1, <1>2 DEF World, StoppingTold
<1> QED BY <1>9, <1>10, <1>11, <1>12, <1>13 DEF World

\* Whoever is told to stop is told as long as it runs.
LEMMA WorldTell ==
  ASSUME TypeOK, TypeOK', World, spec' = spec, running' = running, q' = q,
         NEW c \in Child, Tell(c), state[c] = "UP", state' = [state EXCEPT ![c] = "STOPPING"],
         c \notin released, Closing => Closing'
  PROVE  World'
<1>1. \A d \in Child, n \in Nth :
        /\ Kept(d, n) /\ actor'[d][n].watched = actor[d][n].watched
        /\ actor'[d][n].stop <=> actor[d][n].stop \/ (d = c /\ n \in Reached(c))
  BY TellEffect DEF TypeOK, ActorTypes
<1>2. \A d \in Child, n \in Nth :
        /\ actor'[d][n].at = actor[d][n].at /\ actor'[d][n].faulted = actor[d][n].faulted
        /\ Lives(d, n)' <=> Lives(d, n)
  BY <1>1 DEF Kept, Lives
<1>3. \A d \in Child : Occupied(d)' <=> Occupied(d) BY <1>2 DEF Occupied
<1>4. \A d \in Child : \A k : Names(k, d)' <=> Names(k, d) BY DEF Names, Address
<1>5. \A d \in Child : state'[d] = IF d = c THEN "STOPPING" ELSE state[d] BY DEF TypeOK
<1>6. Numbers'
  <2> SUFFICES ASSUME NEW d \in Child
               PROVE  /\ d > spec.count => running[d] = 0
                      /\ running[d] = 0 => state'[d] = "DOWN"
                      /\ \A n \in Nth : n > running[d] =>
                           actor'[d][n] = [at |-> "none", faulted |-> FALSE,
                                           watched |-> FALSE, stop |-> FALSE]
                      /\ \A n \in Nth : n <= running[d] => actor'[d][n].at # "none"
                      /\ \A n \in Nth : Lives(d, n)' => n = running[d]
                      /\ \A n \in Nth : actor'[d][n].at = "told" => actor'[d][n].watched
                      /\ \A n \in Nth : actor'[d][n].at = "closed" => actor'[d][n].faulted
    BY DEF Numbers
  <2>1. ASSUME NEW n \in Nth, n > running[d]
        PROVE  actor'[d][n] = [at |-> "none", faulted |-> FALSE, watched |-> FALSE, stop |-> FALSE]
    <3>1. actor[d][n] = [at |-> "none", faulted |-> FALSE, watched |-> FALSE, stop |-> FALSE]
      BY <2>1 DEF World, Numbers
    <3>2. n \notin Reached(d) BY <3>1 DEF Reached, Lives
    <3>3. actor'[d][n].at = "none" /\ actor'[d][n].faulted = FALSE /\ actor'[d][n].watched = FALSE
          /\ ~actor'[d][n].stop
      BY <1>1, <3>1, <3>2 DEF Kept
    <3>4. actor'[d][n] \in ActorState BY DEF TypeOK
    <3> QED BY <3>3, <3>4 DEF ActorState
  <2>2. running[d] = 0 => state'[d] = "DOWN" BY <1>5 DEF World, Numbers
  <2>3. \A n \in Nth : actor[d][n].watched => actor'[d][n].watched BY <1>1
  <2> QED BY <1>2, <2>1, <2>2, <2>3 DEF World, Numbers
<1>7. ReportsKnown' BY DEF World, ReportsKnown
<1>8. DeadAreDead' BY <1>3, <1>4, <1>5 DEF World, DeadAreDead, Sole
<1>9. SlotsReportOnce'
  <2>1. spec.in_slot \subseteq Child BY SettingsAssumption DEF TypeOK, SettingOf
  <2> QED BY <1>1, <1>2, <1>4, <1>5, <2>1 DEF World, SlotsReportOnce
<1>10. StoppingTold'
  <2> SUFFICES ASSUME NEW d \in Child, state'[d] = "STOPPING", NEW n \in Nth, Lives(d, n)'
               PROVE  actor'[d][n].stop
    BY DEF StoppingTold
  <2>1. CASE d = c BY <1>1, <1>2, <2>1 DEF World, Numbers, Reached
  <2>2. CASE d # c BY <1>1, <1>2, <1>5, <2>2 DEF World, StoppingTold
  <2> QED BY <2>1, <2>2
<1> QED BY <1>6, <1>7, <1>8, <1>9, <1>10 DEF World

\* A child is started when nobody runs at its address.
LEMMA WorldStart ==
  ASSUME TypeOK, TypeOK', World, spec' = spec, q' = q, ~Closing,
         NEW c \in Child, c <= spec.count, state[c] = "DOWN", ~Refused(c),
         running' = [running EXCEPT ![c] = @ + 1], state' = [state EXCEPT ![c] = "UP"],
         actor' = [actor EXCEPT ![c][running[c] + 1].at = "running"]
  PROVE  World'
<1> DEFINE m == running[c] + 1
<1>1. m \in Nat /\ running[c] \in Nat BY DEF TypeOK
<1>2. \A d \in Child : /\ running'[d] = IF d = c THEN m ELSE running[d]
                       /\ state'[d] = IF d = c THEN "UP" ELSE state[d]
  BY DEF TypeOK
<1> HIDE DEF m
<1>3. \A d \in Child, n \in Nth :
        actor'[d][n] = IF d = c /\ n = m THEN [actor[d][n] EXCEPT !.at = "running"] ELSE actor[d][n]
  BY SetAt DEF TypeOK, ActorTypes, m
<1>4. \A n \in Nth : n = m =>
        actor'[c][n] = [at |-> "running", faulted |-> FALSE, watched |-> FALSE, stop |-> FALSE]
  <2> SUFFICES ASSUME NEW n \in Nth, n = m
               PROVE  actor'[c][n] = [at |-> "running", faulted |-> FALSE,
                                      watched |-> FALSE, stop |-> FALSE]
    OBVIOUS
  <2>1. n > running[c] BY <1>1 DEF m
  <2>2. actor[c][n] = [at |-> "none", faulted |-> FALSE, watched |-> FALSE, stop |-> FALSE]
    BY <2>1 DEF World, Numbers
  <2>3. actor'[c][n] = [actor[c][n] EXCEPT !.at = "running"] BY <1>3
  <2>4. actor[c][n] \in ActorState /\ actor'[c][n] \in ActorState BY DEF TypeOK
  <2>5. /\ actor'[c][n].at = "running" /\ actor'[c][n].faulted = actor[c][n].faulted
        /\ actor'[c][n].watched = actor[c][n].watched /\ actor'[c][n].stop = actor[c][n].stop
    BY <2>3, <2>4 DEF ActorState
  <2>6. actor[c][n].faulted = FALSE /\ actor[c][n].watched = FALSE /\ actor[c][n].stop = FALSE
    BY <2>2
  <2> QED BY <2>4, <2>5, <2>6 DEF ActorState
<1>5. ~Occupied(c) BY DEF World, DeadAreDead, Sole, Refused
<1>6. \A d \in Child : d # c => (Occupied(d)' <=> Occupied(d)) BY <1>3 DEF Occupied, Lives
<1>7. \A d \in Child : d # c => \A k : Names(k, d)' <=> Names(k, d) BY <1>2 DEF Names, Address
<1>8. \A k \in 1 .. Len(q) : Sole(c) => ~Names(k, c)'
  <2> SUFFICES ASSUME NEW k \in 1 .. Len(q), Sole(c), Names(k, c)' PROVE FALSE
    OBVIOUS
  <2>1. q[k].kind = "exited" /\ q[k].of = Address(c, running'[c]) BY DEF Names, Address
  <2>2. CASE c \in spec.in_slot
    <3>1. Names(k, c) BY <2>1, <2>2 DEF Names, Address
    <3> QED BY <2>2, <3>1 DEF World, SlotsReportOnce, Sole
  <2>3. CASE c \notin spec.in_slot
    <3>1. q[k].of[1] = c /\ q[k].of[2] = m BY <1>2, <2>1, <2>3 DEF Address
    <3> QED BY <1>1, <2>1, <3>1 DEF World, ReportsKnown, m
  <2> QED BY <2>2, <2>3
<1>9. Numbers'
  <2> SUFFICES ASSUME NEW d \in Child
               PROVE  /\ d > spec.count => running'[d] = 0
                      /\ running'[d] = 0 => state'[d] = "DOWN"
                      /\ \A n \in Nth : n > running'[d] =>
                           actor'[d][n] = [at |-> "none", faulted |-> FALSE,
                                           watched |-> FALSE, stop |-> FALSE]
                      /\ \A n \in Nth : n <= running'[d] => actor'[d][n].at # "none"
                      /\ \A n \in Nth : Lives(d, n)' => n = running'[d]
                      /\ \A n \in Nth : actor'[d][n].at = "told" => actor'[d][n].watched
                      /\ \A n \in Nth : actor'[d][n].at = "closed" => actor'[d][n].faulted
    BY DEF Numbers
  <2>1. CASE d # c BY <1>2, <1>3, <2>1 DEF World, Numbers, Lives
  <2>2. CASE d = c
    <3>1. spec.count \in Child BY SettingsAssumption DEF TypeOK, SettingOf
    <3>2. m > 0 /\ ~(c > spec.count) BY <1>1, <3>1 DEF m, Child
    <3>3. \A n \in Nth : n # m => actor'[c][n] = actor[c][n] BY <1>3
    <3>4. \A n \in Nth : n > m => n > running[c] /\ n # m BY <1>1 DEF m, Nth
    <3>5. \A n \in Nth : n <= m => n = m \/ (n # m /\ n <= running[c]) BY <1>1 DEF m, Nth
    <3>6. \A n \in Nth : n # m => ~Lives(c, n)' BY <1>5, <3>3 DEF Occupied, Lives
    <3> QED BY <1>2, <1>4, <2>2, <3>2, <3>3, <3>4, <3>5, <3>6 DEF World, Numbers
  <2> QED BY <2>1, <2>2
<1>10. ReportsKnown'
  <2>1. ASSUME NEW k \in 1 .. Len(q), q[k].kind = "exited"
        PROVE  q[k].of[2] <= running'[q[k].of[1]]
    <3>1. q[k].of \in Child \X Nat BY <2>1 DEF TypeOK, MailState, StopMail
    <3>2. q[k].of[2] <= running[q[k].of[1]] BY <2>1 DEF World, ReportsKnown
    <3>3. running[q[k].of[1]] \in Nat /\ q[k].of[2] \in Nat /\ q[k].of[1] \in Child
      BY <3>1 DEF TypeOK
    <3>4. running'[q[k].of[1]] >= running[q[k].of[1]] BY <1>1, <1>2, <3>3 DEF m
    <3>5. running'[q[k].of[1]] \in Nat BY <3>3 DEF TypeOK
    <3> QED BY <3>2, <3>3, <3>4, <3>5
  <2> QED BY <2>1 DEF World, ReportsKnown
<1>11. DeadAreDead'
  <2> SUFFICES ASSUME NEW d \in Child, Sole(d)
               PROVE  /\ state'[d] = "DOWN" => ~Occupied(d)'
                      /\ \A k \in 1 .. Len(q) : Names(k, d)' => ~Occupied(d)'
    BY DEF DeadAreDead, Sole
  <2>1. CASE d # c BY <1>2, <1>6, <1>7, <2>1 DEF World, DeadAreDead
  <2>2. CASE d = c BY <1>2, <1>8, <2>2
  <2> QED BY <2>1, <2>2
<1>12. SlotsReportOnce'
  <2> SUFFICES ASSUME spec.strategy = "OneForOne", NEW d \in Child, d \in spec.in_slot
               PROVE  /\ \A n \in Nth : n < running'[d] => actor'[d][n].at = "done"
                      /\ \A n \in Nth : ~actor'[d][n].watched
                      /\ \A k, l \in 1 .. Len(q) : Names(k, d)' /\ Names(l, d)' => k = l
                      /\ \A k \in 1 .. Len(q) :
                           Names(k, d)' => \A n \in Nth : n = running'[d] => actor'[d][n].at = "done"
                      /\ state'[d] = "DOWN" =>
                           /\ \A k \in 1 .. Len(q) : ~Names(k, d)'
                           /\ \A n \in Nth : n = running'[d] => actor'[d][n].at = "done"
    BY SettingsAssumption DEF SlotsReportOnce, TypeOK, SettingOf
  <2>1. CASE d # c BY <1>2, <1>3, <1>7, <2>1 DEF World, SlotsReportOnce
  <2>2. CASE d = c
    <3>1. \A n \in Nth : n < m => n # m /\ (n < running[c] \/ n = running[c]) BY <1>1 DEF m, Nth
    <3>2. ASSUME NEW n \in Nth, n < m PROVE actor'[c][n].at = "done"
      <4>1. actor'[c][n] = actor[c][n] BY <1>3, <3>1, <3>2
      <4>2. CASE n < running[c] BY <2>2, <4>1, <4>2 DEF World, SlotsReportOnce
      <4>3. CASE n = running[c] BY <2>2, <4>1, <4>3 DEF World, SlotsReportOnce
      <4> QED BY <3>1, <3>2, <4>2, <4>3
    <3>3. \A n \in Nth : ~actor'[c][n].watched
      BY <1>3, <1>4, <2>2 DEF World, SlotsReportOnce
    <3> QED BY <1>2, <1>8, <2>2, <3>2, <3>3 DEF Sole
  <2> QED BY <2>1, <2>2
<1>13. StoppingTold' BY <1>2, <1>3 DEF World, StoppingTold, Lives
<1> QED BY <1>9, <1>10, <1>11, <1>12, <1>13 DEF World

\* An actor ends.
LEMMA WorldEnds ==
  ASSUME TypeOK, TypeOK', World, spec' = spec, running' = running, state' = state, q' = q,
         Closing => Closing', NEW c \in Child, NEW m \in Nth, Lives(c, m),
         NEW f \in BOOLEAN, Ends(c, m, f)
  PROVE  World'
<1>1. /\ \A d \in Child, n \in Nth : d # c \/ n # m => actor'[d][n] = actor[d][n]
      /\ actor'[c][m].faulted = f /\ actor'[c][m].watched = actor[c][m].watched
      /\ actor'[c][m].at = IF f THEN "closed" ELSE IF actor[c][m].watched THEN "told" ELSE "done"
  BY EndsEffect DEF TypeOK, ActorTypes
<1>2. m = running[c] BY DEF World, Numbers
<1>3. \A d \in Child, n \in Nth : Lives(d, n)' => Lives(d, n) BY <1>1 DEF Lives
<1>4. \A d \in Child : Occupied(d)' => Occupied(d) BY <1>3 DEF Occupied
<1>5. \A d \in Child : \A k : Names(k, d)' <=> Names(k, d) BY DEF Names, Address
<1>6. Numbers'
  <2>1. m \in Nat /\ running[c] \in Nat BY DEF TypeOK, Nth
  <2>2. \A d \in Child, n \in Nth : n > running[d] => d # c \/ n # m BY <1>2, <2>1
  <2>3. \A d \in Child, n \in Nth : actor[d][n].at # "none" => actor'[d][n].at # "none"
    BY <1>1
  <2>4. \A d \in Child, n \in Nth : actor'[d][n].at = "told" => actor'[d][n].watched
    BY <1>1 DEF World, Numbers
  <2>5. \A d \in Child, n \in Nth : actor'[d][n].at = "closed" => actor'[d][n].faulted
    BY <1>1 DEF World, Numbers
  <2> QED BY <1>1, <1>3, <2>2, <2>3, <2>4, <2>5 DEF World, Numbers
<1>7. ReportsKnown' BY DEF World, ReportsKnown
<1>8. DeadAreDead' BY <1>4, <1>5 DEF World, DeadAreDead, Sole
<1>9. SlotsReportOnce'
  <2> SUFFICES ASSUME spec.strategy = "OneForOne", NEW d \in Child, d \in spec.in_slot
               PROVE  /\ \A n \in Nth : n < running[d] => actor'[d][n].at = "done"
                      /\ ~Closing' =>
                          /\ \A n \in Nth : ~actor'[d][n].watched
                          /\ \A k, l \in 1 .. Len(q) : Names(k, d)' /\ Names(l, d)' => k = l
                          /\ \A k \in 1 .. Len(q) :
                               Names(k, d)' => \A n \in Nth : n = running[d] => actor'[d][n].at = "done"
                          /\ state[d] = "DOWN" =>
                               /\ \A k \in 1 .. Len(q) : ~Names(k, d)'
                               /\ \A n \in Nth : n = running[d] => actor'[d][n].at = "done"
    BY SettingsAssumption DEF SlotsReportOnce, TypeOK, SettingOf
  <2>1. CASE d # c BY <1>1, <1>5, <2>1 DEF World, SlotsReportOnce
  <2>2. CASE d = c
    <3>1. Occupied(c) BY DEF Occupied
    <3>2. state[c] # "DOWN" /\ \A k \in 1 .. Len(q) : ~Names(k, c)
      BY <2>2, <3>1 DEF World, DeadAreDead, Sole
    <3>3. \A n \in Nth : n < running[c] => n # m BY <1>2 DEF TypeOK, Nth
    <3>4. \A n \in Nth : actor'[c][n].watched <=> actor[c][n].watched BY <1>1
    <3> QED BY <1>1, <1>5, <2>2, <3>2, <3>3, <3>4 DEF World, SlotsReportOnce
  <2> QED BY <2>1, <2>2
<1>10. StoppingTold'
  <2>1. \A d \in Child, n \in Nth : Lives(d, n)' => actor'[d][n] = actor[d][n]
    BY <1>1 DEF Lives
  <2> QED BY <1>3, <2>1 DEF World, StoppingTold
<1> QED BY <1>6, <1>7, <1>8, <1>9, <1>10 DEF World

\* An actor that has ended reports it.
LEMMA WorldReports ==
  ASSUME TypeOK, TypeOK', World, spec' = spec, running' = running, state' = state,
         Closing => Closing', NEW c \in Child, NEW m \in Nth, Tells(c, m),
         actor[c][m].at \in {"closed", "told"},
         Goes(c, m, IF actor[c][m].at = "closed" /\ actor[c][m].watched THEN "told" ELSE "done")
  PROVE  World'
<1> DEFINE l == IF actor[c][m].at = "closed" /\ actor[c][m].watched THEN "told" ELSE "done"
<1>1. \A d \in Child, n \in Nth :
        actor'[d][n] = IF d = c /\ n = m THEN [actor[d][n] EXCEPT !.at = l] ELSE actor[d][n]
  BY SetAt DEF TypeOK, ActorTypes, Goes
<1>2. actor'[c][m] = [actor[c][m] EXCEPT !.at = l] BY <1>1
<1>3. actor[c][m] \in ActorState BY DEF TypeOK
<1>4. /\ actor'[c][m].at = l /\ actor'[c][m].faulted = actor[c][m].faulted
      /\ actor'[c][m].watched = actor[c][m].watched /\ actor'[c][m].stop = actor[c][m].stop
  BY <1>2, <1>3 DEF ActorState
<1>5. m <= running[c] /\ running[c] \in Nat /\ m \in Nat /\ m # 0
  <2>1. running[c] \in Nat /\ m \in Nat /\ m # 0 BY DEF TypeOK, Nth
  <2>2. m > running[c] => actor[c][m].at = "none" BY DEF World, Numbers
  <2> QED BY <2>1, <2>2
<1>6. \A d \in Child, n \in Nth : Lives(d, n)' <=> Lives(d, n) BY <1>1, <1>4 DEF Lives
<1>7. \A d \in Child : Occupied(d)' <=> Occupied(d) BY <1>6 DEF Occupied
<1>8. Sole(c) /\ Address(c, m) = Address(c, running[c]) => m = running[c]
  BY <1>5 DEF World, SlotsReportOnce, Sole, Address
<1>9. ~Lives(c, m) BY DEF Lives
<1>10. \A d \in Child : \A k \in 1 .. Len(q') : Sole(d) /\ Names(k, d)' =>
         Names(k, d) \/ (d = c /\ m = running[c] /\ k = Len(q) + 1)
  <2> SUFFICES ASSUME NEW d \in Child, NEW k \in 1 .. Len(q'), Sole(d), Names(k, d)'
               PROVE  Names(k, d) \/ (d = c /\ m = running[c] /\ k = Len(q) + 1)
    OBVIOUS
  <2>1. q' = Append(q, Report(Address(c, m))) BY DEF Tells
  <2>2. q'[k].kind = "exited" /\ q'[k].of = Address(d, running[d]) BY DEF Names, Address
  <2>3. CASE k \in 1 .. Len(q) BY <2>1, <2>2, <2>3, Appended DEF Names
  <2>4. CASE k = Len(q) + 1
    <3>1. Address(c, m) = Address(d, running[d]) BY <2>1, <2>2, <2>4, Appended DEF Report
    <3>2. c = d BY <1>5, <3>1, Addresses DEF TypeOK
    <3> QED BY <1>8, <2>4, <3>1, <3>2
  <2> QED BY <2>1, <2>3, <2>4, Appended
<1>11. Numbers'
  <2>1. \A d \in Child, n \in Nth : n > running[d] => d # c \/ n # m BY <1>5
  <2>2. \A d \in Child, n \in Nth : actor[d][n].at # "none" => actor'[d][n].at # "none"
    BY <1>1, <1>4
  <2>3. ASSUME NEW d \in Child, NEW n \in Nth
        PROVE  /\ actor'[d][n].at = "told" => actor'[d][n].watched
               /\ actor'[d][n].at = "closed" => actor'[d][n].faulted
    <3>1. CASE d = c /\ n = m BY <1>4, <3>1 DEF World, Numbers
    <3>2. CASE ~(d = c /\ n = m)
      <4>1. actor'[d][n] = actor[d][n] BY <1>1, <3>2
      <4> QED BY <4>1 DEF World, Numbers
    <3> QED BY <3>1, <3>2
  <2>4. \A d \in Child, n \in Nth : n > running[d] => actor'[d][n] = actor[d][n]
    BY <1>1, <2>1
  <2> QED BY <1>6, <2>2, <2>3, <2>4 DEF World, Numbers
<1>12. ReportsKnown'
  <2>1. ASSUME NEW k \in 1 .. Len(q'), q'[k].kind = "exited"
        PROVE  /\ q'[k].of[2] <= running[q'[k].of[1]]
               /\ q'[k].of[2] = 0 <=> q'[k].of[1] \in spec.in_slot
    <3>1. CASE k \in 1 .. Len(q) /\ q'[k] = q[k] BY <2>1, <3>1 DEF World, ReportsKnown
    <3>2. CASE q'[k] = Report(Address(c, m)) BY <1>5, <3>2 DEF Report, Address
    <3> QED BY <3>1, <3>2, Appended DEF Tells
  <2> QED BY <2>1 DEF ReportsKnown
<1>13. DeadAreDead'
  <2> SUFFICES ASSUME NEW d \in Child, Sole(d)
               PROVE  /\ state[d] = "DOWN" => ~Occupied(d)
                      /\ \A k \in 1 .. Len(q') : Names(k, d)' => ~Occupied(d)
    BY <1>7 DEF DeadAreDead, Sole
  <2>1. \A k : Names(k, d) => k \in 1 .. Len(q) BY DEF Names
  <2>2. m = running[c] => ~Occupied(c) BY <1>9 DEF World, Numbers, Occupied
  <2> QED BY <1>10, <2>1, <2>2 DEF World, DeadAreDead
<1>14. SlotsReportOnce'
  <2> SUFFICES ASSUME spec.strategy = "OneForOne", NEW d \in Child, d \in spec.in_slot
               PROVE  /\ \A n \in Nth : n < running[d] => actor'[d][n].at = "done"
                      /\ ~Closing' =>
                          /\ \A n \in Nth : ~actor'[d][n].watched
                          /\ \A k, j \in 1 .. Len(q') : Names(k, d)' /\ Names(j, d)' => k = j
                          /\ \A k \in 1 .. Len(q') :
                               Names(k, d)' => \A n \in Nth : n = running[d] => actor'[d][n].at = "done"
                          /\ state[d] = "DOWN" =>
                               /\ \A k \in 1 .. Len(q') : ~Names(k, d)'
                               /\ \A n \in Nth : n = running[d] => actor'[d][n].at = "done"
    BY SettingsAssumption DEF SlotsReportOnce, TypeOK, SettingOf
  <2>1. Sole(d) BY DEF Sole
  <2>2. \A k : Names(k, d) => k \in 1 .. Len(q) BY DEF Names
  <2>3. CASE d # c
    <3>1. \A k \in 1 .. Len(q') : Names(k, d)' => Names(k, d) BY <1>10, <2>1, <2>3
    <3>2. \A n \in Nth : actor'[d][n] = actor[d][n] BY <1>1, <2>3
    <3> QED BY <2>2, <3>1, <3>2 DEF World, SlotsReportOnce
  <2>4. CASE d = c
    <3>1. \A n \in Nth : n < running[c] => actor[c][n].at = "done" BY <2>4 DEF World, SlotsReportOnce
    <3>2. m = running[c] BY <1>5, <3>1
    <3>3. \A n \in Nth : n < running[c] => actor'[c][n].at = "done" BY <1>1, <1>5, <3>1, <3>2
    <3>4. ASSUME ~Closing'
          PROVE  /\ \A n \in Nth : ~actor'[c][n].watched
                 /\ \A k \in 1 .. Len(q) : ~Names(k, c)
                 /\ state[c] # "DOWN"
                 /\ actor'[c][m].at = "done"
      <4>1. \A n \in Nth : ~actor[c][n].watched BY <2>4, <3>4 DEF World, SlotsReportOnce
      <4>2. \A n \in Nth : actor'[c][n].watched <=> actor[c][n].watched BY <1>1, <1>4
      <4> QED BY <1>4, <2>4, <3>2, <3>4, <4>1, <4>2 DEF World, SlotsReportOnce
    <3> QED BY <1>10, <2>1, <2>2, <2>4, <3>2, <3>3, <3>4
  <2> QED BY <2>3, <2>4
<1>15. StoppingTold' BY <1>1, <1>4, <1>6 DEF World, StoppingTold
<1> QED BY <1>11, <1>12, <1>13, <1>14, <1>15 DEF World

-----------------------------------------------------------------------------
(* The supervisor's steps.                                                 *)

\* The settings and the children they name.
LEMMA SettingFacts ==
  ASSUME spec \in Settings
  PROVE  /\ spec.count \in Child /\ spec.in_slot \subseteq Child /\ spec.stopTimeout \in Nat
         /\ spec.strategy \in Strategies
         /\ \A c \in Child : c \in Nat /\ c >= 1 /\ c <= Children
         /\ \A c \in 1 .. spec.count : c \in Child
         /\ Children \in Nat /\ Children >= 1
BY SettingsAssumption, ChildrenAssumption DEF SettingOf, Child

\* Every nonempty set of naturals has a least element, and a bounded one a greatest.
LEMMA LeastNatural ==
  ASSUME NEW T, T \subseteq Nat, T # {}
  PROVE  Min(T) \in T /\ \A y \in T : Min(T) <= y
<1>1. IsWellFoundedOn(OpToRel(<, Nat), Nat) BY NatLessThanWellFounded
<1>2. \A x, y \in Nat : x < y => <<x, y>> \in OpToRel(<, Nat) BY Zenon DEF OpToRel
<1>3. \E x \in T : \A y \in T : ~ (<<y, x>> \in OpToRel(<, Nat)) BY <1>1, WFMin, Zenon
<1>4. PICK x \in T : \A y \in T : ~ (<<y, x>> \in OpToRel(<, Nat)) BY <1>3, Zenon
<1>5. \A y \in T : ~ (y < x) BY <1>2, <1>4, Zenon
<1>6. \A y \in T : x <= y BY <1>5
<1> QED BY <1>6 DEF Min

\* The same from above.
LEMMA GreatestNatural ==
  ASSUME NEW n \in Nat, NEW T, T \subseteq 0 .. n, T # {}
  PROVE  Max(T) \in T /\ \A y \in T : y <= Max(T)
<1> DEFINE U == {n - y : y \in T}
<1>1. U \subseteq Nat /\ U # {} OBVIOUS
<1>2. PICK u \in U : \A v \in U : u <= v BY <1>1, LeastNatural
<1>3. PICK x \in T : u = n - x BY <1>2
<1>4. \A y \in T : n - y \in U OBVIOUS
<1>5. \A y \in T : y <= x BY <1>2, <1>3, <1>4
<1>6. \E z \in T : \A y \in T : y <= z BY <1>5
<1> QED BY <1>6 DEF Max

\* What CountStopping counts.
LEMMA NoneStopping ==
  ASSUME NEW s, CountStopping(s) = 0
  PROVE  \A c \in Child : s[c] # "STOPPING"
<1> DEFINE T == {c \in Child : s[c] = "STOPPING"}
<1>1. Children \in Int BY ChildrenAssumption
<1>2. IsFiniteSet(Child) BY <1>1, FS_Interval DEF Child
<1>3. IsFiniteSet(T) BY <1>2, FS_Subset
<1>4. T = {} BY <1>3, FS_EmptySet DEF CountStopping
<1> QED BY <1>4

LEMMA CountNat == ASSUME NEW s PROVE CountStopping(s) \in Nat
<1>1. Children \in Int BY ChildrenAssumption
<1>2. IsFiniteSet(Child) BY <1>1, FS_Interval DEF Child
<1> QED BY <1>2, FS_Subset, FS_CardinalityType DEF CountStopping

\* Where the loop goes on.
LEMMA TopIs == ASSUME NEW s PROVE Top(s) \in {"loop", "recv"} BY DEF Top

\* A Stop is read once as long as no second one is put there.
LEMMA StopsKept ==
  ASSUME TypeOK, StopOnce, stop_put' = stop_put, Closing' => Closing, NEW shift \in {0, 1},
         \A k \in 1 .. Len(q') : q'[k].kind = "stop" =>
           k + shift \in 1 .. Len(q) /\ q'[k] = q[k + shift]
  PROVE  StopOnce'
<1>1. \A k \in 1 .. Len(q') : Stops(k)' => Stops(k + shift) BY DEF Stops
<1>2. \A k : Stops(k) => k \in 1 .. Len(q) BY DEF Stops
<1>3. ASSUME NEW k \in 1 .. Len(q'), NEW l \in 1 .. Len(q'), Stops(k)', Stops(l)' PROVE k = l
  <2>1. k + shift = l + shift BY <1>1, <1>2, <1>3 DEF StopOnce
  <2>2. k \in Int /\ l \in Int OBVIOUS
  <2> QED BY <2>1, <2>2
<1> QED BY <1>1, <1>2, <1>3 DEF StopOnce

\* Reading takes the first mail.
LEMMA ReadsOne ==
  ASSUME TypeOK, q # <<>>, q' = Tail(q)
  PROVE  /\ q' \in Seq(MailState) /\ Len(q') = Len(q) - 1 /\ Len(q) \in Nat
         /\ \A k \in 1 .. Len(q') : k + 1 \in 1 .. Len(q) /\ q'[k] = q[k + 1]
         /\ Head(q) = q[1] /\ 1 \in 1 .. Len(q)
BY DEF TypeOK

\* One lemma for each action of the supervisor.
LEMMA LookStep == SupInv /\ Look => SupInv'
<1> SUFFICES ASSUME SupInv, Look PROVE SupInv' OBVIOUS
<1> USE DEF SupInv
<1>1. TypeOK' BY DEF TypeOK, Look, Places, history
<1>2. Control' BY DEF Control, Look, Over, history
<1>3. StopOnce' BY DEF StopOnce, Stops, Closing, Look, history
<1>4. OneByOne' BY DEF OneByOne, Look, Closing, history
<1>5. GroupWaits' BY DEF GroupWaits, Look
<1>6. Shutdown' BY DEF Shutdown, Look, Closing, history
<1>7. World'
  <2>1. \A c \in Child, n \in Nth : Kept(c, n) BY DEF Kept, Look
  <2>2. Closing => Closing' BY DEF Closing, Look
  <2> QED BY <1>1, <2>1, <2>2, WorldKept DEF Look, World, history, TypeOK
<1> QED BY <1>1, <1>2, <1>3, <1>4, <1>5, <1>6, <1>7 DEF World

LEMMA GroupToldStep == SupInv /\ GroupTold => SupInv'
<1> SUFFICES ASSUME SupInv, GroupTold PROVE SupInv' OBVIOUS
<1> USE DEF SupInv
<1>0. spec \in Settings BY DEF TypeOK
<1>1. TypeOK' BY <1>0, SettingFacts, TopIs DEF TypeOK, GroupTold, Places, Over, history
<1>2. Control' BY <1>0, SettingFacts, TopIs DEF Control, GroupTold, TypeOK, Over, NoChild, history
<1>3. StopOnce' BY TopIs DEF StopOnce, Stops, Closing, GroupTold, history, Over
<1>4. OneByOne' BY TopIs DEF OneByOne, GroupTold, Closing, history, Over
<1>5. GroupWaits' BY TopIs, NoneStopping, CountNat DEF GroupWaits, GroupTold, Over
<1>6. Shutdown' BY TopIs DEF Shutdown, GroupTold, Closing, history, Over
<1>7. World'
  <2>1. \A c \in Child, n \in Nth : Kept(c, n) BY DEF Kept, GroupTold, history
  <2>2. Closing => Closing' BY DEF Closing, GroupTold, Over
  <2> QED BY <1>1, <2>1, <2>2, WorldKept DEF GroupTold, World, history, TypeOK
<1> QED BY <1>1, <1>2, <1>3, <1>4, <1>5, <1>6, <1>7 DEF World

LEMMA RestartedStep == SupInv /\ Restarted => SupInv'
<1> SUFFICES ASSUME SupInv, Restarted PROVE SupInv' OBVIOUS
<1> USE DEF SupInv
<1>0. spec \in Settings BY DEF TypeOK
<1>1. TypeOK' BY <1>0, SettingFacts, TopIs DEF TypeOK, Restarted, Places, Over, NoChild, history
<1>2. Control' BY <1>0, SettingFacts, TopIs DEF Control, Restarted, TypeOK, Over, NoChild, history
<1>3. StopOnce' BY TopIs DEF StopOnce, Stops, Closing, Restarted, history, Over
<1>4. OneByOne' BY TopIs DEF OneByOne, Restarted, Closing, history, Over
<1>5. GroupWaits' BY TopIs, NoneStopping, CountNat DEF GroupWaits, Restarted, Over
<1>6. Shutdown' BY TopIs DEF Shutdown, Restarted, Closing, history, Over
<1>7. World'
  <2>1. \A c \in Child, n \in Nth : Kept(c, n) BY DEF Kept, Restarted, history
  <2>2. Closing => Closing' BY DEF Closing, Restarted, Over
  <2> QED BY <1>1, <2>1, <2>2, WorldKept DEF Restarted, World, history, TypeOK
<1> QED BY <1>1, <1>2, <1>3, <1>4, <1>5, <1>6, <1>7 DEF World

LEMMA DrainedStep == SupInv /\ Drained => SupInv'
<1> SUFFICES ASSUME SupInv, Drained PROVE SupInv' OBVIOUS
<1> USE DEF SupInv
<1>0. spec \in Settings BY DEF TypeOK
<1>1. TypeOK' BY <1>0, SettingFacts, TopIs DEF TypeOK, Drained, Places, Over, history
<1>2. Control' BY <1>0, SettingFacts, TopIs DEF Control, Drained, TypeOK, Over, NoChild, history
<1>3. StopOnce' BY TopIs DEF StopOnce, Stops, Closing, Drained, history, Over
<1>4. OneByOne' BY TopIs DEF OneByOne, Drained, Closing, history, Over
<1>5. GroupWaits' BY TopIs, NoneStopping, CountNat DEF GroupWaits, Drained, Over
<1>6. Shutdown' BY TopIs DEF Shutdown, Drained, Closing, history, Over
<1>7. World'
  <2>1. \A c \in Child, n \in Nth : Kept(c, n) BY DEF Kept, Drained, history
  <2>2. Closing => Closing' BY DEF Closing, Drained, Over
  <2> QED BY <1>1, <2>1, <2>2, WorldKept DEF Drained, World, history, TypeOK
<1> QED BY <1>1, <1>2, <1>3, <1>4, <1>5, <1>6, <1>7 DEF World

LEMMA CheckStep == SupInv /\ Check => SupInv'
<1> SUFFICES ASSUME SupInv, Check PROVE SupInv' OBVIOUS
<1> USE DEF SupInv
<1>0. spec \in Settings BY DEF TypeOK
<1>1. TypeOK' BY <1>0, SettingFacts, TopIs DEF TypeOK, Control, Check, Places, Over, history
<1>2. Control' BY <1>0, SettingFacts, TopIs DEF Control, Check, TypeOK, Over, NoChild, history
<1>3. StopOnce' BY TopIs DEF StopOnce, Stops, Closing, Check, history, Over
<1>4. OneByOne' BY TopIs DEF OneByOne, Check, Closing, history, Over
<1>5. GroupWaits' BY TopIs, NoneStopping, CountNat DEF GroupWaits, Check, Over
<1>6. Shutdown' BY <1>0, SettingFacts DEF Shutdown, Check, Closing, Control, TypeOK, history, Over
<1>7. World'
  <2>1. \A c \in Child, n \in Nth : Kept(c, n) BY DEF Kept, Check, history
  <2>2. Closing => Closing' BY DEF Closing, Check, Over
  <2> QED BY <1>1, <2>1, <2>2, WorldKept DEF Check, World, history, TypeOK
<1> QED BY <1>1, <1>2, <1>3, <1>4, <1>5, <1>6, <1>7 DEF World

LEMMA TickStep == SupInv /\ Tick => SupInv'
<1> SUFFICES ASSUME SupInv, Tick PROVE SupInv' OBVIOUS
<1> USE DEF SupInv
<1>0. spec \in Settings BY DEF TypeOK
<1>1. TypeOK' BY <1>0, SettingFacts, TopIs DEF TypeOK, Tick, Places, Over, history
<1>2. Control' BY <1>0, SettingFacts, TopIs DEF Control, Tick, TypeOK, Over, NoChild, history
<1>3. StopOnce' BY TopIs DEF StopOnce, Stops, Closing, Tick, history, Over
<1>4. OneByOne' BY TopIs DEF OneByOne, Tick, Closing, history, Over
<1>5. GroupWaits' BY TopIs, NoneStopping, CountNat DEF GroupWaits, Tick, Over
<1>6. Shutdown' BY TopIs DEF Shutdown, Tick, Closing, history, Over
<1>7. World'
  <2>1. \A c \in Child, n \in Nth : Kept(c, n) BY DEF Kept, Tick, history
  <2>2. Closing => Closing' BY DEF Closing, Tick, Over
  <2> QED BY <1>1, <2>1, <2>2, WorldKept DEF Tick, World, history, TypeOK
<1> QED BY <1>1, <1>2, <1>3, <1>4, <1>5, <1>6, <1>7 DEF World

LEMMA TooLateStep == SupInv /\ TooLate => SupInv'
<1> SUFFICES ASSUME SupInv, TooLate PROVE SupInv' OBVIOUS
<1> USE DEF SupInv
<1>0. spec \in Settings BY DEF TypeOK
<1>1. ActorTypes' /\ \A d \in Child, n \in Nth : Kept(d, n) /\ actor'[d][n].watched = actor[d][n].watched
  BY ReleaseEffect DEF TypeOK, ActorTypes, TooLate
<1>2. TypeOK' BY <1>0, <1>1, SettingFacts DEF TypeOK, ActorTypes, TooLate, ReleaseAll, Places, Over, history
<1>3. Control' BY <1>0, SettingFacts DEF Control, TooLate, ReleaseAll, TypeOK, Over, history
<1>4. StopOnce' BY DEF StopOnce, Stops, Closing, TooLate, history, Over
<1>5. OneByOne' BY DEF OneByOne, TooLate, Closing, history, Over
<1>6. GroupWaits' BY DEF GroupWaits, TooLate, Over
<1>7. Shutdown' BY <1>0, SettingFacts DEF Shutdown, TooLate, Closing, history, Over, UpTo, TypeOK
<1>8. World'
  <2>1. \A c \in Child, n \in Nth : actor[c][n].at = "none" => actor'[c][n] = actor[c][n]
    <3> SUFFICES ASSUME NEW c \in Child, NEW n \in Nth, actor[c][n].at = "none"
                 PROVE  actor'[c][n] = actor[c][n]
      OBVIOUS
    <3>1. ~Lives(c, n) /\ n \notin Reached(c) BY DEF Lives, Reached
    <3>2. actor'[c][n].stop <=> actor[c][n].stop
      BY <3>1, ReleaseEffect DEF TypeOK, ActorTypes, TooLate
    <3>3. actor[c][n] \in ActorState /\ actor'[c][n] \in ActorState BY <1>2 DEF TypeOK
    <3> QED BY <1>1, <3>2, <3>3 DEF Kept, ActorState
  <2>2. Closing => Closing' BY DEF Closing, TooLate, Over
  <2> QED BY <1>1, <1>2, <2>1, <2>2, WorldKept DEF TooLate, World, history, TypeOK
<1> QED BY <1>2, <1>3, <1>4, <1>5, <1>6, <1>7, <1>8 DEF World

LEMMA GiveUpStep == SupInv /\ GiveUp => SupInv'
<1> SUFFICES ASSUME SupInv, GiveUp PROVE SupInv' OBVIOUS
<1> USE DEF SupInv
<1>0. spec \in Settings BY DEF TypeOK
<1>1. ActorTypes' /\ \A d \in Child, n \in Nth : Kept(d, n) /\ actor'[d][n].watched = actor[d][n].watched
  BY ReleaseEffect DEF TypeOK, ActorTypes, GiveUp
<1>2. TypeOK' BY <1>0, <1>1, SettingFacts DEF TypeOK, ActorTypes, GiveUp, ReleaseAll, Places, Over, history
<1>3. Control' BY <1>0, SettingFacts DEF Control, GiveUp, ReleaseAll, TypeOK, Over, history
<1>4. StopOnce' BY DEF StopOnce, Stops, Closing, GiveUp, history, Over
<1>5. OneByOne' BY DEF OneByOne, GiveUp, Closing, history, Over
<1>6. GroupWaits' BY DEF GroupWaits, GiveUp, Over
<1>7. Shutdown' BY <1>0, SettingFacts DEF Shutdown, GiveUp, Closing, history, Over, UpTo, TypeOK
<1>8. World'
  <2>1. \A c \in Child, n \in Nth : actor[c][n].at = "none" => actor'[c][n] = actor[c][n]
    <3> SUFFICES ASSUME NEW c \in Child, NEW n \in Nth, actor[c][n].at = "none"
                 PROVE  actor'[c][n] = actor[c][n]
      OBVIOUS
    <3>1. ~Lives(c, n) /\ n \notin Reached(c) BY DEF Lives, Reached
    <3>2. actor'[c][n].stop <=> actor[c][n].stop
      BY <3>1, ReleaseEffect DEF TypeOK, ActorTypes, GiveUp
    <3>3. actor[c][n] \in ActorState /\ actor'[c][n] \in ActorState BY <1>2 DEF TypeOK
    <3> QED BY <1>1, <3>2, <3>3 DEF Kept, ActorState
  <2>2. Closing => Closing' BY DEF Closing, GiveUp, Over
  <2> QED BY <1>1, <1>2, <2>1, <2>2, WorldKept DEF GiveUp, World, history, TypeOK
<1> QED BY <1>2, <1>3, <1>4, <1>5, <1>6, <1>7, <1>8 DEF World

LEMMA ShutDownStep == SupInv /\ ShutDown => SupInv'
<1> SUFFICES ASSUME SupInv, ShutDown PROVE SupInv' OBVIOUS
<1> USE DEF SupInv
<1>0. spec \in Settings BY DEF TypeOK
<1>1. ActorTypes' /\ \A d \in Child, n \in Nth : Kept(d, n) /\ actor'[d][n].watched = actor[d][n].watched
  BY ReleaseEffect DEF TypeOK, ActorTypes, ShutDown
<1>2. TypeOK' BY <1>0, <1>1, SettingFacts DEF TypeOK, ActorTypes, ShutDown, ReleaseAll, Places, Over, history
<1>3. Control' BY <1>0, SettingFacts DEF Control, ShutDown, ReleaseAll, TypeOK, Over, history
<1>4. StopOnce' BY DEF StopOnce, Stops, Closing, ShutDown, history, Over
<1>5. OneByOne' BY DEF OneByOne, ShutDown, Closing, history, Over
<1>6. GroupWaits' BY DEF GroupWaits, ShutDown, Over
<1>7. Shutdown' BY <1>0, SettingFacts DEF Shutdown, ShutDown, Closing, history, Over, UpTo, TypeOK
<1>8. World'
  <2>1. \A c \in Child, n \in Nth : actor[c][n].at = "none" => actor'[c][n] = actor[c][n]
    <3> SUFFICES ASSUME NEW c \in Child, NEW n \in Nth, actor[c][n].at = "none"
                 PROVE  actor'[c][n] = actor[c][n]
      OBVIOUS
    <3>1. ~Lives(c, n) /\ n \notin Reached(c) BY DEF Lives, Reached
    <3>2. actor'[c][n].stop <=> actor[c][n].stop
      BY <3>1, ReleaseEffect DEF TypeOK, ActorTypes, ShutDown
    <3>3. actor[c][n] \in ActorState /\ actor'[c][n] \in ActorState BY <1>2 DEF TypeOK
    <3> QED BY <1>1, <3>2, <3>3 DEF Kept, ActorState
  <2>2. Closing => Closing' BY DEF Closing, ShutDown, Over
  <2> QED BY <1>1, <1>2, <2>1, <2>2, WorldKept DEF ShutDown, World, history, TypeOK
<1> QED BY <1>2, <1>3, <1>4, <1>5, <1>6, <1>7, <1>8 DEF World

LEMMA TakeReportIgnoredStep == ASSUME SupInv, TakeReportIgnored PROVE SupInv'
<1> USE DEF SupInv
<1>0. spec \in Settings BY DEF TypeOK
<1>1. /\ q' \in Seq(MailState) /\ Len(q') = Len(q) - 1 /\ Len(q) \in Nat
      /\ \A k \in 1 .. Len(q') : k + 1 \in 1 .. Len(q) /\ q'[k] = q[k + 1]
      /\ Head(q) = q[1] /\ 1 \in 1 .. Len(q)
  BY ReadsOne DEF TakeReportIgnored, ReportFromUp
<1>2. TypeOK' BY <1>0, <1>1, SettingFacts, TopIs DEF TypeOK, TakeReportIgnored, ReportFromUp, Places, Over, history
<1>3. Control' BY <1>0, SettingFacts, TopIs DEF Control, TakeReportIgnored, ReportFromUp, TypeOK, Over, NoChild, history
<1>4. StopOnce'
  <2>1. Closing' => Closing BY TopIs DEF Closing, TakeReportIgnored, ReportFromUp, Over
  <2> QED BY <1>1, <2>1, StopsKept DEF TakeReportIgnored, history
<1>5. OneByOne' BY <1>0, SettingFacts, TopIs DEF OneByOne, TakeReportIgnored, ReportFromUp, Closing, history, Over, TypeOK, Strategies
<1>6. GroupWaits' BY TopIs, NoneStopping DEF GroupWaits, TakeReportIgnored, ReportFromUp, Over
<1>7. Shutdown' BY <1>0, SettingFacts, TopIs DEF Shutdown, TakeReportIgnored, ReportFromUp, Closing, history, Over, TypeOK
<1>8. World'
  <2>1. \A d \in Child, n \in Nth : Kept(d, n) BY DEF Kept, TakeReportIgnored, history
  <2>2. Closing => Closing' BY TopIs DEF Closing, TakeReportIgnored, ReportFromUp, Over
  <2>3. \A d \in Child : d \in IndexOf(Head(q).of) /\ Head(q).kind = "exited" => Names(1, d)
    BY <1>1 DEF IndexOf, Names
  <2>4. \A d \in Child : state'[d] = state[d] \/ (state'[d] = "DOWN" /\ Names(1, d))
    BY <2>3 DEF TakeReportIgnored, ReportFromUp, TypeOK, history, StopOnce, Stops, Closing
  <2> QED BY <1>1, <1>2, <2>1, <2>2, <2>4, WorldKept DEF TakeReportIgnored, World, history, TypeOK
<1> QED BY <1>2, <1>3, <1>4, <1>5, <1>6, <1>7, <1>8 DEF World

LEMMA TakeReportStoppedStep == ASSUME SupInv, NEW c \in Child, TakeReportStopped(c) PROVE SupInv'
<1> USE DEF SupInv
<1>0. spec \in Settings BY DEF TypeOK
<1>1. /\ q' \in Seq(MailState) /\ Len(q') = Len(q) - 1 /\ Len(q) \in Nat
      /\ \A k \in 1 .. Len(q') : k + 1 \in 1 .. Len(q) /\ q'[k] = q[k + 1]
      /\ Head(q) = q[1] /\ 1 \in 1 .. Len(q)
  BY ReadsOne DEF TakeReportStopped, ReportFromUp
<1>2. TypeOK' BY <1>0, <1>1, SettingFacts, TopIs DEF TypeOK, TakeReportStopped, ReportFromUp, Places, Over, history
<1>3. Control'
  <2>1. CASE pc' = "restart" /\ i' = restartFrom /\ restartFrom # NoChild
    BY <1>0, <2>1, SettingFacts DEF Control, TakeReportStopped, TypeOK, Over, NoChild, history
  <2>2. CASE pc' = Top(state')
    BY <1>0, <2>2, SettingFacts, TopIs DEF Control, TakeReportStopped, TypeOK, Over, history
  <2> QED BY <2>1, <2>2 DEF TakeReportStopped
<1>4. StopOnce'
  <2>1. Closing' => Closing BY TopIs DEF Closing, TakeReportStopped, ReportFromUp, Over
  <2> QED BY <1>1, <2>1, StopsKept DEF TakeReportStopped, history
<1>5. OneByOne' BY <1>0, SettingFacts, TopIs DEF OneByOne, TakeReportStopped, ReportFromUp, Closing, history, Over, TypeOK, Strategies
<1>6. GroupWaits' BY TopIs, NoneStopping DEF GroupWaits, TakeReportStopped, ReportFromUp, Over
<1>7. Shutdown' BY <1>0, SettingFacts, TopIs DEF Shutdown, TakeReportStopped, ReportFromUp, Closing, history, Over, TypeOK
<1>8. World'
  <2>1. \A d \in Child, n \in Nth : Kept(d, n) BY DEF Kept, TakeReportStopped, history
  <2>2. Closing => Closing' BY TopIs DEF Closing, TakeReportStopped, ReportFromUp, Over
  <2>3. \A d \in Child : d \in IndexOf(Head(q).of) /\ Head(q).kind = "exited" => Names(1, d)
    BY <1>1 DEF IndexOf, Names
  <2>4. \A d \in Child : state'[d] = state[d] \/ (state'[d] = "DOWN" /\ Names(1, d))
    BY <2>3 DEF TakeReportStopped, ReportFromUp, TypeOK, history, StopOnce, Stops, Closing
  <2> QED BY <1>1, <1>2, <2>1, <2>2, <2>4, WorldKept DEF TakeReportStopped, World, history, TypeOK
<1> QED BY <1>2, <1>3, <1>4, <1>5, <1>6, <1>7, <1>8 DEF World

LEMMA TakeCrashStep == ASSUME SupInv, NEW c \in Child, TakeCrash(c) PROVE SupInv'
<1> USE DEF SupInv
<1>0. spec \in Settings BY DEF TypeOK
<1>1. /\ q' \in Seq(MailState) /\ Len(q') = Len(q) - 1 /\ Len(q) \in Nat
      /\ \A k \in 1 .. Len(q') : k + 1 \in 1 .. Len(q) /\ q'[k] = q[k + 1]
      /\ Head(q) = q[1] /\ 1 \in 1 .. Len(q)
  BY ReadsOne DEF TakeCrash, ReportFromUp
<1>a. \/ pc' = "give_up" /\ i' = i /\ restartFrom' = restartFrom
      \/ spec.strategy = "OneForOne" /\ pc' = "again" /\ i' = c /\ restartFrom' = restartFrom
      \/ spec.strategy = "OneForAll" /\ pc' = "group" /\ i' = 1 /\ restartFrom' = 1
      \/ spec.strategy = "RestForOne" /\ pc' = "group" /\ i' = c + 1 /\ restartFrom' = c
  <2>1. spec.strategy \in {"OneForOne", "OneForAll", "RestForOne"}
    BY <1>0, SettingFacts DEF Strategies
  <2> QED BY <2>1 DEF TakeCrash
<1>b. pc = "recv" /\ q # <<>> /\ Head(q).kind = "exited" /\ c \in IndexOf(Head(q).of)
      /\ state[c] = "UP" /\ state' = [state EXCEPT ![c] = "DOWN"]
      /\ UNCHANGED <<spec, running, left, stop_put, actor, released, crashes, told_down, abandoned>>
  BY DEF TakeCrash, ReportFromUp, history
<1>c. c \in 1 .. spec.count
  BY <1>0, <1>b, SettingFacts DEF Numbers, TypeOK
<1>2. TypeOK' BY <1>0, <1>1, <1>a, <1>b, SettingFacts DEF TypeOK, Places, Over
<1>3. Control' BY <1>0, <1>a, <1>b, <1>c, SettingFacts DEF Control, TypeOK, Over, NoChild
<1>4. StopOnce'
  <2>1. Closing' => Closing BY <1>a, <1>b DEF Closing
  <2> QED BY <1>1, <2>1, StopsKept DEF TakeCrash, history
<1>5. OneByOne' BY <1>a, <1>b DEF OneByOne, Closing, TypeOK
<1>6. GroupWaits' BY <1>a DEF GroupWaits
<1>7. Shutdown' BY <1>a, <1>b DEF Shutdown, Closing
<1>8. World'
  <2>1. \A d \in Child, n \in Nth : Kept(d, n) BY DEF Kept, TakeCrash, history
  <2>2. Closing => Closing' BY <1>b DEF Closing
  <2>3. \A d \in Child : d \in IndexOf(Head(q).of) /\ Head(q).kind = "exited" => Names(1, d)
    BY <1>1 DEF IndexOf, Names
  <2>4. \A d \in Child : state'[d] = state[d] \/ (state'[d] = "DOWN" /\ Names(1, d))
    BY <2>3 DEF TakeCrash, ReportFromUp, TypeOK, history, StopOnce, Stops, Closing
  <2> QED BY <1>1, <1>2, <2>1, <2>2, <2>4, WorldKept DEF TakeCrash, World, history, TypeOK
<1> QED BY <1>2, <1>3, <1>4, <1>5, <1>6, <1>7, <1>8 DEF World

LEMMA DrainStep == ASSUME SupInv, Drain PROVE SupInv'
<1> USE DEF SupInv
<1>0. spec \in Settings BY DEF TypeOK
<1>1. /\ q' \in Seq(MailState) /\ Len(q') = Len(q) - 1 /\ Len(q) \in Nat
      /\ \A k \in 1 .. Len(q') : k + 1 \in 1 .. Len(q) /\ q'[k] = q[k + 1]
      /\ Head(q) = q[1] /\ 1 \in 1 .. Len(q)
  BY ReadsOne DEF Drain, ReportFromUp
<1>a. Head(q).kind = "exited"
  BY <1>1 DEF Drain, StopOnce, Stops, Closing, TypeOK, MailState, StopMail
<1>b. \A d \in Child : state'[d] = IF d \in IndexOf(Head(q).of) /\ state[d] = "STOPPING"
                                 THEN "DOWN" ELSE state[d]
  BY DEF Drain
<1>2. TypeOK' BY <1>0, <1>1, SettingFacts, TopIs DEF TypeOK, Drain, ReportFromUp, Places, Over, history
<1>3. Control' BY <1>0, SettingFacts, TopIs DEF Control, Drain, ReportFromUp, TypeOK, Over, NoChild, history
<1>4. StopOnce'
  <2>1. Closing' => Closing BY TopIs DEF Closing, Drain, ReportFromUp, Over
  <2> QED BY <1>1, <2>1, StopsKept DEF Drain, history
<1>5. OneByOne' BY <1>0, SettingFacts, TopIs DEF OneByOne, Drain, ReportFromUp, Closing, history, Over, TypeOK, Strategies
<1>6. GroupWaits' BY TopIs, NoneStopping DEF GroupWaits, Drain, ReportFromUp, Over
<1>7. Shutdown' BY <1>0, <1>b, SettingFacts DEF Shutdown, Control, Drain, Closing, history, TypeOK
<1>8. World'
  <2>1. \A d \in Child, n \in Nth : Kept(d, n) BY DEF Kept, Drain, history
  <2>2. Closing => Closing' BY TopIs DEF Closing, Drain, ReportFromUp, Over
  <2>3. \A d \in Child : d \in IndexOf(Head(q).of) /\ Head(q).kind = "exited" => Names(1, d)
    BY <1>1 DEF IndexOf, Names
  <2>4. \A d \in Child : state'[d] = state[d] \/ (state'[d] = "DOWN" /\ Names(1, d))
    BY <1>a, <1>b, <2>3
  <2> QED BY <1>1, <1>2, <2>1, <2>2, <2>4, WorldKept DEF Drain, World, history, TypeOK
<1> QED BY <1>2, <1>3, <1>4, <1>5, <1>6, <1>7, <1>8 DEF World

LEMMA TakeStopStep == ASSUME SupInv, TakeStop PROVE SupInv'
<1> USE DEF SupInv
<1>0. spec \in Settings BY DEF TypeOK
<1>1. /\ q' \in Seq(MailState) /\ Len(q') = Len(q) - 1 /\ Len(q) \in Nat
      /\ \A k \in 1 .. Len(q') : k + 1 \in 1 .. Len(q) /\ q'[k] = q[k + 1]
      /\ Head(q) = q[1] /\ 1 \in 1 .. Len(q)
  BY ReadsOne DEF TakeStop
<1>2. /\ pc = "recv" /\ pc' = "down" /\ i' = spec.count /\ Head(q).kind = "stop"
      /\ UNCHANGED <<spec, state, running, restartFrom, left, stop_put, actor, released, crashes,
                     told_down, abandoned>>
  BY DEF TakeStop, history
<1>3. TypeOK' BY <1>0, <1>1, <1>2, SettingFacts DEF TypeOK, Places, Over
<1>4. Control' BY <1>0, <1>2, SettingFacts DEF Control, Over
<1>5. StopOnce'
  <2>1. Stops(1) BY <1>1, <1>2 DEF Stops
  <2>2. stop_put BY <1>1, <2>1 DEF StopOnce, TypeOK
  <2>3. \A k \in 1 .. Len(q') : ~Stops(k)'
    <3> SUFFICES ASSUME NEW k \in 1 .. Len(q'), Stops(k)' PROVE FALSE OBVIOUS
    <3>1. k + 1 \in 1 .. Len(q) /\ Stops(k + 1) BY <1>1 DEF Stops
    <3>2. k + 1 = 1 BY <1>1, <2>1, <3>1 DEF StopOnce
    <3> QED BY <3>2
  <2> QED BY <1>2, <2>2, <2>3 DEF StopOnce
<1>6. OneByOne' BY <1>2 DEF OneByOne, Closing
<1>7. GroupWaits' BY <1>2 DEF GroupWaits
<1>8. Shutdown' BY <1>0, <1>2, SettingFacts DEF Shutdown, Closing, Numbers
<1>9. World'
  <2>1. \A d \in Child, n \in Nth : Kept(d, n) BY <1>2 DEF Kept
  <2>2. Closing => Closing' BY <1>2 DEF Closing
  <2> QED BY <1>1, <1>2, <1>3, <2>1, <2>2, WorldKept DEF World
<1> QED BY <1>3, <1>4, <1>5, <1>6, <1>7, <1>8, <1>9 DEF World

LEMMA SomebodyStopsItStep == ASSUME SupInv, SomebodyStopsIt PROVE SupInv'
<1> USE DEF SupInv
<1>1. /\ ~stop_put /\ stop_put' = TRUE /\ pc \notin Over
      /\ UNCHANGED <<spec, pc, i, state, running, restartFrom, left, actor, released, crashes,
                     told_down, abandoned>>
  BY DEF SomebodyStopsIt, history
<1>2. /\ Len(q') = Len(q) + 1 /\ q'[Len(q) + 1] = StopMail
      /\ \A k \in 1 .. Len(q) : q'[k] = q[k]
      /\ \A k \in 1 .. Len(q') : k \in 1 .. Len(q) \/ k = Len(q) + 1
  BY Appended DEF SomebodyStopsIt
<1>3. ~Closing BY <1>1 DEF StopOnce
<1>4. q' \in Seq(MailState) BY DEF SomebodyStopsIt, TypeOK, MailState
<1>5. TypeOK' BY <1>1, <1>4 DEF TypeOK
<1>6. Control' BY <1>1 DEF Control
<1>7. StopOnce'
  <2>1. \A k \in 1 .. Len(q') : Stops(k)' => k = Len(q) + 1 BY <1>1, <1>2 DEF Stops, StopOnce
  <2>2. ~Closing' BY <1>1, <1>3 DEF Closing
  <2> QED BY <1>1, <2>1, <2>2 DEF StopOnce
<1>8. OneByOne' BY <1>1 DEF OneByOne, Closing
<1>9. GroupWaits' BY <1>1 DEF GroupWaits
<1>10. Shutdown' BY <1>1 DEF Shutdown, Closing
<1>11. World'
  <2>1. \A d \in Child, n \in Nth : Kept(d, n) BY <1>1 DEF Kept
  <2>2. Closing => Closing' BY <1>3
  <2>3. \A k \in 1 .. Len(q') : q'[k].kind = "exited" =>
          k + 0 \in 1 .. Len(q) /\ q'[k] = q[k + 0]
    BY <1>2 DEF StopMail
  <2> QED BY <1>1, <1>5, <2>1, <2>2, <2>3, WorldKept DEF World
<1> QED BY <1>5, <1>6, <1>7, <1>8, <1>9, <1>10, <1>11 DEF World

\* A child is started, or the call faults: StartFirst, StartAgain and Restart.
LEMMA StartStep ==
  ASSUME SupInv, pc \in {"start", "again", "restart"},
         NEW c \in 1 .. spec.count, state[c] = "DOWN",
         NEW then \in {"start", "recv", "restart"}, Start(c, then), i' \in Nat,
         UNCHANGED <<spec, restartFrom, left, q, stop_put, released, crashes, told_down, abandoned>>,
         then = "start" => pc = "start" /\ c = i /\ i' = i + 1 /\ i' \in 1 .. spec.count,
         then = "restart" => pc = "restart" /\ i' >= 1
  PROVE  SupInv'
<1> USE DEF SupInv
<1>0. spec \in Settings BY DEF TypeOK
<1>1. c \in Child BY <1>0, SettingFacts
<1>2. CASE Refused(c)
  <2>1. pc' = "fault" /\ UNCHANGED <<running, state, actor>> BY <1>2 DEF Start
  <2>2. TypeOK' BY <2>1 DEF TypeOK, Places, Over
  <2>3. Control' BY <2>1 DEF Control, Over
  <2>4. StopOnce' BY <2>1 DEF StopOnce, Stops, Closing
  <2>5. OneByOne' BY <2>1 DEF OneByOne, Closing
  <2>6. GroupWaits' BY <2>1 DEF GroupWaits
  <2>7. Shutdown' BY <2>1 DEF Shutdown, Closing
  <2>8. World'
    <3>1. \A d \in Child, n \in Nth : Kept(d, n) BY <2>1 DEF Kept
    <3>2. Closing => Closing' BY DEF Closing, Over
    <3>3. \A k \in 1 .. Len(q') : k + 0 \in 1 .. Len(q) /\ q'[k] = q[k + 0] BY DEF TypeOK
    <3> QED BY <2>1, <2>2, <3>1, <3>2, <3>3, WorldKept DEF World
  <2> QED BY <2>2, <2>3, <2>4, <2>5, <2>6, <2>7, <2>8 DEF World
<1>3. CASE ~Refused(c)
  <2>1. /\ pc' = then /\ running' = [running EXCEPT ![c] = @ + 1]
        /\ state' = [state EXCEPT ![c] = "UP"]
        /\ actor' = [actor EXCEPT ![c][running[c] + 1].at = "running"]
    BY <1>3 DEF Start
  <2>2. ActorTypes' BY <1>1, <2>1, SetAt DEF TypeOK, ActorTypes
  <2>3. running' \in [Child -> Nat] /\ state' \in [Child -> {"UP", "DOWN", "STOPPING"}]
    BY <1>1, <2>1 DEF TypeOK
  <2>4. TypeOK' BY <2>1, <2>2, <2>3 DEF TypeOK, ActorTypes, Places
  <2>5. Control'
    <3>1. then = "start" => \A d \in Child : d >= i' => running'[d] = 0
      <4> SUFFICES ASSUME then = "start", NEW d \in Child, d >= i' PROVE running'[d] = 0 OBVIOUS
      <4>1. d >= i /\ d # c BY <1>0, SettingFacts DEF TypeOK
      <4> QED BY <1>1, <2>1, <4>1 DEF Control, TypeOK
    <3> QED BY <2>1, <3>1 DEF Control, Over
  <2>6. StopOnce' BY <2>1 DEF StopOnce, Stops, Closing
  <2>7. OneByOne'
    <3>1. \A d \in Child : state'[d] = state[d] \/ state'[d] = "UP" BY <1>1, <2>1 DEF TypeOK
    <3> QED BY <2>1, <3>1 DEF OneByOne, Closing, Over
  <2>8. GroupWaits'
    <3>1. \A d \in Child : state'[d] = state[d] \/ state'[d] = "UP" BY <1>1, <2>1 DEF TypeOK
    <3> QED BY <2>1, <3>1 DEF GroupWaits
  <2>9. Shutdown' BY <2>1 DEF Shutdown, Closing, Over
  <2>10. World'
    <3>1. ~Closing BY DEF Closing, Over
    <3>2. c <= spec.count OBVIOUS
    <3> QED BY <1>1, <1>3, <2>1, <2>4, <3>1, <3>2, WorldStart DEF World
  <2> QED BY <2>4, <2>5, <2>6, <2>7, <2>8, <2>9, <2>10 DEF World
<1> QED BY <1>2, <1>3

LEMMA StartFirstStep == ASSUME SupInv, StartFirst PROVE SupInv'
<1>0. spec \in Settings BY DEF SupInv, TypeOK
<1>1. /\ pc = "start" /\ i' = i + 1 /\ i \in 1 .. spec.count
      /\ Start(i, IF i = spec.count THEN "recv" ELSE "start")
      /\ UNCHANGED <<spec, restartFrom, left, q, stop_put, released, crashes, told_down, abandoned>>
  BY DEF StartFirst, SupInv, Control, history
<1>2. spec.count \in Nat /\ i \in Nat /\ i \in Child BY <1>0, <1>1, SettingFacts
<1>3. state[i] = "DOWN" BY <1>1, <1>2 DEF SupInv, Control, Numbers
<1>4. CASE i = spec.count BY <1>1, <1>2, <1>3, <1>4, StartStep
<1>5. CASE i # spec.count
  <2>1. i' \in 1 .. spec.count BY <1>1, <1>2, <1>5
  <2> QED BY <1>1, <1>2, <1>3, <1>5, <2>1, StartStep
<1> QED BY <1>4, <1>5

LEMMA StartAgainStep == ASSUME SupInv, StartAgain PROVE SupInv'
<1>1. /\ pc = "again" /\ i' = i /\ i \in 1 .. spec.count /\ state[i] = "DOWN" /\ Start(i, "recv")
      /\ UNCHANGED <<spec, restartFrom, left, q, stop_put, released, crashes, told_down, abandoned>>
  BY DEF StartAgain, SupInv, Control, history
<1>2. i' \in Nat BY <1>1 DEF SupInv, TypeOK
<1> QED BY <1>1, <1>2, StartStep

LEMMA RestartStep == ASSUME SupInv, Restart PROVE SupInv'
<1>0. spec \in Settings /\ i \in Nat BY DEF SupInv, TypeOK
<1>1. /\ pc = "restart" /\ i >= 1 /\ DownFrom(i) # {} /\ i' = Min(DownFrom(i)) /\ Start(i', "restart")
      /\ UNCHANGED <<spec, restartFrom, left, q, stop_put, released, crashes, told_down, abandoned>>
  BY DEF Restart, SupInv, Control, history
<1>2. spec.count \in Nat BY <1>0, SettingFacts
<1>3. DownFrom(i) \subseteq Nat BY <1>0, <1>2 DEF DownFrom
<1>4. i' \in DownFrom(i) BY <1>1, <1>3, LeastNatural
<1>5. i' \in 1 .. spec.count /\ state[i'] = "DOWN" /\ i' >= 1 /\ i' \in Nat
  BY <1>0, <1>1, <1>2, <1>4 DEF DownFrom
<1> QED BY <1>1, <1>5, StartStep

\* A report at the end of the mail is no Stop.
LEMMA StopsAppended ==
  ASSUME TypeOK, StopOnce, stop_put' = stop_put, Closing' => Closing,
         NEW m, m.kind = "exited", q' = q \/ q' = Append(q, m)
  PROVE  StopOnce'
<1>1. \A k \in 1 .. Len(q') : q'[k].kind = "stop" => k + 0 \in 1 .. Len(q) /\ q'[k] = q[k + 0]
  <2>1. CASE q' = q BY <2>1 DEF TypeOK
  <2>2. CASE q' = Append(q, m) BY <2>2, Appended
  <2> QED BY <2>1, <2>2
<1> QED BY <1>1, StopsKept

\* A report is a mail.
LEMMA ReportType ==
  ASSUME TypeOK, NEW c \in Child, NEW n \in Nat
  PROVE  Report(Address(c, n)) \in MailState /\ Report(Address(c, n)).kind = "exited"
BY DEF Report, Address, MailState

\* What a watch changes: GroupWatch and DownWatch.
LEMMA WatchStep ==
  ASSUME SupInv, NEW c \in 1 .. spec.count, state[c] = "UP", Watch(c), i' = c,
         spec.strategy = "OneForOne" => Closing,
         UNCHANGED <<spec, state, running, restartFrom, left, stop_put, released, crashes,
                     told_down, abandoned>>,
         pc' \in Places, Closing' <=> Closing, pc \notin Over
  PROVE  TypeOK' /\ StopOnce' /\ World'
<1> USE DEF SupInv
<1>0. spec \in Settings BY DEF TypeOK
<1>1. c \in Child BY <1>0, SettingFacts
<1>2. ActorTypes' BY <1>1, WatchEffect DEF TypeOK, ActorTypes
<1>3. running[c] \in Nat BY <1>1 DEF TypeOK
<1>4. q' = q \/ q' = Append(q, Report(Address(c, running[c]))) BY DEF Watch
<1>5. q' \in Seq(MailState)
  <2>1. Report(Address(c, running[c])) \in MailState BY <1>1, <1>3, ReportType
  <2> HIDE DEF SupInv
  <2>2. q \in Seq(MailState) BY DEF SupInv, TypeOK
  <2> QED BY <1>4, <2>1, <2>2
<1>6. TypeOK' BY <1>1, <1>2, <1>5 DEF TypeOK, ActorTypes, Child
<1>7. StopOnce' BY <1>1, <1>3, <1>4, ReportType, StopsAppended
<1>8. c \notin released BY DEF Control
<1>9. World' BY <1>1, <1>6, <1>8, WorldWatch DEF World
<1> QED BY <1>6, <1>7, <1>9

LEMMA GroupWatchStep == ASSUME SupInv, GroupWatch PROVE SupInv'
<1> USE DEF SupInv
<1>0. spec \in Settings /\ i \in Nat BY DEF TypeOK
<1>1. /\ pc = "group" /\ i >= 1 /\ UpFrom(i) # {} /\ i' = Min(UpFrom(i)) /\ Watch(i')
      /\ pc' = "group_tell"
      /\ UNCHANGED <<spec, state, running, restartFrom, left, stop_put, released, crashes,
                     told_down, abandoned>>
  BY DEF GroupWatch, Control, history
<1>2. spec.count \in Nat BY <1>0, SettingFacts
<1>3. UpFrom(i) \subseteq Nat BY <1>0, <1>2 DEF UpFrom
<1>4. i' \in UpFrom(i) BY <1>1, <1>3, LeastNatural
<1>5. i' \in 1 .. spec.count /\ state[i'] = "UP" BY <1>0, <1>1, <1>2, <1>4 DEF UpFrom
<1>6. spec.strategy # "OneForOne" BY <1>1 DEF OneByOne
<1>7. TypeOK' /\ StopOnce' /\ World' BY <1>1, <1>5, <1>6, WatchStep DEF Places, Over, Closing
<1>8. Control' BY <1>1, <1>5 DEF Control, Over
<1>9. OneByOne' BY <1>1, <1>6 DEF OneByOne
<1>10. GroupWaits' BY <1>1 DEF GroupWaits
<1>11. Shutdown' BY <1>1 DEF Shutdown, Closing
<1> QED BY <1>7, <1>8, <1>9, <1>10, <1>11 DEF World

LEMMA DownWatchStep == ASSUME SupInv, DownWatch PROVE SupInv'
<1> USE DEF SupInv
<1>0. spec \in Settings /\ i \in Nat BY DEF TypeOK
<1>1. /\ pc = "down" /\ i \in 1 .. spec.count /\ UpTo(i) # {} /\ i' = Max(UpTo(i)) /\ Watch(i')
      /\ pc' = "down_tell"
      /\ UNCHANGED <<spec, state, running, restartFrom, left, stop_put, released, crashes,
                     told_down, abandoned>>
  BY DEF DownWatch, Control, history
<1>2. spec.count \in Nat BY <1>0, SettingFacts
<1>3. UpTo(i) \subseteq 0 .. i BY <1>0 DEF UpTo
<1>4. i' \in UpTo(i) /\ \A y \in UpTo(i) : y <= i' BY <1>0, <1>1, <1>3, GreatestNatural
<1>5. i' \in 1 .. spec.count /\ state[i'] = "UP" BY <1>0, <1>1, <1>2, <1>4 DEF UpTo
<1>6. Closing /\ Closing' BY <1>1 DEF Closing
<1>7. TypeOK' /\ StopOnce' /\ World' BY <1>1, <1>5, <1>6, WatchStep DEF Places, Over
<1>8. Control' BY <1>1, <1>5 DEF Control, Over
<1>9. OneByOne' BY <1>1, <1>6 DEF OneByOne
<1>10. GroupWaits' BY <1>1 DEF GroupWaits
<1>11. Shutdown'
  <2>1. ASSUME NEW d \in Child, d > i' PROVE state[d] # "UP"
    <3>1. CASE d > i BY <1>1, <3>1 DEF Shutdown
    <3>2. CASE ~(d > i)
      <4>1. d \in 1 .. i /\ d \in Int /\ i' \in Int BY <1>0, <1>2, <1>5, <3>2, SettingFacts
      <4>2. ~(d <= i') BY <2>1, <4>1
      <4>3. d \notin UpTo(i) BY <1>4, <4>2
      <4> QED BY <4>1, <4>3 DEF UpTo
    <3> QED BY <3>1, <3>2
  <2> QED BY <1>1, <1>6, <2>1 DEF Shutdown
<1> QED BY <1>7, <1>8, <1>9, <1>10, <1>11 DEF World

\* What telling a child changes.
\* What telling a child to stop changes: GroupTell and DownTell.
LEMMA TellStep ==
  ASSUME SupInv, NEW c \in Child, state[c] = "UP", Tell(c),
         state' = [state EXCEPT ![c] = "STOPPING"], left' \in Nat,
         UNCHANGED <<spec, i, running, restartFrom, q, stop_put, released, crashes>>,
         told_down' \in SUBSET Child, abandoned' = abandoned,
         pc' \in Places, Closing' <=> Closing, pc \notin Over
  PROVE  TypeOK' /\ StopOnce' /\ World'
<1> USE DEF SupInv
<1>1. ActorTypes' BY TellEffect DEF TypeOK, ActorTypes
<1>2. TypeOK' BY <1>1 DEF TypeOK, ActorTypes
<1>3. StopOnce' BY DEF StopOnce, Stops
<1>4. c \notin released BY DEF Control
<1>5. World' BY <1>2, <1>4, WorldTell DEF World
<1> QED BY <1>2, <1>3, <1>5

LEMMA GroupTellStep == ASSUME SupInv, GroupTell PROVE SupInv'
<1> USE DEF SupInv
<1>0. spec \in Settings /\ left \in Nat /\ told_down \in SUBSET Child BY DEF TypeOK
<1>1. /\ pc = "group_tell" /\ pc' = "group" /\ i \in 1 .. spec.count /\ state[i] = "UP" /\ Tell(i)
      /\ restartFrom >= 1 /\ state' = [state EXCEPT ![i] = "STOPPING"]
      /\ UNCHANGED <<spec, i, running, restartFrom, left, q, stop_put, released, crashes,
                     told_down, abandoned>>
  BY DEF GroupTell, Control, history
<1>2. i \in Child BY <1>0, <1>1, SettingFacts
<1>3. spec.strategy # "OneForOne" BY <1>1 DEF OneByOne
<1>4. TypeOK' /\ StopOnce' /\ World' BY <1>0, <1>1, <1>2, TellStep DEF Places, Over, Closing
<1>5. Control' BY <1>1 DEF Control, Over
<1>6. OneByOne' BY <1>1, <1>3 DEF OneByOne
<1>7. GroupWaits' BY <1>1 DEF GroupWaits
<1>8. Shutdown' BY <1>1 DEF Shutdown, Closing
<1> QED BY <1>4, <1>5, <1>6, <1>7, <1>8 DEF World

LEMMA DownTellStep == ASSUME SupInv, DownTell PROVE SupInv'
<1> USE DEF SupInv
<1>0. spec \in Settings /\ spec.stopTimeout \in Nat /\ told_down \in SUBSET Child
  BY SettingFacts DEF TypeOK
<1>1. /\ pc = "down_tell" /\ pc' = IF spec.stopTimeout > 0 THEN "poll" ELSE "down"
      /\ i \in 1 .. spec.count /\ state[i] = "UP" /\ Tell(i)
      /\ state' = [state EXCEPT ![i] = "STOPPING"] /\ left' = spec.stopTimeout
      /\ told_down' = told_down \cup {i}
      /\ UNCHANGED <<spec, i, running, restartFrom, q, stop_put, released, crashes, abandoned>>
  BY DEF DownTell, Control
<1>2. i \in Child BY <1>0, <1>1, SettingFacts
<1>3. Closing /\ Closing' BY <1>1 DEF Closing
<1>4. TypeOK' /\ StopOnce' /\ World' BY <1>0, <1>1, <1>2, <1>3, TellStep DEF Places, Over
<1>5. Control' BY <1>1 DEF Control, Over
<1>6. OneByOne' BY <1>1, <1>3 DEF OneByOne
<1>7. GroupWaits' BY <1>1 DEF GroupWaits
<1>8. Shutdown'
  <2>1. \A d \in Child : state'[d] = IF d = i THEN "STOPPING" ELSE state[d] BY <1>1 DEF TypeOK
  <2> QED BY <1>1, <1>2, <1>3, <2>1 DEF Shutdown
<1> QED BY <1>4, <1>5, <1>6, <1>7, <1>8 DEF World

\* The children's threads leave the supervisor where it is.
LEMMA ChildrenStep ==
  ASSUME SupInv, TypeOK', StopOnce', World',
         UNCHANGED <<spec, pc, i, state, running, restartFrom, left, stop_put, released,
                     told_down, abandoned>>
  PROVE  SupInv'
<1> USE DEF SupInv
<1>1. Control' BY DEF Control
<1>2. OneByOne' BY DEF OneByOne, Closing
<1>3. GroupWaits' BY DEF GroupWaits
<1>4. Shutdown' BY DEF Shutdown, Closing
<1> QED BY <1>1, <1>2, <1>3, <1>4 DEF World

LEMMA ActorEndsStep ==
  ASSUME SupInv, NEW c \in Child, NEW n \in Nth, NEW f \in BOOLEAN, Lives(c, n), Ends(c, n, f),
         crashes' \in 0 .. MaxCrashes,
         UNCHANGED <<spec, pc, i, state, running, restartFrom, left, q, stop_put, released,
                     told_down, abandoned>>
  PROVE  SupInv'
<1> USE DEF SupInv
<1>1. ActorTypes' BY EndsEffect DEF TypeOK, ActorTypes
<1>2. TypeOK' BY <1>1 DEF TypeOK, ActorTypes
<1>3. StopOnce' BY DEF StopOnce, Stops, Closing
<1>4. World'
  <2>1. Closing => Closing' BY DEF Closing
  <2> QED BY <1>2, <2>1, WorldEnds DEF World
<1> QED BY <1>2, <1>3, <1>4, ChildrenStep

LEMMA ActorReturnsStep ==
  ASSUME SupInv, NEW c \in Child, NEW n \in Nth, ActorReturns(c, n) PROVE SupInv'
<1>1. crashes' \in 0 .. MaxCrashes BY DEF ActorReturns, SupInv, TypeOK
<1> QED BY <1>1, ActorEndsStep DEF ActorReturns, Followed, Lives, history

LEMMA ActorCrashesStep ==
  ASSUME SupInv, NEW c \in Child, NEW n \in Nth, ActorCrashes(c, n) PROVE SupInv'
<1>1. crashes' \in 0 .. MaxCrashes BY MaxCrashesAssumption DEF ActorCrashes, SupInv, TypeOK
<1> QED BY <1>1, ActorEndsStep DEF ActorCrashes, Followed, Lives, history

LEMMA EpilogueStep ==
  ASSUME SupInv, NEW c \in Child, NEW n \in Nth, Epilogue(c, n) PROVE SupInv'
<1> USE DEF SupInv
<1>1. /\ actor[c][n].at \in {"closed", "told"} /\ Tells(c, n)
      /\ Goes(c, n, IF actor[c][n].at = "closed" /\ actor[c][n].watched THEN "told" ELSE "done")
      /\ UNCHANGED <<spec, pc, i, state, running, restartFrom, left, stop_put, released, crashes,
                     told_down, abandoned>>
  <2>1. CASE TellStarter(c, n) BY <2>1 DEF TellStarter, Followed, history
  <2>2. CASE TellWatchers(c, n) BY <2>2 DEF TellWatchers, Followed, history
  <2> QED BY <2>1, <2>2 DEF Epilogue
<1>2. n \in Nat BY DEF Nth
<1>3. q' = Append(q, Report(Address(c, n))) BY <1>1 DEF Tells
<1>4. q' \in Seq(MailState) BY <1>2, <1>3, ReportType DEF TypeOK
<1>5. ActorTypes' BY <1>1, SetAt DEF Goes, TypeOK, ActorTypes
<1>6. TypeOK' BY <1>1, <1>4, <1>5 DEF TypeOK, ActorTypes
<1>7. Closing' <=> Closing BY <1>1 DEF Closing
<1>8. StopOnce' BY <1>1, <1>2, <1>3, <1>7, ReportType, StopsAppended
<1>9. World' BY <1>1, <1>6, <1>7, WorldReports DEF World
<1> QED BY <1>1, <1>6, <1>8, <1>9, ChildrenStep

\* The invariant holds at first and every step keeps it.
LEMMA SupInvInit == Init => SupInv
<1> SUFFICES ASSUME Init PROVE SupInv OBVIOUS
<1>0. spec \in Settings BY DEF Init
<1>1. /\ pc = "start" /\ i = 1 /\ restartFrom = NoChild /\ left = 0 /\ q = <<>> /\ ~stop_put
      /\ released = {} /\ crashes = 0 /\ told_down = {} /\ abandoned = {}
      /\ state = [c \in Child |-> "DOWN"] /\ running = [c \in Child |-> 0]
  BY DEF Init
<1>2. \A c \in Child, n \in Nth :
        actor[c][n] = [at |-> "none", faulted |-> FALSE, watched |-> FALSE, stop |-> FALSE]
  BY DEF Init
<1>3. actor \in [Child -> [Nth -> ActorState]] BY DEF Init, ActorState
<1>4. TypeOK
  <2>1. state \in [Child -> {"UP", "DOWN", "STOPPING"}] /\ running \in [Child -> Nat] BY <1>1
  <2>2. q \in Seq(MailState) BY <1>1, EmptySeq
  <2>3. stop_put \in BOOLEAN BY DEF Init
  <2> QED BY <1>0, <1>1, <1>3, <2>1, <2>2, <2>3, MaxCrashesAssumption DEF TypeOK, Places, NoChild
<1>5. Control BY <1>0, <1>1, SettingFacts DEF Control, Over
<1>6. StopOnce BY <1>1 DEF StopOnce, Stops, Closing
<1>7. \A c \in Child : ~Occupied(c) BY <1>2 DEF Occupied, Lives
<1>8. \A c \in Child, n \in Nth : n # 0 /\ ~(n <= 0) /\ ~Lives(c, n) BY <1>2 DEF Nth, Lives
<1>9. Numbers BY <1>1, <1>2, <1>8 DEF Numbers
<1>10. ReportsKnown BY <1>1 DEF ReportsKnown
<1>11. DeadAreDead BY <1>7 DEF DeadAreDead
<1>12. spec.in_slot \subseteq Child BY <1>0, SettingFacts
<1>13. \A n \in Nth : ~(n < 0) /\ n # 0 BY DEF Nth
<1>14. SlotsReportOnce BY <1>1, <1>2, <1>12, <1>13 DEF SlotsReportOnce, Names
<1>15. OneByOne BY <1>1 DEF OneByOne
<1>16. StoppingTold BY <1>1 DEF StoppingTold
<1>17. GroupWaits BY <1>1 DEF GroupWaits
<1>18. Shutdown BY <1>1 DEF Shutdown, Closing
<1> QED BY <1>4, <1>5, <1>6, <1>9, <1>10, <1>11, <1>14, <1>15, <1>16, <1>17, <1>18 DEF SupInv

LEMMA SupInvStep == SupInv /\ [Next]_vars => SupInv'
<1> SUFFICES ASSUME SupInv, [Next]_vars PROVE SupInv' OBVIOUS
<1>1. CASE UNCHANGED vars
  <2> USE DEF SupInv
  <2>1. UNCHANGED <<spec, pc, i, state, running, restartFrom, left, q, stop_put, actor, released,
                    crashes, told_down, abandoned>>
    BY <1>1 DEF vars
  <2>2. TypeOK' BY <2>1 DEF TypeOK
  <2>3. StopOnce' BY <2>1 DEF StopOnce, Stops, Closing
  <2>4. World'
    <3>1. \A d \in Child, n \in Nth : Kept(d, n) BY <2>1 DEF Kept
    <3>2. Closing => Closing' BY <2>1 DEF Closing
    <3>3. \A k \in 1 .. Len(q') : k + 0 \in 1 .. Len(q) /\ q'[k] = q[k + 0] BY <2>1 DEF TypeOK
    <3> QED BY <2>1, <2>2, <3>1, <3>2, <3>3, WorldKept DEF World
  <2> QED BY <2>1, <2>2, <2>3, <2>4, ChildrenStep
<1>2. CASE Supervise
  BY <1>2, StartFirstStep, LookStep, TooLateStep, TakeStopStep, TakeReportIgnoredStep,
     TakeReportStoppedStep, TakeCrashStep, GiveUpStep, StartAgainStep, GroupWatchStep,
     GroupTellStep, GroupToldStep, RestartStep, RestartedStep, DownWatchStep, DownTellStep,
     DrainStep, DrainedStep, CheckStep, ShutDownStep
  DEF Supervise
<1>3. CASE \E c \in Child, n \in Nth : ActorReturns(c, n) \/ ActorCrashes(c, n) \/ Epilogue(c, n)
  BY <1>3, ActorReturnsStep, ActorCrashesStep, EpilogueStep
<1>4. CASE SomebodyStopsIt BY <1>4, SomebodyStopsItStep
<1>5. CASE Tick BY <1>5, TickStep
<1>6. CASE Finished BY <1>1, <1>6 DEF Finished
<1> QED BY <1>1, <1>2, <1>3, <1>4, <1>5, <1>6 DEF Next

-----------------------------------------------------------------------------
(* The theorems.                                                           *)

\* The inductive invariant: what the supervisor knows of its children, what the reports
\* under way say, and where its shutdown is, always agree, for any children, crashes and
\* settings.
THEOREM SupervisorInv == Spec => []SupInv
<1>1. Init => SupInv BY SupInvInit
<1>2. SupInv /\ [Next]_vars => SupInv' BY SupInvStep
<1> QED BY <1>1, <1>2, PTL DEF Spec

\* In settings without slots in groups every child's reports are its present actor's.
LEMMA NoSlotsAreSole ==
  ASSUME GroupsHaveNoSlots, TypeOK, NEW c \in Child
  PROVE  Sole(c)
BY DEF GroupsHaveNoSlots, TypeOK, Sole

\* A child that is blamed for a crash has ended: no report of an earlier actor at its
\* address is taken for its own (supervisor.skn, the comment at 166), where a group keeps
\* no child in a slot.
THEOREM BlameMeetsTheDead == GroupsHaveNoSlots => (Spec => []BlamedHasEnded)
<1> SUFFICES ASSUME GroupsHaveNoSlots PROVE Spec => []BlamedHasEnded OBVIOUS
<1>1. SupInv => BlamedHasEnded BY NoSlotsAreSole DEF SupInv, DeadAreDead, BlamedHasEnded
<1> QED BY <1>1, SupervisorInv, PTL

\* A group starts again only when all of it has ended, and the shutdown tells a child only
\* when those told before it have ended or were given up on (supervisor.skn, 29-30 and
\* 269-270), where a group keeps no child in a slot.
THEOREM OneEndsBeforeTheNext == GroupsHaveNoSlots => (Spec => []EndsInOrder)
<1> SUFFICES ASSUME GroupsHaveNoSlots PROVE Spec => []EndsInOrder OBVIOUS
<1>1. SupInv => EndsInOrder
  <2> SUFFICES ASSUME SupInv PROVE EndsInOrder OBVIOUS
  <2>1. GroupEndsFirst BY DEF SupInv, GroupWaits, Numbers, GroupEndsFirst
  <2>2. LaterChildrenEndFirst
    <3> SUFFICES ASSUME pc \in {"down_tell", "returned"}, spec.stopTimeout > 0,
                        NEW c \in told_down \ abandoned
                 PROVE  ~Occupied(c)
      BY DEF LaterChildrenEndFirst
    <3>1. c \in Child BY DEF SupInv, TypeOK
    <3>2. state[c] = "DOWN" BY DEF SupInv, Shutdown, Closing
    <3> QED BY <3>1, <3>2, NoSlotsAreSole DEF SupInv, DeadAreDead
  <2> QED BY <2>1, <2>2 DEF EndsInOrder
<1> QED BY <1>1, SupervisorInv, PTL

\* Only _shutdown's end and the restart limit bring the supervisor there.
LEMMA OrphansStep == SupInv /\ NobodyIsOrphaned /\ [Next]_vars => NobodyIsOrphaned'
<1> SUFFICES ASSUME SupInv, NobodyIsOrphaned, [Next]_vars, pc' \in {"returned", "limit"}
             PROVE  /\ (spec.in_slot \subseteq released)'
                    /\ \A c \in Child, n \in Nth : Lives(c, n)' => actor'[c][n].stop
  BY DEF NobodyIsOrphaned
<1>1. CASE UNCHANGED vars BY <1>1 DEF vars, NobodyIsOrphaned, Lives
<1>2. ASSUME NEW told, actor' = ToldAndReleased(told), ReleaseAll, UNCHANGED <<spec, state, running>>,
             released = {},
             \A c \in Child : state[c] = "UP" => c \in told
      PROVE  /\ (spec.in_slot \subseteq released)'
             /\ \A c \in Child, n \in Nth : Lives(c, n)' => actor'[c][n].stop
  <2>1. \A d \in Child, n \in Nth :
          /\ Kept(d, n)
          /\ actor'[d][n].stop <=> \/ actor[d][n].stop
                                   \/ Lives(d, n) /\ d \in spec.in_slot
                                   \/ d \in told /\ n \in Reached(d)
    BY <1>2, ReleaseEffect DEF SupInv, TypeOK, ActorTypes
  <2> SUFFICES ASSUME NEW c \in Child, NEW n \in Nth, Lives(c, n)' PROVE actor'[c][n].stop
    BY <1>2 DEF ReleaseAll
  <2>2. Lives(c, n) BY <2>1 DEF Kept, Lives
  <2>3. n = running[c] BY <2>2 DEF SupInv, Numbers
  <2>4. CASE state[c] = "UP" BY <1>2, <2>1, <2>2, <2>3, <2>4 DEF Reached
  <2>5. CASE state[c] = "STOPPING" BY <2>1, <2>2, <2>5 DEF SupInv, StoppingTold
  <2>6. CASE state[c] = "DOWN"
    <3>1. ~Sole(c) BY <2>2, <2>6 DEF SupInv, DeadAreDead, Occupied
    <3> QED BY <2>1, <2>2, <3>1 DEF Sole
  <2> QED BY <2>4, <2>5, <2>6 DEF SupInv, TypeOK
<1>3. CASE GiveUp
  <2>1. released = {} BY <1>3 DEF GiveUp, SupInv, Control, Over
  <2> QED BY <1>2, <1>3, <2>1 DEF GiveUp
<1>4. CASE ShutDown
  <2>1. released = {} BY <1>4 DEF ShutDown, SupInv, Control, Over
  <2>2. \A c \in Child : state[c] # "UP"
    <3>1. spec \in Settings /\ i \in Nat BY DEF SupInv, TypeOK
    <3>2. \A c \in Child : c > i => state[c] # "UP" BY <1>4 DEF ShutDown, SupInv, Shutdown
    <3>3. \A c \in Child : c <= i => state[c] # "UP"
      BY <1>4, <3>1, SettingFacts DEF ShutDown, UpTo
    <3>4. \A c \in Child : c > i \/ c <= i BY <3>1, SettingFacts
    <3> QED BY <3>2, <3>3, <3>4
  <2> QED BY <1>2, <1>4, <2>1, <2>2 DEF ShutDown
<1>5. ASSUME Supervise PROVE GiveUp \/ ShutDown
  <2>1. ~StartFirst /\ ~StartAgain /\ ~Restart
    BY DEF StartFirst, StartAgain, Restart, Start
  <2>2. ~Look /\ ~TooLate /\ ~TakeStop /\ ~TakeReportIgnored
    BY TopIs DEF Look, TooLate, TakeStop, TakeReportIgnored
  <2>3. \A c \in Child : ~TakeReportStopped(c) BY TopIs DEF TakeReportStopped
  <2>4. ASSUME NEW c \in Child PROVE ~TakeCrash(c)
    <3>1. spec.strategy \in {"OneForOne", "OneForAll", "RestForOne"}
      BY SettingFacts DEF SupInv, TypeOK, Strategies
    <3> QED BY <3>1 DEF TakeCrash
  <2>5. ~GroupWatch /\ ~GroupTell /\ ~GroupTold /\ ~Restarted
    BY TopIs DEF GroupWatch, GroupTell, GroupTold, Restarted
  <2>6. ~DownWatch /\ ~DownTell /\ ~Drain /\ ~Drained /\ ~Check
    BY DEF DownWatch, DownTell, Drain, Drained, Check
  <2> QED BY <1>5, <2>1, <2>2, <2>3, <2>4, <2>5, <2>6 DEF Supervise
<1>6. CASE \E c \in Child, n \in Nth : ActorReturns(c, n) \/ ActorCrashes(c, n) \/ Epilogue(c, n)
  BY <1>6 DEF ActorReturns, ActorCrashes, Epilogue, TellStarter, TellWatchers, Followed, Over
<1>7. CASE SomebodyStopsIt \/ Tick BY <1>7 DEF SomebodyStopsIt, Tick, Over
<1>8. CASE Finished BY <1>1, <1>8 DEF Finished
<1> QED BY <1>1, <1>3, <1>4, <1>5, <1>6, <1>7, <1>8 DEF Next

\* Whoever still runs when the supervisor has returned, or has given up for too many crashes,
\* was told to stop, and no slot is left to take messages nobody reads: in every setting.  The
\* panic at a passed deadline is not among these ends.
THEOREM OrphansAreTold == Spec => []NobodyIsOrphaned
<1>1. Init => NobodyIsOrphaned BY DEF Init, NobodyIsOrphaned
<1>2. SupInv /\ NobodyIsOrphaned /\ [Next]_vars => NobodyIsOrphaned' BY OrphansStep
<1> QED BY <1>1, <1>2, SupervisorInv, PTL DEF Spec
=============================================================================
