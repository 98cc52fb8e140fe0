---------------------------- MODULE WaitPadProofs ----------------------------
(***************************************************************************)
(* No wakeup is lost, and an inbox that select names is still ready: for   *)
(* any number of inboxes and of notifiers, whatever they queue and         *)
(* whatever the program waits for, however often.                          *)
(*                                                                         *)
(* The invariant follows one inbox of the wait from the moment the owner   *)
(* has looked at it.  Its mutex then hands on that the owner waits, so     *)
(* whoever queues mail there afterwards cannot load an older count: it is  *)
(* on its way to the pad, or has been there since the owner read gen.      *)
(***************************************************************************)
EXTENDS WaitPad, MailboxProofs, SequenceTheorems, WellFoundedInduction

-----------------------------------------------------------------------------
(* What is true of each part.                                              *)

OwnerPlaces    == {"run", "make", "raise", "gen", "drain", "scan", "poll", "park", "asleep",
                   "lower", "done"}
NotifierPlaces == {"idle", "notify_box", "load", "bump", "signal", "poke"}
Calls          == {"none", "receive", "select", "selectIo"}
Counts         == [waiters : Int, pollers : Int]
Nobody         == [waiters |-> 0, pollers |-> 0]

OwnerTypes    == o \in [pc : OwnerPlaces, call : Calls, watch : SUBSET Box, gen : Nat,
                        todo : SUBSET Box, found : SUBSET Box]
NotifierState == [pc : NotifierPlaces, jobs : Seq(Job), box : Box, knows : Nat \ {0}, loaded : Counts]
NotifierTypes == /\ n \in [Notifiers -> NotifierState]
                 /\ \A i \in Notifiers : n[i].knows <= Len(counts)
BoxTypes      == /\ mb \in [Box -> MailboxOf({Owner})]
                 /\ \A b \in Box : mb[b].owner = Owner
CountTypes    == /\ counts \in Seq(Counts) /\ Len(counts) >= 1 /\ counts[1] = Nobody
                 /\ released \in [Box \cup {Pad} -> 1 .. Len(counts)]
TypeOK        == /\ OwnerTypes /\ NotifierTypes /\ BoxTypes /\ CountTypes
                 /\ gen \in Nat /\ pipe \in {"none", "empty", "byte"}

\* Where the owner can be in each of its calls.
Control ==
  /\ o.pc = "gen" => In("select")
  /\ o.pc \in {"make", "drain", "poll"} => In("selectIo")
  /\ o.pc \in {"raise", "scan", "lower"} => o.call \in {"select", "selectIo"}
  /\ o.pc = "park" => o.call \in {"receive", "select"}
  /\ o.pc = "asleep" => o.call # "none"
  /\ o.pc \notin {"run", "done"} /\ In("receive") => \E b \in Box : o.watch = {b}
  /\ o.pc \notin {"run", "done"} => o.watch # {}
  /\ o.pc = "scan" => o.todo # {}
  /\ o.pc \notin {"scan", "lower"} => o.todo = {}
  /\ o.todo \subseteq o.watch
  /\ OwnerAt("asleep") /\ In("selectIo") => o.found = {}
  /\ In("selectIo") /\ o.pc \in {"raise", "drain", "scan", "poll", "asleep", "lower"} => pipe # "none"
  /\ o.gen <= gen

\* The owner is counted as a waiter or as a poller from raise to lower.
Raised  == \/ o.pc \in {"gen", "drain", "scan", "poll", "lower"}
           \/ o.pc \in {"park", "asleep"} /\ ~In("receive")
Counting ==
  counts[Len(counts)] =
    IF ~Raised THEN Nobody
    ELSE IF In("select") THEN [waiters |-> 1, pollers |-> 0] ELSE [waiters |-> 0, pollers |-> 1]

\* A notifier that has queued mail in b and will load the count as it is.
Knows(i)    == n[i].knows = Len(counts)
OnWay(i, b) == n[i].pc \in {"notify_box", "load"} /\ n[i].box = b /\ Knows(i)

ReceiveWakes ==
  OwnerAt("asleep") /\ In("receive") =>
    \A b \in o.watch : Ready(mb[b]) => \E i \in Notifiers : At(i, "notify_box") /\ n[i].box = b

SelectComing(i, b) ==
  \/ OnWay(i, b)
  \/ At(i, "bump") /\ n[i].loaded.waiters = 1
  \/ At(i, "signal") /\ n[i].loaded.waiters = 1 /\ gen # o.gen
SelectWakes ==
  In("select") /\ o.pc \in {"scan", "park", "asleep"} =>
    \A b \in o.watch \ o.todo :
      /\ released[b] = Len(counts)
      /\ Ready(mb[b]) => \/ \E i \in Notifiers : SelectComing(i, b)
                         \/ gen # o.gen /\ ~OwnerAt("asleep")

PollComing(i, b) ==
  OnWay(i, b) \/ (n[i].pc \in {"bump", "signal", "poke"} /\ n[i].loaded.pollers = 1)
PollWakes ==
  In("selectIo") /\ o.pc \in {"scan", "poll", "asleep"} =>
    \A b \in o.watch \ o.todo :
      /\ released[b] = Len(counts)
      /\ Ready(mb[b]) /\ b \notin o.found => pipe = "byte" \/ \E i \in Notifiers : PollComing(i, b)

\* Whoever has closed an inbox retires it next.
Paired(jobs) ==
  \A k \in 1 .. Len(jobs) :
    jobs[k].op = "close" => k < Len(jobs) /\ jobs[k + 1] = [op |-> "retire", box |-> jobs[k].box]
RetireNext(i, b) == n[i].jobs # <<>> /\ Head(n[i].jobs) = [op |-> "retire", box |-> b]
FoundIsReady ==
  /\ \A i \in Notifiers : Paired(n[i].jobs)
  /\ o.call \in {"select", "selectIo"} =>
       \A b \in o.found : Ready(mb[b]) \/ \E i \in Notifiers : RetireNext(i, b)

WaitInv == TypeOK /\ Control /\ Counting /\ ReceiveWakes /\ SelectWakes /\ PollWakes /\ FoundIsReady

-----------------------------------------------------------------------------
(* The operators.                                                          *)

LEMMA LeastBox ==
  ASSUME NEW S, S \subseteq Box, S # {}
  PROVE  Min(S) \in S
<1>1. IsWellFoundedOn(OpToRel(<, Nat), Nat) BY NatLessThanWellFounded
<1>2. \A x, y \in Nat : x < y => <<x, y>> \in OpToRel(<, Nat) BY Zenon DEF OpToRel
<1>3. S \subseteq Nat BY NBoxesAssumption DEF Box
<1>4. PICK x \in S : \A y \in S : ~ (<<y, x>> \in OpToRel(<, Nat)) BY <1>1, <1>3, WFMin, Zenon
<1>5. \A y \in S : ~ (y < x) BY <1>2, <1>3, <1>4, Zenon
<1>6. \A y \in S : x <= y BY <1>3, <1>5
<1> QED BY <1>6, Zenon DEF Min

LEMMA LaterOfTwo ==
  ASSUME NEW x \in Nat, NEW y \in Nat
  PROVE  Max({x, y}) = IF x >= y THEN x ELSE y
<1> DEFINE m == IF x >= y THEN x ELSE y
<1>1. m \in {x, y} /\ \A z \in {x, y} : m >= z OBVIOUS
<1>2. \A u \in {x, y} : (\A z \in {x, y} : u >= z) => u = m OBVIOUS
<1> HIDE DEF m
<1>3. Max({x, y}) = m BY <1>1, <1>2 DEF Max
<1> QED BY <1>3 DEF m

\* What a notifier knows after a critical section: all that it or the mutex knew.
LEMMA AcquiredIs ==
  ASSUME TypeOK, NEW i \in Notifiers, NEW m \in Box \cup {Pad}
  PROVE  /\ Acquired(i, m) \in 1 .. Len(counts)
         /\ Acquired(i, m) >= n[i].knows /\ Acquired(i, m) >= released[m]
<1>1. n[i].knows \in Nat /\ n[i].knows >= 1 /\ n[i].knows <= Len(counts)
  BY DEF TypeOK, NotifierTypes, NotifierState
<1>2. released[m] \in 1 .. Len(counts) /\ Len(counts) \in Nat BY DEF TypeOK, CountTypes
<1>3. released[m] \in Nat BY <1>2
<1>4. Acquired(i, m) = IF n[i].knows >= released[m] THEN n[i].knows ELSE released[m]
  BY <1>1, <1>3, LaterOfTwo DEF Acquired
<1> QED BY <1>1, <1>2, <1>4

\* What a job does to an inbox.
LEMMA AfterIs ==
  ASSUME NEW b \in MailboxOf({Owner}), b.owner = Owner,
         NEW op \in {"msg", "stop", "close", "retire"}
  PROVE  /\ After(b, op) \in MailboxOf({Owner}) /\ After(b, op).owner = Owner
         /\ Ready(b) /\ op # "close" => Ready(After(b, op))
         /\ op = "close" => (Ready(After(b, op)) => Ready(b))
         /\ op = "retire" => Ready(After(b, op))
         /\ (op \in {"msg", "stop"} /\ b.dead) \/ (op = "stop" /\ b.stopped) => After(b, op) = b
<1>1. /\ b.q \in Seq(MailOf({Owner})) /\ b.owner = Owner /\ Owner # NO_OWNER
      /\ DOMAIN b = {"owner", "q", "messages", "dead", "released", "stopped", "stop_seen", "io_paused"}
  BY DEF MailboxOf, Owner, NO_OWNER
<1>2. Msg(Owner) \in MailOf({Owner}) /\ Stop \in MailOf({Owner}) /\ Stop.kind = "stop"
  BY DEF Msg, Stop, MailOf, NO_OWNER
<1>3. \A m \in MailOf({Owner}) : Append(b.q, m) # <<>> BY <1>1
<1>4. CASE op = "msg"
  <2>1. After(b, op) = IF b.dead THEN b ELSE Push(b, Msg(Owner))
    BY <1>4 DEF After, Offer, OfferAnswer, Full
  <2>2. Push(b, Msg(Owner)).q # <<>> /\ Push(b, Msg(Owner)).owner = Owner
    BY <1>1, <1>2, <1>3 DEF Push
  <2>3. Push(b, Msg(Owner)) \in MailboxOf({Owner}) BY <1>2, PushType
  <2> QED BY <1>4, <2>1, <2>2, <2>3 DEF Ready
<1>5. CASE op = "stop"
  <2>1. After(b, op) = Put(b, Stop) /\ Put(b, Stop) \in MailboxOf({Owner})
    BY <1>2, <1>5, PutType DEF After
  <2>2. b.dead \/ b.stopped => Put(b, Stop) = b BY <1>2 DEF Put
  <2>3. ~(b.dead \/ b.stopped) => Put(b, Stop).q # <<>> /\ Put(b, Stop).owner = Owner
    <3> DEFINE told == b.stopped \/ Stop.kind = "stop"
    <3> HIDE DEF told
    <3>1. ~(b.dead \/ b.stopped) => Put(b, Stop) = [b EXCEPT !.q = Append(b.q, Stop), !.stopped = told]
      BY <1>2 DEF Put, told
    <3> QED BY <1>1, <1>2, <1>3, <3>1
  <2> QED BY <1>1, <1>5, <2>1, <2>2, <2>3 DEF Ready
<1>6. CASE op = "close"
  <2>1. After(b, op) = Close(b) /\ Close(b) \in MailboxOf({Owner}) BY <1>6, EndType DEF After
  <2>2. Close(b).q = <<>> /\ Close(b).stop_seen = b.stop_seen /\ Close(b).owner = Owner
    BY <1>1 DEF Close
  <2> QED BY <1>6, <2>1, <2>2 DEF Ready
<1>7. CASE op = "retire"
  <2>1. After(b, op) = Retire(b) /\ Retire(b) \in MailboxOf({Owner}) BY <1>7, EndType DEF After
  <2>2. Retire(b).q = <<Stop>> /\ Retire(b).owner = Owner
    <3> DEFINE told == b.stopped \/ b.owner # NO_OWNER
    <3> HIDE DEF told
    <3>1. Retire(b) = [b EXCEPT !.dead = TRUE, !.messages = 0, !.q = <<Stop>>, !.stopped = told]
      BY <1>1 DEF Retire, told
    <3> QED BY <1>1, <3>1
  <2>3. <<Stop>> # <<>> OBVIOUS
  <2> QED BY <1>7, <2>1, <2>2, <2>3 DEF Ready
<1> QED BY <1>4, <1>5, <1>6, <1>7

LEMMA TakeKeepsOwner ==
  ASSUME NEW b \in MailboxOf({Owner}), b.owner = Owner
  PROVE  Take(b) \in MailboxOf({Owner}) /\ Take(b).owner = Owner
<1>1. Take(b) \in MailboxOf({Owner}) BY TakeType
<1> QED BY <1>1 DEF MailboxOf, Owner, NO_OWNER, Take

-----------------------------------------------------------------------------
(* The owner's steps.                                                      *)

LEMMA WaitInit == Init => WaitInv
<1> SUFFICES ASSUME Init PROVE WaitInv OBVIOUS
<1>1. /\ mb = [b \in Box |-> NewMailbox(Owner)] /\ gen = 0 /\ pipe = "none" /\ counts = <<Nobody>>
      /\ released = [m \in Box \cup {Pad} |-> 1]
      /\ o = [pc |-> "run", call |-> "none", watch |-> {}, gen |-> 0, todo |-> {}, found |-> {}]
      /\ n = [i \in Notifiers |-> [pc |-> "idle", jobs |-> Jobs[i], box |-> 1, knows |-> 1,
                                   loaded |-> Nobody]]
  BY DEF Init, Nobody
<1>2. OwnerTypes BY <1>1 DEF OwnerTypes, OwnerPlaces, Calls
<1>3. Nobody \in Counts BY DEF Nobody, Counts
<1>4. Len(counts) = 1 /\ counts[1] = Nobody /\ counts \in Seq(Counts) BY <1>1, <1>3
<1>5. 1 \in Box BY NBoxesAssumption DEF Box
<1>6. \A i \in Notifiers : Jobs[i] \in Seq(Job) /\ Paired(Jobs[i]) BY JobsAssumption DEF Paired
<1>7. NotifierTypes BY <1>1, <1>3, <1>4, <1>5, <1>6 DEF NotifierTypes, NotifierState, NotifierPlaces
<1>8. BoxTypes
  <2>1. NewMailbox(Owner) \in MailboxOf({Owner}) BY NewMailboxType
  <2> QED BY <1>1, <2>1 DEF BoxTypes, NewMailbox
<1>9. CountTypes BY <1>1, <1>4 DEF CountTypes
<1>10. TypeOK BY <1>1, <1>2, <1>7, <1>8, <1>9 DEF TypeOK
<1>11. Control /\ Counting BY <1>1, <1>4 DEF Control, Counting, Raised, In, OwnerAt
<1>12. ReceiveWakes /\ SelectWakes /\ PollWakes
  BY <1>1 DEF ReceiveWakes, SelectWakes, PollWakes, In, OwnerAt
<1>13. FoundIsReady BY <1>1, <1>6 DEF FoundIsReady
<1> QED BY <1>10, <1>11, <1>12, <1>13 DEF WaitInv

\* A mutex the owner holds hands on all the owner did.
LEMMA LocksKeeps ==
  ASSUME TypeOK, NEW m \in Box \cup {Pad}, OwnerLocks(m), counts' = counts
  PROVE  /\ CountTypes' /\ Len(counts) \in Nat /\ released'[m] = Len(counts)
         /\ \A k \in Box \cup {Pad} : k # m => released'[k] = released[k]
BY DEF TypeOK, CountTypes, OwnerLocks

LEMMA CountedIs ==
  ASSUME TypeOK, Control, Counting, NEW d \in Int, Counted(d), released' = released,
         NEW left \in Counts,
         IF In("select") THEN [counts[Len(counts)] EXCEPT !.waiters = @ + d] = left
                         ELSE [counts[Len(counts)] EXCEPT !.pollers = @ + d] = left
  PROVE  /\ CountTypes' /\ Len(counts') = Len(counts) + 1 /\ Len(counts) \in Nat
         /\ counts'[Len(counts')] = left
<1>1. /\ counts \in Seq(Counts) /\ Len(counts) \in Nat /\ Len(counts) >= 1 /\ counts[1] = Nobody
      /\ released \in [Box \cup {Pad} -> 1 .. Len(counts)]
  BY DEF TypeOK, CountTypes
<1>2. counts' = Append(counts, left) BY DEF Counted, Last
<1>3. /\ counts' \in Seq(Counts) /\ Len(counts') = Len(counts) + 1 /\ counts'[Len(counts) + 1] = left
      /\ \A k \in 1 .. Len(counts) : counts'[k] = counts[k]
  BY <1>1, <1>2, AppendProperties
<1> QED BY <1>1, <1>3 DEF CountTypes

\* A step of the owner alone: what is left to show.
LEMMA OwnerStep ==
  ASSUME WaitInv, mb' = mb, n' = n, gen' = gen,
         OwnerTypes', CountTypes', Len(counts') >= Len(counts), pipe' \in {"none", "empty", "byte"},
         Control', Counting', ReceiveWakes', SelectWakes', PollWakes',
         (o'.found = o.found /\ o'.call = o.call) \/ o'.found = {}
  PROVE  WaitInv'
<1>1. TypeOK'
  <2>1. Len(counts) \in Nat /\ Len(counts') \in Nat BY DEF WaitInv, TypeOK, CountTypes
  <2>2. NotifierTypes'
    <3>1. \A i \in Notifiers : n[i].knows \in Nat BY DEF WaitInv, TypeOK, NotifierTypes, NotifierState
    <3> QED BY <2>1, <3>1 DEF WaitInv, TypeOK, NotifierTypes
  <2>3. BoxTypes' BY DEF WaitInv, TypeOK, BoxTypes
  <2> QED BY <2>2, <2>3 DEF WaitInv, TypeOK
<1>2. FoundIsReady'
  <2>1. \A i \in Notifiers : \A b : RetireNext(i, b)' <=> RetireNext(i, b) BY DEF RetireNext
  <2> QED BY <2>1 DEF WaitInv, FoundIsReady
<1> QED BY <1>1, <1>2 DEF WaitInv

LEMMA CallKeeps == ASSUME WaitInv, NEW w \in Waits, Call(w) PROVE WaitInv'
<1>1. /\ OwnerTypes /\ CountTypes /\ Control /\ Counting /\ pipe \in {"none", "empty", "byte"}
  BY DEF WaitInv, TypeOK
<1>2. /\ w.call \in {"receive", "select", "selectIo"} /\ w.watch \subseteq Box /\ w.watch # {}
      /\ w.call = "receive" => \E b \in Box : w.watch = {b}
  BY WaitsAssumption DEF Wait
<1>3. /\ o.pc = "run" /\ o'.call = w.call /\ o'.watch = w.watch /\ o'.found = {}
      /\ o'.todo = {} /\ o'.gen = o.gen
      /\ o'.pc = CASE w.call = "receive" -> "park" [] w.call = "select" -> "raise"
                    [] w.call = "selectIo" -> "make"
      /\ OwnerTypes'
  <2>1. o.pc = "run" /\ o.todo = {} BY <1>1 DEF Call, OwnerAt, Control
  <2>2. PICK pc \in OwnerPlaces : pc = CASE w.call = "receive" -> "park" [] w.call = "select" -> "raise"
                                          [] w.call = "selectIo" -> "make"
    BY <1>2 DEF OwnerPlaces
  <2>3. o' = [o EXCEPT !.call = w.call, !.watch = w.watch, !.found = {}, !.pc = pc]
    BY <2>2 DEF Call
  <2> QED BY <1>1, <1>2, <2>1, <2>2, <2>3 DEF OwnerTypes, Calls
<1>4. o'.pc \in {"park", "raise", "make"} BY <1>2, <1>3
<1>5. CountTypes' /\ Len(counts') >= Len(counts) BY <1>1 DEF Call, CountTypes
<1>6. Control' BY <1>1, <1>2, <1>3, <1>4 DEF Control, In, OwnerAt, Call
<1>7. Counting' BY <1>1, <1>2, <1>3, <1>4 DEF Counting, Raised, In, Call
<1>8. ReceiveWakes' /\ PollWakes' BY <1>4 DEF ReceiveWakes, PollWakes, OwnerAt
<1>9. SelectWakes' BY <1>2, <1>3, <1>4 DEF SelectWakes, In
<1>10. mb' = mb /\ n' = n /\ gen' = gen /\ pipe' = pipe BY DEF Call
<1> QED BY <1>1, <1>3, <1>5, <1>6, <1>7, <1>8, <1>9, <1>10, OwnerStep

LEMMA MakePipeKeeps == ASSUME WaitInv, MakePipe PROVE WaitInv'
<1>1. /\ TypeOK /\ OwnerTypes /\ CountTypes /\ Control /\ Counting
  BY DEF WaitInv, TypeOK
<1>2. /\ o.pc = "make" /\ o' = [o EXCEPT !.pc = "raise"] /\ mb' = mb /\ n' = n /\ gen' = gen
      /\ counts' = counts /\ pipe' \in {"none", "empty", "byte"} /\ pipe' # "none"
  BY <1>1 DEF MakePipe, OwnerAt, TypeOK
<1>3. /\ o'.pc = "raise" /\ o'.call = o.call /\ o'.watch = o.watch /\ o'.found = o.found
      /\ o'.todo = o.todo /\ o'.gen = o.gen /\ OwnerTypes'
  BY <1>1, <1>2 DEF OwnerTypes, OwnerPlaces
<1>4. CountTypes' /\ Len(counts') >= Len(counts) BY <1>1, <1>2, LocksKeeps DEF MakePipe
<1>5. Control' BY <1>1, <1>2, <1>3 DEF Control, In, OwnerAt
<1>6. Counting' BY <1>1, <1>2, <1>3 DEF Counting, Raised, In
<1>7. ReceiveWakes' /\ SelectWakes' /\ PollWakes'
  BY <1>3 DEF ReceiveWakes, SelectWakes, PollWakes, OwnerAt
<1> QED BY <1>2, <1>3, <1>4, <1>5, <1>6, <1>7, OwnerStep

LEMMA RaiseKeeps == ASSUME WaitInv, Raise PROVE WaitInv'
<1>1. /\ TypeOK /\ OwnerTypes /\ CountTypes /\ Control /\ Counting /\ pipe \in {"none", "empty", "byte"}
  BY DEF WaitInv, TypeOK
<1>2. /\ o.pc = "raise" /\ mb' = mb /\ n' = n /\ gen' = gen /\ pipe' = pipe /\ released' = released
      /\ o' = [o EXCEPT !.pc = IF In("select") THEN "gen" ELSE "drain"]
  BY DEF Raise, OwnerAt
<1>3. /\ o'.pc = (IF In("select") THEN "gen" ELSE "drain") /\ o'.call = o.call /\ o'.watch = o.watch
      /\ o'.found = o.found /\ o'.todo = o.todo /\ o'.gen = o.gen /\ OwnerTypes'
  BY <1>1, <1>2 DEF OwnerTypes, OwnerPlaces
<1>4. PICK left \in Counts : left = IF In("select") THEN [waiters |-> 1, pollers |-> 0]
                                                 ELSE [waiters |-> 0, pollers |-> 1]
  <2>1. [waiters |-> 1, pollers |-> 0] \in Counts /\ [waiters |-> 0, pollers |-> 1] \in Counts
    BY DEF Counts
  <2> QED BY <2>1
<1>5. CountTypes' /\ Len(counts') = Len(counts) + 1 /\ Len(counts) \in Nat /\ counts'[Len(counts')] = left
  <2>1. counts[Len(counts)] = Nobody BY <1>1, <1>2 DEF Counting, Raised
  <2>2. /\ [Nobody EXCEPT !.waiters = Nobody.waiters + 1] = [waiters |-> 1, pollers |-> 0]
        /\ [Nobody EXCEPT !.pollers = Nobody.pollers + 1] = [waiters |-> 0, pollers |-> 1]
    BY DEF Nobody
  <2> QED BY <1>1, <1>2, <1>4, <2>1, <2>2, CountedIs DEF Raise
<1>6. Control' BY <1>1, <1>2, <1>3 DEF Control, In, OwnerAt
<1>7. Counting' BY <1>1, <1>2, <1>3, <1>4, <1>5 DEF Counting, Raised, In, Control
<1>8. ReceiveWakes' /\ SelectWakes' /\ PollWakes'
  BY <1>3 DEF ReceiveWakes, SelectWakes, PollWakes, OwnerAt
<1> QED BY <1>1, <1>2, <1>3, <1>5, <1>6, <1>7, <1>8, OwnerStep

LEMMA LowerKeeps == ASSUME WaitInv, Lower PROVE WaitInv'
<1>1. /\ TypeOK /\ OwnerTypes /\ CountTypes /\ Control /\ Counting /\ pipe \in {"none", "empty", "byte"}
  BY DEF WaitInv, TypeOK
<1>2. /\ o.pc = "lower" /\ mb' = mb /\ n' = n /\ gen' = gen /\ pipe' = pipe /\ released' = released
      /\ o' = [o EXCEPT !.pc = "run", !.todo = {}, !.gen = 0]
  BY DEF Lower, OwnerAt
<1>3. /\ o'.pc = "run" /\ o'.call = o.call /\ o'.watch = o.watch
      /\ o'.found = o.found /\ o'.todo = {} /\ o'.gen = 0 /\ OwnerTypes'
  BY <1>1, <1>2 DEF OwnerTypes, OwnerPlaces
<1>4. CountTypes' /\ Len(counts') = Len(counts) + 1 /\ Len(counts) \in Nat /\ counts'[Len(counts')] = Nobody
  <2>1. counts[Len(counts)] = IF In("select") THEN [waiters |-> 1, pollers |-> 0]
                                            ELSE [waiters |-> 0, pollers |-> 1]
    BY <1>1, <1>2 DEF Counting, Raised
  <2>2. /\ [[waiters |-> 1, pollers |-> 0] EXCEPT !.waiters = 1 + -1] = Nobody
        /\ [[waiters |-> 0, pollers |-> 1] EXCEPT !.pollers = 1 + -1] = Nobody
    BY DEF Nobody
  <2>3. Nobody \in Counts BY DEF Nobody, Counts
  <2> QED BY <1>1, <1>2, <2>1, <2>2, <2>3, CountedIs DEF Lower
<1>5. Control' BY <1>1, <1>2, <1>3 DEF Control, In, OwnerAt, TypeOK
<1>6. Counting' BY <1>3, <1>4 DEF Counting, Raised
<1>7. ReceiveWakes' /\ SelectWakes' /\ PollWakes'
  BY <1>3 DEF ReceiveWakes, SelectWakes, PollWakes, OwnerAt
<1> QED BY <1>1, <1>2, <1>3, <1>4, <1>5, <1>6, <1>7, OwnerStep

LEMMA ReadGenKeeps == ASSUME WaitInv, ReadGen PROVE WaitInv'
<1>1. /\ TypeOK /\ OwnerTypes /\ CountTypes /\ Control /\ Counting /\ pipe \in {"none", "empty", "byte"}
      /\ gen \in Nat
  BY DEF WaitInv, TypeOK
<1>2. /\ o.pc = "gen" /\ mb' = mb /\ n' = n /\ gen' = gen /\ pipe' = pipe /\ counts' = counts
      /\ o' = [o EXCEPT !.pc = "scan", !.gen = gen, !.todo = o.watch]
  BY DEF ReadGen, OwnerAt
<1>3. /\ o'.pc = "scan" /\ o'.call = o.call /\ o'.watch = o.watch
      /\ o'.found = o.found /\ o'.todo = o.watch /\ o'.gen = gen /\ OwnerTypes'
  BY <1>1, <1>2 DEF OwnerTypes, OwnerPlaces
<1>4. CountTypes' /\ Len(counts') >= Len(counts) BY <1>1, <1>2, LocksKeeps DEF ReadGen
<1>5. Control' BY <1>1, <1>2, <1>3 DEF Control, In, OwnerAt
<1>6. Counting' BY <1>1, <1>2, <1>3 DEF Counting, Raised, In
<1>7. ReceiveWakes' /\ SelectWakes' /\ PollWakes'
  BY <1>3 DEF ReceiveWakes, SelectWakes, PollWakes, OwnerAt
<1> QED BY <1>1, <1>2, <1>3, <1>4, <1>5, <1>6, <1>7, OwnerStep

LEMMA DrainKeeps == ASSUME WaitInv, Drain PROVE WaitInv'
<1>1. /\ TypeOK /\ OwnerTypes /\ CountTypes /\ Control /\ Counting BY DEF WaitInv, TypeOK
<1>2. /\ o.pc = "drain" /\ mb' = mb /\ n' = n /\ gen' = gen /\ counts' = counts /\ released' = released
      /\ pipe' = (IF pipe = "none" THEN "none" ELSE "empty") /\ pipe' \in {"none", "empty", "byte"}
      /\ o' = [o EXCEPT !.pc = "scan", !.todo = o.watch]
  BY DEF Drain, OwnerAt
<1>3. /\ o'.pc = "scan" /\ o'.call = o.call /\ o'.watch = o.watch
      /\ o'.found = o.found /\ o'.todo = o.watch /\ o'.gen = o.gen /\ OwnerTypes'
  BY <1>1, <1>2 DEF OwnerTypes, OwnerPlaces
<1>4. CountTypes' /\ Len(counts') >= Len(counts) BY <1>1, <1>2 DEF CountTypes
<1>5. Control' BY <1>1, <1>2, <1>3 DEF Control, In, OwnerAt
<1>6. Counting' BY <1>1, <1>2, <1>3 DEF Counting, Raised, In
<1>7. ReceiveWakes' /\ SelectWakes' /\ PollWakes'
  BY <1>3 DEF ReceiveWakes, SelectWakes, PollWakes, OwnerAt
<1> QED BY <1>2, <1>3, <1>4, <1>5, <1>6, <1>7, OwnerStep

\* Nothing the owner does on its own takes a notifier off its way.
LEMMA ComingStays ==
  ASSUME n' = n, gen' = gen, counts' = counts, o'.gen = o.gen
  PROVE  \A i \in Notifiers, b \in Box : /\ SelectComing(i, b)' <=> SelectComing(i, b)
                                         /\ PollComing(i, b)' <=> PollComing(i, b)
BY DEF SelectComing, PollComing, OnWay, Knows, At

LEMMA ScanKeeps == ASSUME WaitInv, Scan PROVE WaitInv'
<1>1. /\ TypeOK /\ OwnerTypes /\ CountTypes /\ Control /\ Counting /\ pipe \in {"none", "empty", "byte"}
  BY DEF WaitInv, TypeOK
<1>2. PICK b : b = Min(o.todo) OBVIOUS
<1>3. /\ o.pc = "scan" /\ mb' = mb /\ n' = n /\ gen' = gen /\ pipe' = pipe /\ counts' = counts
      /\ o.call \in {"select", "selectIo"} /\ o.todo # {} /\ o.todo \subseteq Box /\ o.todo \subseteq o.watch
  BY <1>1 DEF Scan, OwnerAt, Control, OwnerTypes
<1>4. b \in o.todo /\ b \in Box BY <1>2, <1>3, LeastBox
<1>5. /\ CountTypes' /\ Len(counts') >= Len(counts) /\ released'[b] = Len(counts)
      /\ \A k \in Box : k # b => released'[k] = released[k]
  BY <1>1, <1>2, <1>3, <1>4, LocksKeeps DEF Scan
<1>6. CASE Ready(mb[b]) /\ In("select")
  <2>1. o' = [o EXCEPT !.pc = "lower", !.found = {b}] BY <1>2, <1>6 DEF Scan
  <2>2. /\ o'.pc = "lower" /\ o'.call = o.call /\ o'.watch = o.watch
        /\ o'.found = {b} /\ o'.todo = o.todo /\ o'.gen = o.gen /\ OwnerTypes'
    BY <1>1, <1>4, <2>1 DEF OwnerTypes, OwnerPlaces
  <2>3. Control' BY <1>1, <1>3, <2>2 DEF Control, In, OwnerAt
  <2>4. Counting' BY <1>1, <1>3, <2>2 DEF Counting, Raised, In
  <2>5. ReceiveWakes' /\ SelectWakes' /\ PollWakes'
    BY <2>2 DEF ReceiveWakes, SelectWakes, PollWakes, OwnerAt
  <2>6. FoundIsReady' BY <1>3, <1>6, <2>2 DEF WaitInv, FoundIsReady
  <2>7. TypeOK' BY <1>1, <1>3, <1>5, <2>2 DEF TypeOK, NotifierTypes, BoxTypes
  <2> QED BY <2>3, <2>4, <2>5, <2>6, <2>7 DEF WaitInv
<1>7. CASE ~(Ready(mb[b]) /\ In("select"))
  <2> DEFINE todo == o.todo \ {b}
             next == IF In("selectIo") THEN "poll" ELSE "park"
  <2>1. o' = [o EXCEPT !.pc = IF todo = {} THEN next ELSE "scan", !.todo = todo,
                       !.found = IF Ready(mb[b]) THEN o.found \cup {b} ELSE o.found]
    BY <1>2, <1>7 DEF Scan
  <2>2. /\ o'.pc = (IF todo = {} THEN next ELSE "scan") /\ o'.call = o.call /\ o'.watch = o.watch
        /\ o'.found = (IF Ready(mb[b]) THEN o.found \cup {b} ELSE o.found)
        /\ o'.todo = todo /\ o'.gen = o.gen /\ OwnerTypes'
    BY <1>1, <1>3, <1>4, <2>1 DEF OwnerTypes, OwnerPlaces
  <2>3. Control' BY <1>1, <1>3, <2>2 DEF Control, In, OwnerAt
  <2>4. Counting' BY <1>1, <1>3, <2>2 DEF Counting, Raised, In
  <2>5. ReceiveWakes' BY <2>2 DEF ReceiveWakes, OwnerAt
  <2>6. \A c \in o'.watch \ o'.todo : c = b \/ c \in o.watch \ o.todo BY <2>2
  <2>7. o.watch \subseteq Box BY <1>1 DEF OwnerTypes
  <2>12. \A c \in Box : \A i \in Notifiers : /\ SelectComing(i, c)' <=> SelectComing(i, c)
                                             /\ PollComing(i, c)' <=> PollComing(i, c)
    BY <1>3, <2>2, ComingStays
  <2>8. SelectWakes'
    <3> SUFFICES ASSUME In("select"), NEW c \in o'.watch \ o'.todo
                 PROVE  /\ released'[c] = Len(counts)
                        /\ Ready(mb[c]) => \/ \E i \in Notifiers : SelectComing(i, c)'
                                           \/ gen # o.gen
      BY <1>3, <2>2 DEF SelectWakes, In, OwnerAt
    <3>1. CASE c = b BY <1>5, <1>7, <3>1
    <3>2. CASE c # b
      <4>1. c \in o.watch \ o.todo /\ c \in Box BY <2>6, <2>7, <3>2
      <4>2. /\ released[c] = Len(counts)
            /\ Ready(mb[c]) => (\E i \in Notifiers : SelectComing(i, c)) \/ gen # o.gen
        BY <1>3, <4>1 DEF WaitInv, SelectWakes
      <4>3. \A i \in Notifiers : SelectComing(i, c)' <=> SelectComing(i, c)
        BY <2>12, <4>1
      <4> QED BY <1>5, <3>2, <4>1, <4>2, <4>3
    <3> QED BY <3>1, <3>2
  <2>9. PollWakes'
    <3> SUFFICES ASSUME In("selectIo"), NEW c \in o'.watch \ o'.todo
                 PROVE  /\ released'[c] = Len(counts)
                        /\ Ready(mb[c]) /\ c \notin o'.found =>
                             pipe = "byte" \/ \E i \in Notifiers : PollComing(i, c)'
      BY <1>3, <2>2 DEF PollWakes, In
    <3>1. CASE c = b BY <1>5, <2>2, <3>1
    <3>2. CASE c # b
      <4>1. c \in o.watch \ o.todo /\ c \in Box BY <2>6, <2>7, <3>2
      <4>2. /\ released[c] = Len(counts)
            /\ Ready(mb[c]) /\ c \notin o.found => pipe = "byte" \/ \E i \in Notifiers : PollComing(i, c)
        BY <1>3, <4>1 DEF WaitInv, PollWakes
      <4>3. \A i \in Notifiers : PollComing(i, c)' <=> PollComing(i, c)
        BY <2>12, <4>1
      <4> QED BY <1>5, <2>2, <3>2, <4>1, <4>2, <4>3
    <3> QED BY <3>1, <3>2
  <2>10. FoundIsReady'
    <3>1. \A i \in Notifiers : \A c : RetireNext(i, c)' <=> RetireNext(i, c) BY <1>3 DEF RetireNext
    <3> QED BY <1>3, <2>2, <3>1 DEF WaitInv, FoundIsReady
  <2>11. TypeOK' BY <1>1, <1>3, <1>5, <2>2 DEF TypeOK, NotifierTypes, BoxTypes
  <2> QED BY <2>3, <2>4, <2>5, <2>8, <2>9, <2>10, <2>11 DEF WaitInv
<1> QED BY <1>6, <1>7

LEMMA PollKeeps == ASSUME WaitInv, Poll PROVE WaitInv'
<1>1. /\ TypeOK /\ OwnerTypes /\ CountTypes /\ Control /\ Counting /\ pipe \in {"none", "empty", "byte"}
  BY DEF WaitInv, TypeOK
<1>2. /\ o.pc = "poll" /\ mb' = mb /\ n' = n /\ gen' = gen /\ pipe' = pipe
      /\ counts' = counts /\ released' = released
      /\ o' = [o EXCEPT !.pc = "lower"] \/ (o.found = {} /\ o' = [o EXCEPT !.pc = "asleep"])
  BY DEF Poll, OwnerAt
<1>3. /\ o'.pc = "lower" \/ (o'.pc = "asleep" /\ o.found = {})
      /\ o'.call = o.call /\ o'.watch = o.watch
      /\ o'.found = o.found /\ o'.todo = o.todo /\ o'.gen = o.gen /\ OwnerTypes'
  BY <1>1, <1>2 DEF OwnerTypes, OwnerPlaces
<1>4. CountTypes' /\ Len(counts') >= Len(counts) BY <1>1, <1>2 DEF CountTypes
<1>5. Control' BY <1>1, <1>2, <1>3 DEF Control, In, OwnerAt
<1>6. Counting' BY <1>1, <1>2, <1>3, <1>5 DEF Counting, Raised, In, Control
<1>7. In("selectIo") /\ o'.call = "selectIo" BY <1>1, <1>2, <1>3 DEF Control, In
<1>8. ReceiveWakes' /\ SelectWakes' BY <1>7 DEF ReceiveWakes, SelectWakes, In
<1>9. PollWakes'
  <2>1. o.watch \subseteq Box BY <1>1 DEF OwnerTypes
  <2>2. \A c \in Box : \A i \in Notifiers : /\ SelectComing(i, c)' <=> SelectComing(i, c)
                                            /\ PollComing(i, c)' <=> PollComing(i, c)
    BY <1>2, <1>3, ComingStays
  <2> QED BY <1>2, <1>3, <1>7, <2>1, <2>2 DEF WaitInv, PollWakes, In
<1> QED BY <1>1, <1>2, <1>3, <1>4, <1>5, <1>6, <1>8, <1>9, OwnerStep

LEMMA PollEndsKeeps == ASSUME WaitInv, PollReturns \/ PollTimesOut PROVE WaitInv'
<1>1. /\ TypeOK /\ OwnerTypes /\ CountTypes /\ Control /\ Counting /\ pipe \in {"none", "empty", "byte"}
  BY DEF WaitInv, TypeOK
<1>2. /\ o.pc = "asleep" /\ In("selectIo") /\ mb' = mb /\ n' = n /\ gen' = gen /\ pipe' = pipe
      /\ counts' = counts /\ released' = released
      /\ o' = [o EXCEPT !.pc = "drain"] \/ o' = [o EXCEPT !.pc = "lower"]
  BY DEF PollReturns, PollTimesOut, OwnerAt
<1>3. /\ o'.pc \in {"drain", "lower"} /\ o'.call = o.call /\ o'.watch = o.watch
      /\ o'.found = o.found /\ o'.todo = o.todo /\ o'.gen = o.gen /\ OwnerTypes'
  BY <1>1, <1>2 DEF OwnerTypes, OwnerPlaces
<1>4. CountTypes' /\ Len(counts') >= Len(counts) BY <1>1, <1>2 DEF CountTypes
<1>5. Control' BY <1>1, <1>2, <1>3 DEF Control, In, OwnerAt
<1>6. Counting' BY <1>1, <1>2, <1>3 DEF Counting, Raised, In
<1>7. ReceiveWakes' /\ SelectWakes' /\ PollWakes'
  BY <1>3 DEF ReceiveWakes, SelectWakes, PollWakes, OwnerAt
<1> QED BY <1>1, <1>2, <1>3, <1>4, <1>5, <1>6, <1>7, OwnerStep

LEMMA ParkSelectKeeps == ASSUME WaitInv, ParkSelect PROVE WaitInv'
<1>1. /\ TypeOK /\ OwnerTypes /\ CountTypes /\ Control /\ Counting /\ pipe \in {"none", "empty", "byte"}
  BY DEF WaitInv, TypeOK
<1>2. /\ o.pc = "park" /\ In("select") /\ mb' = mb /\ n' = n /\ gen' = gen /\ pipe' = pipe
      /\ counts' = counts /\ o' = [o EXCEPT !.pc = IF gen # o.gen THEN "gen" ELSE "asleep"]
  BY DEF ParkSelect, OwnerAt
<1>3. /\ o'.pc = (IF gen # o.gen THEN "gen" ELSE "asleep") /\ o'.call = o.call /\ o'.watch = o.watch
      /\ o'.found = o.found /\ o'.todo = o.todo /\ o'.gen = o.gen /\ OwnerTypes'
  BY <1>1, <1>2 DEF OwnerTypes, OwnerPlaces
<1>4. /\ CountTypes' /\ Len(counts') >= Len(counts)
      /\ \A k \in Box : released'[k] = released[k]
  <2>1. \A k \in Box : k # Pad BY DEF Box, Pad
  <2> QED BY <1>1, <1>2, <2>1, LocksKeeps DEF ParkSelect
<1>5. Control' BY <1>1, <1>2, <1>3 DEF Control, In, OwnerAt
<1>6. Counting' BY <1>1, <1>2, <1>3 DEF Counting, Raised, In
<1>7. ReceiveWakes' /\ PollWakes' BY <1>2, <1>3 DEF ReceiveWakes, PollWakes, In
<1>8. SelectWakes'
  <2>1. o.watch \subseteq Box BY <1>1 DEF OwnerTypes
  <2>2. \A c \in Box : \A i \in Notifiers : /\ SelectComing(i, c)' <=> SelectComing(i, c)
                                            /\ PollComing(i, c)' <=> PollComing(i, c)
    BY <1>2, <1>3, ComingStays
  <2> QED BY <1>2, <1>3, <1>4, <2>1, <2>2 DEF WaitInv, SelectWakes, In, OwnerAt
<1> QED BY <1>1, <1>2, <1>3, <1>4, <1>5, <1>6, <1>7, <1>8, OwnerStep

LEMMA SelectTimesOutKeeps == ASSUME WaitInv, SelectTimesOut PROVE WaitInv'
<1>1. /\ TypeOK /\ OwnerTypes /\ CountTypes /\ Control /\ Counting /\ pipe \in {"none", "empty", "byte"}
  BY DEF WaitInv, TypeOK
<1>2. /\ o.pc = "asleep" /\ In("select") /\ mb' = mb /\ n' = n /\ gen' = gen /\ pipe' = pipe
      /\ counts' = counts /\ o' = [o EXCEPT !.pc = IF gen # o.gen THEN "gen" ELSE "lower"]
  BY DEF SelectTimesOut, OwnerAt
<1>3. /\ o'.pc \in {"gen", "lower"} /\ o'.call = o.call /\ o'.watch = o.watch
      /\ o'.found = o.found /\ o'.todo = o.todo /\ o'.gen = o.gen /\ OwnerTypes'
  BY <1>1, <1>2 DEF OwnerTypes, OwnerPlaces
<1>4. CountTypes' /\ Len(counts') >= Len(counts) BY <1>1, <1>2, LocksKeeps DEF SelectTimesOut
<1>5. Control' BY <1>1, <1>2, <1>3 DEF Control, In, OwnerAt
<1>6. Counting' BY <1>1, <1>2, <1>3 DEF Counting, Raised, In
<1>7. ReceiveWakes' /\ SelectWakes' /\ PollWakes'
  BY <1>3 DEF ReceiveWakes, SelectWakes, PollWakes, OwnerAt
<1> QED BY <1>1, <1>2, <1>3, <1>4, <1>5, <1>6, <1>7, OwnerStep

\* rawReceive before its wait, and after it.
LEMMA ReceiveKeeps ==
  ASSUME WaitInv, \/ OwnerAt("park") /\ ReceiveFrom(Min(o.watch), "asleep")
                  \/ OwnerAt("asleep") /\ ReceiveFrom(Min(o.watch), "run")
  PROVE  WaitInv'
<1>1. /\ TypeOK /\ OwnerTypes /\ CountTypes /\ BoxTypes /\ Control /\ Counting
      /\ pipe \in {"none", "empty", "byte"}
  BY DEF WaitInv, TypeOK
<1>2. PICK b : b = Min(o.watch) OBVIOUS
<1>3. PICK otherwise \in {"asleep", "run"} :
        /\ ReceiveFrom(b, otherwise)
        /\ o.pc \in {"park", "asleep"}
  BY <1>2 DEF OwnerAt
<1>4. In("receive") /\ o.watch = {b} /\ b \in Box
  <2>1. o.watch # {} /\ o.watch \subseteq Box /\ In("receive") /\ \E c \in Box : o.watch = {c}
    BY <1>1, <1>3 DEF Control, OwnerTypes, ReceiveFrom
  <2>2. b \in o.watch BY <1>2, <2>1, LeastBox
  <2> QED BY <2>1, <2>2
<1>5. /\ n' = n /\ gen' = gen /\ pipe' = pipe /\ counts' = counts
      /\ mb' = [mb EXCEPT ![b] = IF Ready(mb[b]) THEN Take(mb[b]) ELSE mb[b]]
      /\ o' = [o EXCEPT !.pc = IF Ready(mb[b]) THEN "run" ELSE otherwise]
  BY <1>3 DEF ReceiveFrom
<1>6. /\ o'.pc = (IF Ready(mb[b]) THEN "run" ELSE otherwise) /\ o'.pc \in {"run", "asleep"}
      /\ o'.call = "receive" /\ o'.watch = o.watch
      /\ o'.found = o.found /\ o'.todo = o.todo /\ o'.gen = o.gen /\ OwnerTypes'
  BY <1>1, <1>4, <1>5 DEF OwnerTypes, OwnerPlaces, In
<1>7. CountTypes' /\ Len(counts') >= Len(counts) BY <1>1, <1>3, <1>4, <1>5, LocksKeeps DEF ReceiveFrom
<1>8. BoxTypes'
  <2>1. mb[b] \in MailboxOf({Owner}) /\ mb[b].owner = Owner BY <1>1, <1>4 DEF BoxTypes
  <2>2. PICK c \in MailboxOf({Owner}) : c.owner = Owner /\ c = IF Ready(mb[b]) THEN Take(mb[b]) ELSE mb[b]
    BY <2>1, TakeKeepsOwner
  <2> QED BY <1>1, <1>4, <1>5, <2>2 DEF BoxTypes
<1>9. TypeOK' BY <1>1, <1>5, <1>6, <1>7, <1>8 DEF TypeOK, NotifierTypes
<1>10. Control' BY <1>1, <1>3, <1>4, <1>5, <1>6 DEF Control, In, OwnerAt
<1>11. Counting' BY <1>1, <1>3, <1>4, <1>5, <1>6 DEF Counting, Raised, In
<1>12. ReceiveWakes'
  <2>1. o'.pc = "asleep" => ~Ready(mb[b]) /\ mb' = mb BY <1>1, <1>4, <1>5, <1>6 DEF BoxTypes
  <2> QED BY <1>4, <1>6, <2>1 DEF ReceiveWakes, OwnerAt
<1>13. SelectWakes' /\ PollWakes' BY <1>6 DEF SelectWakes, PollWakes, In
<1>14. FoundIsReady' BY <1>5, <1>6 DEF WaitInv, FoundIsReady
<1> QED BY <1>9, <1>10, <1>11, <1>12, <1>13, <1>14 DEF WaitInv

\* The program returns, the socket changes, or nothing does.
LEMMA AsideKeeps ==
  ASSUME WaitInv, UNCHANGED <<mb, gen, pipe, counts, released, n>>,
         o' = o \/ (o.pc = "run" /\ o' = [o EXCEPT !.pc = "done"])
  PROVE  WaitInv'
<1>1. /\ TypeOK /\ OwnerTypes /\ CountTypes /\ Control /\ Counting /\ pipe \in {"none", "empty", "byte"}
  BY DEF WaitInv, TypeOK
<1>2. /\ mb' = mb /\ n' = n /\ gen' = gen /\ pipe' = pipe /\ counts' = counts /\ released' = released
  OBVIOUS
<1>3. /\ o'.pc = o.pc \/ (o.pc = "run" /\ o'.pc = "done")
      /\ o'.call = o.call /\ o'.watch = o.watch
      /\ o'.found = o.found /\ o'.todo = o.todo /\ o'.gen = o.gen /\ OwnerTypes'
  BY <1>1 DEF OwnerTypes, OwnerPlaces
<1>4. CountTypes' /\ Len(counts') >= Len(counts) BY <1>1, <1>2 DEF CountTypes
<1>5. Control' BY <1>1, <1>2, <1>3 DEF Control, In, OwnerAt
<1>6. Counting' BY <1>1, <1>2, <1>3 DEF Counting, Raised, In
<1>7. ReceiveWakes' BY <1>2, <1>3 DEF WaitInv, ReceiveWakes, OwnerAt, In, At
<1>8. o.watch \subseteq Box BY <1>1 DEF OwnerTypes
<1>9. \A c \in Box : \A i \in Notifiers : /\ SelectComing(i, c)' <=> SelectComing(i, c)
                                          /\ PollComing(i, c)' <=> PollComing(i, c)
  BY <1>2, <1>3, ComingStays
<1>10. SelectWakes'
  <2> SUFFICES ASSUME In("select"), o'.pc \in {"scan", "park", "asleep"}, NEW c \in o.watch \ o.todo
               PROVE  /\ released[c] = Len(counts)
                      /\ Ready(mb[c]) => \/ \E i \in Notifiers : SelectComing(i, c)'
                                         \/ gen # o.gen /\ o'.pc # "asleep"
    BY <1>2, <1>3 DEF SelectWakes, In, OwnerAt
  <2>1. o'.pc = o.pc BY <1>3
  <2>2. /\ released[c] = Len(counts)
        /\ Ready(mb[c]) => \/ \E i \in Notifiers : SelectComing(i, c)
                           \/ gen # o.gen /\ o.pc # "asleep"
    BY <2>1 DEF WaitInv, SelectWakes, OwnerAt
  <2> QED BY <1>8, <1>9, <2>1, <2>2
<1>11. PollWakes' BY <1>2, <1>3, <1>8, <1>9 DEF WaitInv, PollWakes, In
<1> QED BY <1>1, <1>2, <1>3, <1>4, <1>5, <1>6, <1>7, <1>10, <1>11, OwnerStep

-----------------------------------------------------------------------------
(* The notifiers' steps.                                                   *)

\* A job that wakes nobody has changed nothing.
Wakes(job, box) == ~ \/ job.op \in {"msg", "stop"} /\ box.dead
                     \/ job.op = "stop" /\ box.stopped

LEMMA QueueKeeps == ASSUME WaitInv, NEW i \in Notifiers, Queue(i) PROVE WaitInv'
<1>1. /\ TypeOK /\ OwnerTypes /\ NotifierTypes /\ BoxTypes /\ CountTypes /\ Control /\ Counting
      /\ gen \in Nat /\ pipe \in {"none", "empty", "byte"}
  BY DEF WaitInv, TypeOK
<1>2. PICK job \in Job : job = Head(n[i].jobs) /\ n[i].jobs # <<>> /\ n[i].jobs \in Seq(Job)
                        /\ n[i].pc = "idle"
  <2>1. n[i].jobs # <<>> /\ n[i].jobs \in Seq(Job) /\ n[i].pc = "idle" BY <1>1 DEF Queue, At, NotifierTypes, NotifierState
  <2> QED BY <2>1
<1>3. /\ job.box \in Box /\ job.op \in {"msg", "stop", "close", "retire"} /\ job.box \in Box \cup {Pad}
      /\ job = [op |-> job.op, box |-> job.box]
  BY DEF Job
<1>4. PICK b \in MailboxOf({Owner}) : b = mb[job.box] /\ b.owner = Owner BY <1>1, <1>3 DEF BoxTypes
<1>5. PICK k \in 1 .. Len(counts) : k = Acquired(i, job.box) /\ k >= n[i].knows /\ k >= released[job.box]
  BY <1>1, <1>3, AcquiredIs
<1>6. PICK rest \in Seq(Job) : rest = Tail(n[i].jobs) BY <1>2, HeadTailProperties
<1>7. PICK c \in MailboxOf({Owner}) : c = After(b, job.op) /\ c.owner = Owner BY <1>3, <1>4, AfterIs
<1>8. PICK pc \in {"idle", "notify_box"} : pc = IF Wakes(job, b) THEN "notify_box" ELSE "idle" OBVIOUS
<1>9. /\ o' = o /\ gen' = gen /\ pipe' = pipe /\ counts' = counts
      /\ mb' = [mb EXCEPT ![job.box] = c]
      /\ released' = [released EXCEPT ![job.box] = k]
      /\ n' = [n EXCEPT ![i] = [n[i] EXCEPT !.jobs = rest, !.box = job.box, !.knows = k, !.pc = pc]]
  BY <1>2, <1>4, <1>5, <1>6, <1>7, <1>8 DEF Queue, NotifierLocks, Wakes
<1>10. /\ mb'[job.box] = c /\ \A x \in Box : x # job.box => mb'[x] = mb[x]
       /\ BoxTypes'
  BY <1>1, <1>3, <1>7, <1>9 DEF BoxTypes
<1>11. /\ released'[job.box] = k /\ \A x \in Box : x # job.box => released'[x] = released[x]
       /\ CountTypes' /\ Len(counts) \in Nat
  BY <1>1, <1>3, <1>9 DEF CountTypes
<1>12. /\ n'[i].jobs = rest /\ n'[i].box = job.box /\ n'[i].knows = k /\ n'[i].pc = pc
       /\ \A j \in Notifiers : j # i => n'[j] = n[j]
       /\ NotifierTypes'
  <2>1. k \in Nat \ {0} /\ k <= Len(counts) BY <1>11
  <2> QED BY <1>1, <1>3, <1>8, <1>9, <2>1 DEF NotifierTypes, NotifierState, NotifierPlaces
<1>13. TypeOK' /\ Control' /\ Counting'
  BY <1>1, <1>9, <1>10, <1>11, <1>12 DEF TypeOK, OwnerTypes, Control, Counting, Raised, In, OwnerAt
<1>14. Wakes(job, b) \/ c = b BY <1>3, <1>4, <1>7, AfterIs DEF Wakes
<1>15. o.watch \subseteq Box /\ o.found \subseteq Box BY <1>1 DEF OwnerTypes
<1>16. ReceiveWakes'
  <2> SUFFICES ASSUME o.pc = "asleep", In("receive"), NEW x \in o.watch, Ready(mb'[x])
               PROVE  \E j \in Notifiers : n'[j].pc = "notify_box" /\ n'[j].box = x
    BY <1>9 DEF ReceiveWakes, OwnerAt, In, At
  <2>1. CASE x = job.box /\ Wakes(job, b) BY <1>8, <1>12, <2>1
  <2>2. CASE x # job.box \/ ~Wakes(job, b)
    <3>1. Ready(mb[x]) BY <1>4, <1>10, <1>14, <1>15, <2>2
    <3>2. PICK j \in Notifiers : n[j].pc = "notify_box" /\ n[j].box = x
      BY <3>1 DEF WaitInv, ReceiveWakes, OwnerAt, At
    <3> QED BY <1>2, <1>12, <3>2
  <2> QED BY <2>1, <2>2
<1>17. ASSUME NEW x \in Box, released[x] = Len(counts)
       PROVE  /\ released'[x] = Len(counts)
              /\ x = job.box /\ Wakes(job, b) => OnWay(i, x)'
              /\ x # job.box \/ ~Wakes(job, b) => (Ready(mb'[x]) <=> Ready(mb[x]))
              /\ \A j \in Notifiers : SelectComing(j, x) => SelectComing(j, x)'
              /\ \A j \in Notifiers : PollComing(j, x) => PollComing(j, x)'
  <2>1. released'[x] = Len(counts)
    <3>1. CASE x = job.box BY <1>5, <1>11, <1>17, <3>1
    <3>2. CASE x # job.box BY <1>11, <1>17, <3>2
    <3> QED BY <3>1, <3>2
  <2>2. x = job.box /\ Wakes(job, b) => OnWay(i, x)'
    BY <1>5, <1>8, <1>9, <1>11, <1>12, <1>17 DEF OnWay, Knows
  <2>3. x # job.box \/ ~Wakes(job, b) => (Ready(mb'[x]) <=> Ready(mb[x])) BY <1>4, <1>10, <1>14
  <2>4. ASSUME NEW j \in Notifiers, j # i
        PROVE  SelectComing(j, x) => SelectComing(j, x)'
    BY <1>9, <1>12, <2>4 DEF SelectComing, OnWay, Knows, At
  <2>5. ASSUME NEW j \in Notifiers, j # i
        PROVE  PollComing(j, x) => PollComing(j, x)'
    BY <1>9, <1>12, <2>5 DEF PollComing, OnWay, Knows
  <2>6. ~SelectComing(i, x) /\ ~PollComing(i, x) BY <1>2 DEF SelectComing, PollComing, OnWay, At
  <2> QED BY <2>1, <2>2, <2>3, <2>4, <2>5, <2>6
<1>18. SelectWakes'
  <2> SUFFICES ASSUME In("select"), o.pc \in {"scan", "park", "asleep"}, NEW x \in o.watch \ o.todo
               PROVE  /\ released'[x] = Len(counts)
                      /\ Ready(mb'[x]) => \/ \E j \in Notifiers : SelectComing(j, x)'
                                          \/ gen # o.gen /\ o.pc # "asleep"
    BY <1>9 DEF SelectWakes, In, OwnerAt
  <2>1. /\ released[x] = Len(counts)
        /\ Ready(mb[x]) => \/ \E j \in Notifiers : SelectComing(j, x)
                           \/ gen # o.gen /\ o.pc # "asleep"
    BY DEF WaitInv, SelectWakes, OwnerAt
  <2>2. OnWay(i, x)' => SelectComing(i, x)' BY DEF SelectComing
  <2> QED BY <1>15, <1>17, <2>1, <2>2
<1>19. PollWakes'
  <2> SUFFICES ASSUME In("selectIo"), o.pc \in {"scan", "poll", "asleep"}, NEW x \in o.watch \ o.todo
               PROVE  /\ released'[x] = Len(counts)
                      /\ Ready(mb'[x]) /\ x \notin o.found =>
                           pipe = "byte" \/ \E j \in Notifiers : PollComing(j, x)'
    BY <1>9 DEF PollWakes, In
  <2>1. /\ released[x] = Len(counts)
        /\ Ready(mb[x]) /\ x \notin o.found => pipe = "byte" \/ \E j \in Notifiers : PollComing(j, x)
    BY DEF WaitInv, PollWakes
  <2>2. OnWay(i, x)' => PollComing(i, x)' BY DEF PollComing
  <2> QED BY <1>15, <1>17, <2>1, <2>2
<1>20. FoundIsReady'
  <2>1. Paired(n[i].jobs) /\ n[i].jobs[1] = job BY <1>2 DEF WaitInv, FoundIsReady
  <2>2. /\ Len(n[i].jobs) \in Nat /\ Len(rest) = Len(n[i].jobs) - 1
        /\ \A m \in 1 .. Len(rest) : rest[m] = n[i].jobs[m + 1]
    BY <1>2, <1>6, HeadTailProperties
  <2>3. Paired(rest)
    <3> SUFFICES ASSUME NEW m \in 1 .. Len(rest), rest[m].op = "close"
                 PROVE  m < Len(rest) /\ rest[m + 1] = [op |-> "retire", box |-> rest[m].box]
      BY DEF Paired
    <3>1. m + 1 \in 1 .. Len(n[i].jobs) /\ rest[m] = n[i].jobs[m + 1] BY <2>2
    <3>2. m + 1 < Len(n[i].jobs) /\ n[i].jobs[m + 1 + 1] = [op |-> "retire", box |-> rest[m].box]
      BY <2>1, <3>1 DEF Paired
    <3>3. m + 1 \in 1 .. Len(rest) BY <2>2, <3>2
    <3> QED BY <2>2, <3>2, <3>3
  <2>4. \A j \in Notifiers : Paired(n'[j].jobs) BY <1>12, <2>3 DEF WaitInv, FoundIsReady
  <2>5. ASSUME NEW x \in o.found, o.call \in {"select", "selectIo"}
        PROVE  Ready(mb'[x]) \/ \E j \in Notifiers : RetireNext(j, x)'
    <3>1. Ready(mb[x]) \/ \E j \in Notifiers : RetireNext(j, x) BY <2>5 DEF WaitInv, FoundIsReady
    <3>2. \A j \in Notifiers : j # i /\ RetireNext(j, x) => RetireNext(j, x)' BY <1>12 DEF RetireNext
    <3>3. RetireNext(i, x) <=> job = [op |-> "retire", box |-> x] BY <1>2 DEF RetireNext
    <3>4. CASE x # job.box BY <1>3, <1>10, <1>15, <3>1, <3>2, <3>3, <3>4
    <3>5. CASE x = job.box /\ job.op = "close"
      <4>1. 1 \in 1 .. Len(n[i].jobs) BY <1>2
      <4>2. 1 < Len(n[i].jobs) /\ n[i].jobs[1 + 1] = [op |-> "retire", box |-> x]
        BY <2>1, <3>5, <4>1 DEF Paired
      <4>3. 1 \in 1 .. Len(rest) /\ rest # <<>>
        <5>1. 1 \in 1 .. Len(rest) BY <2>2, <4>2
        <5> QED BY <5>1, EmptySeq
      <4>4. rest[1] = [op |-> "retire", box |-> x] /\ Head(rest) = rest[1] BY <2>2, <4>2, <4>3
      <4>5. RetireNext(i, x)' BY <1>12, <4>3, <4>4 DEF RetireNext
      <4> QED BY <4>5
    <3>6. CASE x = job.box /\ job.op # "close"
      <4>1. job.op = "retire" => Ready(c) BY <1>3, <1>4, <1>7, AfterIs
      <4>2. Ready(b) => Ready(c) BY <1>3, <1>4, <1>7, <3>6, AfterIs
      <4> QED BY <1>4, <1>10, <3>1, <3>2, <3>3, <3>6, <4>1, <4>2
    <3> QED BY <3>4, <3>5, <3>6
  <2> QED BY <1>9, <2>4, <2>5 DEF FoundIsReady
<1> QED BY <1>13, <1>16, <1>18, <1>19, <1>20 DEF WaitInv

\* A notifier on its way: nothing but its place, its loads, gen, the pipe and the sleep of
\* the owner change.
LEMMA WayStep ==
  ASSUME WaitInv, NEW i \in Notifiers, mb' = mb, counts' = counts, CountTypes',
         \A x \in Box : released'[x] = released[x],
         NEW me \in NotifierState, n' = [n EXCEPT ![i] = me],
         me.box = n[i].box, me.jobs = n[i].jobs, me.knows <= Len(counts),
         o' = o \/ (o.pc = "asleep" /\ o.call \in {"receive", "select"} /\ o' = [o EXCEPT !.pc = "park"]),
         gen' \in {gen, gen + 1},
         pipe' \in {pipe, "byte"}, pipe = "none" => pipe' = "none"
  PROVE  /\ TypeOK' /\ Control' /\ Counting' /\ FoundIsReady'
         /\ n'[i] = me
         /\ \A j \in Notifiers : j # i => n'[j] = n[j]
         /\ o'.call = o.call /\ o'.watch = o.watch /\ o'.todo = o.todo /\ o'.gen = o.gen
         /\ o'.found = o.found
<1>1. /\ TypeOK /\ OwnerTypes /\ NotifierTypes /\ BoxTypes /\ CountTypes /\ Control /\ Counting
      /\ gen \in Nat /\ pipe \in {"none", "empty", "byte"}
  BY DEF WaitInv, TypeOK
<1>2. n \in [Notifiers -> NotifierState] /\ \A j \in Notifiers : n[j].knows <= Len(counts)
  BY <1>1 DEF NotifierTypes
<1>3. /\ n'[i] = me /\ n'[i].jobs = n[i].jobs /\ \A j \in Notifiers : j # i => n'[j] = n[j]
      /\ NotifierTypes'
  BY <1>2 DEF NotifierTypes
<1>4. /\ o'.pc = o.pc \/ (o.pc = "asleep" /\ o.call \in {"receive", "select"} /\ o'.pc = "park")
      /\ o'.call = o.call /\ o'.watch = o.watch /\ o'.todo = o.todo /\ o'.gen = o.gen
      /\ o'.found = o.found /\ OwnerTypes'
  BY <1>1 DEF OwnerTypes, OwnerPlaces
<1>5. TypeOK'
  <2>1. gen' \in Nat BY <1>1
  <2> QED BY <1>1, <1>3, <1>4, <2>1 DEF TypeOK, BoxTypes
<1>6. Control'
  <2>1. o.gen \in Nat /\ gen' \in Nat /\ gen <= gen' BY <1>1 DEF OwnerTypes
  <2>2. o.gen <= gen' BY <1>1, <2>1 DEF Control
  <2> QED BY <1>1, <1>4, <2>2 DEF Control, In, OwnerAt
<1>7. Counting' BY <1>1, <1>4 DEF Counting, Raised, In
<1>8. FoundIsReady'
  <2>1. \A j \in Notifiers : n'[j].jobs = n[j].jobs BY <1>3
  <2>2. \A j \in Notifiers : \A x : RetireNext(j, x)' <=> RetireNext(j, x) BY <2>1 DEF RetireNext
  <2> QED BY <1>4, <2>1, <2>2 DEF WaitInv, FoundIsReady
<1> QED BY <1>3, <1>4, <1>5, <1>6, <1>7, <1>8

LEMMA NotifyBoxKeeps == ASSUME WaitInv, NEW i \in Notifiers, NotifyBox(i) PROVE WaitInv'
<1>1. /\ TypeOK /\ OwnerTypes /\ NotifierTypes /\ BoxTypes /\ CountTypes /\ Control /\ Counting
      /\ gen \in Nat /\ pipe \in {"none", "empty", "byte"}
  BY DEF WaitInv, TypeOK
<1>2. /\ n[i].pc = "notify_box" /\ mb' = mb /\ gen' = gen /\ pipe' = pipe
      /\ counts' = counts /\ released' = released /\ CountTypes'
  BY <1>1 DEF NotifyBox, At, CountTypes
<1>3. PICK me \in NotifierState :
        /\ n' = [n EXCEPT ![i] = me] /\ me.pc = "load" /\ me.loaded = n[i].loaded
        /\ me.box = n[i].box /\ me.jobs = n[i].jobs /\ me.knows = n[i].knows /\ me.knows <= Len(counts)
  <2> DEFINE me == [n[i] EXCEPT !.pc = "load"]
  <2>1. n[i] \in NotifierState /\ n[i].knows <= Len(counts) BY <1>1 DEF NotifierTypes
  <2>2. /\ me \in NotifierState /\ me.pc = "load" /\ me.loaded = n[i].loaded
        /\ me.box = n[i].box /\ me.jobs = n[i].jobs /\ me.knows = n[i].knows
    BY <2>1 DEF NotifierState, NotifierPlaces
  <2>3. n' = [n EXCEPT ![i] = me] BY DEF NotifyBox
  <2> HIDE DEF me
  <2> QED BY <2>1, <2>2, <2>3
<1>4. /\ (o.pc = "asleep" /\ In("receive") /\ n[i].box \in o.watch) => o' = [o EXCEPT !.pc = "park"]
      /\ ~(o.pc = "asleep" /\ In("receive") /\ n[i].box \in o.watch) => o' = o
  <2>1. o = [o EXCEPT !.pc = o.pc] BY <1>1 DEF OwnerTypes
  <2> QED BY <2>1 DEF NotifyBox, OwnerAt
<1>5. /\ TypeOK' /\ Control' /\ Counting' /\ FoundIsReady'
      /\ n'[i] = me
      /\ \A j \in Notifiers : j # i => n'[j] = n[j]
      /\ o'.call = o.call /\ o'.watch = o.watch /\ o'.todo = o.todo /\ o'.gen = o.gen
      /\ o'.found = o.found
  <2>1. o' = o \/ (o.pc = "asleep" /\ o.call \in {"receive", "select"} /\ o' = [o EXCEPT !.pc = "park"])
    BY <1>4 DEF In
  <2> QED BY <1>2, <1>3, <2>1, WayStep
<1>6. ReceiveWakes'
  <2> SUFFICES ASSUME o'.pc = "asleep", In("receive"), NEW x \in o.watch, Ready(mb[x])
               PROVE  \E j \in Notifiers : n'[j].pc = "notify_box" /\ n'[j].box = x
    BY <1>2, <1>5 DEF ReceiveWakes, OwnerAt, In, At
  <2>1. o' = o /\ n[i].box \notin o.watch BY <1>1, <1>4 DEF OwnerTypes
  <2>2. PICK j \in Notifiers : n[j].pc = "notify_box" /\ n[j].box = x
    BY <2>1 DEF WaitInv, ReceiveWakes, OwnerAt, At
  <2> QED BY <1>5, <2>1, <2>2
<1>7. \A j \in Notifiers, x \in Box : SelectComing(j, x) => SelectComing(j, x)'
  BY <1>2, <1>3, <1>5 DEF SelectComing, OnWay, Knows, At
<1>8. \A j \in Notifiers, x \in Box : PollComing(j, x) => PollComing(j, x)'
  BY <1>2, <1>3, <1>5 DEF PollComing, OnWay, Knows
<1>9. o.watch \subseteq Box BY <1>1 DEF OwnerTypes
<1>10. ~In("receive") => o' = o BY <1>4
<1>11. SelectWakes'
  <2> SUFFICES ASSUME In("select"), o.pc \in {"scan", "park", "asleep"}, NEW x \in o.watch \ o.todo
               PROVE  /\ released[x] = Len(counts)
                      /\ Ready(mb[x]) => \/ \E j \in Notifiers : SelectComing(j, x)'
                                         \/ gen # o.gen /\ o.pc # "asleep"
    BY <1>2, <1>5, <1>10 DEF SelectWakes, In, OwnerAt
  <2>1. /\ released[x] = Len(counts)
        /\ Ready(mb[x]) => \/ \E j \in Notifiers : SelectComing(j, x)
                           \/ gen # o.gen /\ o.pc # "asleep"
    BY DEF WaitInv, SelectWakes, OwnerAt
  <2> QED BY <1>7, <1>9, <2>1
<1>12. PollWakes'
  <2> SUFFICES ASSUME In("selectIo"), o.pc \in {"scan", "poll", "asleep"}, NEW x \in o.watch \ o.todo
               PROVE  /\ released[x] = Len(counts)
                      /\ Ready(mb[x]) /\ x \notin o.found =>
                           pipe = "byte" \/ \E j \in Notifiers : PollComing(j, x)'
    BY <1>2, <1>5, <1>10 DEF PollWakes, In
  <2>1. /\ released[x] = Len(counts)
        /\ Ready(mb[x]) /\ x \notin o.found => pipe = "byte" \/ \E j \in Notifiers : PollComing(j, x)
    BY DEF WaitInv, PollWakes
  <2> QED BY <1>8, <1>9, <2>1
<1> QED BY <1>5, <1>6, <1>11, <1>12 DEF WaitInv

\* What it takes for such a step to keep the owner's wakeups coming.
LEMMA WayKeeps ==
  ASSUME WaitInv, NEW i \in Notifiers, mb' = mb, counts' = counts,
         \A x \in Box : released'[x] = released[x],
         o'.call = o.call, o'.watch = o.watch, o'.todo = o.todo, o'.gen = o.gen, o'.found = o.found,
         o'.pc = o.pc \/ (o.pc = "asleep" /\ o'.pc = "park"),
         gen' \in {gen, gen + 1}, pipe' \in {pipe, "byte"},
         n[i].pc # "notify_box", \A j \in Notifiers : j # i => n'[j] = n[j],
         ASSUME NEW x \in Box, In("select"), o.pc \in {"scan", "park", "asleep"}, SelectComing(i, x)
         PROVE  SelectComing(i, x)' \/ (gen' # o.gen /\ o'.pc # "asleep"),
         ASSUME NEW x \in Box, In("selectIo"), o.pc \in {"scan", "poll", "asleep"}, PollComing(i, x)
         PROVE  PollComing(i, x)' \/ pipe' = "byte"
  PROVE  ReceiveWakes' /\ SelectWakes' /\ PollWakes'
<1>1. /\ o.watch \subseteq Box /\ o.gen \in Nat /\ gen \in Nat /\ o.gen <= gen
  BY DEF WaitInv, TypeOK, OwnerTypes, Control
<1>2. gen # o.gen => gen' # o.gen BY <1>1
<1>3. ReceiveWakes'
  <2> SUFFICES ASSUME o'.pc = "asleep", In("receive"), NEW x \in o.watch, Ready(mb[x])
               PROVE  \E j \in Notifiers : n'[j].pc = "notify_box" /\ n'[j].box = x
    BY DEF ReceiveWakes, OwnerAt, In, At
  <2>1. o.pc = "asleep" OBVIOUS
  <2>2. PICK j \in Notifiers : n[j].pc = "notify_box" /\ n[j].box = x
    BY <2>1 DEF WaitInv, ReceiveWakes, OwnerAt, At
  <2> QED BY <2>2
<1>4. ASSUME NEW j \in Notifiers, j # i, NEW x \in Box
      PROVE  /\ SelectComing(j, x) => SelectComing(j, x)' \/ (gen' # o.gen /\ o'.pc # "asleep")
             /\ PollComing(j, x) => PollComing(j, x)'
  <2>1. n'[j] = n[j] BY <1>4
  <2> QED BY <1>2, <2>1 DEF SelectComing, PollComing, OnWay, Knows, At
<1>5. SelectWakes'
  <2> SUFFICES ASSUME In("select"), o'.pc \in {"scan", "park", "asleep"}, NEW x \in o.watch \ o.todo
               PROVE  /\ released[x] = Len(counts)
                      /\ Ready(mb[x]) => \/ \E j \in Notifiers : SelectComing(j, x)'
                                         \/ gen' # o.gen /\ o'.pc # "asleep"
    BY <1>1 DEF SelectWakes, In, OwnerAt
  <2>1. o.pc \in {"scan", "park", "asleep"} /\ x \in Box BY <1>1
  <2>2. /\ released[x] = Len(counts)
        /\ Ready(mb[x]) => \/ \E j \in Notifiers : SelectComing(j, x)
                           \/ gen # o.gen /\ o.pc # "asleep"
    BY <2>1 DEF WaitInv, SelectWakes, OwnerAt
  <2>3. CASE gen # o.gen /\ o.pc # "asleep" BY <1>2, <2>2, <2>3
  <2>4. ASSUME NEW j \in Notifiers, SelectComing(j, x)
        PROVE  SelectComing(j, x)' \/ (gen' # o.gen /\ o'.pc # "asleep")
    BY <1>4, <2>1, <2>4
  <2> QED BY <2>2, <2>3, <2>4
<1>6. PollWakes'
  <2> SUFFICES ASSUME In("selectIo"), o'.pc \in {"scan", "poll", "asleep"}, NEW x \in o.watch \ o.todo
               PROVE  /\ released[x] = Len(counts)
                      /\ Ready(mb[x]) /\ x \notin o.found =>
                           pipe' = "byte" \/ \E j \in Notifiers : PollComing(j, x)'
    BY <1>1 DEF PollWakes, In
  <2>1. o.pc \in {"scan", "poll", "asleep"} /\ x \in Box BY <1>1
  <2>2. /\ released[x] = Len(counts)
        /\ Ready(mb[x]) /\ x \notin o.found => pipe = "byte" \/ \E j \in Notifiers : PollComing(j, x)
    BY <2>1 DEF WaitInv, PollWakes
  <2>3. ASSUME NEW j \in Notifiers, PollComing(j, x) PROVE PollComing(j, x)' \/ pipe' = "byte"
    BY <1>4, <2>1, <2>3
  <2> QED BY <2>2, <2>3
<1> QED BY <1>3, <1>5, <1>6

LEMMA LoadKeeps == ASSUME WaitInv, NEW i \in Notifiers, Load(i) PROVE WaitInv'
<1>1. /\ TypeOK /\ OwnerTypes /\ NotifierTypes /\ CountTypes /\ Control /\ Counting
  BY DEF WaitInv, TypeOK
<1>2. /\ n[i].pc = "load" /\ mb' = mb /\ gen' = gen /\ pipe' = pipe /\ o' = o
      /\ counts' = counts /\ released' = released /\ CountTypes'
  BY <1>1 DEF Load, At, CountTypes
<1>3. /\ n[i] \in NotifierState /\ n[i].knows \in Nat /\ n[i].knows >= 1 /\ n[i].knows <= Len(counts)
      /\ counts \in Seq(Counts) /\ Len(counts) \in Nat
  BY <1>1 DEF NotifierTypes, NotifierState, CountTypes
<1>4. PICK w \in n[i].knows .. Len(counts), p \in n[i].knows .. Len(counts) :
        LET loaded == [waiters |-> counts[w].waiters, pollers |-> counts[p].pollers] IN
        n' = [n EXCEPT ![i].loaded = loaded,
                       ![i].pc = IF loaded = counts[1] THEN "idle" ELSE "bump"]
  BY DEF Load
<1>5. counts[w] \in Counts /\ counts[p] \in Counts BY <1>3
<1>6. PICK loaded \in Counts :
        /\ loaded = [waiters |-> counts[w].waiters, pollers |-> counts[p].pollers]
        /\ n' = [n EXCEPT ![i].loaded = loaded,
                          ![i].pc = IF loaded = counts[1] THEN "idle" ELSE "bump"]
  <2>1. [waiters |-> counts[w].waiters, pollers |-> counts[p].pollers] \in Counts BY <1>5 DEF Counts
  <2> QED BY <1>4, <2>1
<1>7. PICK pc \in {"idle", "bump"} : pc = IF loaded = counts[1] THEN "idle" ELSE "bump" OBVIOUS
<1>8. PICK me \in NotifierState :
        /\ n' = [n EXCEPT ![i] = me] /\ me.pc = pc /\ me.loaded = loaded
        /\ me.box = n[i].box /\ me.jobs = n[i].jobs /\ me.knows = n[i].knows /\ me.knows <= Len(counts)
  <2> DEFINE me == [n[i] EXCEPT !.loaded = loaded, !.pc = pc]
  <2>1. /\ me \in NotifierState /\ me.pc = pc /\ me.loaded = loaded
        /\ me.box = n[i].box /\ me.jobs = n[i].jobs /\ me.knows = n[i].knows
    BY <1>3 DEF NotifierState, NotifierPlaces
  <2>2. n' = [n EXCEPT ![i] = me] BY <1>6, <1>7
  <2> HIDE DEF me
  <2> QED BY <1>3, <2>1, <2>2
<1>9. /\ TypeOK' /\ Control' /\ Counting' /\ FoundIsReady'
      /\ n'[i] = me /\ \A j \in Notifiers : j # i => n'[j] = n[j]
  BY <1>1, <1>2, <1>8, WayStep, Zenon
<1>10. Knows(i) => loaded = counts[Len(counts)]
  <2> SUFFICES ASSUME Knows(i) PROVE loaded = counts[Len(counts)] OBVIOUS
  <2>1. w = Len(counts) /\ p = Len(counts) BY <1>3 DEF Knows
  <2> QED BY <1>5, <1>6, <2>1 DEF Counts
<1>11. counts[1] = Nobody /\ Nobody.waiters = 0 /\ Nobody.pollers = 0 BY <1>1 DEF CountTypes, Nobody
<1>12. ASSUME NEW x \in Box, In("select"), o.pc \in {"scan", "park", "asleep"}, SelectComing(i, x)
       PROVE  SelectComing(i, x)' \/ (gen' # o.gen /\ o'.pc # "asleep")
  <2>1. Knows(i) BY <1>2, <1>12 DEF SelectComing, OnWay, At
  <2>2. counts[Len(counts)] = [waiters |-> 1, pollers |-> 0] BY <1>1, <1>12 DEF Counting, Raised, In
  <2>3. loaded.waiters = 1 BY <1>10, <2>1, <2>2
  <2>4. pc = "bump" BY <1>7, <1>11, <2>3
  <2> QED BY <1>8, <1>9, <2>3, <2>4 DEF SelectComing, At
<1>13. ASSUME NEW x \in Box, In("selectIo"), o.pc \in {"scan", "poll", "asleep"}, PollComing(i, x)
       PROVE  PollComing(i, x)' \/ pipe' = "byte"
  <2>1. Knows(i) BY <1>2, <1>13 DEF PollComing, OnWay
  <2>2. counts[Len(counts)] = [waiters |-> 0, pollers |-> 1] BY <1>1, <1>13 DEF Counting, Raised, In
  <2>3. loaded.pollers = 1 BY <1>10, <2>1, <2>2
  <2>4. pc = "bump" BY <1>7, <1>11, <2>3
  <2> QED BY <1>8, <1>9, <2>3, <2>4 DEF PollComing
<1>14. ReceiveWakes' /\ SelectWakes' /\ PollWakes'
  <2>1. n[i].pc # "notify_box" BY <1>2
  <2> QED BY <1>2, <1>9, <1>12, <1>13, <2>1, WayKeeps
<1> QED BY <1>9, <1>14 DEF WaitInv

LEMMA BumpKeeps == ASSUME WaitInv, NEW i \in Notifiers, Bump(i) PROVE WaitInv'
<1>1. /\ TypeOK /\ OwnerTypes /\ NotifierTypes /\ CountTypes /\ Control /\ gen \in Nat
  BY DEF WaitInv, TypeOK
<1>2. /\ n[i].pc = "bump" /\ mb' = mb /\ gen' = gen + 1 /\ pipe' = pipe /\ o' = o /\ counts' = counts
  BY DEF Bump, At
<1>3. PICK k \in 1 .. Len(counts) : k = Acquired(i, Pad) /\ k >= n[i].knows
  BY <1>1, AcquiredIs
<1>4. Pad \notin Box /\ Pad \in Box \cup {Pad} BY NBoxesAssumption DEF Pad, Box
<1>5. released' = [released EXCEPT ![Pad] = k] BY <1>3 DEF Bump, NotifierLocks
<1>6. CountTypes' /\ \A x \in Box : released'[x] = released[x]
  BY <1>1, <1>2, <1>4, <1>5 DEF CountTypes
<1>7. n[i] \in NotifierState /\ k \in Nat \ {0} /\ k <= Len(counts) /\ Len(counts) \in Nat
  BY <1>1 DEF NotifierTypes, CountTypes
<1>8. PICK me \in NotifierState :
        /\ n' = [n EXCEPT ![i] = me] /\ me.pc = "signal" /\ me.loaded = n[i].loaded
        /\ me.box = n[i].box /\ me.jobs = n[i].jobs /\ me.knows = k
  <2> DEFINE me == [n[i] EXCEPT !.pc = "signal", !.knows = k]
  <2>1. /\ me \in NotifierState /\ me.pc = "signal" /\ me.loaded = n[i].loaded
        /\ me.box = n[i].box /\ me.jobs = n[i].jobs /\ me.knows = k
    BY <1>7 DEF NotifierState, NotifierPlaces
  <2>2. n' = [n EXCEPT ![i] = me] BY <1>3 DEF Bump
  <2> HIDE DEF me
  <2> QED BY <2>1, <2>2
<1>9. /\ TypeOK' /\ Control' /\ Counting' /\ FoundIsReady'
      /\ n'[i] = me /\ \A j \in Notifiers : j # i => n'[j] = n[j]
  BY <1>2, <1>6, <1>7, <1>8, WayStep
<1>10. ASSUME NEW x \in Box, In("select"), o.pc \in {"scan", "park", "asleep"}, SelectComing(i, x)
       PROVE  SelectComing(i, x)' \/ (gen' # o.gen /\ o'.pc # "asleep")
  <2>1. n[i].loaded.waiters = 1 BY <1>2, <1>10 DEF SelectComing, OnWay, At
  <2>2. gen' # o.gen BY <1>1, <1>2 DEF Control, OwnerTypes
  <2> QED BY <1>2, <1>8, <1>9, <2>1, <2>2 DEF SelectComing, At
<1>11. ASSUME NEW x \in Box, In("selectIo"), o.pc \in {"scan", "poll", "asleep"}, PollComing(i, x)
       PROVE  PollComing(i, x)' \/ pipe' = "byte"
  BY <1>2, <1>8, <1>9, <1>11 DEF PollComing, OnWay
<1>12. ReceiveWakes' /\ SelectWakes' /\ PollWakes'
  <2>1. n[i].pc # "notify_box" BY <1>2
  <2> QED BY <1>2, <1>6, <1>9, <1>10, <1>11, <2>1, WayKeeps
<1> QED BY <1>9, <1>12 DEF WaitInv

LEMMA SignalKeeps == ASSUME WaitInv, NEW i \in Notifiers, Signal(i) PROVE WaitInv'
<1>1. /\ TypeOK /\ OwnerTypes /\ NotifierTypes /\ CountTypes /\ Control /\ gen \in Nat
  BY DEF WaitInv, TypeOK
<1>2. /\ n[i].pc = "signal" /\ mb' = mb /\ gen' = gen /\ pipe' = pipe /\ counts' = counts
      /\ released' = released /\ CountTypes'
  BY <1>1 DEF Signal, At, CountTypes
<1>3. n[i] \in NotifierState /\ n[i].knows <= Len(counts) BY <1>1 DEF NotifierTypes
<1>4. PICK me \in NotifierState :
        /\ n' = [n EXCEPT ![i] = me] /\ me.pc = "poke" /\ me.loaded = n[i].loaded
        /\ me.box = n[i].box /\ me.jobs = n[i].jobs /\ me.knows = n[i].knows
  <2> DEFINE me == [n[i] EXCEPT !.pc = "poke"]
  <2>1. /\ me \in NotifierState /\ me.pc = "poke" /\ me.loaded = n[i].loaded
        /\ me.box = n[i].box /\ me.jobs = n[i].jobs /\ me.knows = n[i].knows
    BY <1>3 DEF NotifierState, NotifierPlaces
  <2>2. n' = [n EXCEPT ![i] = me] BY DEF Signal
  <2> HIDE DEF me
  <2> QED BY <2>1, <2>2
<1>5. /\ (n[i].loaded.waiters = 1 /\ o.pc = "asleep" /\ In("select")) => o' = [o EXCEPT !.pc = "park"]
      /\ ~(n[i].loaded.waiters = 1 /\ o.pc = "asleep" /\ In("select")) => o' = o
  <2>1. o = [o EXCEPT !.pc = o.pc] BY <1>1 DEF OwnerTypes
  <2> QED BY <2>1 DEF Signal, OwnerAt
<1>6. /\ TypeOK' /\ Control' /\ Counting' /\ FoundIsReady'
      /\ n'[i] = me /\ \A j \in Notifiers : j # i => n'[j] = n[j]
      /\ o'.call = o.call /\ o'.watch = o.watch /\ o'.todo = o.todo /\ o'.gen = o.gen
      /\ o'.found = o.found
  <2>1. o' = o \/ (o.pc = "asleep" /\ o.call \in {"receive", "select"} /\ o' = [o EXCEPT !.pc = "park"])
    BY <1>5 DEF In
  <2> QED BY <1>2, <1>3, <1>4, <2>1, WayStep
<1>7. /\ o'.pc = o.pc \/ (o.pc = "asleep" /\ o'.pc = "park")
      /\ n[i].loaded.waiters = 1 /\ In("select") => o'.pc # "asleep"
  BY <1>1, <1>5 DEF OwnerTypes
<1>8. ASSUME NEW x \in Box, In("select"), o.pc \in {"scan", "park", "asleep"}, SelectComing(i, x)
      PROVE  SelectComing(i, x)' \/ (gen' # o.gen /\ o'.pc # "asleep")
  BY <1>2, <1>7, <1>8 DEF SelectComing, OnWay, At
<1>9. ASSUME NEW x \in Box, In("selectIo"), o.pc \in {"scan", "poll", "asleep"}, PollComing(i, x)
      PROVE  PollComing(i, x)' \/ pipe' = "byte"
  BY <1>2, <1>4, <1>6, <1>9 DEF PollComing, OnWay
<1>10. ReceiveWakes' /\ SelectWakes' /\ PollWakes'
  <2>1. n[i].pc # "notify_box" /\ \A x \in Box : released'[x] = released[x] BY <1>2
  <2> QED BY <1>2, <1>6, <1>7, <1>8, <1>9, <2>1, WayKeeps
<1> QED BY <1>6, <1>10 DEF WaitInv

LEMMA PokeKeeps == ASSUME WaitInv, NEW i \in Notifiers, Poke(i) PROVE WaitInv'
<1>1. /\ TypeOK /\ OwnerTypes /\ NotifierTypes /\ CountTypes /\ Control /\ gen \in Nat
  BY DEF WaitInv, TypeOK
<1>2. /\ n[i].pc = "poke" /\ mb' = mb /\ gen' = gen /\ o' = o /\ counts' = counts
      /\ released' = released /\ CountTypes'
      /\ pipe' = IF n[i].loaded.pollers = 1 /\ pipe # "none" THEN "byte" ELSE pipe
  BY <1>1 DEF Poke, At, CountTypes
<1>3. n[i] \in NotifierState /\ n[i].knows <= Len(counts) BY <1>1 DEF NotifierTypes
<1>4. PICK none \in Counts : none = counts[1] BY <1>1 DEF CountTypes
<1>5. PICK me \in NotifierState :
        /\ n' = [n EXCEPT ![i] = me] /\ me.pc = "idle"
        /\ me.box = n[i].box /\ me.jobs = n[i].jobs /\ me.knows = n[i].knows
  <2> DEFINE me == [n[i] EXCEPT !.pc = "idle", !.loaded = none]
  <2>1. /\ me \in NotifierState /\ me.pc = "idle"
        /\ me.box = n[i].box /\ me.jobs = n[i].jobs /\ me.knows = n[i].knows
    BY <1>3 DEF NotifierState, NotifierPlaces
  <2>2. n' = [n EXCEPT ![i] = me] BY <1>4 DEF Poke
  <2> HIDE DEF me
  <2> QED BY <2>1, <2>2
<1>6. pipe' \in {pipe, "byte"} /\ (pipe = "none" => pipe' = "none") BY <1>2
<1>7. /\ TypeOK' /\ Control' /\ Counting' /\ FoundIsReady'
      /\ n'[i] = me /\ \A j \in Notifiers : j # i => n'[j] = n[j]
  BY <1>2, <1>3, <1>5, <1>6, WayStep
<1>8. ASSUME NEW x \in Box, In("select"), o.pc \in {"scan", "park", "asleep"}, SelectComing(i, x)
      PROVE  SelectComing(i, x)' \/ (gen' # o.gen /\ o'.pc # "asleep")
  BY <1>2, <1>8 DEF SelectComing, OnWay, At
<1>9. ASSUME NEW x \in Box, In("selectIo"), o.pc \in {"scan", "poll", "asleep"}, PollComing(i, x)
      PROVE  PollComing(i, x)' \/ pipe' = "byte"
  <2>1. n[i].loaded.pollers = 1 BY <1>2, <1>9 DEF PollComing, OnWay
  <2>2. pipe # "none" BY <1>1, <1>9 DEF Control
  <2> QED BY <1>2, <2>1, <2>2
<1>10. ReceiveWakes' /\ SelectWakes' /\ PollWakes'
  <2>1. n[i].pc # "notify_box" /\ \A x \in Box : released'[x] = released[x] BY <1>2
  <2> QED BY <1>2, <1>6, <1>7, <1>8, <1>9, <2>1, WayKeeps
<1> QED BY <1>7, <1>10 DEF WaitInv

-----------------------------------------------------------------------------
(* The specification.                                                      *)

LEMMA WaitNext == WaitInv /\ [Next]_vars => WaitInv'
<1> SUFFICES ASSUME WaitInv, [Next]_vars PROVE WaitInv' OBVIOUS
<1>1. CASE Program
  <2>1. ASSUME NEW w \in Waits, Call(w) PROVE WaitInv' BY <2>1, CallKeeps
  <2>2. CASE ReadSocket BY <2>2, AsideKeeps DEF ReadSocket
  <2>3. CASE Return BY <2>3, AsideKeeps DEF Return, OwnerAt
  <2> QED BY <1>1, <2>1, <2>2, <2>3 DEF Program
<1>2. CASE Waiting
  BY <1>2, MakePipeKeeps, RaiseKeeps, ReadGenKeeps, DrainKeeps, ScanKeeps, PollKeeps,
     PollEndsKeeps, ParkSelectKeeps, LowerKeeps, ReceiveKeeps
  DEF Waiting, Receive
<1>3. CASE Deadline
  BY <1>3, PollEndsKeeps, SelectTimesOutKeeps, ReceiveKeeps DEF Deadline, ReceiveTimesOut
<1>4. CASE PeerWrites BY <1>4, AsideKeeps DEF PeerWrites
<1>5. ASSUME NEW i \in Notifiers, Notifier(i) PROVE WaitInv'
  BY <1>5, QueueKeeps, NotifyBoxKeeps, LoadKeeps, BumpKeeps, SignalKeeps, PokeKeeps DEF Notifier
<1>6. CASE Finished \/ UNCHANGED vars BY <1>6, AsideKeeps DEF Finished, vars
<1> QED BY <1>1, <1>2, <1>3, <1>4, <1>5, <1>6 DEF Next

LEMMA WaitAlways == Spec => []WaitInv
<1> QED BY WaitInit, WaitNext, PTL DEF Spec

LEMMA AsleepIsWoken == WaitInv => NoLostWakeup
<1> SUFFICES ASSUME WaitInv, OwnerAt("asleep"), NEW b \in o.watch, Ready(mb[b])
             PROVE  (\E i \in Notifiers : Coming(i)) \/ (In("selectIo") /\ pipe = "byte")
  BY DEF NoLostWakeup
<1>1. o.call \in {"receive", "select", "selectIo"} /\ b \in o.watch \ o.todo
  BY DEF WaitInv, TypeOK, OwnerTypes, Control, OwnerAt, Calls
<1>2. CASE In("receive")
  BY <1>2 DEF WaitInv, ReceiveWakes, Coming, In
<1>3. CASE In("select")
  <2>1. PICK i \in Notifiers : SelectComing(i, b)
    BY <1>1, <1>3 DEF WaitInv, SelectWakes, OwnerAt
  <2>2. Coming(i) BY <1>3, <2>1 DEF Coming, SelectComing, OnWay, In, At
  <2> QED BY <2>2
<1>4. CASE In("selectIo")
  <2>1. b \notin o.found BY <1>4 DEF WaitInv, Control
  <2>2. pipe = "byte" \/ \E i \in Notifiers : PollComing(i, b)
    BY <1>1, <1>4, <2>1 DEF WaitInv, PollWakes, OwnerAt
  <2>3. \A i \in Notifiers : PollComing(i, b) => Coming(i)
    BY <1>4 DEF Coming, PollComing, OnWay, In
  <2> QED BY <1>4, <2>2, <2>3
<1> QED BY <1>1, <1>2, <1>3, <1>4 DEF In

\* No wakeup of rawReceive, rawSelect or rawSelectIo is lost, with any number of inboxes and
\* of notifiers: the load that answers "nobody waits" is never one an inbox's mutex has
\* ordered after the count was raised (WaitPad::wake, waiters and pollers).
THEOREM WakeupsHold == Spec => []NoLostWakeup
<1> QED BY WaitAlways, AsleepIsWoken, PTL

\* What a select has named stays ready until the owner reads it, however much is queued and
\* whoever is told to stop meanwhile; a released slot is the one exception, and its Stop is
\* the next thing its releaser queues (native_release_slot).
THEOREM NamedInboxesHold == Spec => []NamedInboxIsReady
<1>1. WaitInv => NamedInboxIsReady
  BY DEF WaitInv, FoundIsReady, RetireNext, NamedInboxIsReady
<1> QED BY <1>1, WaitAlways, PTL
=============================================================================
