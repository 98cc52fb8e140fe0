------------------------------- MODULE WaitPad -------------------------------
(***************************************************************************)
(* How an isolate waits for mail (src/vmcore/vmcore.cpp): rawReceive parks *)
(* on the condition variable of one inbox, rawSelect on that of the        *)
(* isolate's WaitPad, rawSelectIo in a poll over the pad's pipe and a      *)
(* socket.  Whoever queues mail wakes them after it has let go of the      *)
(* inbox's mutex, and skips what it believes nobody waits for.             *)
(*                                                                         *)
(* That belief rests on two relaxed loads.  "counts" is the modification   *)
(* order of waiters and pollers, which only the isolate itself changes; a  *)
(* load answers any entry that is not older than what the notifier has     *)
(* acquired through a mutex.  "released" is what each mutex hands on.      *)
(*                                                                         *)
(* One action is one critical section, one atomic operation or one system  *)
(* call.  A condition variable that returns spuriously finds its predicate *)
(* false and waits on: such returns are left out.  A wait may or may not   *)
(* have a deadline: one action says that it passes.                        *)
(***************************************************************************)
EXTENDS Mailbox, FiniteSetsExt, SequencesExt

CONSTANTS
  NBoxes,     \* the isolate's inboxes are 1 .. NBoxes, all unbounded
  Notifiers,  \* threads that queue mail
  Jobs,       \* what each of them does, in order: a sequence of Job
  Waits,      \* what the isolate's program may wait for: a set of Wait
  MaxWaits    \* bound: waits it makes

Box == 1 .. NBoxes
Owner == 1                       \* the isolate
Pad == 0                         \* WaitPad::m, next to the mutexes of the inboxes
Job == [op: {"msg", "stop", "close", "retire"}, box: Box]
Wait == [call: {"receive", "select", "selectIo"}, watch: SUBSET Box]

ASSUME NBoxesAssumption == NBoxes \in Nat \ {0}
ASSUME MaxWaitsAssumption == MaxWaits \in Nat
ASSUME WaitsAssumption ==
  Waits \subseteq {w \in Wait : w.watch # {} /\ (w.call = "receive" => \E b \in Box : w.watch = {b})}
\* Only the release of a slot closes an inbox that somebody else may wait for, and the
\* thread that does it retires the inbox next.
ASSUME JobsAssumption ==
  /\ Jobs \in [Notifiers -> Seq(Job)]
  /\ \A i \in Notifiers : \A k \in 1 .. Len(Jobs[i]) :
       Jobs[i][k].op = "close" =>
         /\ k < Len(Jobs[i])
         /\ Jobs[i][k + 1] = [op |-> "retire", box |-> Jobs[i][k].box]

VARIABLES
  mb,        \* the inboxes
  gen,       \* WaitPad::gen
  pipe,      \* the wake object: not made, or made and without or with a byte in it
  socket,    \* the watched socket is readable
  counts,    \* history of [waiters, pollers]
  released,  \* by each mutex: how much of counts its last holder knew
  o,         \* the isolate's thread
  n,         \* the notifiers
  waits      \* waits made so far

vars == <<mb, gen, pipe, socket, counts, released, o, n, waits>>

\* The places of the owner: run, make, raise, gen, drain, scan, poll, park, asleep, lower,
\* done; of a notifier: idle, notify_box, load, bump, signal, poke.

Init ==
  /\ mb = [b \in Box |-> NewMailbox(Owner)]
  /\ gen = 0
  /\ pipe = "none"
  /\ socket = FALSE
  /\ counts = <<[waiters |-> 0, pollers |-> 0]>>
  /\ released = [m \in Box \cup {Pad} |-> 1]
  /\ o = [pc |-> "run", call |-> "none", watch |-> {}, gen |-> 0,
          todo |-> {}, found |-> {}]
  /\ n = [i \in Notifiers |-> [pc |-> "idle", jobs |-> Jobs[i], box |-> 1, knows |-> 1,
                               loaded |-> counts[1]]]
  /\ waits = 0

-----------------------------------------------------------------------------
(* What the actions are built from.                                        *)

OwnerAt(pc) == o.pc = pc
In(call) == o.call = call
At(i, pc) == n[i].pc = pc

\* The isolate holds mutex m: all it did so far is known to the next holder.
OwnerLocks(m) == released' = [released EXCEPT ![m] = Len(counts)]

\* Notifier i holds mutex m: it learns what the holders before it knew, and hands it on.
Acquired(i, m) == Max({n[i].knows, released[m]})
NotifierLocks(i, m) == released' = [released EXCEPT ![m] = Acquired(i, m)]

\* waiters or pollers, whichever the call is counted in, changes by d.
Counted(d) ==
  counts' = Append(counts,
              IF In("select") THEN [Last(counts) EXCEPT !.waiters = @ + d]
                              ELSE [Last(counts) EXCEPT !.pollers = @ + d])

-----------------------------------------------------------------------------
(* The isolate.                                                            *)

Call(w) ==
  /\ OwnerAt("run") /\ waits < MaxWaits
  /\ waits' = waits + 1
  /\ o' = [o EXCEPT !.call = w.call, !.watch = w.watch, !.found = {},
                    !.pc = CASE w.call = "receive" -> "park"
                             [] w.call = "select" -> "raise"
                             [] w.call = "selectIo" -> "make"]
  /\ UNCHANGED <<mb, gen, pipe, socket, counts, released, n>>

\* ensure_pollable, before pollers is raised.
MakePipe ==
  /\ OwnerAt("make")
  /\ pipe' = IF pipe = "none" THEN "empty" ELSE pipe
  /\ OwnerLocks(Pad)
  /\ o' = [o EXCEPT !.pc = "raise"]
  /\ UNCHANGED <<mb, gen, socket, counts, n, waits>>

Raise ==
  /\ OwnerAt("raise")
  /\ Counted(1)
  /\ o' = [o EXCEPT !.pc = IF In("select") THEN "gen" ELSE "drain"]
  /\ UNCHANGED <<mb, gen, pipe, socket, released, n, waits>>

ReadGen ==
  /\ OwnerAt("gen")
  /\ OwnerLocks(Pad)
  /\ o' = [o EXCEPT !.pc = "scan", !.gen = gen, !.todo = o.watch]
  /\ UNCHANGED <<mb, gen, pipe, socket, counts, n, waits>>

\* Before the scan, so that a byte written after it stays.
Drain ==
  /\ OwnerAt("drain")
  /\ pipe' = IF pipe = "none" THEN "none" ELSE "empty"
  /\ o' = [o EXCEPT !.pc = "scan", !.todo = o.watch]
  /\ UNCHANGED <<mb, gen, socket, counts, released, n, waits>>

\* One inbox after the other, each under its own mutex: select is content with the first
\* that is ready, selectIo looks at all.
Scan ==
  LET b == Min(o.todo)
      todo == o.todo \ {b}
      next == IF In("selectIo") THEN "poll" ELSE "park" IN
  /\ OwnerAt("scan")
  /\ OwnerLocks(b)
  /\ o' = IF Ready(mb[b]) /\ In("select")
          THEN [o EXCEPT !.pc = "lower", !.found = {b}]
          ELSE [o EXCEPT !.pc = IF todo = {} THEN next ELSE "scan", !.todo = todo,
                         !.found = IF Ready(mb[b]) THEN @ \cup {b} ELSE @]
  /\ UNCHANGED <<mb, gen, pipe, socket, counts, n, waits>>

\* The sockets without waiting, and the answer if anything is ready or the deadline has
\* passed; otherwise the wait in the poll.
Poll ==
  /\ OwnerAt("poll")
  /\ \/ o' = [o EXCEPT !.pc = "lower"]
     \/ o.found = {} /\ ~socket /\ o' = [o EXCEPT !.pc = "asleep"]
  /\ UNCHANGED <<mb, gen, pipe, socket, counts, released, n, waits>>

\* Woken by the pipe or the socket, or at once when one of them is readable already.
PollReturns ==
  /\ OwnerAt("asleep") /\ In("selectIo")
  /\ pipe = "byte" \/ socket
  /\ o' = [o EXCEPT !.pc = "drain"]
  /\ UNCHANGED <<mb, gen, pipe, socket, counts, released, n, waits>>

PollTimesOut ==
  /\ OwnerAt("asleep") /\ In("selectIo")
  /\ pipe # "byte" /\ ~socket
  /\ o' = [o EXCEPT !.pc = "lower"]
  /\ UNCHANGED <<mb, gen, pipe, socket, counts, released, n, waits>>

\* Mutant: the generation is not looked at again.
ParkSelectBlindly ==
  /\ OwnerAt("park") /\ In("select")
  /\ OwnerLocks(Pad)
  /\ o' = [o EXCEPT !.pc = "asleep"]
  /\ UNCHANGED <<mb, gen, pipe, socket, counts, n, waits>>

\* Sleep only if nothing was queued since the scan began; a waking thread looks again here.
ParkSelect ==
  /\ OwnerAt("park") /\ In("select")
  /\ OwnerLocks(Pad)
  /\ o' = [o EXCEPT !.pc = IF gen # o.gen THEN "gen" ELSE "asleep"]
  /\ UNCHANGED <<mb, gen, pipe, socket, counts, n, waits>>

SelectTimesOut ==
  /\ OwnerAt("asleep") /\ In("select")
  /\ OwnerLocks(Pad)
  /\ o' = [o EXCEPT !.pc = IF gen # o.gen THEN "gen" ELSE "lower"]
  /\ UNCHANGED <<mb, gen, pipe, socket, counts, n, waits>>

Lower ==
  /\ OwnerAt("lower")
  /\ Counted(-1)
  /\ o' = [o EXCEPT !.pc = "run", !.todo = {}, !.gen = 0]
  /\ UNCHANGED <<mb, gen, pipe, socket, released, n, waits>>

\* rawReceive: the predicate is tested before the wait and after it, under the inbox's mutex.
ReceiveFrom(b, otherwise) ==
  /\ In("receive")
  /\ OwnerLocks(b)
  /\ mb' = [mb EXCEPT ![b] = IF Ready(@) THEN Take(@) ELSE @]
  /\ o' = [o EXCEPT !.pc = IF Ready(mb[b]) THEN "run" ELSE otherwise]
  /\ UNCHANGED <<gen, pipe, socket, counts, n, waits>>

Receive == OwnerAt("park") /\ ReceiveFrom(Min(o.watch), "asleep")
ReceiveTimesOut == OwnerAt("asleep") /\ ReceiveFrom(Min(o.watch), "run")

ReadSocket ==
  /\ OwnerAt("run") /\ socket
  /\ socket' = FALSE
  /\ UNCHANGED <<mb, gen, pipe, counts, released, o, n, waits>>

PeerWrites ==
  /\ ~socket
  /\ socket' = TRUE
  /\ UNCHANGED <<mb, gen, pipe, counts, released, o, n, waits>>

Return ==
  /\ OwnerAt("run")
  /\ o' = [o EXCEPT !.pc = "done"]
  /\ UNCHANGED <<mb, gen, pipe, socket, counts, released, n, waits>>

-----------------------------------------------------------------------------
(* A notifier: one critical section of the inbox, then the waking.         *)

\* What a job makes of the inbox.
After(b, op) ==
  CASE op = "msg" -> Offer(b, Msg(Owner), 0)
    [] op = "stop" -> Put(b, Stop)
    [] op = "close" -> Close(b)
    [] op = "retire" -> Retire(b)

\* A message to a dead inbox and a Stop that is queued already wake nobody.
Queue(i) ==
  LET job == Head(n[i].jobs)
      b == mb[job.box] IN
  /\ At(i, "idle") /\ n[i].jobs # <<>>
  /\ mb' = [mb EXCEPT ![job.box] = After(@, job.op)]
  /\ NotifierLocks(i, job.box)
  /\ n' = [n EXCEPT ![i].jobs = Tail(@), ![i].box = job.box, ![i].knows = Acquired(i, job.box),
                    ![i].pc = IF \/ job.op \in {"msg", "stop"} /\ b.dead
                                 \/ job.op = "stop" /\ b.stopped
                              THEN "idle" ELSE "notify_box"]
  /\ UNCHANGED <<gen, pipe, socket, counts, o, waits>>

\* Mutant: the inbox's own condition variable is forgotten.
NotifyPadOnly(i) ==
  /\ At(i, "notify_box")
  /\ n' = [n EXCEPT ![i].pc = "load"]
  /\ UNCHANGED <<mb, gen, pipe, socket, counts, released, o, waits>>

NotifyBox(i) ==
  /\ At(i, "notify_box")
  /\ o' = [o EXCEPT !.pc = IF OwnerAt("asleep") /\ In("receive") /\ n[i].box \in o.watch
                           THEN "park" ELSE @]
  /\ n' = [n EXCEPT ![i].pc = "load"]
  /\ UNCHANGED <<mb, gen, pipe, socket, counts, released, waits>>

\* The two relaxed loads; with nobody waiting that is all.
Load(i) ==
  /\ At(i, "load")
  /\ \E w, p \in n[i].knows .. Len(counts) :
       LET loaded == [waiters |-> counts[w].waiters, pollers |-> counts[p].pollers] IN
       n' = [n EXCEPT ![i].loaded = loaded,
                      ![i].pc = IF loaded = counts[1] THEN "idle" ELSE "bump"]
  /\ UNCHANGED <<mb, gen, pipe, socket, counts, released, o, waits>>

Bump(i) ==
  /\ At(i, "bump")
  /\ gen' = gen + 1
  /\ NotifierLocks(i, Pad)
  /\ n' = [n EXCEPT ![i].pc = "signal", ![i].knows = Acquired(i, Pad)]
  /\ UNCHANGED <<mb, pipe, socket, counts, o, waits>>

Signal(i) ==
  /\ At(i, "signal")
  /\ o' = [o EXCEPT !.pc = IF n[i].loaded.waiters = 1 /\ OwnerAt("asleep") /\ In("select")
                           THEN "park" ELSE @]
  /\ n' = [n EXCEPT ![i].pc = "poke"]
  /\ UNCHANGED <<mb, gen, pipe, socket, counts, released, waits>>

Poke(i) ==
  /\ At(i, "poke")
  /\ pipe' = IF n[i].loaded.pollers = 1 /\ pipe # "none" THEN "byte" ELSE pipe
  /\ n' = [n EXCEPT ![i].pc = "idle", ![i].loaded = counts[1]]
  /\ UNCHANGED <<mb, gen, socket, counts, released, o, waits>>

-----------------------------------------------------------------------------

Finished ==
  /\ OwnerAt("done") /\ \A i \in Notifiers : At(i, "idle") /\ n[i].jobs = <<>>
  /\ UNCHANGED vars

Program == (\E w \in Waits : Call(w)) \/ ReadSocket \/ Return

Waiting ==
  \/ MakePipe \/ Raise \/ ReadGen \/ Drain \/ Scan \/ Poll \/ PollReturns
  \/ ParkSelect \/ Lower \/ Receive

Deadline == PollTimesOut \/ SelectTimesOut \/ ReceiveTimesOut

Notifier(i) == Queue(i) \/ NotifyBox(i) \/ Load(i) \/ Bump(i) \/ Signal(i) \/ Poke(i)

Next ==
  \/ Program \/ Waiting \/ Deadline \/ PeerWrites
  \/ \E i \in Notifiers : Notifier(i)
  \/ Finished

\* Every thread that can go on does.  Nothing is assumed of the program, of the peer or of
\* a deadline: a wait without one is a wait whose deadline never comes.
Fairness == WF_vars(Waiting) /\ \A i \in Notifiers : WF_vars(Notifier(i))

Spec == Init /\ [][Next]_vars /\ Fairness

-----------------------------------------------------------------------------
(* Properties.                                                             *)

\* The notifiers that will still end the wait the isolate is in.
Coming(i) ==
  CASE In("receive") -> At(i, "notify_box") /\ n[i].box \in o.watch
    [] In("select") -> \/ n[i].pc \in {"notify_box", "load"} /\ n[i].box \in o.watch
                       \/ n[i].pc \in {"bump", "signal"} /\ n[i].loaded.waiters = 1
    [] In("selectIo") -> \/ n[i].pc \in {"notify_box", "load"} /\ n[i].box \in o.watch
                         \/ n[i].pc \in {"bump", "signal", "poke"} /\ n[i].loaded.pollers = 1

\* No wakeup is lost: an isolate sleeps on mail it could read only while a notifier is
\* still on its way to wake it, or the byte that ends its poll is written.  The belief that
\* nobody waits, the scan without the pad's mutex and the drain never conspire (WaitPad).
NoLostWakeup ==
  OwnerAt("asleep") /\ (\E b \in o.watch : Ready(mb[b])) =>
    \/ \E i \in Notifiers : Coming(i)
    \/ In("selectIo") /\ pipe = "byte"

\* The inbox an answer of rawSelect or rawSelectIo names is still ready when the program
\* reads it, so the receive cannot block: only the owner takes mail out.  The one exception
\* is a slot that is being released, between its close and its retire.
NamedInboxIsReady ==
  OwnerAt("run") /\ o.call \in {"select", "selectIo"} =>
    \A b \in o.found :
      \/ Ready(mb[b])
      \/ \E i \in Notifiers : n[i].jobs # <<>> /\ Head(n[i].jobs) = [op |-> "retire", box |-> b]

\* Mail ends the wait it is meant for: whoever waits, by any of the three calls, on an inbox
\* that has something to read comes back to its program.
MailEndsTheWait ==
  o.pc \notin {"run", "done"} /\ (\E b \in o.watch : Ready(mb[b])) ~> OwnerAt("run")
=============================================================================
