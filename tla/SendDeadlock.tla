---------------------------- MODULE SendDeadlock ----------------------------
(***************************************************************************)
(* Back-pressure and its deadlocks (src/vmcore/vmcore.cpp): rawSend to a   *)
(* bounded inbox that is full waits for room in slices; rawJoin waits for  *)
(* a task in slices.  After each slice the waiter publishes its edge, once *)
(* per wait, and walks the wait-for graph in two passes without holding    *)
(* more than one lock at a time.  A ring that both passes confirm is a     *)
(* verdict: every participant is marked, and faults.                       *)
(*                                                                         *)
(* One action is one critical section of Mailbox::m, Isolate::fin_m or     *)
(* World::wait_m.  Every actor has one inbox, its home; a slot is the home *)
(* of several actors, one after the other.  A wait that is notified or     *)
(* times out looks again under the same mutex, and how long that takes is  *)
(* the scheduler's: a step of the waiter may come any time later.          *)
(***************************************************************************)
EXTENDS Mailbox, FiniteSets

CONSTANTS
  Actor, Task,    \* isolates
  Box,            \* inboxes
  Slot,           \* those that outlive their actor
  Home,           \* the inbox of each actor
  First,          \* the actors that run from the start
  Capacity,       \* of every inbox, at least 1
  MaxWaits,       \* bound: how often each isolate begins to wait
  Targets         \* what each isolate sends to or joins: a set of inboxes and tasks

Isolate == Actor \cup Task

ASSUME SortsAssumption ==
  /\ Actor \cap Task = {} /\ Box \cap Isolate = {} /\ Slot \subseteq Box
  /\ NO_OWNER \notin Isolate
ASSUME HomeAssumption ==
  /\ Home \in [Actor -> Box] /\ First \subseteq Actor
  /\ \A a, b \in First : Home[a] = Home[b] => a = b
ASSUME BoundAssumption == Capacity \in Nat \ {0} /\ MaxWaits \in [Isolate -> Nat]
ASSUME TargetsAssumption == Targets \in [Isolate -> SUBSET (Box \cup Task)]

VARIABLES
  mb,           \* the Mailbox of each inbox
  blocked,      \* Mailbox::blocked and Isolate::join_blocked: the tickets listed
  finished,     \* Isolate::finished of the tasks that have ended
  send_waits,   \* World::send_waits, a function from isolates to edges
  deadlocked,   \* World::deadlocked
  pc,           \* where each isolate is
  w,            \* its SendWaitGuard
  walk,         \* the locals of its confirm_send_cycle
  claimed,      \* Isolate::claimed: the tasks that rawJoin has been called on
  ending,       \* the world is ending
  confirmed,    \* history: the tickets of confirmed rings in which nobody could go on
  refused       \* history: the tickets of waits that answered false

vars == <<mb, blocked, finished, send_waits, deadlocked, pc, w, walk, claimed,
          ending, confirmed, refused>>

\* A ticket is <<isolate, which of its waits>>.  An edge of send_waits is
\* [obj, ticket, target], the target an isolate or NO_OWNER; a hop [sender, e].
Object == Box \cup Task

\* The places of an isolate: unborn, run, offer, asleep, publish, index, walk, confirm,
\* again, mark, gone, unlist, unindex, close, dead.
\* A wait w[t] is [obj, n, published, target, fault]: its object, how many this isolate has
\* begun, whether its edge is published and for whom, and what it comes to.

\* A walk: the hops so far, the isolate it is at, the next hop, and in pass 2 the rest of
\* the ring.  ring, together and stuck are history: the ring found, whether all of it was
\* listed when pass 1 ended, and whether nobody in it could go on then.
NoWalk(t) == [path |-> <<>>, at |-> t, hop |-> <<>>, rest |-> <<>>, ring |-> <<>>,
              together |-> TRUE, stuck |-> TRUE]

Init ==
  /\ mb = [b \in Box |-> NewMailbox(
             LET owners == {a \in First : Home[a] = b} IN
             IF owners = {} THEN NO_OWNER ELSE CHOOSE a \in owners : TRUE)]
  /\ blocked = [o \in Object |-> {}]
  /\ finished = {}
  /\ send_waits = [t \in {} |-> {}]
  /\ deadlocked = {}
  /\ pc = [t \in Isolate |-> IF t \in First \cup Task THEN "run" ELSE "unborn"]
  /\ w = [t \in Isolate |-> [obj |-> CHOOSE o \in Object : TRUE, n |-> 0,
                             published |-> FALSE, target |-> NO_OWNER, fault |-> FALSE]]
  /\ walk = [t \in Isolate |-> NoWalk(t)]
  /\ claimed = {}
  /\ ending = FALSE
  /\ confirmed = {} /\ refused = {}

-----------------------------------------------------------------------------

At(t, l) == pc[t] = l
Goto(t, l) == pc' = [pc EXCEPT ![t] = l]
MyTicket(t) == <<t, w[t].n>>
Rest(s, i) == SubSeq(s, i, Len(s))

\* The condition a waiter on an object waits for.
Room(b) == mb[b].dead \/ mb[b].released \/ ~Full(mb[b], Capacity)
Satisfied(o) == IF o \in Task THEN o \in finished ELSE Room(o)

\* A hop is trusted only when its object still lists the ticket.
StillWaiting(h) ==
  /\ h.e.ticket \in blocked[h.e.obj]
  /\ IF h.e.obj \in Task THEN h.e.obj \notin finished
     ELSE LET b == mb[h.e.obj] IN ~b.dead /\ ~b.released /\ b.owner = h.e.target

-----------------------------------------------------------------------------
(* Sending and joining.                                                    *)

\* One try without waiting: sent, or gone, or full; a full inbox of one's own is a fault.
SendNow(t, b) ==
  /\ At(t, "run") /\ b \in Targets[t] \cap Box
  /\ OfferAnswer(mb[b], Capacity) = "SENT"
  /\ mb' = [mb EXCEPT ![b] = Offer(@, Msg(NO_OWNER), Capacity)]
  /\ UNCHANGED <<blocked, finished, send_waits, deadlocked, pc, w, walk, claimed, ending,
                 confirmed, refused>>

SendToSelf(t, b) ==
  /\ At(t, "run") /\ b \in Targets[t] \cap Box
  /\ mb[b].owner = t /\ OfferAnswer(mb[b], Capacity) = "FULL"
  /\ Goto(t, "close")
  /\ UNCHANGED <<mb, blocked, finished, send_waits, deadlocked, w, walk, claimed, ending,
                 confirmed, refused>>

\* A send that has to wait, or a join: its guard is made, with a ticket of its own.
BeginWait(t, o) ==
  /\ At(t, "run") /\ o \in Targets[t] \ {t} /\ w[t].n < MaxWaits[t]
  /\ IF o \in Task THEN o \notin claimed
     ELSE mb[o].owner # t /\ OfferAnswer(mb[o], Capacity) = "FULL"
  /\ w' = [w EXCEPT ![t].obj = o, ![t].n = @ + 1, ![t].published = FALSE]
  /\ claimed' = claimed \cup ({o} \cap Task)
  /\ Goto(t, "offer")
  /\ UNCHANGED <<mb, blocked, finished, send_waits, deadlocked, walk, ending, confirmed,
                 refused>>

\* Established to have no room: listed, and asleep for a slice.
Sleep(t) ==
  LET o == w[t].obj IN
  /\ At(t, "offer") /\ ~Satisfied(o)
  /\ blocked' = [blocked EXCEPT ![o] = @ \cup {MyTicket(t)}]
  /\ Goto(t, "asleep")
  /\ UNCHANGED <<mb, finished, send_waits, deadlocked, w, walk, claimed, ending,
                 confirmed, refused>>

\* Room, or an end: unlisted before the queue is touched.  A full inbox that was released
\* refuses, as a dead one does.
Proceed(t) ==
  LET o == w[t].obj IN
  /\ pc[t] \in {"offer", "asleep"} /\ Satisfied(o)
  /\ blocked' = [blocked EXCEPT ![o] = @ \ {MyTicket(t)}]
  /\ IF o \in Box /\ OfferAnswer(mb[o], Capacity) # "SENT"
     THEN Goto(t, "gone") /\ UNCHANGED mb
     ELSE /\ Goto(t, "unlist")
          /\ IF o \in Task THEN UNCHANGED mb
             ELSE mb' = [mb EXCEPT ![o] = Offer(@, Msg(NO_OWNER), Capacity)]
  /\ UNCHANGED <<finished, send_waits, deadlocked, w, walk, claimed, ending, confirmed,
                 refused>>

\* The slice has passed with no room: the wait goes to look for a ring.
SliceOver(t) ==
  /\ At(t, "asleep") /\ ~Satisfied(w[t].obj)
  /\ Goto(t, IF w[t].published THEN "walk" ELSE "publish")
  /\ UNCHANGED <<mb, blocked, finished, send_waits, deadlocked, w, walk, claimed, ending,
                 confirmed, refused>>

\* Mutant: a join makes no edge.
PublishReadSendsOnly(t) ==
  LET o == w[t].obj IN
  /\ At(t, "publish")
  /\ w' = [w EXCEPT ![t].target = IF o \in Task THEN NO_OWNER ELSE mb[o].owner]
  /\ Goto(t, "index")
  /\ UNCHANGED <<mb, blocked, finished, send_waits, deadlocked, walk, claimed, ending,
                 confirmed, refused>>

\* The edge is published once: the owner is read under the inbox's mutex ...
PublishRead(t) ==
  LET o == w[t].obj IN
  /\ At(t, "publish")
  /\ w' = [w EXCEPT ![t].target = IF o \in Task THEN o ELSE mb[o].owner]
  /\ Goto(t, "index")
  /\ UNCHANGED <<mb, blocked, finished, send_waits, deadlocked, walk, claimed, ending,
                 confirmed, refused>>

\* ... and written into the index under the index's.
PublishPut(t) ==
  /\ At(t, "index")
  /\ send_waits' =
       [i \in DOMAIN send_waits \cup {t} |->
          IF i = t THEN [obj |-> w[t].obj, ticket |-> MyTicket(t), target |-> w[t].target]
          ELSE send_waits[i]]
  /\ w' = [w EXCEPT ![t].published = TRUE]
  /\ Goto(t, "walk")
  /\ UNCHANGED <<mb, blocked, finished, deadlocked, walk, claimed, ending, confirmed,
                 refused>>

-----------------------------------------------------------------------------
(* confirm_send_cycle.                                                     *)

\* No verdict: back to the same wait.
Abandon(t) == /\ Goto(t, "offer") /\ walk' = [walk EXCEPT ![t] = NoWalk(t)]

SeenAt(t) == {i \in 1 .. Len(walk[t].path) : walk[t].path[i].sender = walk[t].at}

\* The walk is back at an isolate it has passed: the ring is the path from there.
RingFound(t) ==
  LET ring == Rest(walk[t].path, CHOOSE i \in SeenAt(t) : TRUE)
      hops == {ring[i] : i \in 1 .. Len(ring)} IN
  /\ At(t, "walk") /\ SeenAt(t) # {}
  /\ walk' = [walk EXCEPT
       ![t].rest = ring, ![t].ring = ring,
       ![t].together = \A h \in hops : h.e.ticket \in blocked[h.e.obj],
       ![t].stuck = \A h \in hops : ~Satisfied(h.e.obj)]
  /\ Goto(t, "again")
  /\ UNCHANGED <<mb, blocked, finished, send_waits, deadlocked, w, claimed, ending,
                 confirmed, refused>>

\* The edge of the isolate the walk is at.  Without one it is running or receiving, and an
\* edge without an owner waits for a spawn: no verdict.
WalkRead(t) ==
  LET id == walk[t].at IN
  /\ At(t, "walk") /\ SeenAt(t) = {}
  /\ IF id \in DOMAIN send_waits /\ send_waits[id].target # NO_OWNER
     THEN /\ walk' = [walk EXCEPT ![t].hop = <<[sender |-> id, e |-> send_waits[id]]>>]
          /\ Goto(t, "confirm")
     ELSE Abandon(t)
  /\ UNCHANGED <<mb, blocked, finished, send_waits, deadlocked, w, claimed, ending,
                 confirmed, refused>>

\* Pass 1: each hop confirmed against its object.
WalkConfirm(t) ==
  LET h == Head(walk[t].hop) IN
  /\ At(t, "confirm")
  /\ IF StillWaiting(h)
     THEN /\ walk' = [walk EXCEPT ![t].path = Append(@, h), ![t].at = h.e.target,
                                  ![t].hop = <<>>]
          /\ Goto(t, "walk")
     ELSE Abandon(t)
  /\ UNCHANGED <<mb, blocked, finished, send_waits, deadlocked, w, claimed, ending,
                 confirmed, refused>>

\* Mutant: one pass is believed.
ConfirmOnce(t) ==
  /\ At(t, "again")
  /\ Goto(t, "mark")
  /\ UNCHANGED <<mb, blocked, finished, send_waits, deadlocked, w, walk, claimed, ending,
                 confirmed, refused>>

\* Pass 2: the hops of the ring once more.
ConfirmAgain(t) ==
  /\ At(t, "again")
  /\ IF walk[t].rest = <<>> THEN Goto(t, "mark") /\ UNCHANGED walk
     ELSE IF StillWaiting(Head(walk[t].rest))
       THEN walk' = [walk EXCEPT ![t].rest = Tail(@)] /\ UNCHANGED pc
       ELSE Abandon(t)
  /\ UNCHANGED <<mb, blocked, finished, send_waits, deadlocked, w, claimed, ending,
                 confirmed, refused>>

RingHops(t) == {walk[t].ring[i] : i \in 1 .. Len(walk[t].ring)}
ProvenTickets(t) == IF walk[t].stuck THEN {h.e.ticket : h \in RingHops(t)} ELSE {}

\* Mutant: only the isolate that found the ring is marked.
MarkSelf(t) ==
  /\ At(t, "mark")
  /\ deadlocked' = deadlocked \cup {t}
  /\ confirmed' = confirmed \cup ProvenTickets(t)
  /\ w' = [w EXCEPT ![t].fault = TRUE]
  /\ walk' = [walk EXCEPT ![t] = NoWalk(t)]
  /\ Goto(t, "unlist")
  /\ UNCHANGED <<mb, blocked, finished, send_waits, claimed, ending, refused>>

\* The verdict: every participant is marked, then this isolate faults.
Mark(t) ==
  /\ At(t, "mark")
  /\ deadlocked' = deadlocked \cup {h.sender : h \in RingHops(t)}
  /\ confirmed' = confirmed \cup ProvenTickets(t)
  /\ w' = [w EXCEPT ![t].fault = TRUE]
  /\ walk' = [walk EXCEPT ![t] = NoWalk(t)]
  /\ Goto(t, "unlist")
  /\ UNCHANGED <<mb, blocked, finished, send_waits, claimed, ending, refused>>

-----------------------------------------------------------------------------
(* The end of a wait, and of an isolate.                                   *)

\* A send that came back GONE asks whether it is marked, before it answers false.
GoneAnswer(t) ==
  /\ At(t, "gone")
  /\ w' = [w EXCEPT ![t].fault = t \in deadlocked]
  /\ refused' = refused \cup (IF t \in deadlocked THEN {} ELSE {MyTicket(t)})
  /\ Goto(t, "unlist")
  /\ UNCHANGED <<mb, blocked, finished, send_waits, deadlocked, walk, claimed, ending,
                 confirmed>>

\* Mutant: a guard that is unwound by the fault leaves its ticket listed.
UnlistForgotten(t) ==
  /\ At(t, "unlist")
  /\ Goto(t, "unindex")
  /\ UNCHANGED <<mb, blocked, finished, send_waits, deadlocked, w, walk, claimed, ending,
                 confirmed, refused>>

\* ~SendWaitGuard, on a return and on a fault: the listing first, then the index.
Unlist(t) ==
  /\ At(t, "unlist")
  /\ blocked' = [blocked EXCEPT ![w[t].obj] = @ \ {MyTicket(t)}]
  /\ Goto(t, "unindex")
  /\ UNCHANGED <<mb, finished, send_waits, deadlocked, w, walk, claimed, ending,
                 confirmed, refused>>

Unindex(t) ==
  /\ At(t, "unindex")
  /\ send_waits' = [i \in DOMAIN send_waits \ {t} |-> send_waits[i]]
  /\ Goto(t, IF w[t].fault THEN "close" ELSE "run")
  /\ UNCHANGED <<mb, blocked, finished, deadlocked, w, walk, claimed, ending, confirmed,
                 refused>>

Receive(a) ==
  /\ At(a, "run") /\ a \in Actor /\ Ready(mb[Home[a]])
  /\ mb' = [mb EXCEPT ![Home[a]] = Take(@)]
  /\ UNCHANGED <<blocked, finished, send_waits, deadlocked, pc, w, walk, claimed, ending,
                 confirmed, refused>>

Return(t) ==
  /\ At(t, "run")
  /\ Goto(t, "close")
  /\ UNCHANGED <<mb, blocked, finished, send_waits, deadlocked, w, walk, claimed, ending,
                 confirmed, refused>>

\* A task tells its joiners; an actor's inbox closes, a slot is vacated.
End(t) ==
  /\ At(t, "close")
  /\ IF t \in Task THEN finished' = finished \cup {t} /\ UNCHANGED mb
     ELSE /\ mb' = [mb EXCEPT ![Home[t]] = IF Home[t] \in Slot THEN Vacate(@) ELSE Close(@)]
          /\ UNCHANGED finished
  /\ Goto(t, "dead")
  /\ UNCHANGED <<blocked, send_waits, deadlocked, w, walk, claimed, ending, confirmed,
                 refused>>

\* The next actor of a slot without one.
SpawnInto(a) ==
  /\ At(a, "unborn") /\ mb[Home[a]].owner = NO_OWNER
  /\ mb' = [mb EXCEPT ![Home[a]].owner = a]
  /\ Goto(a, "run")
  /\ UNCHANGED <<blocked, finished, send_waits, deadlocked, w, walk, claimed, ending,
                 confirmed, refused>>

\* The world ends: Stop into every inbox, and every full one refuses.
EndWorld ==
  /\ ~ending
  /\ ending' = TRUE
  /\ mb' = [b \in Box |-> Release(Put(mb[b], Stop))]
  /\ UNCHANGED <<blocked, finished, send_waits, deadlocked, pc, w, walk, claimed,
                 confirmed, refused>>

-----------------------------------------------------------------------------

Program(t) ==
  \/ \E b \in Box : SendNow(t, b) \/ SendToSelf(t, b)
  \/ \E o \in Object : BeginWait(t, o)
  \/ Receive(t) \/ Return(t)

Runtime(t) ==
  \/ Sleep(t) \/ Proceed(t) \/ SliceOver(t) \/ PublishRead(t) \/ PublishPut(t)
  \/ RingFound(t) \/ WalkRead(t) \/ WalkConfirm(t) \/ ConfirmAgain(t) \/ Mark(t)
  \/ GoneAnswer(t) \/ Unlist(t) \/ Unindex(t) \/ End(t)

\* Nobody is left to run.
Finished == (\A t \in Isolate : pc[t] \in {"dead", "unborn"}) /\ ending /\ UNCHANGED vars

Next ==
  \/ \E t \in Isolate : Program(t) \/ Runtime(t) \/ SpawnInto(t)
  \/ EndWorld \/ Finished

Spec == Init /\ [][Next]_vars
\* Every thread is scheduled; nothing is assumed of what the programs do.
FairSpec == Spec /\ \A t \in Isolate : WF_vars(Runtime(t))

-----------------------------------------------------------------------------
(* Properties.                                                             *)

Waiting(t) == pc[t] \notin {"unborn", "run", "close", "dead"}

\* A wait leaves nothing behind, whether it is admitted, refused or unwound by the deadlock
\* fault: neither a listing nor an index entry of a wait that is over, from which a walk
\* could only build rings that do not exist (SendWaitGuard).
NothingLeaks ==
  \A t \in Isolate : ~Waiting(t) =>
    /\ t \notin DOMAIN send_waits
    /\ \A o \in Object : \A k \in blocked[o] : k[1] # t

\* What makes the verdict more than a snapshot stitched together from different moments:
\* when pass 1 ended, every wait of the ring was still listed, all at that one instant.
ListedTogether == \A t \in Isolate : At(t, "mark") => walk[t].together

\* A ring is reported by everyone in it: of a confirmed ring in which nobody could go on no
\* wait answers false, which its program may well ignore, when the first to fault closes
\* its inbox under the others (World::deadlocked).
NobodyRefusedSilently == ~ending => confirmed \cap refused = {}

\* A set of waits each of which can only end by another one of the set going on.
Owner(o) == IF o \in Task THEN o ELSE mb[o].owner
Deadlocked(S) ==
  \A t \in S : /\ pc[t] \in {"offer", "asleep", "publish", "index", "walk", "confirm",
                              "again", "mark"}
               /\ ~Satisfied(w[t].obj) /\ Owner(w[t].obj) \in S

\* A ring is found and broken: no set of isolates stays deadlocked for ever.
RingsAreBroken ==
  \A S \in SUBSET Isolate \ {{}} : []<>~Deadlocked(S)
=============================================================================
