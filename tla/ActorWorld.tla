----------------------------- MODULE ActorWorld -----------------------------
(***************************************************************************)
(* The life of actors, tasks, slots and extra inboxes in one World of the  *)
(* runtime (src/vmcore/vmcore.cpp), from the natives that start them to    *)
(* the destructor of the World that joins the last thread.                 *)
(*                                                                         *)
(* One action is one critical section: what the code does under World::m   *)
(* or under one Mailbox::m is one step, and two sections of one native are *)
(* two steps of its thread.  Between the natives a thread is at "run",     *)
(* where the program may call any native that Calls gives it, return or    *)
(* fault.  A native that refuses its arguments raises a located fault:     *)
(* that is Fault, which every running isolate may take.                    *)
(*                                                                         *)
(* Ids come from World::next_id, 0 is the root and its main inbox.  An     *)
(* actor's own inbox has the actor's id; slots and extra inboxes share the *)
(* numbering.  The root has already called rawMainInbox.                   *)
(***************************************************************************)
EXTENDS Mailbox, FiniteSets

CONSTANTS
  MaxId,        \* bound: ids 1 .. MaxId are given out
  Capacity,     \* of every inbox: 0 is unbounded
  MaxMonitors,  \* bound: calls of rawMonitor in the whole run
  Calls         \* what the program of each isolate does: a set of the names below

CallNames ==
  {"spawnActor", "spawn", "join", "newSlot", "spawnInto", "releaseSlot", "newInbox",
   "closeInbox", "stopActor", "monitor", "send", "receive", "return", "fault",
   "threadFails"}

Root == 0
Id == 0 .. MaxId

ASSUME MaxIdAssumption == MaxId \in Nat
ASSUME CapacityAssumption == Capacity \in Nat
ASSUME MaxMonitorsAssumption == MaxMonitors \in Nat
ASSUME CallsAssumption == Calls \in [Id -> SUBSET CallNames]

Kinds == {"none", "root", "actor", "task", "slot", "inbox"}

Pcs == {"none", "born", "run", "into", "thread", "register", "join", "close_inbox",
        "rel_erase", "rel_close", "rel_retire", "stop_list", "stop_put",
        "erase", "close", "mark", "report", "done",
        "leave", "world_join", "world_wait", "gone"}

VARIABLES
  next_id,      \* World::next_id
  kind,         \* what an id names
  mailboxes,    \* World::mailboxes, the ids that address an open inbox
  mb,           \* the Mailbox object made for an id
  isolates,     \* World::isolates, the registered records
  iso,          \* the Isolate record of an id
  stopping,     \* World::stopping
  th,           \* the thread of an isolate: where it is and what it holds
  requests,     \* history: calls of rawMonitor so far
  asked, told   \* history: reports promised and made, [isolate][inbox]

vars == <<next_id, kind, mailboxes, mb, isolates, iso, stopping, th, requests, asked, told>>
history == <<requests, asked, told>>

IsolateRecord ==
  [starter: Id, mailbox: Id, watchers: Seq(Id), ended: BOOLEAN, joined: BOOLEAN,
   claimed: BOOLEAN]

ThreadRecord ==
  [pc: Pcs, arg: Id, child: Id, todo: SUBSET Id, due: Seq(Id), faulted: BOOLEAN,
   stop: BOOLEAN]

TypeOK ==
  /\ next_id \in 1 .. MaxId + 1
  /\ kind \in [Id -> Kinds]
  /\ mailboxes \subseteq Id
  /\ mb \in [Id -> MailboxOf(Id)]
  /\ isolates \subseteq Id
  /\ iso \in [Id -> IsolateRecord]
  /\ stopping \in BOOLEAN
  /\ th \in [Id -> ThreadRecord]
  /\ requests \in Nat
  /\ asked \in [Id -> [Id -> Nat]]
  /\ told \in [Id -> [Id -> Nat]]

Init ==
  /\ next_id = 1
  /\ kind = [i \in Id |-> IF i = Root THEN "root" ELSE "none"]
  /\ mailboxes = {Root}
  /\ mb = [i \in Id |-> NewMailbox(Root)]
  /\ isolates = {}
  /\ iso = [i \in Id |-> [starter |-> Root, mailbox |-> Root, watchers |-> <<>>,
                          ended |-> FALSE, joined |-> FALSE, claimed |-> FALSE]]
  /\ stopping = FALSE
  /\ th = [i \in Id |-> [pc |-> IF i = Root THEN "run" ELSE "none", arg |-> Root,
                         child |-> Root, todo |-> {}, due |-> <<>>, faulted |-> FALSE,
                         stop |-> FALSE]]
  /\ asked = [i \in Id |-> [b \in Id |-> 0]]
  /\ told = asked
  /\ requests = 0

-----------------------------------------------------------------------------
(* What the actions are built from.                                        *)

At(t, pc) == th[t].pc = pc
Calling(t, call) == At(t, "run") /\ call \in Calls[t]

\* Started, and not yet returned from run_isolate.
Alive(i) == kind[i] \in {"actor", "task"} /\ th[i].pc \notin {"none", "done"}

\* An actor between birth and the end of its program.
Running(a) == kind[a] = "actor" /\ th[a].pc \notin
                {"none", "born", "erase", "close", "mark", "report", "done"}

\* The inboxes isolate t can receive from.
Own(t) ==
  {b \in mailboxes : kind[b] = "inbox" /\ mb[b].owner = t}
    \cup (IF kind[t] = "task" THEN {} ELSE {iso[t].mailbox})

\* The open inboxes the registry shows as owned by an isolate.
MailboxesOf(owner) == {b \in mailboxes : mb[b].owner = owner}

\* Where a return or a located fault takes an isolate.
Unwind(t) == IF t = Root THEN "leave" ELSE IF kind[t] = "task" THEN "done" ELSE "erase"

\* A bound: an id is left, also for every thread that is past its slot check.
IdsLeft == next_id + Cardinality({t \in Id : At(t, "into")}) <= MaxId

\* The thread back at its program, a native's locals gone.
Returned(t) == [th[t] EXCEPT !.pc = "run", !.arg = Root, !.child = Root, !.todo = {}]

\* The thread in the epilogue that its return or fault leads to.
Unwound(t, faulted) == [Returned(t) EXCEPT !.pc = Unwind(t), !.faulted = faulted]

TakeId(k) ==
  /\ next_id' = next_id + 1
  /\ kind' = [kind EXCEPT ![next_id] = k]

\* Mutant: an inbox born while the world ends is registered like any other.
AddMailboxNoStop(owner) ==
  /\ mailboxes' = mailboxes \cup {next_id}
  /\ mb' = [mb EXCEPT ![next_id] = NewMailbox(owner)]

\* An inbox registered while the world ends gets Stop at once, like an actor born then.
AddMailbox(owner) ==
  LET b == NewMailbox(owner) IN
  /\ mailboxes' = mailboxes \cup {next_id}
  /\ mb' = [mb EXCEPT ![next_id] =
              IF stopping /\ owner # Root THEN Release(Put(b, Stop)) ELSE b]

\* The record and the id of a new isolate, its thread not made yet.
NewIsolate(t, k, box) ==
  /\ TakeId(k)
  /\ iso' = [iso EXCEPT ![next_id].starter = t, ![next_id].mailbox = box]
  /\ th' = [th EXCEPT ![t].pc = "thread", ![t].child = next_id, ![next_id].pc = "born"]

-----------------------------------------------------------------------------
(* Starting isolates.                                                      *)

SpawnActor(t) ==
  /\ Calling(t, "spawnActor") /\ IdsLeft
  /\ NewIsolate(t, "actor", next_id)
  /\ AddMailbox(next_id)
  /\ UNCHANGED <<isolates, stopping, history>>

SpawnTask(t) ==
  /\ Calling(t, "spawn") /\ IdsLeft
  /\ NewIsolate(t, "task", Root)
  /\ UNCHANGED <<mailboxes, mb, isolates, stopping, history>>

\* Mutant: the slot is not asked whether it has an actor.
SpawnIntoUnchecked(t, s) ==
  /\ Calling(t, "spawnInto") /\ IdsLeft
  /\ kind[s] = "slot" /\ s \in mailboxes
  /\ th' = [th EXCEPT ![t].pc = "into", ![t].arg = s]
  /\ UNCHANGED <<next_id, kind, mailboxes, mb, isolates, iso, stopping, history>>

\* The slot is looked up and found without an actor, under its own mutex only.
SpawnIntoCheck(t, s) ==
  /\ Calling(t, "spawnInto") /\ IdsLeft
  /\ kind[s] = "slot" /\ s \in mailboxes /\ mb[s].owner = NO_OWNER
  /\ th' = [th EXCEPT ![t].pc = "into", ![t].arg = s]
  /\ UNCHANGED <<next_id, kind, mailboxes, mb, isolates, iso, stopping, history>>

\* The slot is taken, under World::m, without a second look at it.
SpawnIntoTake(t) ==
  /\ At(t, "into")
  /\ NewIsolate(t, "actor", th[t].arg)
  /\ mb' = [mb EXCEPT ![th[t].arg].owner = next_id]
  /\ UNCHANGED <<mailboxes, isolates, stopping, history>>

SpawnThread(t) ==
  /\ At(t, "thread")
  /\ th' = [th EXCEPT ![t].pc = "register", ![th[t].child].pc = "run"]
  /\ UNCHANGED <<next_id, kind, mailboxes, mb, isolates, iso, stopping, history>>

\* The operating system refuses the thread: the inbox is withdrawn, the starter faults.
SpawnThreadFails(t) ==
  LET c == th[t].child
      b == iso[c].mailbox IN
  /\ At(t, "thread") /\ "threadFails" \in Calls[t]
  /\ IF kind[c] = "task" THEN UNCHANGED <<mailboxes, mb>>
     ELSE IF kind[b] = "slot"
       THEN mb' = [mb EXCEPT ![b] = Vacate(@)] /\ UNCHANGED mailboxes
       ELSE mb' = [mb EXCEPT ![b] = Close(@)] /\ mailboxes' = mailboxes \ {b}
  /\ th' = [th EXCEPT ![t] = Unwound(t, TRUE), ![c].pc = "done"]
  /\ UNCHANGED <<next_id, kind, isolates, iso, stopping, history>>

\* Mutant: a world that ends takes no new record.
SpawnRegisterBeforeEnd(t) ==
  /\ At(t, "register")
  /\ isolates' = isolates \cup (IF stopping THEN {} ELSE {th[t].child})
  /\ th' = [th EXCEPT ![t] = Returned(t)]
  /\ UNCHANGED <<next_id, kind, mailboxes, mb, iso, stopping, history>>

\* Only now is the record where the world and the other natives look for it.
SpawnRegister(t) ==
  /\ At(t, "register")
  /\ isolates' = isolates \cup {th[t].child}
  /\ th' = [th EXCEPT ![t] = Returned(t)]
  /\ UNCHANGED <<next_id, kind, mailboxes, mb, iso, stopping, history>>

JoinTask(t, k) ==
  /\ Calling(t, "join")
  /\ k \in isolates /\ kind[k] = "task" /\ iso[k].starter = t /\ ~iso[k].claimed
  /\ iso' = [iso EXCEPT ![k].claimed = TRUE]
  /\ th' = [th EXCEPT ![t].pc = "join", ![t].arg = k]
  /\ UNCHANGED <<next_id, kind, mailboxes, mb, isolates, stopping, history>>

JoinReturns(t) ==
  /\ At(t, "join") /\ At(th[t].arg, "done")
  /\ iso' = [iso EXCEPT ![th[t].arg].joined = TRUE]
  /\ th' = [th EXCEPT ![t] = Returned(t)]
  /\ UNCHANGED <<next_id, kind, mailboxes, mb, isolates, stopping, history>>

-----------------------------------------------------------------------------
(* Addresses: slots and extra inboxes.                                     *)

NewSlot(t) ==
  /\ Calling(t, "newSlot") /\ IdsLeft
  /\ TakeId("slot")
  /\ AddMailbox(NO_OWNER)
  /\ UNCHANGED <<isolates, iso, stopping, th, history>>

ReleaseSlot(t, s) ==
  /\ Calling(t, "releaseSlot")
  /\ kind[s] = "slot" /\ s \in mailboxes
  /\ th' = [th EXCEPT ![t].pc = "rel_erase", ![t].arg = s]
  /\ UNCHANGED <<next_id, kind, mailboxes, mb, isolates, iso, stopping, history>>

\* close_mailbox does nothing when another thread has erased the slot in between.
ReleaseErase(t) ==
  LET s == th[t].arg IN
  /\ At(t, "rel_erase")
  /\ mailboxes' = mailboxes \ {s}
  /\ th' = [th EXCEPT ![t].pc = IF s \in mailboxes THEN "rel_close" ELSE "rel_retire"]
  /\ UNCHANGED <<next_id, kind, mb, isolates, iso, stopping, history>>

ReleaseClose(t) ==
  /\ At(t, "rel_close")
  /\ mb' = [mb EXCEPT ![th[t].arg] = Close(@)]
  /\ th' = [th EXCEPT ![t].pc = "rel_retire"]
  /\ UNCHANGED <<next_id, kind, mailboxes, isolates, iso, stopping, history>>

ReleaseRetire(t) ==
  /\ At(t, "rel_retire")
  /\ mb' = [mb EXCEPT ![th[t].arg] = Retire(@)]
  /\ th' = [th EXCEPT ![t] = Returned(t)]
  /\ UNCHANGED <<next_id, kind, mailboxes, isolates, iso, stopping, history>>

NewInbox(t) ==
  /\ Calling(t, "newInbox") /\ IdsLeft
  /\ kind[t] # "task"
  /\ TakeId("inbox")
  /\ AddMailbox(t)
  /\ UNCHANGED <<isolates, iso, stopping, th, history>>

CloseInbox(t, b) ==
  /\ Calling(t, "closeInbox")
  /\ b \in Own(t) /\ b # iso[t].mailbox
  /\ mailboxes' = mailboxes \ {b}
  /\ th' = [th EXCEPT ![t].pc = "close_inbox", ![t].arg = b]
  /\ UNCHANGED <<next_id, kind, mb, isolates, iso, stopping, history>>

CloseInboxDone(t) ==
  /\ At(t, "close_inbox")
  /\ mb' = [mb EXCEPT ![th[t].arg] = Close(@)]
  /\ th' = [th EXCEPT ![t] = Returned(t)]
  /\ UNCHANGED <<next_id, kind, mailboxes, isolates, iso, stopping, history>>

-----------------------------------------------------------------------------
(* Mail between isolates.                                                  *)

\* rawTrySend, and rawSend to an inbox that is unbounded.  The lookup and the offer are
\* one step: an inbox that closes in between drops what it holds, as if never sent.
Send(t, b) ==
  /\ Calling(t, "send")
  /\ b \in mailboxes
  /\ mb' = [mb EXCEPT ![b] = Offer(@, Msg(@.owner), Capacity)]
  /\ UNCHANGED <<next_id, kind, mailboxes, isolates, iso, stopping, th, history>>

Receive(t, b) ==
  /\ Calling(t, "receive")
  /\ b \in Own(t) /\ Ready(mb[b])
  /\ mb' = [mb EXCEPT ![b] = Take(@)]
  /\ th' = [th EXCEPT ![t].stop = @ \/ TakenKind(mb[b]) = "stop"]
  /\ UNCHANGED <<next_id, kind, mailboxes, isolates, iso, stopping, history>>

\* Mutant: a slot without an actor is not told apart.
StopActorAnyOwner(t, b) ==
  /\ Calling(t, "stopActor")
  /\ b \in mailboxes /\ mb[b].owner # Root
  /\ th' = [th EXCEPT ![t].pc = "stop_list", ![t].arg = mb[b].owner]
  /\ UNCHANGED <<next_id, kind, mailboxes, mb, isolates, iso, stopping, history>>

\* rawStopActor: the owner of the address, then every inbox that owner has, then Stop
\* into one after the other.
StopActor(t, b) ==
  /\ Calling(t, "stopActor")
  /\ b \in mailboxes /\ mb[b].owner \notin {NO_OWNER, Root}
  /\ th' = [th EXCEPT ![t].pc = "stop_list", ![t].arg = mb[b].owner]
  /\ UNCHANGED <<next_id, kind, mailboxes, mb, isolates, iso, stopping, history>>

StopList(t) ==
  LET boxes == MailboxesOf(th[t].arg) IN
  /\ At(t, "stop_list")
  /\ th' = [th EXCEPT ![t] = IF boxes = {} THEN Returned(t)
                             ELSE [@ EXCEPT !.pc = "stop_put", !.todo = boxes]]
  /\ UNCHANGED <<next_id, kind, mailboxes, mb, isolates, iso, stopping, history>>

StopPut(t, b) ==
  LET left == th[t].todo \ {b} IN
  /\ At(t, "stop_put") /\ b \in th[t].todo
  /\ mb' = [mb EXCEPT ![b] = Put(@, Stop)]
  /\ th' = [th EXCEPT ![t] = IF left = {} THEN Returned(t) ELSE [@ EXCEPT !.todo = left]]
  /\ UNCHANGED <<next_id, kind, mailboxes, isolates, iso, stopping, history>>

\* Mutant: the actor is looked up among the records, where it stays after its end.
WatchableOnRecord(target) ==
  mb[target].owner > 0 /\ mb[target].owner \in isolates

\* An actor that runs is found at the address: looked up and, in the same critical section,
\* given the inbox to report to.
Watchable(target) ==
  /\ target \in mailboxes
  /\ mb[target].owner > 0
  /\ mb[target].owner \in isolates
  /\ ~iso[mb[target].owner].ended

\* Inbox "into" of t asks to be told when the actor at address "target" ends.
Monitor(t, into, target) ==
  LET a == mb[target].owner IN
  /\ Calling(t, "monitor") /\ requests < MaxMonitors
  /\ into \in Own(t) /\ Watchable(target)
  /\ iso' = [iso EXCEPT ![a].watchers = Append(@, into)]
  /\ requests' = requests + 1
  /\ asked' = [asked EXCEPT ![a][into] = @ + 1]
  /\ UNCHANGED <<next_id, kind, mailboxes, mb, isolates, stopping, th, told>>

\* Nobody there, or not any more: the one report of this request is made at once.
MonitorGone(t, into, target) ==
  /\ Calling(t, "monitor") /\ requests < MaxMonitors
  /\ into \in Own(t) /\ target < next_id /\ ~Watchable(target)
  /\ mb' = [mb EXCEPT ![into] = Put(@, Exited(target, "gone"))]
  /\ requests' = requests + 1
  /\ asked' = [asked EXCEPT ![target][into] = @ + 1]
  /\ told' = [told EXCEPT ![target][into] = @ + 1]
  /\ UNCHANGED <<next_id, kind, mailboxes, isolates, iso, stopping, th>>

-----------------------------------------------------------------------------
(* The end of an isolate: run_isolate after the program.                   *)

Return(t) ==
  /\ Calling(t, "return") /\ t # Root
  /\ th' = [th EXCEPT ![t] = Unwound(t, FALSE)]
  /\ UNCHANGED <<next_id, kind, mailboxes, mb, isolates, iso, stopping, history>>

Fault(t) ==
  /\ Calling(t, "fault")
  /\ th' = [th EXCEPT ![t] = Unwound(t, TRUE)]
  /\ UNCHANGED <<next_id, kind, mailboxes, mb, isolates, iso, stopping, history>>

\* close_mailboxes_of: its inboxes leave the registry, a slot stays ...
EndErase(a) ==
  /\ At(a, "erase")
  /\ mailboxes' = {b \in mailboxes : mb[b].owner = a => kind[b] = "slot"}
  /\ th' = [th EXCEPT ![a].pc = "close", ![a].todo = MailboxesOf(a)]
  /\ UNCHANGED <<next_id, kind, mb, isolates, iso, stopping, history>>

\* ... then each is closed, and after those a slot is vacated.
EndClose(a, b) ==
  /\ At(a, "close") /\ b \in th[a].todo
  /\ kind[b] = "slot" => \A c \in th[a].todo : kind[c] = "slot"
  /\ mb' = [mb EXCEPT ![b] = IF kind[b] = "slot" THEN Vacate(@) ELSE Close(@)]
  /\ th' = [th EXCEPT ![a].todo = @ \ {b}]
  /\ UNCHANGED <<next_id, kind, mailboxes, isolates, iso, stopping, history>>

\* The main inbox of the starter, found through the starter's record; a task has none.
StarterBox(a) ==
  LET s == iso[a].starter IN
  IF s = Root THEN {Root} \cap mailboxes
  ELSE {iso[x].mailbox : x \in {y \in {s} \cap isolates : kind[y] = "actor"}}

\* Mutant: the starter is told while inboxes are still to be closed.
EndTellStarterEarly(a) ==
  LET boxes == IF th[a].faulted THEN StarterBox(a) ELSE {} IN
  /\ At(a, "close")
  /\ mb' = [b \in Id |-> IF b \in boxes THEN Put(mb[b], Exited(a, "fault")) ELSE mb[b]]
  /\ th' = [th EXCEPT ![a].pc = "mark"]
  /\ UNCHANGED <<next_id, kind, mailboxes, isolates, iso, stopping, requests, asked, told>>

\* A crash is told to the starter.  The lookup and the put are one step: a record never
\* leaves the registry, so a later lookup finds what an earlier one found.
EndTellStarter(a) ==
  LET boxes == IF th[a].faulted THEN StarterBox(a) ELSE {} IN
  /\ At(a, "close") /\ th[a].todo = {}
  /\ mb' = [b \in Id |-> IF b \in boxes THEN Put(mb[b], Exited(a, "fault")) ELSE mb[b]]
  /\ th' = [th EXCEPT ![a].pc = "mark"]
  /\ UNCHANGED <<next_id, kind, mailboxes, isolates, iso, stopping, requests, asked, told>>

\* Taking the watchers and marking the end are one step, under World::m.
EndMark(a) ==
  /\ At(a, "mark")
  /\ iso' = [iso EXCEPT ![a].ended = TRUE, ![a].watchers = <<>>]
  /\ th' = [th EXCEPT ![a].pc = "report", ![a].due = iso[a].watchers]
  /\ UNCHANGED <<next_id, kind, mailboxes, mb, isolates, stopping, history>>

EndReport(a) ==
  LET b == Head(th[a].due)
      reason == IF th[a].faulted THEN "fault" ELSE "normal" IN
  /\ At(a, "report") /\ th[a].due # <<>>
  /\ mb' = [mb EXCEPT ![b] = IF b \in mailboxes THEN Put(@, Exited(a, reason)) ELSE @]
  /\ told' = [told EXCEPT ![a][b] = @ + 1]
  /\ th' = [th EXCEPT ![a].due = Tail(@)]
  /\ UNCHANGED <<next_id, kind, mailboxes, isolates, iso, stopping, requests, asked>>

EndFinish(a) ==
  /\ At(a, "report") /\ th[a].due = <<>>
  /\ th' = [th EXCEPT ![a].pc = "done"]
  /\ UNCHANGED <<next_id, kind, mailboxes, mb, isolates, iso, stopping, history>>

-----------------------------------------------------------------------------
(* The end of the world: ~World, in the root's thread.                     *)

\* The root's program is over, by a return or a fault: Stop into every inbox that is not
\* the root's own, a slot without an actor included, and every full inbox refuses.
WorldStop ==
  /\ Calling(Root, "return") \/ At(Root, "leave")
  /\ stopping' = TRUE
  /\ mb' = [b \in Id |->
              IF b \notin mailboxes THEN mb[b]
              ELSE Release(IF mb[b].owner # Root THEN Put(mb[b], Stop) ELSE mb[b])]
  /\ th' = [th EXCEPT ![Root] = [Returned(Root) EXCEPT !.pc = "world_join"]]
  /\ UNCHANGED <<next_id, kind, mailboxes, isolates, iso, history>>

WorldPick(i) ==
  /\ At(Root, "world_join")
  /\ i \in isolates /\ ~iso[i].joined
  /\ th' = [th EXCEPT ![Root].pc = "world_wait", ![Root].arg = i]
  /\ UNCHANGED <<next_id, kind, mailboxes, mb, isolates, iso, stopping, history>>

WorldJoined ==
  /\ At(Root, "world_wait") /\ At(th[Root].arg, "done")
  /\ iso' = [iso EXCEPT ![th[Root].arg].joined = TRUE]
  /\ th' = [th EXCEPT ![Root] = [Returned(Root) EXCEPT !.pc = "world_join"]]
  /\ UNCHANGED <<next_id, kind, mailboxes, mb, isolates, stopping, history>>

\* One pass over the registry found nothing left to join: the root's inboxes close.
WorldGone ==
  /\ At(Root, "world_join")
  /\ \A i \in isolates : iso[i].joined
  /\ mailboxes' = mailboxes \ MailboxesOf(Root)
  /\ mb' = [b \in Id |-> IF b \in MailboxesOf(Root) THEN Close(mb[b]) ELSE mb[b]]
  /\ th' = [th EXCEPT ![Root].pc = "gone"]
  /\ UNCHANGED <<next_id, kind, isolates, iso, stopping, history>>

\* The process has nothing left to do.
Finished == At(Root, "gone") /\ UNCHANGED vars

-----------------------------------------------------------------------------

\* What the program of isolate t may do next.
Program(t) ==
  \/ SpawnActor(t) \/ SpawnTask(t) \/ NewSlot(t) \/ NewInbox(t)
  \/ \E b \in Id : \/ SpawnIntoCheck(t, b) \/ ReleaseSlot(t, b) \/ CloseInbox(t, b)
                   \/ StopActor(t, b) \/ JoinTask(t, b) \/ Send(t, b) \/ Receive(t, b)
  \/ \E into, target \in Id : Monitor(t, into, target) \/ MonitorGone(t, into, target)
  \/ Return(t) \/ Fault(t)

\* What isolate t goes on with inside a native, or after its program.
Runtime(t) ==
  \/ SpawnIntoTake(t) \/ SpawnThread(t) \/ SpawnThreadFails(t) \/ SpawnRegister(t)
  \/ JoinReturns(t) \/ CloseInboxDone(t)
  \/ ReleaseErase(t) \/ ReleaseClose(t) \/ ReleaseRetire(t)
  \/ StopList(t) \/ \E b \in Id : StopPut(t, b)
  \/ EndErase(t) \/ \E b \in Id : EndClose(t, b)
  \/ EndTellStarter(t) \/ EndMark(t) \/ EndReport(t) \/ EndFinish(t)

World == WorldStop \/ (\E i \in Id : WorldPick(i)) \/ WorldJoined \/ WorldGone

Next == (\E t \in Id : Program(t) \/ Runtime(t)) \/ World \/ Finished

Spec == Init /\ [][Next]_vars

\* Every thread is scheduled.  A program that wants its world to end lets the root return,
\* comes back to the receive of its main inbox, and returns once it has read Stop there.
ReceiveMain(t) == Receive(t, iso[t].mailbox)
ReturnOnStop(t) == Return(t) /\ (th[t].stop \/ kind[t] = "task")

Fairness ==
  /\ \A t \in Id : /\ WF_vars(Runtime(t))
                   /\ SF_vars(ReceiveMain(t)) /\ SF_vars(ReturnOnStop(t))
  /\ WF_vars(World)

FairSpec == Spec /\ Fairness

-----------------------------------------------------------------------------
(* Safety.                                                                 *)

\* No isolate outlives its world: when the destructor has found nothing left to join and
\* goes on to the root's inboxes, no thread can still use the World, whatever was being
\* started while it joined (~World, start_isolate).
WorldOutlivesIsolates == At(Root, "gone") => \A i \in Id : ~Alive(i)

\* Who lives and is not in the registry yet has a starter that is still on its way to put
\* it there, so joining all that is found, until nothing is left, misses nobody.
StartersStand ==
  \A i \in Id : Alive(i) =>
    \/ i \in isolates
    \/ \E t \in Id : t < i /\ th[t].pc \in {"thread", "register"} /\ th[t].child = i

\* A monitor is answered exactly once: never more reports than were asked for, and all of
\* them made by the time the isolate has ended, however the request raced the end
\* (rawMonitor, run_isolate).
ExactlyOneReport ==
  \A a, b \in Id : /\ told[a][b] <= asked[a][b]
                   /\ At(a, "done") => told[a][b] = asked[a][b]

\* Who reads that an actor ended finds no inbox of it any more: no address leads to an
\* inbox of the dead actor, so a restart or a lookup made on the report is safe
\* (run_isolate closes before it reports).
ReportedActorIsGone ==
  \A b \in Id : \A i \in 1 .. Len(mb[b].q) :
    LET mail == mb[b].q[i] IN
    mail.kind = "exited" /\ mail.reason \in {"fault", "normal"} =>
      \A x \in mailboxes : mb[x].owner # mail.of

\* The end of the world reaches every inbox of its own that an actor waits on, also one
\* made, or born with its actor, while the world was already ending (~World,
\* add_mailbox_locked).
NoActorMissesTheEnd ==
  stopping => \A a \in Id : Running(a) =>
    \A b \in Own(a) : kind[b] # "slot" => StopHeld(mb[b])

\* The count a full inbox is judged by is the number of messages queued, and never above
\* the capacity, through every close, vacate and release that drops the queue.
MessagesCounted ==
  \A b \in Id :
    LET n == Cardinality({i \in 1 .. Len(mb[b].q) : mb[b].q[i].kind = "msg"}) IN
    /\ mb[b].messages = n
    /\ Capacity # 0 => n <= Capacity

\* One actor at a time receives from a slot (rawSpawnInto).
OneActorPerSlot ==
  \A a, b \in Id : Running(a) /\ Running(b) /\ iso[a].mailbox = iso[b].mailbox => a = b

\* What an actor left unread in its slot, the message that crashed it among it, is never
\* handed to its successor: all messages a running actor finds were sent to it or to the
\* empty slot.  (Of messages only: EveryActorGetsStop is about Stop.)
SuccessorGetsFreshMail ==
  \A a \in Id : Running(a) =>
    \A i \in 1 .. Len(mb[iso[a].mailbox].q) :
      LET mail == mb[iso[a].mailbox].q[i] IN
      mail.kind = "msg" => mail.of \in {a, NO_OWNER}

\* A slot never goes from one actor to the next directly, and its queue never goes with it,
\* messages, reports and Stop alike: a slot loses its owner together with the whole queue,
\* and who takes it finds nobody in it and what came in since (Mailbox::vacate, rawSpawnInto).
SlotsPassOnNothing ==
  [][\A s \in Id : kind[s] = "slot" /\ mb'[s].owner # mb[s].owner =>
       \/ mb'[s].owner = NO_OWNER /\ mb'[s].q = <<>>
       \/ mb[s].owner = NO_OWNER /\ mb'[s].q = mb[s].q]_vars

\* An actor whose slot was released is told to stop, also when the release dropped a Stop
\* it had not read: nobody could reach it again (rawReleaseSlot, Mailbox::retire).
ReleasedActorIsTold ==
  \A a \in Id :
    LET s == iso[a].mailbox IN
    /\ Running(a) /\ kind[s] = "slot" /\ mb[s].dead
    /\ \A t \in Id : th[t].arg = s => th[t].pc \notin {"rel_close", "rel_retire"}
    => StopHeld(mb[s])

-----------------------------------------------------------------------------
(* Liveness.                                                               *)

\* Once the root is done the world ends: the destructor's joins all return.
WorldEnds == stopping ~> At(Root, "gone")

-----------------------------------------------------------------------------
(* What the comments of the code say, and the code does not keep.          *)

\* "the world sends every actor Stop": whoever runs while the world ends can learn it from
\* one of its inboxes.
EveryActorGetsStop ==
  stopping => \A a \in Id : Running(a) => \E b \in Own(a) : StopHeld(mb[b])
=============================================================================
