------------------------------- MODULE IoHub --------------------------------
(***************************************************************************)
(* Active sockets (IoHub and ActiveSock, src/vmcore/vmcore.cpp): the one   *)
(* I/O thread of a world polls every activated socket and posts what it    *)
(* reads into inboxes of the owners.  A full inbox pauses the socket until *)
(* a receive makes room; a listener's connections wait in the world's      *)
(* hand-off table under tickets.                                           *)
(*                                                                         *)
(* An action is one critical section (of Mailbox::m, IoHub::m or World::m) *)
(* with the thread's private work before the next one, or one system call. *)
(* What arrives on a socket is given: Arrives[s] is the sequence of its    *)
(* reads, each with the events the framing makes of it; a read that ends   *)
(* the stream, by its end, an error or an overlong line, is the last.  The *)
(* event of an accepted connection stands for its ticket and for its       *)
(* socket.  A poll that fails or returns for nothing is left out.          *)
(***************************************************************************)
EXTENDS Mailbox, FiniteSets, SequencesExt

CONSTANTS
  Actor,        \* isolates
  Box, Holder,  \* inboxes, and the actor that owns each
  Main,         \* the main inbox of each of them that has one: a task has none
  Sock,         \* sockets that may be activated
  Listener,     \* those of them that listen
  Owner, Into,  \* who activates a socket, and the inbox its events go to
  Conn,         \* connections that clients make
  Data,         \* all other events
  Arrives,      \* the reads of each socket, in order
  Buffered,     \* what recvLine had read already when the socket is activated
  Capacity,     \* of every inbox: 0 is unbounded
  Batch,        \* accepts per readiness: 64 in the code
  Calls         \* what the program of each actor does: a set of the names below

CallNames ==
  {"activate", "send", "close", "receive", "closeInbox", "take", "handOff", "return"}

Event == Conn \cup Data
Chunk == [events: Seq(Event), last: BOOLEAN]
NoSock == CHOOSE s \in Sock : TRUE      \* what a local holds that is not in use

ASSUME SortsAssumption ==
  /\ Listener \subseteq Sock /\ Conn \cap Data = {} /\ Conn \cap Sock = {}
  /\ Holder \in [Box -> Actor] /\ \A s \in Sock : Owner[s] \in DOMAIN Main
  /\ \A a \in DOMAIN Main : a \in Actor /\ Main[a] \in Box /\ Holder[Main[a]] = a
  /\ Owner \in [Sock -> Actor] /\ Into \in [Sock -> Box]
  /\ \A s \in Sock : Holder[Into[s]] = Owner[s]
ASSUME ArrivesAssumption ==
  \A s \in Sock :
    /\ Buffered[s] \in Chunk /\ Arrives[s] \in Seq(Chunk)
    /\ s \notin Listener =>
         /\ Buffered[s].events \in Seq(Data)
         /\ \A i \in 1 .. Len(Arrives[s]) : Arrives[s][i].events \in Seq(Data)
    /\ s \in Listener =>
         /\ Buffered[s] = [events |-> <<>>, last |-> FALSE]
         /\ \A i \in 1 .. Len(Arrives[s]) : Len(Arrives[s][i].events) = 1
\* accept returns each connection once.
ASSUME AcceptAssumption ==
  \A s, t \in Listener : \A i \in 1 .. Len(Arrives[s]), j \in 1 .. Len(Arrives[t]) :
    Arrives[s][i].events = Arrives[t][j].events /\ Arrives[s][i].events[1] \in Conn =>
      s = t /\ i = j
\* Whose an event is can be told, which the history heard and the properties do.
EventsOf(s) == ToSet(Buffered[s].events)
                 \cup UNION {ToSet(Arrives[s][i].events) : i \in 1 .. Len(Arrives[s])}
ASSUME EventsAssumption ==
  \A s, t \in Sock : s # t /\ Into[s] = Into[t] => EventsOf(s) \cap EventsOf(t) = {}
ASSUME BoundAssumption == Capacity \in Nat /\ Batch \in Nat \ {0}
ASSUME CallsAssumption == Calls \in [Actor -> SUBSET CallNames]

VARIABLES
  mb,         \* the inboxes
  pc,         \* where each actor is
  on,         \* the socket its native is about
  fds,        \* connections in its NetRegistry
  known,      \* tickets that some program has read
  entry,      \* the ActiveSock of each socket
  socks,      \* IoHub::socks
  stopping,   \* IoHub::stopping
  wake,       \* a byte is in the wake line
  io,         \* the I/O thread and its locals
  arrived,    \* how many reads of each socket are there to be read
  handoffs,   \* World::handoffs
  world,      \* where ~World is
  closes,     \* history: how often each socket was closed
  heard       \* history: the events of each socket that its owner has received

vars == <<mb, pc, on, fds, known, entry, socks, stopping, wake, io, arrived, handoffs, world,
          closes, heard>>
actors == <<mb, pc, on, fds, known, heard>>

\* The places of an actor: run, wake, send, end_hub, end_wake, end_boxes, dead; of the I/O
\* thread: none, round, flush, poll, drain, ready, accept, ended; of ~World: on, told,
\* stop_wake, join, gone.

\* The ActiveSock entry[s]: activated, a close asked for, and then the fields that are the
\* I/O thread's alone: pending events, paused, done, and reads made.

Init ==
  /\ mb = [b \in Box |-> NewMailbox(Holder[b])]
  /\ pc = [a \in Actor |-> "run"]
  /\ on = [a \in Actor |-> NoSock]
  /\ fds = [a \in Actor |-> {}]
  /\ known = {} /\ handoffs = {}
  /\ entry = [s \in Sock |-> [active |-> FALSE, close_req |-> FALSE, pending |-> <<>>,
                              paused |-> FALSE, done |-> FALSE, reads |-> 0]]
  /\ socks = {}
  /\ stopping = FALSE /\ wake = FALSE
  /\ io = [pc |-> "none", live |-> {}, closing |-> {}, todo |-> {}, polled |-> {},
           cur |-> NoSock, back |-> "round", k |-> 0]
  /\ arrived = [s \in Sock |-> 0]
  /\ world = "on"
  /\ closes = [s \in Sock \cup Conn |-> 0]
  /\ heard = [s \in Sock |-> <<>>]

-----------------------------------------------------------------------------
(* What the actions are built from.                                        *)

At(a, l) == pc[a] = l
Calling(a, call) == At(a, "run") /\ call \in Calls[a]
Goto(a, l) == pc' = [pc EXCEPT ![a] = l]
IoAt(l) == io.pc = l

\* The thread between two sockets.
Idle(l) == [io EXCEPT !.pc = l, !.cur = NoSock, !.back = "round", !.k = 0]

\* Something waits to be read, or to be accepted.
Readable(s) == entry[s].reads < arrived[s]

\* One sock_close of each socket of S.
Closed(S) == [s \in DOMAIN closes |-> closes[s] + (IF s \in S THEN 1 ELSE 0)]

\* An entry after the framing of a read; once the stream has ended nothing is framed.
Frame(e, chunk) ==
  IF e.done THEN e
  ELSE [e EXCEPT !.pending = e.pending \o chunk.events, !.done = chunk.last]

\* The connections whose tickets an entry still carries.
Tickets(s) == IF s \in Listener THEN ToSet(entry[s].pending) \cap handoffs ELSE {}

\* The events of socket s among those that mails carry, and among those in its inbox.
Picked(s, mails) ==
  FlattenSeq([k \in 1 .. Len(mails) |->
    IF mails[k].kind = "msg" /\ mails[k].of \in EventsOf(s) THEN <<mails[k].of>> ELSE <<>>])
Queued(s) == Picked(s, mb[Into[s]].q)

-----------------------------------------------------------------------------
(* The natives of an actor.                                                *)

\* Published under IoHub::m, with what was buffered; the first one starts the thread.
Activate(a, s) ==
  /\ Calling(a, "activate") /\ Owner[s] = a /\ ~entry[s].active /\ ~mb[Into[s]].dead
  /\ entry' = [entry EXCEPT ![s] = Frame([entry[s] EXCEPT !.active = TRUE], Buffered[s])]
  /\ socks' = socks \cup {s}
  /\ io' = [io EXCEPT !.pc = IF @ = "none" THEN "ready" ELSE @]
  /\ Goto(a, "wake")
  /\ UNCHANGED <<mb, on, fds, known, stopping, wake, arrived, handoffs, world, closes, heard>>

\* One byte down the wake line; a full line holds one already.
Wake(a) ==
  /\ pc[a] \in {"wake", "end_wake"}
  /\ wake' = TRUE
  /\ Goto(a, IF At(a, "wake") THEN "run" ELSE "end_boxes")
  /\ UNCHANGED <<mb, on, fds, known, entry, socks, stopping, io, arrived, handoffs, world,
                 closes, heard>>

\* sending_socket: from here on the actor writes to the socket without the hub's mutex.
SendBegin(a, s) ==
  /\ Calling(a, "send") /\ Owner[s] = a /\ s \notin Listener
  /\ s \in socks /\ ~entry[s].close_req
  /\ Goto(a, "send") /\ on' = [on EXCEPT ![a] = s]
  /\ UNCHANGED <<mb, fds, known, entry, socks, stopping, wake, io, arrived, handoffs, world,
                 closes, heard>>

\* All is written, or the socket reports an error.
SendEnds(a) ==
  /\ At(a, "send")
  /\ Goto(a, "run") /\ on' = [on EXCEPT ![a] = NoSock]
  /\ UNCHANGED <<mb, fds, known, entry, socks, stopping, wake, io, arrived, handoffs,
                 world, closes, heard>>

\* A send that waits notices that its actor was told to stop.
SendStopped(a) ==
  /\ At(a, "send") /\ mb[Main[a]].stopped
  /\ Goto(a, "run") /\ on' = [on EXCEPT ![a] = NoSock]
  /\ UNCHANGED <<mb, fds, known, entry, socks, stopping, wake, io, arrived, handoffs,
                 world, closes, heard>>

\* request_close of socket s: a request that wakes the thread, once.
AskClose(a, s) ==
  /\ entry' = [entry EXCEPT ![s].close_req = TRUE]
  /\ on' = [on EXCEPT ![a] = NoSock]
  /\ Goto(a, IF s \in socks /\ ~entry[s].close_req THEN "wake" ELSE "run")
  /\ UNCHANGED <<mb, fds, known, socks, stopping, wake, io, arrived, handoffs, world,
                 closes, heard>>

ActiveClose(a, s) ==
  /\ Calling(a, "close") /\ Owner[s] = a /\ s \in socks /\ ~entry[s].close_req
  /\ AskClose(a, s)

\* The peer has not read for too long.
SendDeadline(a) == At(a, "send") /\ AskClose(a, on[a])

\* A message taken from an inbox that paused the thread wakes it.
Receive(a, b) ==
  LET taken == IF mb[b].q # <<>> /\ TakenKind(mb[b]) = "msg" THEN {Head(mb[b].q).of} ELSE {} IN
  /\ Calling(a, "receive") /\ Holder[b] = a /\ ~mb[b].dead /\ Ready(mb[b])
  /\ mb' = [mb EXCEPT ![b] = Take(@)]
  /\ Goto(a, IF mb[b].io_paused /\ taken # {} THEN "wake" ELSE "run")
  /\ known' = known \cup (taken \cap Conn)
  /\ heard' = [s \in Sock |->
       IF taken # {} /\ Into[s] = b /\ taken \subseteq EventsOf(s)
       THEN Append(heard[s], Head(mb[b].q).of) ELSE heard[s]]
  /\ UNCHANGED <<on, fds, entry, socks, stopping, wake, io, arrived, handoffs, world, closes>>

\* Mutant: a ticket that was taken is still in the table.
TakeTicketAgain(a, c) ==
  /\ Calling(a, "take") /\ c \in known /\ c \in handoffs
  /\ fds' = [fds EXCEPT ![a] = @ \cup {c}]
  /\ UNCHANGED <<mb, pc, on, known, entry, socks, stopping, wake, io, arrived, handoffs,
                 world, closes, heard>>

\* rawTake: a ticket is plain data, so whoever has read or was sent it may redeem it, once.
TakeTicket(a, c) ==
  /\ Calling(a, "take") /\ c \in known /\ c \in handoffs
  /\ handoffs' = handoffs \ {c}
  /\ fds' = [fds EXCEPT ![a] = @ \cup {c}]
  /\ UNCHANGED <<mb, pc, on, known, entry, socks, stopping, wake, io, arrived, world, closes,
                 heard>>

\* rawHandOff.
HandOff(a, c) ==
  /\ Calling(a, "handOff") /\ c \in fds[a]
  /\ handoffs' = handoffs \cup {c}
  /\ fds' = [fds EXCEPT ![a] = @ \ {c}]
  /\ UNCHANGED <<mb, pc, on, known, entry, socks, stopping, wake, io, arrived, world, closes,
                 heard>>

\* rawCloseInbox: what is queued is dropped.
CloseInbox(a, b) ==
  /\ Calling(a, "closeInbox") /\ Holder[b] = a /\ b # Main[a] /\ ~mb[b].dead
  /\ mb' = [mb EXCEPT ![b] = Close(@)]
  /\ UNCHANGED <<pc, on, fds, known, entry, socks, stopping, wake, io, arrived, handoffs,
                 world, closes, heard>>

\* The program is over: its registry closes what it still has, ...
Return(a) ==
  /\ Calling(a, "return")
  /\ closes' = Closed(fds[a])
  /\ fds' = [fds EXCEPT ![a] = {}]
  /\ Goto(a, "end_hub")
  /\ UNCHANGED <<mb, on, known, entry, socks, stopping, wake, io, arrived, handoffs, world,
                 heard>>

\* ... its active sockets are asked to close, ...
EndHub(a) ==
  LET mine == {s \in socks : Owner[s] = a /\ ~entry[s].close_req} IN
  /\ At(a, "end_hub")
  /\ entry' = [s \in Sock |-> IF s \in mine THEN [entry[s] EXCEPT !.close_req = TRUE]
                                            ELSE entry[s]]
  /\ Goto(a, IF mine = {} THEN "end_boxes" ELSE "end_wake")
  /\ UNCHANGED <<mb, on, fds, known, socks, stopping, wake, io, arrived, handoffs, world,
                 closes, heard>>

\* ... and its inboxes close.
EndBoxes(a) ==
  /\ At(a, "end_boxes")
  /\ mb' = [b \in Box |-> IF Holder[b] = a THEN Close(mb[b]) ELSE mb[b]]
  /\ Goto(a, "dead")
  /\ UNCHANGED <<on, fds, known, entry, socks, stopping, wake, io, arrived, handoffs, world,
                 closes, heard>>

-----------------------------------------------------------------------------
(* The I/O thread: IoHub::loop.                                            *)

\* Mutant: an entry that is to be closed stays registered.
IoTopKeepsClosing ==
  LET closing == {s \in socks : entry[s].close_req}
      live == socks \ closing IN
  /\ IoAt("ready") /\ io.polled = {}
  /\ io' = IF stopping THEN [io EXCEPT !.pc = "ended", !.live = {}]
           ELSE [io EXCEPT !.pc = "round", !.closing = closing, !.live = live,
                   !.todo = {s \in live : entry[s].paused \/ entry[s].pending # <<>>}]
  /\ UNCHANGED <<actors, entry, socks, stopping, wake, arrived, handoffs, world, closes>>

\* A round begins: what to close leaves the registry, what owes events is to be flushed.
IoTop ==
  LET closing == {s \in socks : entry[s].close_req}
      live == socks \ closing IN
  /\ IoAt("ready") /\ io.polled = {}
  /\ io' = IF stopping THEN [io EXCEPT !.pc = "ended", !.live = {}]
           ELSE [io EXCEPT !.pc = "round", !.closing = closing, !.live = live,
                   !.todo = {s \in live : entry[s].paused \/ entry[s].pending # <<>>}]
  /\ socks' = IF stopping THEN socks ELSE live
  /\ UNCHANGED <<actors, entry, stopping, wake, arrived, handoffs, world, closes>>

\* Mutant: the tickets of a listener that is closed stay in the hand-off table.
IoCloseKeepsTickets(s) ==
  /\ IoAt("round") /\ s \in io.closing
  /\ closes' = Closed({s})
  /\ io' = [io EXCEPT !.closing = @ \ {s}]
  /\ UNCHANGED <<actors, entry, socks, stopping, wake, arrived, handoffs, world>>

\* The only place where a socket is closed while the world runs; a listener's connections
\* that were not delivered go with it (drop_tickets).
IoClose(s) ==
  /\ IoAt("round") /\ s \in io.closing
  /\ handoffs' = handoffs \ Tickets(s)
  /\ closes' = Closed({s} \cup Tickets(s))
  /\ io' = [io EXCEPT !.closing = @ \ {s}]
  /\ UNCHANGED <<actors, entry, socks, stopping, wake, arrived, world>>

IoFlushNext(s) ==
  /\ IoAt("round") /\ io.closing = {} /\ s \in io.todo
  /\ io' = [io EXCEPT !.pc = "flush", !.cur = s, !.back = "round", !.todo = @ \ {s}]
  /\ UNCHANGED <<actors, entry, socks, stopping, wake, arrived, handoffs, world, closes>>

\* Mutant: an event that found the inbox full is not kept.
FlushAnyway ==
  LET s == io.cur
      answer == OfferAnswer(mb[Into[s]], Capacity) IN
  /\ IoAt("flush")
  /\ mb' = [mb EXCEPT ![Into[s]] = OfferOrPause(@, Msg(Head(entry[s].pending)), Capacity)]
  /\ entry' = [entry EXCEPT ![s] =
       CASE answer = "SENT" -> [@ EXCEPT !.pending = Tail(@),
                                          !.paused = @ /\ Len(entry[s].pending) > 1]
         [] answer = "FULL" -> [@ EXCEPT !.paused = TRUE, !.pending = Tail(@)]
         [] answer = "GONE" -> [@ EXCEPT !.pending = <<>>, !.paused = FALSE, !.done = TRUE]]
  /\ handoffs' = IF answer = "GONE" THEN handoffs \ Tickets(s) ELSE handoffs
  /\ closes' = IF answer = "GONE" THEN Closed(Tickets(s)) ELSE closes
  /\ io' = IF answer = "SENT" /\ Len(entry[s].pending) > 1 THEN io
           ELSE IF io.back = "accept" THEN [io EXCEPT !.pc = "accept"] ELSE Idle(io.back)
  /\ UNCHANGED <<pc, on, fds, known, heard, socks, stopping, wake, arrived, world>>

\* flush: the next event into the inbox, until nothing is left, or the inbox is full, or
\* closed: then the stream is done and what it still owed is dropped.
Flush ==
  LET s == io.cur
      e == entry[s]
      rest == Tail(e.pending)
      answer == OfferAnswer(mb[Into[s]], Capacity) IN
  /\ IoAt("flush")
  /\ mb' = [mb EXCEPT ![Into[s]] = OfferOrPause(@, Msg(Head(e.pending)), Capacity)]
  /\ entry' = [entry EXCEPT ![s] =
       CASE answer = "SENT" -> [e EXCEPT !.pending = rest, !.paused = e.paused /\ rest # <<>>]
         [] answer = "FULL" -> [e EXCEPT !.paused = TRUE]
         [] answer = "GONE" -> [e EXCEPT !.pending = <<>>, !.paused = FALSE, !.done = TRUE]]
  /\ handoffs' = IF answer = "GONE" THEN handoffs \ Tickets(s) ELSE handoffs
  /\ closes' = IF answer = "GONE" THEN Closed(Tickets(s)) ELSE closes
  /\ io' = IF answer = "SENT" /\ rest # <<>> THEN io
           ELSE IF io.back = "accept" THEN [io EXCEPT !.pc = "accept"] ELSE Idle(io.back)
  /\ UNCHANGED <<pc, on, fds, known, heard, socks, stopping, wake, arrived, world>>

\* What is polled next to the wake line.
IoWatch ==
  /\ IoAt("round") /\ io.closing = {} /\ io.todo = {}
  /\ io' = [io EXCEPT !.pc = "poll",
              !.polled = {s \in io.live : ~entry[s].paused /\ ~entry[s].done}]
  /\ UNCHANGED <<actors, entry, socks, stopping, wake, arrived, handoffs, world, closes>>

\* poll returns: from here polled is what it found ready.
IoPoll ==
  LET ready == {s \in io.polled : Readable(s)} IN
  /\ IoAt("poll") /\ (wake \/ ready # {})
  /\ io' = [io EXCEPT !.pc = IF wake THEN "drain" ELSE "ready", !.polled = ready]
  /\ UNCHANGED <<actors, entry, socks, stopping, wake, arrived, handoffs, world, closes>>

IoDrain ==
  /\ IoAt("drain")
  /\ wake' = FALSE
  /\ io' = [io EXCEPT !.pc = "ready"]
  /\ UNCHANGED <<actors, entry, socks, stopping, arrived, handoffs, world, closes>>

\* One read of a ready stream, then its events are flushed.
ReadOnce(s) ==
  LET chunk == Arrives[s][entry[s].reads + 1] IN
  /\ IoAt("ready") /\ s \in io.polled \ Listener
  /\ entry' = [entry EXCEPT ![s] = [Frame(@, chunk) EXCEPT !.reads = entry[s].reads + 1]]
  /\ io' = IF entry'[s].pending = <<>> THEN [io EXCEPT !.polled = @ \ {s}]
           ELSE [io EXCEPT !.pc = "flush", !.cur = s, !.back = "ready", !.polled = @ \ {s}]
  /\ UNCHANGED <<actors, socks, stopping, wake, arrived, handoffs, world, closes>>

AcceptBegin(s) ==
  /\ IoAt("ready") /\ s \in io.polled \cap Listener
  /\ io' = [io EXCEPT !.pc = "accept", !.cur = s, !.k = 0, !.polled = @ \ {s}]
  /\ UNCHANGED <<actors, entry, socks, stopping, wake, arrived, handoffs, world, closes>>

Accepting(s) == io.k < Batch /\ ~entry[s].paused /\ ~entry[s].done /\ Readable(s)

\* The next connection, parked under a ticket, or the error that ends the listener.
Accept ==
  LET s == io.cur
      chunk == Arrives[s][entry[s].reads + 1] IN
  /\ IoAt("accept") /\ Accepting(s)
  /\ handoffs' = handoffs \cup (ToSet(chunk.events) \cap Conn)
  /\ entry' = [entry EXCEPT ![s] = [Frame(@, chunk) EXCEPT !.reads = entry[s].reads + 1]]
  /\ io' = [io EXCEPT !.pc = "flush", !.back = "accept", !.k = @ + 1]
  /\ UNCHANGED <<actors, socks, stopping, wake, arrived, world, closes>>

AcceptEnds ==
  /\ IoAt("accept") /\ ~Accepting(io.cur)
  /\ io' = Idle("ready")
  /\ UNCHANGED <<actors, entry, socks, stopping, wake, arrived, handoffs, world, closes>>

-----------------------------------------------------------------------------
(* The end of the world, and the outside.                                  *)

WorldStop ==
  /\ world = "on"
  /\ world' = "told"
  /\ mb' = [b \in Box |-> Release(Put(mb[b], Stop))]
  /\ UNCHANGED <<pc, on, fds, known, heard, entry, socks, stopping, wake, io, arrived,
                 handoffs, closes>>

\* Every actor is joined: IoHub::stop, if a thread was ever started.
HubStop ==
  /\ world = "told" /\ \A a \in Actor : At(a, "dead")
  /\ stopping' = (io.pc # "none")
  /\ world' = IF io.pc = "none" THEN "join" ELSE "stop_wake"
  /\ UNCHANGED <<actors, entry, socks, wake, io, arrived, handoffs, closes>>

\* Mutant: the thread is joined without a wake.
HubStopWakeForgotten ==
  /\ world = "stop_wake"
  /\ world' = "join"
  /\ UNCHANGED <<actors, entry, socks, stopping, wake, io, arrived, handoffs, closes>>

HubStopWake ==
  /\ world = "stop_wake"
  /\ wake' = TRUE
  /\ world' = "join"
  /\ UNCHANGED <<actors, entry, socks, stopping, io, arrived, handoffs, closes>>

\* The thread is joined: what is still registered closes, and whatever nobody took.
HubJoined ==
  /\ world = "join" /\ io.pc \in {"none", "ended"}
  /\ socks' = {} /\ handoffs' = {}
  /\ closes' = Closed(socks \cup handoffs)
  /\ world' = "gone"
  /\ UNCHANGED <<actors, entry, stopping, wake, io, arrived>>

\* More can be read from a socket, or accepted.
PeerActs(s) ==
  /\ arrived[s] < Len(Arrives[s])
  /\ arrived' = [arrived EXCEPT ![s] = @ + 1]
  /\ UNCHANGED <<actors, entry, socks, stopping, wake, io, handoffs, world, closes>>

Finished == world = "gone" /\ UNCHANGED vars

-----------------------------------------------------------------------------

Program(a) ==
  \/ \E s \in Sock : Activate(a, s) \/ SendBegin(a, s) \/ ActiveClose(a, s)
  \/ \E b \in Box : Receive(a, b) \/ CloseInbox(a, b)
  \/ \E c \in Conn : TakeTicket(a, c) \/ HandOff(a, c)
  \/ Return(a)

Native(a) == Wake(a) \/ EndHub(a) \/ EndBoxes(a)

Loop ==
  \/ IoTop \/ IoWatch \/ IoPoll \/ IoDrain
  \/ Flush \/ Accept \/ AcceptEnds
  \/ \E s \in Sock : IoClose(s) \/ IoFlushNext(s) \/ ReadOnce(s) \/ AcceptBegin(s)

Hub == HubStop \/ HubStopWake \/ HubJoined

Next ==
  \/ \E a \in Actor : Program(a) \/ Native(a) \/ SendEnds(a) \/ SendDeadline(a) \/ SendStopped(a)
  \/ Loop \/ WorldStop \/ Hub
  \/ \E s \in Sock : PeerActs(s)
  \/ Finished

Spec == Init /\ [][Next]_vars

-----------------------------------------------------------------------------
(* Properties.                                                             *)

\* Every socket the hub took over is closed once, and by the end of the world it is, whoever
\* asked for it and however the requests met (request_close, close_owned_by, stop); and none
\* while poll watches it or its owner writes to it, so the number can not name a stranger's
\* connection meanwhile.
ClosedOnce ==
  /\ \A s \in Sock : closes[s] <= 1 /\ (world = "gone" /\ entry[s].active => closes[s] = 1)
  /\ \A a \in Actor : At(a, "send") => closes[on[a]] = 0
  /\ \A s \in io.live : closes[s] = 0

\* What the thread has read of a socket, framed.
SoFar(s) ==
  IF ~entry[s].active THEN <<>>
  ELSE Buffered[s].events \o FlattenSeq([i \in 1 .. entry[s].reads |-> Arrives[s][i].events])

\* The owner receives the events of a socket in their order, and none is lost or doubled
\* between the reads, the pauses and the inbox, as long as that is open (flush, rawActivate).
EventsInOrder ==
  \A s \in Sock :
    /\ IsPrefix(heard[s], SoFar(s))
    /\ ~mb[Into[s]].dead => heard[s] \o Queued(s) \o entry[s].pending = SoFar(s)

\* No wakeup is lost: the thread sits in poll with a paused socket whose inbox has room only
\* while the wake is on its way (offer_or_pause, rawReceive).
PausedWillBeWoken ==
  \A s \in io.live :
    LET b == mb[Into[s]] IN
    IoAt("poll") /\ entry[s].paused /\ ~b.dead /\ ~Full(b, Capacity) =>
      wake \/ At(Owner[s], "wake")

\* A listener that still carries a ticket of the hand-off table stands or is about to be
\* closed, and while it stands every connection it has accepted and not delivered is in that
\* table: the close finds them all there (drop_tickets).  What becomes of a ticket that was
\* delivered is its owner's affair: ConnectionHasOneHolder.
UndeliveredAreHeld ==
  \A s \in Listener :
    /\ \A c \in Tickets(s) : s \in socks \cup io.closing
    /\ s \in socks => Conn \cap ToSet(entry[s].pending) \subseteq handoffs

\* A connection that was accepted is in the hand-off table, or with one isolate, or closed
\* once: never in two of these places, and in none of them never (rawTake, rawHandOff,
\* drop_tickets, ~World).
Accepted ==
  {c \in Conn : \E s \in Listener : \E i \in 1 .. entry[s].reads : Arrives[s][i].events = <<c>>}
ConnectionHasOneHolder ==
  \A c \in Accepted :
    Cardinality({a \in Actor : c \in fds[a]}) + (IF c \in handoffs THEN 1 ELSE 0) + closes[c] = 1

\* The end of the world does not wait for a thread that waits for the world: once the hub is
\* told to stop and its end is waited for, it is not left in poll without a byte to wake it,
\* however the drain of an earlier wake met it (stop).
StopIsSeen == world = "join" /\ IoAt("poll") => wake

\* The thread never waits in poll for what has already come about.
NoWakeIsMissed == PausedWillBeWoken /\ StopIsSeen
=============================================================================
