---------------------------- MODULE IoHubProofs ----------------------------
(***************************************************************************)
(* Theorems about the I/O thread, for any isolates, inboxes, sockets and   *)
(* connections, whatever arrives on the sockets and whatever the programs  *)
(* do with them.                                                           *)
(*                                                                         *)
(* The invariant has a part for each thing that moves between threads: a   *)
(* socket between its owner's requests, the registry and the thread; a     *)
(* connection between the listener's entry, the hand-off table, the        *)
(* isolates and its close; and the wake that a pause waits for.  A second  *)
(* one, that rests on it, follows the events of each socket from the reads *)
(* to the owner.                                                           *)
(***************************************************************************)
EXTENDS IoHub, MailboxProofs, SequenceTheorems, FiniteSetTheorems, WellFoundedInduction

-----------------------------------------------------------------------------
(* What is true of each part.                                              *)

ActorPlaces == {"run", "wake", "send", "end_hub", "end_wake", "end_boxes", "dead"}
IoPlaces    == {"none", "round", "flush", "poll", "drain", "ready", "accept", "ended"}
WorldPlaces == {"on", "told", "stop_wake", "join", "gone"}
Cursor      == Sock \cup {NoSock}
EntryState  == [active : BOOLEAN, close_req : BOOLEAN, pending : Seq(Event), paused : BOOLEAN,
                done : BOOLEAN, reads : Nat]
IoState     == [pc : IoPlaces, live : SUBSET Sock, closing : SUBSET Sock, todo : SUBSET Sock,
                polled : SUBSET Sock, cur : Cursor, back : {"round", "ready", "accept"}, k : Nat]
Mailboxes   == MailboxOf(Actor \cup Event)

ActorTypes == /\ pc \in [Actor -> ActorPlaces] /\ on \in [Actor -> Cursor]
              /\ fds \in [Actor -> SUBSET Conn] /\ known \subseteq Conn
HubTypes   == /\ entry \in [Sock -> EntryState] /\ socks \subseteq Sock /\ handoffs \subseteq Conn
              /\ stopping \in BOOLEAN /\ wake \in BOOLEAN
              /\ world \in WorldPlaces /\ closes \in [Sock \cup Conn -> Nat]
Arriving   == /\ arrived \in [Sock -> Nat]
              /\ \A s \in Sock : arrived[s] <= Len(Arrives[s]) /\ entry[s].reads <= arrived[s]
BoxTypes   == mb \in [Box -> Mailboxes]
TypeOK     == ActorTypes /\ HubTypes /\ Arriving /\ BoxTypes /\ io \in IoState

\* Between the top of the loop and the return of poll.
InRound == io.pc \in {"round", "poll"} \/ (IoAt("flush") /\ io.back = "round")

\* Where the I/O thread can be, and on what.
Control ==
  /\ io.live \subseteq socks /\ io.todo \subseteq io.live /\ io.polled \subseteq io.live
  /\ io.pc \in {"flush", "accept"} => io.cur \in io.live
  /\ IoAt("accept") \/ (IoAt("flush") /\ io.back = "accept") => io.cur \in Listener \ io.polled
  /\ IoAt("flush") => io.cur \notin io.todo
  /\ io.todo # {} => InRound /\ ~IoAt("poll")
  /\ io.closing # {} => IoAt("round")
  /\ io.pc \in {"none", "ended"} => io.live = {}
  /\ io.pc \in {"drain", "ready", "accept"} \/ (IoAt("flush") /\ io.back # "round") =>
       \A s \in io.polled : Readable(s)
  /\ world \in {"stop_wake", "join", "gone"} => \A a \in Actor : At(a, "dead")
  /\ world \in {"stop_wake", "join", "gone"} /\ ~IoAt("none") => stopping
  /\ world = "gone" => socks = {} /\ io.closing = {}

\* What an entry owes.
Owing ==
  /\ \A s \in Sock : entry[s].paused => entry[s].pending # <<>>
  /\ \A s \in io.todo : entry[s].pending # <<>>
  /\ IoAt("flush") => entry[io.cur].pending # <<>>

\* A socket is registered, then its close is the thread's, then it is closed.
Standing == socks \cup io.closing
SocksStand ==
  /\ socks \cap io.closing = {}
  /\ \A s \in Standing : entry[s].active
  /\ \A s \in Sock : closes[s] = IF entry[s].active /\ s \notin Standing THEN 1 ELSE 0
  /\ \A a \in Actor : At(a, "send") =>
       /\ on[a] \in socks /\ Owner[on[a]] = a /\ ~entry[on[a]].close_req

\* A connection is accepted, in one place, or closed.
Taken(c) == \E a \in Actor : c \in fds[a]
ConnsStand ==
  /\ \A a, b \in Actor : \A c \in fds[a] \cap fds[b] : a = b
  /\ \A a \in Actor : \A c \in fds[a] : c \notin handoffs /\ c \in known
  /\ \A c \in Conn : closes[c] = IF c \in Accepted /\ c \notin handoffs /\ ~Taken(c) THEN 1 ELSE 0
  /\ handoffs \cup known \subseteq Accepted

\* Which connections a listener still owes.
Owed(s)    == {c \in Conn : \E i \in 1 .. Len(entry[s].pending) : entry[s].pending[i] = c}
Heard(b)   == {c \in Conn : \E i \in 1 .. Len(mb[b].q) : mb[b].q[i].kind = "msg" /\ mb[b].q[i].of = c}
ReadOf(s)  == {c \in Conn : \E i \in 1 .. entry[s].reads : Arrives[s][i].events = <<c>>}
OwedOnce ==
  /\ \A s \in Sock : \A i, j \in 1 .. Len(entry[s].pending) :
       entry[s].pending[i] \in Conn /\ entry[s].pending[i] = entry[s].pending[j] => i = j
  /\ \A s \in Sock : Owed(s) # {} => s \in Listener /\ entry[s].active /\ Owed(s) \subseteq ReadOf(s)
  /\ \A s \in Sock : Owed(s) \cap known = {} /\ \A b \in Box : Owed(s) \cap Heard(b) = {}
  /\ \A b \in Box : Heard(b) \subseteq Accepted
  /\ \A s \in Sock : IF s \in Standing THEN Owed(s) \subseteq handoffs ELSE Owed(s) \cap handoffs = {}

\* A paused socket's inbox is full and marked, or the wake is coming.
Deep(s) == LET b == mb[Into[s]] IN
  wake \/ At(Owner[s], "wake") \/ b.dead \/ (Full(b, Capacity) /\ b.io_paused)
WakesCome ==
  /\ InRound => \A s \in io.live \ io.todo : entry[s].paused /\ ~(IoAt("flush") /\ io.cur = s) => Deep(s)
  /\ world = "join" /\ InRound => wake

HubInv == TypeOK /\ Control /\ Owing /\ SocksStand /\ ConnsStand /\ OwedOnce /\ WakesCome

-----------------------------------------------------------------------------
(* What a step leaves alone, it cannot break.                              *)

LEMMA ConnsSame ==
  ASSUME ConnsStand, fds' = fds, handoffs' = handoffs, known' = known,
         \A c \in Conn : closes'[c] = closes[c],
         \A s \in Sock : entry'[s].reads = entry[s].reads
  PROVE  ConnsStand' /\ Accepted' = Accepted
<1>1. \A s \in Listener : entry'[s].reads = entry[s].reads BY SortsAssumption
<1>2. Accepted' = Accepted BY <1>1 DEF Accepted
<1>3. \A c : Taken(c)' <=> Taken(c) BY DEF Taken
<1> QED BY <1>2, <1>3 DEF ConnsStand

LEMMA SocksSame ==
  ASSUME SocksStand, socks' = socks, io'.closing = io.closing,
         \A s \in Sock : entry'[s].active = entry[s].active /\ closes'[s] = closes[s],
         \A a \in Actor : pc'[a] = "send" =>
           pc[a] = "send" /\ on'[a] = on[a] /\ entry'[on[a]].close_req = entry[on[a]].close_req,
         socks \cup io.closing \subseteq Sock
  PROVE  SocksStand' /\ Standing' = Standing
BY DEF SocksStand, Standing, At

LEMMA OwedSame ==
  ASSUME OwedOnce, socks' = socks, io'.closing = io.closing, Accepted' = Accepted,
         \A c \in Conn : c \notin known => (c \in handoffs' <=> c \in handoffs),
         \A s \in Sock : Owed(s) \cap known' = {},
         \A s \in Sock : /\ entry'[s].pending = entry[s].pending
                         /\ entry'[s].active = entry[s].active /\ entry'[s].reads = entry[s].reads,
         \A b \in Box : Heard(b)' \subseteq Heard(b)
  PROVE  OwedOnce'
<1>1. \A s \in Sock : Owed(s)' = Owed(s) BY DEF Owed
<1>2. \A s \in Sock : ReadOf(s)' = ReadOf(s) BY DEF ReadOf
<1>3. Standing' = Standing BY DEF Standing
<1>4. \A s \in Sock : \A i, j \in 1 .. Len(entry'[s].pending) :
        entry'[s].pending[i] \in Conn /\ entry'[s].pending[i] = entry'[s].pending[j] => i = j
  BY DEF OwedOnce
<1>5. \A s \in Sock : Owed(s)' # {} =>
        s \in Listener /\ entry'[s].active /\ Owed(s)' \subseteq ReadOf(s)'
  BY <1>1, <1>2 DEF OwedOnce
<1>6. \A s \in Sock : Owed(s)' \cap known' = {} /\ \A b \in Box : Owed(s)' \cap Heard(b)' = {}
  BY <1>1 DEF OwedOnce
<1>9. \A s \in Sock : Owed(s) \subseteq Conn /\ Owed(s) \cap known = {} BY DEF OwedOnce, Owed
<1>7. \A b \in Box : Heard(b)' \subseteq Accepted' BY DEF OwedOnce
<1>8. \A s \in Sock : IF s \in Standing' THEN Owed(s)' \subseteq handoffs'
                                         ELSE Owed(s)' \cap handoffs' = {}
  BY <1>1, <1>3, <1>9 DEF OwedOnce
<1> HIDE DEF Owed, ReadOf, Heard, Standing
<1> QED BY <1>4, <1>5, <1>6, <1>7, <1>8 DEF OwedOnce

LEMMA ControlSame ==
  ASSUME Control, io' = io, socks' = socks, world' \in {world, "told"}, stopping' = stopping,
         io \in IoState, arrived \in [Sock -> Nat], arrived' \in [Sock -> Nat],
         entry \in [Sock -> EntryState],
         \A s \in Sock : entry'[s].reads = entry[s].reads /\ arrived'[s] >= arrived[s],
         \A a \in Actor : pc[a] = "dead" => pc'[a] = "dead"
  PROVE  Control'
<1>1. InRound' <=> InRound BY DEF InRound, IoAt
<1>2. \A s \in io.polled : Readable(s) => Readable(s)'
  BY DEF Readable, IoState, EntryState
<1> QED BY <1>1, <1>2 DEF Control, IoAt, At

LEMMA OwingSame ==
  ASSUME Owing, io' = io, io \in IoState,
         IoAt("flush") => io.cur \in Sock,
         \A s \in Sock : /\ entry'[s].pending = entry[s].pending
                         /\ entry'[s].paused = entry[s].paused
  PROVE  Owing'
BY DEF Owing, IoAt, IoState

LEMMA WakesSame ==
  ASSUME WakesCome, io' = io, world' \in {world, "told"}, io \in IoState, wake => wake',
         \A s \in Sock : entry'[s].paused = entry[s].paused,
         \A s \in Sock : Deep(s) => Deep(s)'
  PROVE  WakesCome'
<1>1. InRound' <=> InRound BY DEF InRound, IoAt
<1>2. io.live \subseteq Sock BY DEF IoState
<1> QED BY <1>1, <1>2 DEF WakesCome, IoAt

LEMMA SameHeard ==
  ASSUME NEW b \in Box, mb'[b].q = mb[b].q
  PROVE  Heard(b)' = Heard(b)
BY DEF Heard

LEMMA SameDeep ==
  ASSUME NEW s \in Sock, Deep(s), wake => wake', pc[Owner[s]] = "wake" => pc'[Owner[s]] = "wake" \/ wake',
         mb'[Into[s]] = mb[Into[s]]
  PROVE  Deep(s)'
BY DEF Deep, At

-----------------------------------------------------------------------------
(* The invariant holds in the initial states.                              *)

LEMMA HubInit == ASSUME Init PROVE HubInv
<1>1. TypeOK
  <2>1. ActorTypes BY DEF Init, ActorTypes, ActorPlaces, Cursor
  <2>2. HubTypes
    <3>1. <<>> \in Seq(Event) OBVIOUS
    <3>2. entry \in [Sock -> EntryState] BY <3>1 DEF Init, EntryState
    <3> QED BY <3>2 DEF Init, HubTypes, WorldPlaces
  <2>3. Arriving
    <3>1. \A s \in Sock : Len(Arrives[s]) \in Nat BY ArrivesAssumption
    <3> QED BY <3>1 DEF Init, Arriving
  <2>4. BoxTypes
    <3>1. \A b \in Box : NewMailbox(Holder[b]) \in Mailboxes
      BY NewMailboxType, SortsAssumption DEF Mailboxes
    <3> QED BY <3>1 DEF Init, BoxTypes
  <2>5. io \in IoState BY DEF Init, IoState, IoPlaces, Cursor
  <2> QED BY <2>1, <2>2, <2>3, <2>4, <2>5 DEF TypeOK
<1>2. Control BY DEF Init, Control, IoAt
<1>3. Owing BY DEF Init, Owing, IoAt
<1>4. SocksStand BY DEF Init, SocksStand, Standing, At
<1>5. Accepted = {}
  <2>1. \A s \in Listener : entry[s].reads = 0 BY SortsAssumption DEF Init
  <2> QED BY <2>1 DEF Accepted
<1>6. ConnsStand BY <1>5 DEF Init, ConnsStand
<1>7. OwedOnce
  <2>1. \A s \in Sock : entry[s].pending = <<>> BY DEF Init
  <2>2. \A s \in Sock : Owed(s) = {} BY <2>1 DEF Owed
  <2>3. \A b \in Box : mb[b].q = <<>> BY DEF Init, NewMailbox
  <2>4. \A b \in Box : Heard(b) = {} BY <2>3 DEF Heard
  <2> QED BY <2>1, <2>2, <2>4 DEF OwedOnce
<1>8. WakesCome BY DEF Init, WakesCome, InRound, IoAt
<1> QED BY <1>1, <1>2, <1>3, <1>4, <1>6, <1>7, <1>8 DEF HubInv

-----------------------------------------------------------------------------
(* The natives of an actor.                                                *)

\* What every step of an actor other than rawActivate leaves as it was.
LEMMA ActorStep ==
  ASSUME HubInv, socks' = socks, stopping' = stopping, io' = io, arrived' = arrived,
         world' \in {world, "told"}, ActorTypes', HubTypes', BoxTypes',
         \A s \in Sock : /\ entry'[s].active = entry[s].active /\ entry'[s].pending = entry[s].pending
                         /\ entry'[s].paused = entry[s].paused /\ entry'[s].reads = entry[s].reads
                         /\ closes'[s] = closes[s],
         \A a \in Actor : pc[a] = "dead" => pc'[a] = "dead",
         \A a \in Actor : pc'[a] = "send" =>
           on'[a] \in socks /\ Owner[on'[a]] = a /\ ~entry'[on'[a]].close_req,
         wake => wake', \A s \in Sock : Deep(s) => Deep(s)'
  PROVE  TypeOK' /\ Control' /\ Owing' /\ SocksStand' /\ WakesCome'
<1> USE DEF HubInv
<1>1. TypeOK' BY DEF TypeOK, Arriving
<1>2. Control' BY ControlSame DEF TypeOK, Arriving, HubTypes
<1>3. Owing'
  <2>1. IoAt("flush") => io.cur \in Sock BY DEF Control, IoAt, TypeOK, IoState
  <2> QED BY <2>1, OwingSame DEF TypeOK
<1>4. SocksStand' BY DEF SocksStand, Standing, TypeOK, HubTypes, IoState, At
<1>5. WakesCome' BY WakesSame DEF TypeOK
<1> QED BY <1>1, <1>2, <1>3, <1>4, <1>5

\* A step of an actor that leaves the inboxes, the tickets and the connections alone.
LEMMA PlacesMove ==
  ASSUME HubInv, socks' = socks, stopping' = stopping, io' = io, arrived' = arrived, world' = world,
         mb' = mb, fds' = fds, known' = known, handoffs' = handoffs, closes' = closes,
         ActorTypes', wake' \in BOOLEAN, entry' \in [Sock -> EntryState],
         \A s \in Sock : /\ entry'[s].active = entry[s].active /\ entry'[s].pending = entry[s].pending
                         /\ entry'[s].paused = entry[s].paused /\ entry'[s].reads = entry[s].reads,
         \A a \in Actor : pc[a] = "dead" => pc'[a] = "dead",
         \A a \in Actor : pc'[a] = "send" =>
           on'[a] \in socks /\ Owner[on'[a]] = a /\ ~entry'[on'[a]].close_req,
         wake => wake', \A a \in Actor : pc[a] = "wake" => pc'[a] = "wake" \/ wake'
  PROVE  HubInv'
<1>1. HubTypes' /\ BoxTypes' BY DEF HubInv, TypeOK, HubTypes, BoxTypes
<1>2. \A s \in Sock : Deep(s) => Deep(s)' BY SortsAssumption, SameDeep
<1>3. TypeOK' /\ Control' /\ Owing' /\ SocksStand' /\ WakesCome' BY <1>1, <1>2, ActorStep
<1>4. ConnsStand' /\ Accepted' = Accepted BY ConnsSame DEF HubInv
<1>5. \A b \in Box : Heard(b)' = Heard(b) BY SameHeard
<1>6. \A s \in Sock : Owed(s) \cap known = {} BY DEF HubInv, OwedOnce
<1>7. OwedOnce' BY <1>4, <1>5, <1>6, OwedSame DEF HubInv
<1> QED BY <1>3, <1>4, <1>7 DEF HubInv

LEMMA WakeKeeps ==
  ASSUME HubInv, NEW a \in Actor, Wake(a)
  PROVE  HubInv'
<1>1. ActorTypes' BY DEF HubInv, TypeOK, ActorTypes, ActorPlaces, Wake, Goto, At
<1>2. /\ \A x \in Actor : pc[x] = "dead" => pc'[x] = "dead"
      /\ \A x \in Actor : pc'[x] = "send" => pc[x] = "send"
      /\ wake'
  BY DEF HubInv, TypeOK, ActorTypes, Wake, Goto, At
<1>3. \A x \in Actor : pc'[x] = "send" => on[x] \in socks /\ Owner[on[x]] = x /\ ~entry[on[x]].close_req
  BY <1>2 DEF HubInv, SocksStand, At
<1> QED BY <1>1, <1>2, <1>3, PlacesMove DEF Wake, HubInv, TypeOK, HubTypes

LEMMA SendKeeps ==
  ASSUME HubInv, NEW a \in Actor,
         SendEnds(a) \/ SendStopped(a) \/ \E s \in Sock : SendBegin(a, s)
  PROVE  HubInv'
<1>1. /\ pc \in [Actor -> ActorPlaces] /\ on \in [Actor -> Cursor] /\ pc[a] \in {"run", "send"}
      /\ mb' = mb /\ fds' = fds /\ known' = known /\ entry' = entry /\ socks' = socks
      /\ stopping' = stopping /\ wake' = wake /\ io' = io /\ arrived' = arrived
      /\ handoffs' = handoffs /\ world' = world /\ closes' = closes
  BY DEF HubInv, TypeOK, ActorTypes, SendEnds, SendStopped, SendBegin, Calling, At
<1>2. PICK l \in {"run", "send"}, s \in Cursor :
        /\ pc' = [pc EXCEPT ![a] = l] /\ on' = [on EXCEPT ![a] = s]
        /\ l = "send" => s \in socks /\ Owner[s] = a /\ ~entry[s].close_req
  BY DEF SendEnds, SendStopped, SendBegin, Calling, Goto, Cursor
<1>3. ActorTypes' BY <1>1, <1>2 DEF HubInv, TypeOK, ActorTypes, ActorPlaces
<1>4. /\ \A x \in Actor : pc[x] = "dead" => pc'[x] = "dead"
      /\ \A x \in Actor : pc[x] = "wake" => pc'[x] = "wake"
      /\ \A x \in Actor : pc'[x] = "send" => on'[x] \in socks /\ Owner[on'[x]] = x /\ ~entry[on'[x]].close_req
  BY <1>1, <1>2 DEF HubInv, SocksStand, At
<1> QED BY <1>1, <1>3, <1>4, PlacesMove DEF HubInv, TypeOK, HubTypes

\* A close that is asked for changes nothing else of an entry.
LEMMA AskedEntry ==
  ASSUME NEW e \in EntryState, NEW f, f = [e EXCEPT !.close_req = TRUE]
  PROVE  /\ f \in EntryState /\ f.active = e.active /\ f.pending = e.pending
         /\ f.paused = e.paused /\ f.reads = e.reads
BY DEF EntryState

LEMMA AskCloseKeeps ==
  ASSUME HubInv, NEW a \in Actor,
         SendDeadline(a) \/ \E s \in Sock : ActiveClose(a, s)
  PROVE  HubInv'
<1>1. PICK s \in Sock : AskClose(a, s) /\ Owner[s] = a /\ pc[a] \in {"run", "send"}
  BY SortsAssumption DEF SendDeadline, ActiveClose, Calling, At, HubInv, SocksStand, TypeOK, HubTypes
<1>2. /\ pc \in [Actor -> ActorPlaces] /\ on \in [Actor -> Cursor] /\ entry \in [Sock -> EntryState]
      /\ mb' = mb /\ fds' = fds /\ known' = known /\ socks' = socks
      /\ stopping' = stopping /\ wake' = wake /\ io' = io /\ arrived' = arrived
      /\ handoffs' = handoffs /\ world' = world /\ closes' = closes
      /\ entry' = [entry EXCEPT ![s].close_req = TRUE]
      /\ on' = [on EXCEPT ![a] = NoSock]
  BY <1>1 DEF HubInv, TypeOK, ActorTypes, HubTypes, AskClose
<1>3. PICK l \in {"run", "wake"} : pc' = [pc EXCEPT ![a] = l]
  BY <1>1 DEF AskClose, Goto
<1>4. ActorTypes' BY <1>2, <1>3 DEF HubInv, TypeOK, ActorTypes, ActorPlaces, Cursor
<1>5. \A t \in Sock : entry'[t] = IF t = s THEN [entry[t] EXCEPT !.close_req = TRUE] ELSE entry[t]
  BY <1>2
<1>6. \A t \in Sock : /\ entry'[t] \in EntryState
                      /\ entry'[t].active = entry[t].active /\ entry'[t].pending = entry[t].pending
                      /\ entry'[t].paused = entry[t].paused /\ entry'[t].reads = entry[t].reads
  BY <1>2, <1>5, AskedEntry
<1>7. entry' \in [Sock -> EntryState] BY <1>2, <1>6
<1>8. /\ \A x \in Actor : pc[x] = "dead" => pc'[x] = "dead"
      /\ \A x \in Actor : pc[x] = "wake" => pc'[x] = "wake"
  BY <1>1, <1>2, <1>3
<1>9. \A x \in Actor : pc'[x] = "send" => on'[x] \in socks /\ Owner[on'[x]] = x /\ ~entry'[on'[x]].close_req
  <2>1. SUFFICES ASSUME NEW x \in Actor, pc'[x] = "send"
                 PROVE  on'[x] \in socks /\ Owner[on'[x]] = x /\ ~entry'[on'[x]].close_req
    OBVIOUS
  <2>2. x # a /\ pc[x] = "send" /\ on'[x] = on[x] BY <1>2, <1>3, <2>1
  <2>3. on[x] \in socks /\ Owner[on[x]] = x /\ ~entry[on[x]].close_req
    BY <2>2 DEF HubInv, SocksStand, At
  <2>4. on[x] # s /\ on[x] \in Sock BY <1>1, <2>2, <2>3 DEF HubInv, TypeOK, HubTypes
  <2> QED BY <1>5, <2>2, <2>3, <2>4
<1> QED BY <1>2, <1>4, <1>6, <1>7, <1>8, <1>9, PlacesMove DEF HubInv, TypeOK, HubTypes

LEMMA EndHubKeeps ==
  ASSUME HubInv, NEW a \in Actor, EndHub(a)
  PROVE  HubInv'
<1> DEFINE mine == {s \in socks : Owner[s] = a /\ ~entry[s].close_req}
<1>2. /\ pc \in [Actor -> ActorPlaces] /\ on \in [Actor -> Cursor] /\ entry \in [Sock -> EntryState]
      /\ mb' = mb /\ fds' = fds /\ known' = known /\ socks' = socks /\ on' = on
      /\ stopping' = stopping /\ wake' = wake /\ io' = io /\ arrived' = arrived
      /\ handoffs' = handoffs /\ world' = world /\ closes' = closes
      /\ entry' = [s \in Sock |-> IF s \in mine THEN [entry[s] EXCEPT !.close_req = TRUE] ELSE entry[s]]
      /\ pc[a] = "end_hub"
  BY DEF HubInv, TypeOK, ActorTypes, HubTypes, EndHub, At
<1>3. PICK l \in {"end_boxes", "end_wake"} : pc' = [pc EXCEPT ![a] = l]
  BY DEF EndHub, Goto
<1>4. ActorTypes' BY <1>2, <1>3 DEF HubInv, TypeOK, ActorTypes, ActorPlaces
<1>6. \A t \in Sock : /\ entry'[t] \in EntryState
                      /\ entry'[t].active = entry[t].active /\ entry'[t].pending = entry[t].pending
                      /\ entry'[t].paused = entry[t].paused /\ entry'[t].reads = entry[t].reads
  BY <1>2, AskedEntry
<1>7. entry' \in [Sock -> EntryState] BY <1>2, <1>6
<1>8. /\ \A x \in Actor : pc[x] = "dead" => pc'[x] = "dead"
      /\ \A x \in Actor : pc[x] = "wake" => pc'[x] = "wake"
  BY <1>2, <1>3
<1>9. \A x \in Actor : pc'[x] = "send" => on'[x] \in socks /\ Owner[on'[x]] = x /\ ~entry'[on'[x]].close_req
  <2>1. SUFFICES ASSUME NEW x \in Actor, pc'[x] = "send"
                 PROVE  on'[x] \in socks /\ Owner[on'[x]] = x /\ ~entry'[on'[x]].close_req
    OBVIOUS
  <2>2. x # a /\ pc[x] = "send" /\ on'[x] = on[x] BY <1>2, <1>3, <2>1
  <2>3. on[x] \in socks /\ Owner[on[x]] = x /\ ~entry[on[x]].close_req
    BY <2>2 DEF HubInv, SocksStand, At
  <2>4. on[x] \notin mine /\ on[x] \in Sock BY <2>2, <2>3 DEF HubInv, TypeOK, HubTypes
  <2> QED BY <1>2, <2>2, <2>3, <2>4
<1> QED BY <1>2, <1>4, <1>6, <1>7, <1>8, <1>9, PlacesMove DEF HubInv, TypeOK, HubTypes

\* The step of an actor that leaves its place and the sockets alone.
LEMMA TakeTicketKeeps ==
  ASSUME HubInv, NEW a \in Actor, NEW c \in Conn, TakeTicket(a, c)
  PROVE  HubInv'
<1>1. /\ mb' = mb /\ pc' = pc /\ on' = on /\ known' = known /\ entry' = entry /\ socks' = socks
      /\ stopping' = stopping /\ wake' = wake /\ io' = io /\ arrived' = arrived /\ world' = world
      /\ closes' = closes /\ handoffs' = handoffs \ {c} /\ c \in handoffs /\ c \in known
      /\ fds \in [Actor -> SUBSET Conn] /\ fds' = [fds EXCEPT ![a] = fds[a] \cup {c}]
  BY DEF HubInv, TypeOK, ActorTypes, TakeTicket
<1>2. ActorTypes' /\ HubTypes' /\ BoxTypes' BY <1>1 DEF HubInv, TypeOK, ActorTypes, HubTypes, BoxTypes
<1>3. \A s \in Sock : Deep(s) => Deep(s)' BY <1>1 DEF Deep, At
<1>4. TypeOK' /\ Control' /\ Owing' /\ SocksStand' /\ WakesCome'
  BY <1>1, <1>2, <1>3, ActorStep DEF HubInv, SocksStand, At
<1>5. Accepted' = Accepted BY <1>1 DEF Accepted
<1>6. \A x \in Actor : fds'[x] = IF x = a THEN fds[x] \cup {c} ELSE fds[x] BY <1>1
<1>7. \A d : Taken(d)' <=> Taken(d) \/ d = c BY <1>6 DEF Taken
<1>8. ConnsStand' BY <1>1, <1>5, <1>6, <1>7 DEF HubInv, ConnsStand
<1>9. OwedOnce'
  <2>1. \A b \in Box : Heard(b)' = Heard(b) BY <1>1, SameHeard
  <2>2. \A s \in Sock : Owed(s) \cap known = {} BY DEF HubInv, OwedOnce
  <2> QED BY <1>1, <1>5, <2>1, <2>2, OwedSame DEF HubInv
<1> QED BY <1>4, <1>8, <1>9 DEF HubInv

LEMMA HandOffKeeps ==
  ASSUME HubInv, NEW a \in Actor, NEW c \in Conn, HandOff(a, c)
  PROVE  HubInv'
<1>1. /\ mb' = mb /\ pc' = pc /\ on' = on /\ known' = known /\ entry' = entry /\ socks' = socks
      /\ stopping' = stopping /\ wake' = wake /\ io' = io /\ arrived' = arrived /\ world' = world
      /\ closes' = closes /\ handoffs' = handoffs \cup {c} /\ c \in fds[a]
      /\ fds \in [Actor -> SUBSET Conn] /\ fds' = [fds EXCEPT ![a] = fds[a] \ {c}]
  BY DEF HubInv, TypeOK, ActorTypes, HandOff
<1>2. ActorTypes' /\ HubTypes' /\ BoxTypes' BY <1>1 DEF HubInv, TypeOK, ActorTypes, HubTypes, BoxTypes
<1>3. \A s \in Sock : Deep(s) => Deep(s)' BY <1>1 DEF Deep, At
<1>4. TypeOK' /\ Control' /\ Owing' /\ SocksStand' /\ WakesCome'
  BY <1>1, <1>2, <1>3, ActorStep DEF HubInv, SocksStand, At
<1>5. Accepted' = Accepted BY <1>1 DEF Accepted
<1>6. \A x \in Actor : fds'[x] = IF x = a THEN fds[x] \ {c} ELSE fds[x] BY <1>1
<1>7. c \in known /\ c \notin handoffs /\ \A x \in Actor : c \in fds[x] => x = a
  BY <1>1 DEF HubInv, ConnsStand
<1>8. \A d : Taken(d)' <=> Taken(d) /\ d # c BY <1>6, <1>7 DEF Taken
<1>9. Taken(c) BY <1>1 DEF Taken
<1>10. ConnsStand' BY <1>1, <1>5, <1>6, <1>7, <1>8, <1>9 DEF HubInv, ConnsStand
<1>11. OwedOnce'
  <2>1. \A b \in Box : Heard(b)' = Heard(b) BY <1>1, SameHeard
  <2>2. \A s \in Sock : Owed(s) \cap known = {} BY DEF HubInv, OwedOnce
  <2> QED BY <1>1, <1>5, <1>7, <2>1, <2>2, OwedSame DEF HubInv
<1> QED BY <1>4, <1>10, <1>11 DEF HubInv

LEMMA ReturnKeeps ==
  ASSUME HubInv, NEW a \in Actor, Return(a)
  PROVE  HubInv'
<1>1. /\ mb' = mb /\ on' = on /\ known' = known /\ entry' = entry /\ socks' = socks
      /\ stopping' = stopping /\ wake' = wake /\ io' = io /\ arrived' = arrived /\ world' = world
      /\ handoffs' = handoffs /\ pc \in [Actor -> ActorPlaces] /\ pc[a] = "run"
      /\ pc' = [pc EXCEPT ![a] = "end_hub"]
      /\ fds \in [Actor -> SUBSET Conn] /\ fds' = [fds EXCEPT ![a] = {}]
  BY DEF HubInv, TypeOK, ActorTypes, Return, Calling, At, Goto
<1>2. /\ closes \in [Sock \cup Conn -> Nat]
      /\ closes' = [s \in Sock \cup Conn |-> closes[s] + (IF s \in fds[a] THEN 1 ELSE 0)]
  BY DEF HubInv, TypeOK, HubTypes, Return, Closed
<1>3. fds[a] \subseteq Conn BY <1>1
<1>4. closes' \in [Sock \cup Conn -> Nat] BY <1>2
<1>5. ActorTypes' /\ HubTypes' /\ BoxTypes'
  BY <1>1, <1>4 DEF HubInv, TypeOK, ActorTypes, HubTypes, BoxTypes, ActorPlaces
<1>6. \A s \in Sock : closes'[s] = closes[s] BY <1>2, <1>3, SortsAssumption
<1>7. \A s \in Sock : Deep(s) => Deep(s)' BY <1>1, SortsAssumption, SameDeep
<1>8. \A x \in Actor : /\ pc[x] = "dead" => pc'[x] = "dead"
                       /\ pc'[x] = "send" => pc[x] = "send"
  BY <1>1
<1>9. \A x \in Actor : pc'[x] = "send" => on'[x] \in socks /\ Owner[on'[x]] = x /\ ~entry'[on'[x]].close_req
  BY <1>1, <1>8 DEF HubInv, SocksStand, At
<1>10. TypeOK' /\ Control' /\ Owing' /\ SocksStand' /\ WakesCome'
  BY <1>1, <1>5, <1>6, <1>7, <1>8, <1>9, ActorStep
<1>11. Accepted' = Accepted BY <1>1 DEF Accepted
<1>12. \A x \in Actor : fds'[x] = IF x = a THEN {} ELSE fds[x] BY <1>1
<1>13. \A x \in Actor : \A c \in fds[a] : c \in fds[x] => x = a BY DEF HubInv, ConnsStand
<1>14. \A c : Taken(c)' <=> Taken(c) /\ c \notin fds[a] BY <1>12, <1>13 DEF Taken
<1>15. \A c \in Conn : c \in fds[a] => Taken(c) /\ c \notin handoffs /\ c \in Accepted
  BY DEF HubInv, ConnsStand, Taken
<1>16. \A c \in Conn : closes'[c] = IF c \in Accepted /\ c \notin handoffs /\ ~Taken(c)' THEN 1 ELSE 0
  <2>1. \A c \in Conn : closes[c] = IF c \in Accepted /\ c \notin handoffs /\ ~Taken(c) THEN 1 ELSE 0
    BY DEF HubInv, ConnsStand
  <2>2. \A c \in Conn : closes'[c] = closes[c] + (IF c \in fds[a] THEN 1 ELSE 0) BY <1>2
  <2> QED BY <1>14, <1>15, <2>1, <2>2
<1>17. ConnsStand' BY <1>1, <1>11, <1>12, <1>16 DEF HubInv, ConnsStand
<1>18. OwedOnce'
  <2>1. \A b \in Box : Heard(b)' = Heard(b) BY <1>1, SameHeard
  <2>2. \A s \in Sock : Owed(s) \cap known = {} BY DEF HubInv, OwedOnce
  <2> QED BY <1>1, <1>11, <2>1, <2>2, OwedSame DEF HubInv
<1> QED BY <1>10, <1>17, <1>18 DEF HubInv

\* What the methods of an inbox do to what the invariant reads.
LEMMA TakeIs ==
  ASSUME NEW b \in Mailboxes
  PROVE  /\ Take(b) \in Mailboxes /\ Take(b).dead = b.dead
         /\ Take(b).q = IF b.q = <<>> THEN <<>> ELSE Tail(b.q)
         /\ b.q = <<>> \/ Head(b.q).kind # "msg" =>
              Take(b).messages = b.messages /\ Take(b).io_paused = b.io_paused
<1>1. Take(b) \in Mailboxes BY TakeType DEF Mailboxes
<1>2. DOMAIN b = {"owner", "q", "messages", "dead", "released", "stopped", "stop_seen", "io_paused"}
  BY DEF Mailboxes, MailboxOf
<1>3. Take(b).dead = b.dead BY <1>2 DEF Take
<1>4. Take(b).q = IF b.q = <<>> THEN <<>> ELSE Tail(b.q) BY <1>2 DEF Take
<1>5. ASSUME b.q = <<>> \/ Head(b.q).kind # "msg"
      PROVE  Take(b).messages = b.messages /\ Take(b).io_paused = b.io_paused
  <2>1. b.messages \in Int /\ b.io_paused \in BOOLEAN BY DEF Mailboxes, MailboxOf
  <2>2. CASE b.q = <<>> BY <2>2 DEF Take
  <2>3. CASE b.q # <<>>
    <3>1. Take(b).messages = b.messages BY <1>2, <1>5, <2>3 DEF Take
    <3>2. Take(b).io_paused = (b.io_paused /\ Head(b.q).kind # "msg") BY <1>2, <2>3 DEF Take
    <3> QED BY <1>5, <2>1, <2>3, <3>1, <3>2
  <2> QED BY <2>2, <2>3
<1> QED BY <1>1, <1>3, <1>4, <1>5

LEMMA CloseIs ==
  ASSUME NEW b \in Mailboxes
  PROVE  Close(b) \in Mailboxes /\ Close(b).dead /\ Close(b).q = <<>>
<1>1. Close(b) \in Mailboxes BY EndType DEF Mailboxes
<1>2. DOMAIN b = {"owner", "q", "messages", "dead", "released", "stopped", "stop_seen", "io_paused"}
  BY DEF Mailboxes, MailboxOf
<1> QED BY <1>1, <1>2 DEF Close

LEMMA StopIs ==
  ASSUME NEW b \in Mailboxes, NEW c, c = Release(Put(b, Stop))
  PROVE  /\ c \in Mailboxes /\ c.dead = b.dead /\ c.messages = b.messages /\ c.io_paused = b.io_paused
         /\ c.q = b.q \/ c.q = Append(b.q, Stop)
<1>1. Stop \in MailOf(Actor \cup Event) BY DEF Stop, MailOf
<1>2. Put(b, Stop) \in Mailboxes BY <1>1, PutType DEF Mailboxes
<1>3. c \in Mailboxes BY <1>2, EndType DEF Mailboxes
<1>4. DOMAIN b = {"owner", "q", "messages", "dead", "released", "stopped", "stop_seen", "io_paused"}
  BY DEF Mailboxes, MailboxOf
<1>5. /\ Put(b, Stop).dead = b.dead /\ Put(b, Stop).messages = b.messages
      /\ Put(b, Stop).io_paused = b.io_paused
      /\ Put(b, Stop).q = b.q \/ Put(b, Stop).q = Append(b.q, Stop)
      /\ DOMAIN Put(b, Stop) = DOMAIN b
  BY <1>4 DEF Put
<1>6. /\ c.dead = Put(b, Stop).dead /\ c.messages = Put(b, Stop).messages
      /\ c.io_paused = Put(b, Stop).io_paused /\ c.q = Put(b, Stop).q
  BY <1>4, <1>5 DEF Release
<1> QED BY <1>3, <1>5, <1>6

\* A message that left the queue was in it; nothing else was.
LEMMA HeardAfterTake ==
  ASSUME NEW b \in Box, mb[b] \in Mailboxes, mb'[b] = Take(mb[b])
  PROVE  Heard(b)' \subseteq Heard(b)
<1>1. mb[b].q \in Seq(MailOf(Actor \cup Event)) BY DEF Mailboxes, MailboxOf
<1>2. mb'[b].q = IF mb[b].q = <<>> THEN <<>> ELSE Tail(mb[b].q) BY TakeIs
<1>3. CASE mb[b].q = <<>> BY <1>2, <1>3 DEF Heard
<1>4. CASE mb[b].q # <<>>
  <2>1. \A i \in 1 .. Len(mb'[b].q) : i + 1 \in 1 .. Len(mb[b].q) /\ mb'[b].q[i] = mb[b].q[i + 1]
    BY <1>1, <1>2, <1>4
  <2> QED BY <2>1 DEF Heard
<1> QED BY <1>3, <1>4

LEMMA HeardAfterStop ==
  ASSUME NEW b \in Box, mb[b] \in Mailboxes, mb'[b] = Release(Put(mb[b], Stop))
  PROVE  Heard(b)' \subseteq Heard(b)
<1>1. mb[b].q \in Seq(MailOf(Actor \cup Event)) BY DEF Mailboxes, MailboxOf
<1>2. mb'[b].q = mb[b].q \/ mb'[b].q = Append(mb[b].q, Stop) BY StopIs
<1>3. \A i \in 1 .. Len(mb'[b].q) : mb'[b].q[i].kind = "msg" =>
        i \in 1 .. Len(mb[b].q) /\ mb'[b].q[i] = mb[b].q[i]
  BY <1>1, <1>2 DEF Stop
<1> QED BY <1>3 DEF Heard

\* A step that changes inboxes, places and what is known, and takes no ticket.
LEMMA BoxesMove ==
  ASSUME HubInv, socks' = socks, stopping' = stopping, io' = io, arrived' = arrived, wake' = wake,
         fds' = fds, on' = on, handoffs' = handoffs, closes' = closes, entry' = entry,
         world' \in {world, "told"}, pc' \in [Actor -> ActorPlaces], BoxTypes',
         \A a \in Actor : /\ pc[a] = "dead" => pc'[a] = "dead"
                          /\ pc'[a] = "send" => pc[a] = "send",
         known \subseteq known', \A c \in known' \ known : c \in Conn /\ \E b \in Box : c \in Heard(b),
         \A b \in Box : Heard(b)' \subseteq Heard(b),
         \A s \in Sock : Deep(s) => Deep(s)'
  PROVE  HubInv'
<1>1. known' \subseteq Conn BY DEF HubInv, TypeOK, ActorTypes
<1>2. ActorTypes' /\ HubTypes'
  BY <1>1 DEF HubInv, TypeOK, ActorTypes, HubTypes, WorldPlaces
<1>3. \A x \in Actor : pc'[x] = "send" => on'[x] \in socks /\ Owner[on'[x]] = x /\ ~entry'[on'[x]].close_req
  BY DEF HubInv, SocksStand, At
<1>4. TypeOK' /\ Control' /\ Owing' /\ SocksStand' /\ WakesCome' BY <1>2, <1>3, ActorStep
<1>5. Accepted' = Accepted BY DEF Accepted
<1>6. \A c : Taken(c)' <=> Taken(c) BY DEF Taken
<1>7. known' \subseteq Accepted BY DEF HubInv, OwedOnce, ConnsStand
<1>8. ConnsStand' BY <1>5, <1>6, <1>7 DEF HubInv, ConnsStand
<1>9. \A s \in Sock : Owed(s) \cap known' = {} BY DEF HubInv, OwedOnce
<1>10. OwedOnce' BY <1>5, <1>9, OwedSame DEF HubInv
<1> QED BY <1>4, <1>8, <1>10 DEF HubInv

LEMMA ReceiveKeeps ==
  ASSUME HubInv, NEW a \in Actor, NEW b \in Box, Receive(a, b)
  PROVE  HubInv'
<1> DEFINE taken == IF mb[b].q # <<>> /\ TakenKind(mb[b]) = "msg" THEN {Head(mb[b].q).of} ELSE {}
<1>1. /\ socks' = socks /\ stopping' = stopping /\ io' = io /\ arrived' = arrived /\ wake' = wake
      /\ fds' = fds /\ on' = on /\ handoffs' = handoffs /\ closes' = closes /\ entry' = entry
      /\ world' = world /\ mb \in [Box -> Mailboxes] /\ pc \in [Actor -> ActorPlaces]
      /\ pc[a] = "run" /\ Holder[b] = a /\ ~mb[b].dead
      /\ mb' = [mb EXCEPT ![b] = Take(mb[b])] /\ known' = known \cup (taken \cap Conn)
  BY DEF HubInv, TypeOK, ActorTypes, BoxTypes, Receive, Calling, At
<1>2. pc' = [pc EXCEPT ![a] = IF mb[b].io_paused /\ taken # {} THEN "wake" ELSE "run"]
  BY DEF Receive, Goto
<1>3. \A x \in Box : mb'[x] = IF x = b THEN Take(mb[x]) ELSE mb[x] BY <1>1
<1>4. \A x \in Actor : pc'[x] = IF x # a THEN pc[x] ELSE
                                IF mb[b].io_paused /\ taken # {} THEN "wake" ELSE "run"
  BY <1>1, <1>2
<1>5. mb[b] \in Mailboxes /\ mb[b].q \in Seq(MailOf(Actor \cup Event))
  BY <1>1 DEF Mailboxes, MailboxOf
<1>6. taken \cap Conn \subseteq Heard(b)
  <2>1. SUFFICES ASSUME mb[b].q # <<>>, TakenKind(mb[b]) = "msg", Head(mb[b].q).of \in Conn
                 PROVE  Head(mb[b].q).of \in Heard(b)
    OBVIOUS
  <2>2. 1 \in 1 .. Len(mb[b].q) /\ Head(mb[b].q) = mb[b].q[1] BY <1>5, <2>1
  <2> QED BY <2>1, <2>2 DEF Heard, TakenKind
<1>7. BoxTypes'
  <2>1. Take(mb[b]) \in Mailboxes BY <1>5, TakeIs
  <2> QED BY <1>1, <2>1 DEF BoxTypes
<1>8. \A x \in Box : Heard(x)' \subseteq Heard(x)
  <2>1. TAKE x \in Box
  <2>2. CASE x = b BY <1>3, <1>5, <2>2, HeardAfterTake
  <2>3. CASE x # b BY <1>3, <2>3, SameHeard
  <2> QED BY <2>2, <2>3
<1>9. ASSUME NEW s \in Sock, Deep(s) PROVE Deep(s)'
  <2>1. CASE Into[s] # b
    <3>1. mb'[Into[s]] = mb[Into[s]] BY <1>3, <2>1, SortsAssumption
    <3>2. pc[Owner[s]] = "wake" => pc'[Owner[s]] = "wake" BY <1>1, <1>4, SortsAssumption
    <3> QED BY <1>1, <1>9, <3>1, <3>2, SameDeep
  <2>2. CASE Into[s] = b /\ mb[b].q # <<>> /\ TakenKind(mb[b]) = "msg"
    <3>1. Owner[s] = a BY <1>1, <2>2, SortsAssumption
    <3>2. wake \/ mb[b].io_paused BY <1>1, <1>9, <2>2, <3>1 DEF Deep, At
    <3>3. taken # {} BY <2>2
    <3> QED BY <1>1, <1>4, <3>1, <3>2, <3>3 DEF Deep, At
  <2>3. CASE Into[s] = b /\ ~(mb[b].q # <<>> /\ TakenKind(mb[b]) = "msg")
    <3>1. Owner[s] = a BY <1>1, <2>3, SortsAssumption
    <3>2. Take(mb[b]).messages = mb[b].messages /\ Take(mb[b]).io_paused = mb[b].io_paused
      BY <1>5, <2>3, TakeIs DEF TakenKind
    <3>3. mb'[b] = Take(mb[b]) BY <1>3
    <3>4. wake \/ (Full(mb[b], Capacity) /\ mb[b].io_paused) BY <1>1, <1>9, <2>3, <3>1 DEF Deep, At
    <3> QED BY <1>1, <2>3, <3>2, <3>3, <3>4 DEF Deep, Full
  <2> QED BY <2>1, <2>2, <2>3
<1>10. \A x \in Actor : /\ pc[x] = "dead" => pc'[x] = "dead"
                        /\ pc'[x] = "send" => pc[x] = "send"
  BY <1>1, <1>4
<1>11. pc' \in [Actor -> ActorPlaces] BY <1>1, <1>2 DEF ActorPlaces
<1> QED BY <1>1, <1>6, <1>7, <1>8, <1>9, <1>10, <1>11, BoxesMove

LEMMA CloseInboxKeeps ==
  ASSUME HubInv, NEW a \in Actor, NEW b \in Box, CloseInbox(a, b)
  PROVE  HubInv'
<1>1. /\ socks' = socks /\ stopping' = stopping /\ io' = io /\ arrived' = arrived /\ wake' = wake
      /\ fds' = fds /\ on' = on /\ handoffs' = handoffs /\ closes' = closes /\ entry' = entry
      /\ world' = world /\ pc' = pc /\ known' = known
      /\ mb \in [Box -> Mailboxes] /\ pc \in [Actor -> ActorPlaces]
      /\ mb' = [mb EXCEPT ![b] = Close(mb[b])]
  BY DEF HubInv, TypeOK, ActorTypes, BoxTypes, CloseInbox
<1>2. \A x \in Box : mb'[x] = IF x = b THEN Close(mb[x]) ELSE mb[x] BY <1>1
<1>3. Close(mb[b]) \in Mailboxes /\ Close(mb[b]).dead /\ Close(mb[b]).q = <<>> BY <1>1, CloseIs
<1>4. BoxTypes' BY <1>1, <1>3 DEF BoxTypes
<1>5. \A x \in Box : Heard(x)' \subseteq Heard(x)
  <2>1. Heard(b)' = {} BY <1>2, <1>3 DEF Heard
  <2>2. \A x \in Box : x # b => Heard(x)' = Heard(x) BY <1>2, SameHeard
  <2> QED BY <2>1, <2>2
<1>6. \A s \in Sock : Deep(s) => Deep(s)'
  BY <1>1, <1>2, <1>3, SortsAssumption DEF Deep, At
<1> QED BY <1>1, <1>4, <1>5, <1>6, BoxesMove

LEMMA EndBoxesKeeps ==
  ASSUME HubInv, NEW a \in Actor, EndBoxes(a)
  PROVE  HubInv'
<1>1. /\ socks' = socks /\ stopping' = stopping /\ io' = io /\ arrived' = arrived /\ wake' = wake
      /\ fds' = fds /\ on' = on /\ handoffs' = handoffs /\ closes' = closes /\ entry' = entry
      /\ world' = world /\ known' = known /\ pc[a] = "end_boxes"
      /\ mb \in [Box -> Mailboxes] /\ pc \in [Actor -> ActorPlaces]
      /\ mb' = [b \in Box |-> IF Holder[b] = a THEN Close(mb[b]) ELSE mb[b]]
      /\ pc' = [pc EXCEPT ![a] = "dead"]
  BY DEF HubInv, TypeOK, ActorTypes, BoxTypes, EndBoxes, At, Goto
<1>2. \A x \in Box : mb'[x] = IF Holder[x] = a THEN Close(mb[x]) ELSE mb[x] BY <1>1
<1>3. \A x \in Box : Close(mb[x]) \in Mailboxes /\ Close(mb[x]).dead /\ Close(mb[x]).q = <<>>
  BY <1>1, CloseIs
<1>4. BoxTypes' BY <1>1, <1>3 DEF BoxTypes
<1>5. \A x \in Box : Heard(x)' \subseteq Heard(x)
  <2>1. \A x \in Box : Holder[x] = a => Heard(x)' = {} BY <1>2, <1>3 DEF Heard
  <2>2. \A x \in Box : Holder[x] # a => Heard(x)' = Heard(x) BY <1>2, SameHeard
  <2> QED BY <2>1, <2>2
<1>6. ASSUME NEW s \in Sock, Deep(s) PROVE Deep(s)'
  <2>1. CASE Owner[s] = a
    <3>1. mb'[Into[s]].dead BY <1>2, <1>3, <2>1, SortsAssumption
    <3> QED BY <3>1 DEF Deep
  <2>2. CASE Owner[s] # a
    <3>1. mb'[Into[s]] = mb[Into[s]] BY <1>2, <2>2, SortsAssumption
    <3>2. pc'[Owner[s]] = pc[Owner[s]] BY <1>1, <2>2, SortsAssumption
    <3> QED BY <1>1, <1>6, <3>1, <3>2, SameDeep
  <2> QED BY <2>1, <2>2
<1>7. \A x \in Actor : /\ pc[x] = "dead" => pc'[x] = "dead"
                       /\ pc'[x] = "send" => pc[x] = "send"
  BY <1>1
<1>8. pc' \in [Actor -> ActorPlaces] BY <1>1 DEF ActorPlaces
<1> QED BY <1>1, <1>4, <1>5, <1>6, <1>7, <1>8, BoxesMove

LEMMA WorldStopKeeps ==
  ASSUME HubInv, WorldStop
  PROVE  HubInv'
<1>1. /\ socks' = socks /\ stopping' = stopping /\ io' = io /\ arrived' = arrived /\ wake' = wake
      /\ fds' = fds /\ on' = on /\ handoffs' = handoffs /\ closes' = closes /\ entry' = entry
      /\ world' = "told" /\ known' = known /\ pc' = pc
      /\ mb \in [Box -> Mailboxes] /\ pc \in [Actor -> ActorPlaces]
      /\ mb' = [b \in Box |-> Release(Put(mb[b], Stop))]
  BY DEF HubInv, TypeOK, ActorTypes, BoxTypes, WorldStop
<1>2. \A x \in Box : mb'[x] = Release(Put(mb[x], Stop)) BY <1>1
<1>3. \A x \in Box : /\ mb'[x] \in Mailboxes /\ mb'[x].dead = mb[x].dead
                     /\ mb'[x].messages = mb[x].messages /\ mb'[x].io_paused = mb[x].io_paused
  BY <1>1, <1>2, StopIs
<1>4. BoxTypes' BY <1>1, <1>3 DEF BoxTypes
<1>5. \A x \in Box : Heard(x)' \subseteq Heard(x) BY <1>1, <1>2, HeardAfterStop
<1>6. \A s \in Sock : Deep(s) => Deep(s)'
  BY <1>1, <1>3, SortsAssumption DEF Deep, At, Full
<1> QED BY <1>1, <1>4, <1>5, <1>6, BoxesMove

-----------------------------------------------------------------------------
(* The I/O thread between its turns to read, to send and to close.         *)

\* A step that moves the thread on and touches nothing else.
LEMMA ThreadMoves ==
  ASSUME HubInv, mb' = mb, pc' = pc, on' = on, fds' = fds, known' = known, entry' = entry,
         socks' = socks, stopping' = stopping, arrived' = arrived, handoffs' = handoffs,
         world' = world, closes' = closes, wake' \in BOOLEAN,
         io' \in IoState, io'.closing = io.closing, Control', Owing', WakesCome'
  PROVE  HubInv'
<1>1. TypeOK'
  <2>1. ActorTypes' /\ HubTypes' BY DEF HubInv, TypeOK, ActorTypes, HubTypes
  <2>2. Arriving' /\ BoxTypes' BY DEF HubInv, TypeOK, Arriving, BoxTypes
  <2> QED BY <2>1, <2>2 DEF TypeOK
<1>2. ConnsStand' /\ Accepted' = Accepted BY ConnsSame DEF HubInv
<1>3. SocksStand' BY SocksSame DEF HubInv, TypeOK, HubTypes, IoState
<1>4. \A b \in Box : Heard(b)' = Heard(b) BY SameHeard
<1>5. \A s \in Sock : Owed(s) \cap known' = {} BY DEF HubInv, OwedOnce
<1>6. OwedOnce' BY <1>2, <1>4, <1>5, OwedSame DEF HubInv
<1> QED BY <1>1, <1>2, <1>3, <1>6 DEF HubInv

LEMMA IoFlushNextKeeps ==
  ASSUME HubInv, NEW s \in Sock, IoFlushNext(s)
  PROVE  HubInv'
<1>1. /\ mb' = mb /\ pc' = pc /\ on' = on /\ fds' = fds /\ known' = known /\ entry' = entry
      /\ socks' = socks /\ stopping' = stopping /\ arrived' = arrived /\ handoffs' = handoffs
      /\ world' = world /\ closes' = closes /\ wake' = wake /\ wake \in BOOLEAN
      /\ io \in IoState /\ io.pc = "round" /\ s \in io.todo /\ io.closing = {}
      /\ io' = [io EXCEPT !.pc = "flush", !.cur = s, !.back = "round", !.todo = io.todo \ {s}]
  BY DEF HubInv, TypeOK, HubTypes, IoFlushNext, IoAt, actors
<1>2. /\ io' \in IoState /\ io'.pc = "flush" /\ io'.cur = s /\ io'.back = "round"
      /\ io'.todo = io.todo \ {s} /\ io'.live = io.live /\ io'.polled = io.polled
      /\ io'.closing = io.closing
  BY <1>1 DEF IoState, IoPlaces, Cursor
<1>3. s \in io.live BY <1>1 DEF HubInv, Control
<1>4. Control'
  BY <1>1, <1>2, <1>3 DEF HubInv, Control, InRound, IoAt, At
<1>5. Owing' BY <1>1, <1>2 DEF HubInv, Owing, IoAt
<1>6. WakesCome'
  BY <1>1, <1>2 DEF HubInv, WakesCome, InRound, IoAt, Deep, At
<1> QED BY <1>1, <1>2, <1>4, <1>5, <1>6, ThreadMoves

LEMMA IoWatchKeeps ==
  ASSUME HubInv, IoWatch
  PROVE  HubInv'
<1> DEFINE watched == {s \in io.live : ~entry[s].paused /\ ~entry[s].done}
<1>1. /\ mb' = mb /\ pc' = pc /\ on' = on /\ fds' = fds /\ known' = known /\ entry' = entry
      /\ socks' = socks /\ stopping' = stopping /\ arrived' = arrived /\ handoffs' = handoffs
      /\ world' = world /\ closes' = closes /\ wake' = wake /\ wake \in BOOLEAN
      /\ io \in IoState /\ io.pc = "round" /\ io.todo = {} /\ io.closing = {}
      /\ io' = [io EXCEPT !.pc = "poll", !.polled = watched]
  BY DEF HubInv, TypeOK, HubTypes, IoWatch, IoAt, actors
<1>2. /\ io' \in IoState /\ io'.pc = "poll" /\ io'.cur = io.cur /\ io'.back = io.back
      /\ io'.todo = io.todo /\ io'.live = io.live /\ io'.polled \subseteq io.live
      /\ io'.closing = io.closing
  BY <1>1 DEF IoState, IoPlaces
<1>4. Control' BY <1>1, <1>2 DEF HubInv, Control, InRound, IoAt, At
<1>5. Owing' BY <1>1, <1>2 DEF HubInv, Owing, IoAt
<1>6. WakesCome' BY <1>1, <1>2 DEF HubInv, WakesCome, InRound, IoAt, Deep, At
<1> QED BY <1>1, <1>2, <1>4, <1>5, <1>6, ThreadMoves

\* The steps after which the thread is no more in the round it began.
LEMMA RoundIsOver ==
  ASSUME HubInv, IoPoll \/ IoDrain \/ AcceptEnds \/ \E s \in Sock : AcceptBegin(s)
  PROVE  HubInv'
<1>1. /\ mb' = mb /\ pc' = pc /\ on' = on /\ fds' = fds /\ known' = known /\ entry' = entry
      /\ socks' = socks /\ stopping' = stopping /\ arrived' = arrived /\ handoffs' = handoffs
      /\ world' = world /\ closes' = closes /\ wake' \in BOOLEAN /\ io \in IoState
  BY DEF HubInv, TypeOK, HubTypes, IoPoll, IoDrain, AcceptEnds, AcceptBegin, actors
<1>2. io.pc \in {"poll", "drain", "ready", "accept"}
  BY DEF IoPoll, IoDrain, AcceptEnds, AcceptBegin, IoAt
<1>3. io.todo = {} /\ io.closing = {}
  BY <1>2 DEF HubInv, Control, InRound, IoAt
<1>4. /\ io' \in IoState /\ io'.live = io.live /\ io'.closing = io.closing /\ io'.todo = io.todo
      /\ io'.polled \subseteq io.polled /\ io'.pc \in {"drain", "ready", "accept"}
      /\ \A s \in io'.polled : Readable(s)
      /\ io'.pc = "accept" => io'.cur \in io.live /\ io'.cur \in Listener \ io'.polled
  <2>1. CASE IoPoll
    <3> DEFINE ready == {s \in io.polled : Readable(s)}
    <3>1. /\ io' = [io EXCEPT !.pc = IF wake THEN "drain" ELSE "ready", !.polled = ready]
          /\ ready \subseteq io.polled /\ \A s \in ready : Readable(s)
      BY <2>1 DEF IoPoll
    <3> HIDE DEF ready
    <3> QED BY <1>1, <3>1 DEF IoState, IoPlaces
  <2>2. CASE IoDrain
    <3>1. io' = [io EXCEPT !.pc = "ready"] /\ io.pc = "drain" BY <2>2 DEF IoDrain, IoAt
    <3>2. \A s \in io.polled : Readable(s) BY <3>1 DEF HubInv, Control, IoAt
    <3> QED BY <1>1, <3>1, <3>2 DEF IoState, IoPlaces
  <2>3. CASE AcceptEnds
    <3>1. io' = Idle("ready") /\ io.pc = "accept" BY <2>3 DEF AcceptEnds, IoAt
    <3>2. \A s \in io.polled : Readable(s) BY <3>1 DEF HubInv, Control, IoAt
    <3> QED BY <1>1, <3>1, <3>2 DEF IoState, IoPlaces, Idle, Cursor
  <2>4. CASE \E s \in Sock : AcceptBegin(s)
    <3>1. PICK s \in Sock : AcceptBegin(s) BY <2>4
    <3>2. /\ io' = [io EXCEPT !.pc = "accept", !.cur = s, !.k = 0, !.polled = io.polled \ {s}]
          /\ s \in io.polled \cap Listener /\ io.pc = "ready"
      BY <3>1 DEF AcceptBegin, IoAt
    <3>3. (\A t \in io.polled : Readable(t)) /\ s \in io.live BY <3>2 DEF HubInv, Control, IoAt
    <3> QED BY <1>1, <3>2, <3>3 DEF IoState, IoPlaces, Cursor
  <2> QED BY <2>1, <2>2, <2>3, <2>4
<1>5. \A s : Readable(s)' <=> Readable(s) BY <1>1 DEF Readable
<1>6. Control'
  <2>1. \A s \in io'.polled : Readable(s)' BY <1>4, <1>5
  <2>2. io'.live \subseteq socks' /\ io'.todo = {} /\ io'.polled \subseteq io'.live /\ io'.closing = {}
    BY <1>1, <1>3, <1>4 DEF HubInv, Control
  <2>3. /\ world \in {"stop_wake", "join", "gone"} => \A a \in Actor : At(a, "dead")'
        /\ world \in {"stop_wake", "join", "gone"} => stopping
        /\ world = "gone" => socks = {}
    BY <1>1, <1>2 DEF HubInv, Control, At, IoAt
  <2> HIDE DEF Readable, At
  <2> QED BY <1>1, <1>4, <2>1, <2>2, <2>3 DEF Control, IoAt
<1>7. Owing' BY <1>1, <1>3, <1>4 DEF HubInv, Owing, IoAt
<1>8. WakesCome' BY <1>4 DEF WakesCome, InRound, IoAt
<1> QED BY <1>1, <1>4, <1>6, <1>7, <1>8, ThreadMoves

\* IoHub::stop, and what a peer does.
LEMMA OutsideKeeps ==
  ASSUME HubInv, HubStop \/ HubStopWake \/ \E s \in Sock : PeerActs(s)
  PROVE  HubInv'
<1>1. /\ mb' = mb /\ pc' = pc /\ on' = on /\ fds' = fds /\ known' = known /\ entry' = entry
      /\ socks' = socks /\ handoffs' = handoffs /\ closes' = closes /\ io' = io /\ io \in IoState
  BY DEF HubInv, TypeOK, HubStop, HubStopWake, PeerActs, actors
<1>2. wake => wake' BY DEF HubStop, HubStopWake, PeerActs
<1>3. /\ arrived \in [Sock -> Nat] /\ arrived' \in [Sock -> Nat]
      /\ \A s \in Sock : arrived'[s] <= Len(Arrives[s]) /\ arrived'[s] >= arrived[s]
  <2>1. arrived \in [Sock -> Nat] /\ \A s \in Sock : arrived[s] <= Len(Arrives[s])
    BY DEF HubInv, TypeOK, Arriving
  <2>2. CASE arrived' = arrived BY <2>1, <2>2
  <2>3. CASE \E s \in Sock : PeerActs(s)
    <3>1. PICK s \in Sock : /\ arrived[s] < Len(Arrives[s])
                            /\ arrived' = [arrived EXCEPT ![s] = arrived[s] + 1]
      BY <2>3 DEF PeerActs
    <3>2. Len(Arrives[s]) \in Nat BY ArrivesAssumption
    <3> QED BY <2>1, <3>1, <3>2
  <2> QED BY <2>2, <2>3 DEF HubStop, HubStopWake
<1>4. TypeOK'
  <2>1. ActorTypes' BY <1>1 DEF HubInv, TypeOK, ActorTypes
  <2>2. HubTypes' BY <1>1 DEF HubInv, TypeOK, HubTypes, HubStop, HubStopWake, PeerActs, WorldPlaces
  <2>3. Arriving' /\ BoxTypes'
    BY <1>1, <1>3 DEF HubInv, TypeOK, Arriving, BoxTypes, HubTypes, EntryState
  <2> QED BY <1>1, <2>1, <2>2, <2>3 DEF TypeOK
<1>5. \A s \in io.polled : Readable(s) => Readable(s)'
  BY <1>1, <1>3 DEF Readable, IoState, HubInv, TypeOK, HubTypes, EntryState
<1>6. InRound' <=> InRound BY <1>1 DEF InRound, IoAt
<1>7. Control'
  BY <1>1, <1>5, <1>6 DEF HubInv, Control, IoAt, At, HubStop, HubStopWake, PeerActs
<1>8. Owing' BY <1>1 DEF HubInv, Owing, IoAt
<1>9. WakesCome'
  <2>1. \A s \in io.live : Deep(s) => Deep(s)' BY <1>1, <1>2 DEF Deep, At
  <2>2. world' = "join" /\ InRound => wake'
    BY <1>2, <1>6 DEF HubInv, WakesCome, HubStop, HubStopWake, PeerActs, InRound, IoAt
  <2> QED BY <1>1, <1>6, <2>1, <2>2 DEF HubInv, WakesCome, IoAt
<1>10. ConnsStand' /\ Accepted' = Accepted BY <1>1, ConnsSame DEF HubInv
<1>11. SocksStand' BY <1>1, SocksSame DEF HubInv, TypeOK, HubTypes, IoState
<1>12. \A b \in Box : Heard(b)' = Heard(b) BY <1>1, SameHeard
<1>13. \A s \in Sock : Owed(s) \cap known' = {} BY <1>1 DEF HubInv, OwedOnce
<1>14. OwedOnce' BY <1>1, <1>10, <1>12, <1>13, OwedSame DEF HubInv
<1> QED BY <1>4, <1>7, <1>8, <1>9, <1>10, <1>11, <1>14 DEF HubInv

-----------------------------------------------------------------------------
(* What is closed.                                                         *)

LEMMA IoTopKeeps ==
  ASSUME HubInv, IoTop
  PROVE  HubInv'
<1> DEFINE asked == {s \in socks : entry[s].close_req}
           open == socks \ asked
           owing == {s \in open : entry[s].paused \/ entry[s].pending # <<>>}
<1>1. /\ mb' = mb /\ pc' = pc /\ on' = on /\ fds' = fds /\ known' = known /\ entry' = entry
      /\ stopping' = stopping /\ arrived' = arrived /\ handoffs' = handoffs
      /\ world' = world /\ closes' = closes /\ wake' = wake
      /\ io \in IoState /\ io.pc = "ready" /\ io.polled = {}
      /\ socks \subseteq Sock /\ socks' = IF stopping THEN socks ELSE open
  BY DEF HubInv, TypeOK, HubTypes, IoTop, IoAt, actors
<1>2. io.todo = {} /\ io.closing = {} BY <1>1 DEF HubInv, Control, InRound, IoAt
<1>3. CASE stopping
  <2>1. io' = [io EXCEPT !.pc = "ended", !.live = {}] BY <1>3 DEF IoTop
  <2>2. /\ io' \in IoState /\ io'.pc = "ended" /\ io'.live = {} /\ io'.todo = {}
        /\ io'.polled = {} /\ io'.closing = io.closing
    BY <1>1, <1>2, <2>1 DEF IoState, IoPlaces
  <2>3. Control' BY <1>1, <1>2, <1>3, <2>2 DEF HubInv, Control, InRound, IoAt, At
  <2>4. Owing' BY <1>1, <2>2 DEF HubInv, Owing, IoAt
  <2>5. WakesCome' BY <2>2 DEF WakesCome, InRound, IoAt
  <2> QED BY <1>1, <1>3, <2>2, <2>3, <2>4, <2>5, ThreadMoves DEF HubInv, TypeOK, HubTypes
<1>4. CASE ~stopping
  <2>1. io' = [io EXCEPT !.pc = "round", !.closing = asked, !.live = open, !.todo = owing]
    BY <1>4 DEF IoTop
  <2>2. asked \subseteq Sock /\ open \subseteq Sock /\ owing \subseteq Sock BY <1>1
  <2>3. /\ io' \in IoState /\ io'.pc = "round" /\ io'.live = open /\ io'.todo = owing
        /\ io'.polled = {} /\ io'.closing = asked
    BY <1>1, <2>1, <2>2 DEF IoState, IoPlaces
  <2>4. socks' = open BY <1>1, <1>4
  <2>5. TypeOK'
    <3>1. ActorTypes' /\ HubTypes' BY <1>1, <2>2, <2>4 DEF HubInv, TypeOK, ActorTypes, HubTypes
    <3>2. Arriving' /\ BoxTypes' BY <1>1 DEF HubInv, TypeOK, Arriving, BoxTypes
    <3> QED BY <2>3, <3>1, <3>2 DEF TypeOK
  <2>6. ~(world \in {"stop_wake", "join", "gone"}) BY <1>1, <1>4 DEF HubInv, Control, IoAt
  <2>7. Control' BY <1>1, <2>3, <2>4, <2>6 DEF Control, InRound, IoAt
  <2>8. Owing' BY <1>1, <2>3 DEF HubInv, Owing, IoAt
  <2>9. Standing' = Standing BY <1>2, <2>3, <2>4 DEF Standing
  <2>10. SocksStand'
    <3>1. \A a \in Actor : At(a, "send") => on[a] \in open BY DEF HubInv, SocksStand
    <3> QED BY <1>1, <2>3, <2>4, <2>9, <3>1 DEF HubInv, SocksStand, At
  <2>11. ConnsStand' /\ Accepted' = Accepted BY <1>1, ConnsSame DEF HubInv
  <2>12. OwedOnce'
    <3>1. \A s \in Sock : Owed(s)' = Owed(s) /\ ReadOf(s)' = ReadOf(s)
      BY <1>1 DEF Owed, ReadOf
    <3>2. \A b \in Box : Heard(b)' = Heard(b) BY <1>1, SameHeard
    <3> HIDE DEF Owed, ReadOf, Heard
    <3> QED BY <1>1, <2>9, <2>11, <3>1, <3>2 DEF HubInv, OwedOnce
  <2>13. WakesCome' BY <1>1, <2>3, <2>6 DEF WakesCome, IoAt
  <2> QED BY <2>5, <2>7, <2>8, <2>10, <2>11, <2>12, <2>13 DEF HubInv
<1> QED BY <1>3, <1>4

\* The connections whose tickets an entry carries are those it owes, while it stands.
LEMMA TicketsAreOwed ==
  ASSUME HubInv, NEW s \in Sock
  PROVE  /\ Tickets(s) = Owed(s) \cap handoffs
         /\ s \in Standing => Tickets(s) = Owed(s)
         /\ Tickets(s) \subseteq Conn
<1>1. entry[s].pending \in Seq(Event) /\ handoffs \subseteq Conn
  BY DEF HubInv, TypeOK, HubTypes, EntryState
<1>2. ToSet(entry[s].pending) \cap Conn = Owed(s) BY <1>1 DEF ToSet, Owed
<1>3. s \notin Listener => Owed(s) = {} BY DEF HubInv, OwedOnce
<1>4. Tickets(s) = Owed(s) \cap handoffs
  <2>1. CASE s \in Listener BY <1>1, <1>2, <2>1 DEF Tickets
  <2>2. CASE s \notin Listener BY <1>3, <2>2 DEF Tickets
  <2> QED BY <2>1, <2>2
<1>5. s \in Standing => Owed(s) \subseteq handoffs BY DEF HubInv, OwedOnce
<1> QED BY <1>1, <1>4, <1>5

\* accept returns a connection once, so one listener at most owes it.
LEMMA OwedByOne ==
  ASSUME HubInv, NEW s \in Sock, NEW t \in Sock, NEW c \in Owed(s), c \in Owed(t)
  PROVE  s = t
<1>1. /\ s \in Listener /\ t \in Listener /\ c \in ReadOf(s) /\ c \in ReadOf(t)
  BY DEF HubInv, OwedOnce
<1>2. PICK i \in 1 .. entry[s].reads : Arrives[s][i].events = <<c>> BY <1>1 DEF ReadOf
<1>3. PICK j \in 1 .. entry[t].reads : Arrives[t][j].events = <<c>> BY <1>1 DEF ReadOf
<1>4. i \in 1 .. Len(Arrives[s]) /\ j \in 1 .. Len(Arrives[t])
  <2>1. /\ entry[s].reads <= Len(Arrives[s]) /\ entry[t].reads <= Len(Arrives[t])
        /\ entry[s].reads \in Nat /\ entry[t].reads \in Nat
    BY ArrivesAssumption DEF HubInv, TypeOK, Arriving, HubTypes, EntryState
  <2> QED BY <2>1
<1>5. c \in Conn BY DEF Owed
<1> QED BY <1>1, <1>2, <1>3, <1>4, <1>5, AcceptAssumption

\* Tickets that are dropped close their connections.
LEMMA DropTickets ==
  ASSUME HubInv, NEW D, D \subseteq handoffs, D \cap known = {},
         fds' = fds, known' = known, handoffs' = handoffs \ D,
         \A c \in Conn : closes'[c] = closes[c] + (IF c \in D THEN 1 ELSE 0),
         \A s \in Sock : entry'[s].reads = entry[s].reads
  PROVE  ConnsStand' /\ Accepted' = Accepted
<1>1. \A s \in Listener : entry'[s].reads = entry[s].reads BY SortsAssumption
<1>2. Accepted' = Accepted BY <1>1 DEF Accepted
<1>3. \A c : Taken(c)' <=> Taken(c) BY DEF Taken
<1>4. \A c \in Conn : Taken(c) => c \in known BY DEF HubInv, ConnsStand, Taken
<1>5. \A c \in Conn : closes'[c] = IF c \in Accepted /\ c \notin handoffs' /\ ~Taken(c) THEN 1 ELSE 0
  BY <1>4 DEF HubInv, ConnsStand
<1> QED BY <1>2, <1>3, <1>5 DEF HubInv, ConnsStand

LEMMA IoCloseKeeps ==
  ASSUME HubInv, NEW s \in Sock, IoClose(s)
  PROVE  HubInv'
<1>1. /\ mb' = mb /\ pc' = pc /\ on' = on /\ fds' = fds /\ known' = known /\ entry' = entry
      /\ stopping' = stopping /\ arrived' = arrived /\ handoffs' = handoffs \ Tickets(s)
      /\ world' = world /\ wake' = wake /\ socks' = socks /\ socks \subseteq Sock
      /\ io \in IoState /\ io.pc = "round" /\ s \in io.closing
      /\ io' = [io EXCEPT !.closing = io.closing \ {s}]
      /\ closes \in [Sock \cup Conn -> Nat]
      /\ closes' = [x \in Sock \cup Conn |-> closes[x] + (IF x \in {s} \cup Tickets(s) THEN 1 ELSE 0)]
  BY DEF HubInv, TypeOK, HubTypes, IoClose, IoAt, actors, Closed
<1>2. /\ io' \in IoState /\ io'.pc = "round" /\ io'.live = io.live /\ io'.todo = io.todo
      /\ io'.polled = io.polled /\ io'.closing = io.closing \ {s} /\ io'.back = io.back /\ io'.cur = io.cur
  BY <1>1 DEF IoState
<1>3. Tickets(s) = Owed(s) /\ Tickets(s) \subseteq Conn BY <1>1, TicketsAreOwed DEF Standing
<1>4. closes' \in [Sock \cup Conn -> Nat] BY <1>1
<1>5. TypeOK'
  <2>1. ActorTypes' /\ HubTypes' BY <1>1, <1>4 DEF HubInv, TypeOK, ActorTypes, HubTypes
  <2>2. Arriving' /\ BoxTypes' BY <1>1 DEF HubInv, TypeOK, Arriving, BoxTypes
  <2> QED BY <1>2, <2>1, <2>2 DEF TypeOK
<1>6. Control' BY <1>1, <1>2 DEF HubInv, Control, InRound, IoAt, At
<1>7. Owing' BY <1>1, <1>2 DEF HubInv, Owing, IoAt
<1>8. Standing' = Standing \ {s} /\ s \in Standing
  BY <1>1, <1>2 DEF HubInv, SocksStand, Standing
<1>9. SocksStand'
  <2>1. \A t \in Sock : closes'[t] = closes[t] + (IF t = s THEN 1 ELSE 0)
    BY <1>1, <1>3, SortsAssumption
  <2>2. \A t \in Sock : closes[t] = IF entry[t].active /\ t \notin Standing THEN 1 ELSE 0
    BY DEF HubInv, SocksStand
  <2>3. entry[s].active BY <1>8 DEF HubInv, SocksStand
  <2>4. \A t \in Sock : closes'[t] = IF entry[t].active /\ t \notin Standing' THEN 1 ELSE 0
    BY <1>8, <2>1, <2>2, <2>3
  <2> QED BY <1>1, <1>2, <1>8, <2>4 DEF HubInv, SocksStand, At
<1>10. ConnsStand' /\ Accepted' = Accepted
  <2>1. Owed(s) \cap known = {} BY DEF HubInv, OwedOnce
  <2>2. Tickets(s) \subseteq handoffs BY TicketsAreOwed
  <2>3. \A c \in Conn : closes'[c] = closes[c] + (IF c \in Tickets(s) THEN 1 ELSE 0)
    BY <1>1, SortsAssumption
  <2> HIDE DEF Tickets
  <2> QED BY <1>1, <1>3, <2>1, <2>2, <2>3, DropTickets
<1>11. OwedOnce'
  <2>1. \A t \in Sock : Owed(t)' = Owed(t) /\ ReadOf(t)' = ReadOf(t) BY <1>1 DEF Owed, ReadOf
  <2>2. \A b \in Box : Heard(b)' = Heard(b) BY <1>1, SameHeard
  <2>3. \A t \in Sock : t # s => Owed(t) \cap Owed(s) = {} BY OwedByOne
  <2>4. \A t \in Sock : IF t \in Standing' THEN Owed(t) \subseteq handoffs' ELSE Owed(t) \cap handoffs' = {}
    BY <1>1, <1>3, <1>8, <2>3 DEF HubInv, OwedOnce
  <2> HIDE DEF Owed, ReadOf, Heard
  <2> QED BY <1>1, <1>10, <2>1, <2>2, <2>4 DEF HubInv, OwedOnce
<1>12. WakesCome' BY <1>1, <1>2 DEF HubInv, WakesCome, InRound, IoAt, Deep, At
<1> QED BY <1>5, <1>6, <1>7, <1>9, <1>10, <1>11, <1>12 DEF HubInv

LEMMA HubJoinedKeeps ==
  ASSUME HubInv, HubJoined
  PROVE  HubInv'
<1>1. /\ mb' = mb /\ pc' = pc /\ on' = on /\ fds' = fds /\ known' = known /\ entry' = entry
      /\ stopping' = stopping /\ arrived' = arrived /\ handoffs' = {} /\ socks' = {}
      /\ world' = "gone" /\ world = "join" /\ wake' = wake /\ io' = io
      /\ socks \subseteq Sock /\ handoffs \subseteq Conn
      /\ io \in IoState /\ io.pc \in {"none", "ended"}
      /\ closes \in [Sock \cup Conn -> Nat]
      /\ closes' = [x \in Sock \cup Conn |-> closes[x] + (IF x \in socks \cup handoffs THEN 1 ELSE 0)]
  BY DEF HubInv, TypeOK, HubTypes, HubJoined, actors, Closed
<1>2. io.live = {} /\ io.closing = {} /\ io.todo = {} /\ io.polled = {} /\ Standing = socks
  BY <1>1 DEF HubInv, Control, IoAt, Standing
<1>3. closes' \in [Sock \cup Conn -> Nat] BY <1>1
<1>4. TypeOK'
  <2>1. ActorTypes' /\ HubTypes' BY <1>1, <1>3 DEF HubInv, TypeOK, ActorTypes, HubTypes, WorldPlaces
  <2>2. Arriving' /\ BoxTypes' BY <1>1 DEF HubInv, TypeOK, Arriving, BoxTypes
  <2> QED BY <1>1, <2>1, <2>2 DEF HubInv, TypeOK
<1>5. \A a \in Actor : At(a, "dead")' BY <1>1 DEF HubInv, Control, At
<1>6. Control'
  <2>1. ~IoAt("none") => stopping BY <1>1 DEF HubInv, Control
  <2> QED BY <1>1, <1>2, <1>5, <2>1 DEF Control, IoAt
<1>7. Owing' BY <1>1, <1>2 DEF HubInv, Owing, IoAt
<1>8. SocksStand'
  <2>1. \A t \in Sock : closes'[t] = closes[t] + (IF t \in socks THEN 1 ELSE 0)
    BY <1>1, SortsAssumption
  <2>2. Standing' = {} BY <1>1, <1>2 DEF Standing
  <2>3. \A t \in Sock : closes'[t] = IF entry[t].active THEN 1 ELSE 0
    BY <1>2, <2>1 DEF HubInv, SocksStand
  <2>4. \A a \in Actor : ~At(a, "send")' BY <1>5 DEF At
  <2> QED BY <1>1, <2>2, <2>3, <2>4 DEF SocksStand
<1>9. Accepted' = Accepted BY <1>1 DEF Accepted
<1>10. ConnsStand'
  <2>1. \A c : Taken(c)' <=> Taken(c) BY <1>1 DEF Taken
  <2>2. \A c \in Conn : closes'[c] = closes[c] + (IF c \in handoffs THEN 1 ELSE 0)
    BY <1>1, SortsAssumption
  <2>3. \A c \in Conn : c \in handoffs => ~Taken(c) /\ c \in Accepted
    BY DEF HubInv, ConnsStand, Taken
  <2>4. \A c \in Conn : closes'[c] = IF c \in Accepted /\ ~Taken(c) THEN 1 ELSE 0
    BY <2>2, <2>3 DEF HubInv, ConnsStand
  <2> QED BY <1>1, <1>9, <2>1, <2>4 DEF HubInv, ConnsStand
<1>11. OwedOnce'
  <2>1. \A t \in Sock : Owed(t)' = Owed(t) /\ ReadOf(t)' = ReadOf(t) BY <1>1 DEF Owed, ReadOf
  <2>2. \A b \in Box : Heard(b)' = Heard(b) BY <1>1, SameHeard
  <2>3. Standing' = {} BY <1>1, <1>2 DEF Standing
  <2> HIDE DEF Owed, ReadOf, Heard
  <2> QED BY <1>1, <1>9, <2>1, <2>2, <2>3 DEF HubInv, OwedOnce
<1>12. WakesCome' BY <1>1 DEF WakesCome, InRound, IoAt
<1> QED BY <1>4, <1>6, <1>7, <1>8, <1>10, <1>11, <1>12 DEF HubInv

-----------------------------------------------------------------------------
(* What is read.                                                           *)

\* The framing of a read adds its events, unless the stream has ended.
LEMMA FrameIs ==
  ASSUME NEW e \in EntryState, NEW chunk \in Chunk, NEW f, f = Frame(e, chunk)
  PROVE  /\ f \in EntryState /\ f.active = e.active /\ f.close_req = e.close_req
         /\ f.paused = e.paused /\ f.reads = e.reads
         /\ f.pending = IF e.done THEN e.pending ELSE e.pending \o chunk.events
<1>1. e.pending \in Seq(Event) /\ chunk.events \in Seq(Event) /\ chunk.last \in BOOLEAN
  BY DEF EntryState, Chunk
<1>2. e.pending \o chunk.events \in Seq(Event) BY <1>1
<1>3. CASE e.done BY <1>3 DEF Frame
<1>4. CASE ~e.done
  <2>1. f = [e EXCEPT !.pending = e.pending \o chunk.events, !.done = chunk.last]
    BY <1>4 DEF Frame
  <2> QED BY <1>1, <1>2, <1>4, <2>1 DEF EntryState
<1> QED BY <1>3, <1>4

\* The entry after a read of it.
LEMMA ReadIs ==
  ASSUME NEW e \in EntryState, NEW chunk \in Chunk, NEW f,
         f = [Frame(e, chunk) EXCEPT !.reads = e.reads + 1]
  PROVE  /\ f \in EntryState /\ f.active = e.active /\ f.close_req = e.close_req
         /\ f.paused = e.paused /\ f.reads = e.reads + 1
         /\ f.pending = IF e.done THEN e.pending ELSE e.pending \o chunk.events
<1>1. PICK g \in EntryState : /\ g = Frame(e, chunk)
                              /\ g.active = e.active /\ g.close_req = e.close_req
                              /\ g.paused = e.paused /\ g.reads = e.reads
                              /\ g.pending = IF e.done THEN e.pending ELSE e.pending \o chunk.events
  BY FrameIs
<1>2. f = [g EXCEPT !.reads = e.reads + 1] BY <1>1
<1>3. e.reads + 1 \in Nat BY DEF EntryState
<1> QED BY <1>1, <1>2, <1>3 DEF EntryState

\* Events that are no connections leave what a socket owes.
LEMMA DataOwesNothing ==
  ASSUME NEW s \in Sock, entry[s].pending \in Seq(Event), NEW new \in Seq(Data),
         entry'[s].pending \in {entry[s].pending, entry[s].pending \o new}
  PROVE  /\ entry[s].pending # <<>> => entry'[s].pending # <<>>
         /\ \A i \in 1 .. Len(entry'[s].pending) : entry'[s].pending[i] \in Conn =>
              i \in 1 .. Len(entry[s].pending) /\ entry'[s].pending[i] = entry[s].pending[i]
         /\ Owed(s)' = Owed(s)
<1> DEFINE p == entry[s].pending
           q == entry'[s].pending
<1>1. CASE q = p BY <1>1 DEF Owed
<1>2. CASE q = p \o new
  <2>1. \A i \in 1 .. Len(new) : new[i] \notin Conn BY SortsAssumption
  <2>2. /\ Len(q) = Len(p) + Len(new) /\ Len(p) \in Nat /\ Len(new) \in Nat
        /\ \A i \in 1 .. Len(q) : q[i] = IF i <= Len(p) THEN p[i] ELSE new[i - Len(p)]
    BY <1>2
  <2>3. p # <<>> => Len(p) > 0 OBVIOUS
  <2>4. p # <<>> => q # <<>> BY <2>2, <2>3
  <2>5. ASSUME NEW i \in 1 .. Len(q), q[i] \in Conn PROVE i \in 1 .. Len(p) /\ q[i] = p[i]
    <3>1. CASE i <= Len(p) BY <2>2, <3>1
    <3>2. CASE ~(i <= Len(p))
      <4>1. i - Len(p) \in 1 .. Len(new) BY <2>2, <3>2
      <4>2. q[i] = new[i - Len(p)] BY <2>2, <3>2
      <4> QED BY <2>1, <2>5, <4>1, <4>2
    <3> QED BY <3>1, <3>2
  <2>6. \A i \in 1 .. Len(p) : i \in 1 .. Len(q) /\ q[i] = p[i] BY <2>2
  <2>7. Owed(s)' = {c \in Conn : \E i \in 1 .. Len(q) : q[i] = c}
        /\ Owed(s) = {c \in Conn : \E i \in 1 .. Len(p) : p[i] = c}
    BY DEF Owed
  <2> HIDE DEF p, q
  <2>8. Owed(s)' = Owed(s) BY <2>5, <2>6, <2>7
  <2> QED BY <2>4, <2>5, <2>8 DEF p, q
<1> QED BY <1>1, <1>2

\* No connection comes with the reads of a stream, so what is owed stays as it was.
LEMMA StreamOwes ==
  ASSUME HubInv, NEW s \in Sock, NEW new \in Seq(Data),
         entry'[s].pending \in {entry[s].pending, entry[s].pending \o new},
         Owed(s) # {} => entry'[s].active /\ ReadOf(s) \subseteq ReadOf(s)',
         \A t \in Sock : t # s => entry'[t] = entry[t],
         handoffs' = handoffs, known' = known, mb' = mb, Accepted' = Accepted,
         Owed(s) = {} \/ (s \in Standing' <=> s \in Standing),
         \A t \in Sock : t # s => (t \in Standing' <=> t \in Standing)
  PROVE  OwedOnce'
<1>1. \A t \in Sock : entry[t].pending \in Seq(Event)
  BY DEF HubInv, TypeOK, HubTypes, EntryState
<1>2. /\ \A i \in 1 .. Len(entry'[s].pending) : entry'[s].pending[i] \in Conn =>
           i \in 1 .. Len(entry[s].pending) /\ entry'[s].pending[i] = entry[s].pending[i]
      /\ Owed(s)' = Owed(s)
  BY <1>1, DataOwesNothing
<1>3. \A t \in Sock : Owed(t)' = Owed(t)
  <2>1. \A t \in Sock : t # s => Owed(t)' = Owed(t) BY DEF Owed
  <2> QED BY <1>2, <2>1
<1>4. \A t \in Sock : t # s => ReadOf(t)' = ReadOf(t) BY DEF ReadOf
<1>5. \A b \in Box : Heard(b)' = Heard(b) BY SameHeard
<1>6. \A t \in Sock : \A i, j \in 1 .. Len(entry'[t].pending) :
        entry'[t].pending[i] \in Conn /\ entry'[t].pending[i] = entry'[t].pending[j] => i = j
  <2>1. SUFFICES ASSUME NEW t \in Sock, NEW i \in 1 .. Len(entry'[t].pending),
                        NEW j \in 1 .. Len(entry'[t].pending),
                        entry'[t].pending[i] \in Conn, entry'[t].pending[i] = entry'[t].pending[j]
                 PROVE  i = j
    OBVIOUS
  <2>2. \A x, y \in 1 .. Len(entry[t].pending) :
          entry[t].pending[x] \in Conn /\ entry[t].pending[x] = entry[t].pending[y] => x = y
    BY DEF HubInv, OwedOnce
  <2>3. CASE t = s BY <1>2, <2>1, <2>2, <2>3
  <2>4. CASE t # s
    <3>1. entry'[t] = entry[t] BY <2>4
    <3> QED BY <2>1, <2>2, <3>1
  <2> QED BY <2>3, <2>4
<1> HIDE DEF Owed, ReadOf, Heard, Standing
<1>7. \A t \in Sock : Owed(t)' # {} =>
        t \in Listener /\ entry'[t].active /\ Owed(t)' \subseteq ReadOf(t)'
  BY <1>3, <1>4 DEF HubInv, OwedOnce
<1>8. \A t \in Sock : IF t \in Standing' THEN Owed(t)' \subseteq handoffs'
                                         ELSE Owed(t)' \cap handoffs' = {}
  BY <1>3 DEF HubInv, OwedOnce
<1> QED BY <1>3, <1>5, <1>6, <1>7, <1>8 DEF HubInv, OwedOnce

LEMMA ActivatedEntry ==
  ASSUME NEW e \in EntryState, NEW f, f = [e EXCEPT !.active = TRUE]
  PROVE  /\ f \in EntryState /\ f.active /\ f.close_req = e.close_req /\ f.pending = e.pending
         /\ f.paused = e.paused /\ f.done = e.done /\ f.reads = e.reads
BY DEF EntryState

LEMMA ActivateKeeps ==
  ASSUME HubInv, NEW a \in Actor, NEW s \in Sock, Activate(a, s)
  PROVE  HubInv'
<1>1. /\ mb' = mb /\ on' = on /\ fds' = fds /\ known' = known /\ socks' = socks \cup {s}
      /\ stopping' = stopping /\ arrived' = arrived /\ handoffs' = handoffs
      /\ world' = world /\ closes' = closes /\ wake' = wake /\ io \in IoState
      /\ entry \in [Sock -> EntryState] /\ pc \in [Actor -> ActorPlaces] /\ socks \subseteq Sock
      /\ pc[a] = "run" /\ Owner[s] = a /\ ~entry[s].active
      /\ pc' = [pc EXCEPT ![a] = "wake"]
      /\ entry' = [entry EXCEPT ![s] = Frame([entry[s] EXCEPT !.active = TRUE], Buffered[s])]
      /\ io' = [io EXCEPT !.pc = IF io.pc = "none" THEN "ready" ELSE io.pc]
  BY DEF HubInv, TypeOK, ActorTypes, HubTypes, Activate, Calling, At, Goto
<1>2. PICK e \in EntryState : /\ e = [entry[s] EXCEPT !.active = TRUE] /\ e.active
                              /\ e.close_req = entry[s].close_req /\ e.paused = entry[s].paused
                              /\ e.reads = entry[s].reads /\ e.pending = entry[s].pending
                              /\ e.done = entry[s].done
  <2> DEFINE g == [entry[s] EXCEPT !.active = TRUE]
  <2>1. entry[s] \in EntryState BY <1>1
  <2>2. /\ g \in EntryState /\ g.active /\ g.close_req = entry[s].close_req
        /\ g.pending = entry[s].pending /\ g.paused = entry[s].paused /\ g.done = entry[s].done
        /\ g.reads = entry[s].reads
    BY <2>1, ActivatedEntry
  <2> HIDE DEF g
  <2>3. g = [entry[s] EXCEPT !.active = TRUE] BY DEF g
  <2> QED BY <2>2, <2>3
<1>3. /\ Buffered[s] \in Chunk /\ Buffered[s].events \in Seq(Data)
      /\ entry[s].pending \in Seq(Event)
  <2>1. Buffered[s] \in Chunk BY ArrivesAssumption
  <2>2. s \notin Listener => Buffered[s].events \in Seq(Data) BY ArrivesAssumption
  <2>3. s \in Listener => Buffered[s].events = <<>> BY ArrivesAssumption
  <2>4. <<>> \in Seq(Data) OBVIOUS
  <2>5. entry[s] \in EntryState BY <1>1
  <2>6. entry[s].pending \in Seq(Event) BY <2>5 DEF EntryState
  <2> QED BY <2>1, <2>2, <2>3, <2>4, <2>6
<1>4. PICK f \in EntryState : /\ f = Frame(e, Buffered[s]) /\ f.active
                              /\ f.close_req = entry[s].close_req /\ f.paused = entry[s].paused
                              /\ f.reads = entry[s].reads
                              /\ f.pending \in {entry[s].pending, entry[s].pending \o Buffered[s].events}
  <2> DEFINE g == Frame(e, Buffered[s])
  <2>1. /\ g \in EntryState /\ g.active = e.active /\ g.close_req = e.close_req
        /\ g.paused = e.paused /\ g.reads = e.reads
        /\ g.pending = IF e.done THEN e.pending ELSE e.pending \o Buffered[s].events
    <3>1. e \in EntryState /\ Buffered[s] \in Chunk BY <1>3
    <3> QED BY <3>1, FrameIs
  <2>2. g = Frame(e, Buffered[s]) OBVIOUS
  <2> HIDE DEF g
  <2>3. /\ g.active /\ g.close_req = entry[s].close_req
        /\ g.paused = entry[s].paused /\ g.reads = entry[s].reads
    BY <1>2, <2>1
  <2>4. g.pending \in {entry[s].pending, entry[s].pending \o Buffered[s].events}
    BY <1>2, <2>1
  <2> QED BY <2>1, <2>2, <2>3, <2>4
<1>5. entry'[s] = f /\ (\A t \in Sock : t # s => entry'[t] = entry[t]) /\ entry' \in [Sock -> EntryState]
  BY <1>1, <1>2, <1>4
<1>6. s \notin Standing BY <1>1 DEF HubInv, SocksStand
<1>7. s \notin io.live /\ s \notin io.closing /\ s \notin socks
  BY <1>6 DEF Standing, HubInv, Control
<1>8. /\ io' \in IoState /\ io'.live = io.live /\ io'.closing = io.closing /\ io'.todo = io.todo
      /\ io'.polled = io.polled /\ io'.cur = io.cur /\ io'.back = io.back
      /\ io'.pc = IF io.pc = "none" THEN "ready" ELSE io.pc
  BY <1>1 DEF IoState, IoPlaces
<1>9. world \notin {"stop_wake", "join", "gone"} BY <1>1 DEF HubInv, Control, At
<1>10. TypeOK'
  <2>1. ActorTypes' BY <1>1 DEF HubInv, TypeOK, ActorTypes, ActorPlaces
  <2>2. HubTypes' BY <1>1, <1>5 DEF HubInv, TypeOK, HubTypes
  <2>3. \A t \in Sock : entry'[t].reads = entry[t].reads BY <1>4, <1>5
  <2>4. Arriving' /\ BoxTypes' BY <1>1, <2>3 DEF HubInv, TypeOK, Arriving, BoxTypes
  <2> QED BY <1>8, <2>1, <2>2, <2>4 DEF TypeOK
<1>11. Control'
  <2>1. \A t \in io.polled : Readable(t)' <=> Readable(t)
    BY <1>1, <1>5, <1>7 DEF Readable, HubInv, Control, IoState
  <2>2. io.pc = "none" => io.live = {} /\ io.polled = {} BY DEF HubInv, Control, IoAt
  <2>3. IoAt("none") => io.todo = {} /\ io.closing = {} BY DEF HubInv, Control, InRound, IoAt
  <2> HIDE DEF Readable
  <2> QED BY <1>1, <1>8, <1>9, <2>1, <2>2, <2>3 DEF HubInv, Control, InRound, IoAt
<1>12. Owing'
  <2>1. entry[s].paused => entry[s].pending # <<>> BY DEF HubInv, Owing
  <2>2. entry[s].pending # <<>> => f.pending # <<>> BY <1>3, <1>4, <1>5, DataOwesNothing
  <2>3. f.paused => f.pending # <<>> BY <1>4, <2>1, <2>2
  <2>4. io.todo \subseteq io.live BY DEF HubInv, Control
  <2>5. IoAt("flush") => io.cur \in io.live BY DEF HubInv, Control, IoAt
  <2> QED BY <1>5, <1>7, <1>8, <2>3, <2>4, <2>5 DEF HubInv, Owing, IoAt, IoState
<1>13. Standing' = Standing \cup {s} BY <1>1, <1>8 DEF Standing
<1>14. SocksStand'
  <2>1. closes[s] = 0 BY <1>1 DEF HubInv, SocksStand
  <2>2. \A t \in Sock : closes'[t] = IF entry'[t].active /\ t \notin Standing' THEN 1 ELSE 0
    BY <1>1, <1>5, <1>13, <2>1 DEF HubInv, SocksStand
  <2>3. socks' \cap io'.closing = {} BY <1>1, <1>7, <1>8 DEF HubInv, SocksStand
  <2>4. \A t \in Standing' : entry'[t].active
    <3>1. Standing \subseteq Sock BY <1>1 DEF Standing, IoState
    <3> QED BY <1>4, <1>5, <1>13, <3>1 DEF HubInv, SocksStand
  <2>5. ASSUME NEW x \in Actor, At(x, "send")'
        PROVE  on'[x] \in socks' /\ Owner[on'[x]] = x /\ ~entry'[on'[x]].close_req
    <3>1. pc[x] = "send" BY <1>1, <2>5 DEF At
    <3>2. on[x] \in socks /\ Owner[on[x]] = x /\ ~entry[on[x]].close_req
      BY <3>1 DEF HubInv, SocksStand, At
    <3> QED BY <1>1, <1>5, <1>7, <3>2
  <2> QED BY <2>2, <2>3, <2>4, <2>5 DEF SocksStand
<1>15. ConnsStand' /\ Accepted' = Accepted BY <1>1, <1>4, <1>5, ConnsSame DEF HubInv
<1>16. OwedOnce'
  <2>1. Owed(s) = {} BY <1>1 DEF HubInv, OwedOnce
  <2>2. \A t \in Sock : t # s => (t \in Standing' <=> t \in Standing) BY <1>13
  <2> HIDE DEF Owed, Standing
  <2> QED BY <1>1, <1>3, <1>4, <1>5, <1>15, <2>1, <2>2, StreamOwes
<1>17. WakesCome'
  <2>1. InRound' => InRound BY <1>8 DEF InRound, IoAt
  <2>2. io.live \subseteq Sock BY <1>1 DEF IoState
  <2>3. \A t \in io.live : entry'[t] = entry[t] BY <1>5, <1>7, <2>2
  <2>4. \A t \in Sock : Deep(t) => Deep(t)' BY <1>1, SortsAssumption DEF Deep, At
  <2>5. InRound' => io'.pc = io.pc BY <1>8 DEF InRound, IoAt
  <2> QED BY <1>8, <1>9, <1>1, <2>1, <2>2, <2>3, <2>4, <2>5 DEF HubInv, WakesCome, IoAt
<1> QED BY <1>10, <1>11, <1>12, <1>14, <1>15, <1>16, <1>17 DEF HubInv

\* The next read of a socket that has something to read.
LEMMA NextRead ==
  ASSUME HubInv, NEW s \in Sock, Readable(s)
  PROVE  /\ entry[s].reads \in Nat /\ entry[s].reads + 1 <= arrived[s]
         /\ entry[s].reads + 1 \in 1 .. Len(Arrives[s])
         /\ Arrives[s][entry[s].reads + 1] \in Chunk
<1>1. entry[s].reads \in Nat /\ arrived[s] \in Nat /\ arrived[s] <= Len(Arrives[s])
  BY DEF HubInv, TypeOK, HubTypes, Arriving, EntryState
<1>2. Len(Arrives[s]) \in Nat /\ Arrives[s] \in Seq(Chunk) BY ArrivesAssumption
<1> QED BY <1>1, <1>2 DEF Readable

LEMMA ReadOnceKeeps ==
  ASSUME HubInv, NEW s \in Sock, ReadOnce(s)
  PROVE  HubInv'
<1> DEFINE chunk == Arrives[s][entry[s].reads + 1]
<1>1. /\ mb' = mb /\ pc' = pc /\ on' = on /\ fds' = fds /\ known' = known /\ socks' = socks
      /\ stopping' = stopping /\ arrived' = arrived /\ handoffs' = handoffs
      /\ world' = world /\ closes' = closes /\ wake' = wake /\ io \in IoState
      /\ entry \in [Sock -> EntryState] /\ socks \subseteq Sock
      /\ io.pc = "ready" /\ s \in io.polled /\ s \notin Listener
      /\ entry' = [entry EXCEPT ![s] = [Frame(entry[s], chunk) EXCEPT !.reads = entry[s].reads + 1]]
      /\ io' = IF entry'[s].pending = <<>> THEN [io EXCEPT !.polled = io.polled \ {s}]
               ELSE [io EXCEPT !.pc = "flush", !.cur = s, !.back = "ready", !.polled = io.polled \ {s}]
  BY DEF HubInv, TypeOK, HubTypes, ReadOnce, IoAt, actors
<1>2. \A t \in io.polled : Readable(t) BY <1>1 DEF HubInv, Control, IoAt
<1>3. s \in io.live /\ s \in socks BY <1>1 DEF HubInv, Control
<1>4. io.todo = {} /\ io.closing = {} BY <1>1 DEF HubInv, Control, InRound, IoAt
<1>5. /\ entry[s].reads \in Nat /\ entry[s].reads + 1 <= arrived[s]
      /\ entry[s].reads + 1 \in 1 .. Len(Arrives[s]) /\ chunk \in Chunk
  BY <1>1, <1>2, NextRead
<1>6. chunk.events \in Seq(Data) BY <1>1, <1>5, ArrivesAssumption
<1> HIDE DEF chunk
<1>7. entry[s].pending \in Seq(Event) BY <1>1 DEF EntryState
<1>8. PICK f \in EntryState : /\ f = [Frame(entry[s], chunk) EXCEPT !.reads = entry[s].reads + 1]
                              /\ f.active = entry[s].active /\ f.close_req = entry[s].close_req
                              /\ f.paused = entry[s].paused /\ f.reads = entry[s].reads + 1
                              /\ f.pending \in {entry[s].pending, entry[s].pending \o chunk.events}
  <2> DEFINE g == [Frame(entry[s], chunk) EXCEPT !.reads = entry[s].reads + 1]
  <2>1. entry[s] \in EntryState BY <1>1
  <2>2. /\ g \in EntryState /\ g.active = entry[s].active /\ g.close_req = entry[s].close_req
        /\ g.paused = entry[s].paused /\ g.reads = entry[s].reads + 1
        /\ g.pending = IF entry[s].done THEN entry[s].pending ELSE entry[s].pending \o chunk.events
    BY <1>5, <2>1, ReadIs
  <2>3. g = [Frame(entry[s], chunk) EXCEPT !.reads = entry[s].reads + 1] OBVIOUS
  <2> HIDE DEF g
  <2>4. g.pending \in {entry[s].pending, entry[s].pending \o chunk.events} BY <2>2
  <2> QED BY <2>2, <2>3, <2>4
<1>9. entry'[s] = f /\ (\A t \in Sock : t # s => entry'[t] = entry[t]) /\ entry' \in [Sock -> EntryState]
  BY <1>1, <1>8
<1>10. /\ io' \in IoState /\ io'.live = io.live /\ io'.closing = io.closing /\ io'.todo = io.todo
       /\ io'.polled = io.polled \ {s}
       /\ \/ io'.pc = "ready"
          \/ io'.pc = "flush" /\ io'.cur = s /\ io'.back = "ready" /\ f.pending # <<>>
  <2>1. CASE f.pending = <<>>
    <3>1. io' = [io EXCEPT !.polled = io.polled \ {s}] BY <1>1, <1>9, <2>1
    <3> QED BY <1>1, <3>1 DEF IoState
  <2>2. CASE f.pending # <<>>
    <3>1. io' = [io EXCEPT !.pc = "flush", !.cur = s, !.back = "ready", !.polled = io.polled \ {s}]
      BY <1>1, <1>9, <2>2
    <3> QED BY <1>1, <2>2, <3>1 DEF IoState, IoPlaces, Cursor
  <2> QED BY <2>1, <2>2
<1>11. TypeOK'
  <2>1. ActorTypes' BY <1>1 DEF HubInv, TypeOK, ActorTypes
  <2>2. HubTypes' BY <1>1, <1>9 DEF HubInv, TypeOK, HubTypes
  <2>3. \A t \in Sock : entry'[t].reads <= arrived[t]
    BY <1>5, <1>8, <1>9 DEF HubInv, TypeOK, Arriving
  <2>4. Arriving' /\ BoxTypes' BY <1>1, <2>3 DEF HubInv, TypeOK, Arriving, BoxTypes
  <2> QED BY <1>10, <2>1, <2>2, <2>4 DEF TypeOK
<1>12. Control'
  <2>1. \A t \in io'.polled : Readable(t)'
    BY <1>1, <1>2, <1>9, <1>10 DEF Readable, IoState
  <2>2. io'.live \subseteq socks' /\ io'.todo = {} /\ io'.polled \subseteq io'.live /\ io'.closing = {}
    BY <1>1, <1>4, <1>10 DEF HubInv, Control
  <2>3. /\ world \in {"stop_wake", "join", "gone"} => \A a \in Actor : At(a, "dead")'
        /\ world \in {"stop_wake", "join", "gone"} => stopping
        /\ world = "gone" => socks = {}
    BY <1>1 DEF HubInv, Control, At, IoAt
  <2> HIDE DEF Readable, At
  <2> QED BY <1>1, <1>3, <1>10, <2>1, <2>2, <2>3 DEF Control, IoAt
<1>13. Owing'
  <2>1. entry[s].paused => entry[s].pending # <<>> BY DEF HubInv, Owing
  <2>2. entry[s].pending # <<>> => f.pending # <<>> BY <1>6, <1>7, <1>8, <1>9, DataOwesNothing
  <2>3. f.paused => f.pending # <<>> BY <1>8, <2>1, <2>2
  <2> QED BY <1>4, <1>9, <1>10, <2>3 DEF HubInv, Owing, IoAt
<1>14. Standing' = Standing BY <1>1, <1>10 DEF Standing
<1>15. SocksStand'
  <2>1. \A t \in Sock : entry'[t].active = entry[t].active /\ entry'[t].close_req = entry[t].close_req
    BY <1>8, <1>9
  <2>2. \A a \in Actor : pc'[a] = "send" =>
          pc[a] = "send" /\ on'[a] = on[a] /\ entry'[on[a]].close_req = entry[on[a]].close_req
    BY <1>1, <2>1 DEF HubInv, SocksStand, At
  <2> QED BY <1>1, <1>10, <2>1, <2>2, SocksSame DEF HubInv, IoState
<1>16. Accepted' = Accepted
  <2>1. \A t \in Listener : entry'[t].reads = entry[t].reads BY <1>1, <1>9, SortsAssumption
  <2> QED BY <2>1 DEF Accepted
<1>17. ConnsStand'
  <2>1. \A c : Taken(c)' <=> Taken(c) BY <1>1 DEF Taken
  <2> QED BY <1>1, <1>16, <2>1 DEF HubInv, ConnsStand
<1>18. OwedOnce'
  <2>1. Owed(s) = {} BY <1>1 DEF HubInv, OwedOnce
  <2> HIDE DEF Owed, Standing
  <2> QED BY <1>1, <1>6, <1>8, <1>9, <1>14, <1>16, <2>1, StreamOwes
<1>19. WakesCome' BY <1>10 DEF WakesCome, InRound, IoAt
<1> QED BY <1>11, <1>12, <1>13, <1>15, <1>17, <1>18, <1>19 DEF HubInv

\* A connection that accept has not returned yet is nowhere.
LEMMA NotYetAccepted ==
  ASSUME HubInv, NEW s \in Listener, Readable(s),
         NEW c \in Conn, Arrives[s][entry[s].reads + 1].events = <<c>>
  PROVE  /\ c \notin Accepted /\ c \notin handoffs /\ c \notin known /\ ~Taken(c)
         /\ \A t \in Sock : c \notin Owed(t)
         /\ \A b \in Box : c \notin Heard(b)
<1>1. s \in Sock BY SortsAssumption
<1>2. entry[s].reads \in Nat /\ entry[s].reads + 1 \in 1 .. Len(Arrives[s]) BY <1>1, NextRead
<1>3. ASSUME NEW t \in Listener, NEW i \in 1 .. entry[t].reads, Arrives[t][i].events = <<c>>
      PROVE  FALSE
  <2>1. t \in Sock BY SortsAssumption
  <2>2. entry[t].reads <= Len(Arrives[t]) /\ entry[t].reads \in Nat /\ Len(Arrives[t]) \in Nat
    BY <2>1, ArrivesAssumption DEF HubInv, TypeOK, Arriving, HubTypes, EntryState
  <2>3. i \in 1 .. Len(Arrives[t]) BY <2>2
  <2>4. Arrives[t][i].events[1] = c BY <1>3
  <2>5. t = s /\ i = entry[s].reads + 1 BY <1>2, <1>3, <2>3, <2>4, AcceptAssumption
  <2> QED BY <1>2, <2>5
<1>4. c \notin Accepted BY <1>3 DEF Accepted
<1>5. \A t \in Sock : c \notin Owed(t)
  <2>1. SUFFICES ASSUME NEW t \in Sock, c \in Owed(t) PROVE FALSE OBVIOUS
  <2>2. t \in Listener /\ c \in ReadOf(t) BY <2>1 DEF HubInv, OwedOnce
  <2> QED BY <1>3, <2>2 DEF ReadOf
<1>6. c \notin handoffs /\ c \notin known BY <1>4 DEF HubInv, ConnsStand
<1>7. ~Taken(c) BY <1>6 DEF HubInv, ConnsStand, Taken
<1>8. \A b \in Box : c \notin Heard(b) BY <1>4 DEF HubInv, OwedOnce
<1> QED BY <1>4, <1>5, <1>6, <1>7, <1>8

LEMMA AcceptKeeps ==
  ASSUME HubInv, Accept
  PROVE  HubInv'
<1>0. PICK s \in Sock : s = io.cur BY DEF Accept, IoAt, HubInv, Control, TypeOK, IoState
<1> DEFINE chunk == Arrives[s][entry[s].reads + 1]
<1>1. /\ mb' = mb /\ pc' = pc /\ on' = on /\ fds' = fds /\ known' = known /\ socks' = socks
      /\ stopping' = stopping /\ arrived' = arrived
      /\ handoffs' = handoffs \cup (ToSet(chunk.events) \cap Conn)
      /\ world' = world /\ closes' = closes /\ wake' = wake /\ io \in IoState
      /\ entry \in [Sock -> EntryState] /\ socks \subseteq Sock /\ handoffs \subseteq Conn
      /\ io.pc = "accept" /\ Accepting(s)
      /\ entry' = [entry EXCEPT ![s] = [Frame(entry[s], chunk) EXCEPT !.reads = entry[s].reads + 1]]
      /\ io' = [io EXCEPT !.pc = "flush", !.back = "accept", !.k = io.k + 1]
  BY <1>0 DEF HubInv, TypeOK, HubTypes, Accept, IoAt, actors
<1>2. \A t \in io.polled : Readable(t) BY <1>1 DEF HubInv, Control, IoAt
<1>3. s \in io.live /\ s \in socks /\ s \in Sock /\ s \in Listener \ io.polled
  BY <1>0, <1>1 DEF HubInv, Control, IoAt
<1>4. io.todo = {} /\ io.closing = {} BY <1>1 DEF HubInv, Control, InRound, IoAt
<1>5. Readable(s) /\ ~entry[s].done BY <1>1 DEF Accepting
<1>6. /\ entry[s].reads \in Nat /\ entry[s].reads + 1 <= arrived[s]
      /\ entry[s].reads + 1 \in 1 .. Len(Arrives[s]) /\ chunk \in Chunk
  BY <1>3, <1>5, NextRead
<1>7. PICK x \in Event : chunk.events = <<x>>
  <2>1. chunk.events \in Seq(Event) BY <1>6 DEF Chunk
  <2>2. Len(chunk.events) = 1 BY <1>3, <1>6, ArrivesAssumption
  <2> HIDE DEF chunk
  <2>3. chunk.events = <<chunk.events[1]>> /\ chunk.events[1] \in Event BY <2>1, <2>2
  <2> QED BY <2>3
<1>8. x \in Conn => /\ x \notin Accepted /\ x \notin handoffs /\ x \notin known /\ ~Taken(x)
                    /\ \A t \in Sock : x \notin Owed(t)
                    /\ \A b \in Box : x \notin Heard(b)
  BY <1>3, <1>5, <1>7, NotYetAccepted
<1> HIDE DEF chunk
<1>9. handoffs' = handoffs \cup ({x} \cap Conn)
  <2>1. ToSet(<<x>>) = {x} BY DEF ToSet
  <2> QED BY <1>1, <1>7, <2>1
<1>10. entry[s].pending \in Seq(Event) BY <1>1, <1>3 DEF EntryState
<1>11. PICK f \in EntryState : /\ f = [Frame(entry[s], chunk) EXCEPT !.reads = entry[s].reads + 1]
                               /\ f.active = entry[s].active /\ f.close_req = entry[s].close_req
                               /\ f.paused = entry[s].paused /\ f.reads = entry[s].reads + 1
                               /\ f.pending = Append(entry[s].pending, x)
  <2> DEFINE g == [Frame(entry[s], chunk) EXCEPT !.reads = entry[s].reads + 1]
  <2>1. entry[s] \in EntryState BY <1>1, <1>3
  <2>2. /\ g \in EntryState /\ g.active = entry[s].active /\ g.close_req = entry[s].close_req
        /\ g.paused = entry[s].paused /\ g.reads = entry[s].reads + 1
        /\ g.pending = IF entry[s].done THEN entry[s].pending ELSE entry[s].pending \o chunk.events
    BY <1>6, <2>1, ReadIs
  <2>3. g = [Frame(entry[s], chunk) EXCEPT !.reads = entry[s].reads + 1] OBVIOUS
  <2> HIDE DEF g
  <2>4. g.pending = entry[s].pending \o <<x>> BY <1>5, <1>7, <2>2
  <2>5. entry[s].pending \o <<x>> = Append(entry[s].pending, x) BY <1>10
  <2> QED BY <2>2, <2>3, <2>4, <2>5
<1>12. entry'[s] = f /\ (\A t \in Sock : t # s => entry'[t] = entry[t]) /\ entry' \in [Sock -> EntryState]
  BY <1>1, <1>3, <1>11
<1>13. /\ f.pending # <<>> /\ Len(f.pending) = Len(entry[s].pending) + 1 /\ Len(entry[s].pending) \in Nat
       /\ \A i \in 1 .. Len(f.pending) :
            \/ i \in 1 .. Len(entry[s].pending) /\ f.pending[i] = entry[s].pending[i]
            \/ i = Len(entry[s].pending) + 1 /\ f.pending[i] = x
       /\ \A i \in 1 .. Len(entry[s].pending) : i \in 1 .. Len(f.pending)
  <2> DEFINE p == entry[s].pending
             q == Append(p, x)
  <2>1. p \in Seq(Event) BY <1>10
  <2> HIDE DEF p
  <2>2. Len(p) \in Nat /\ Len(q) = Len(p) + 1 /\ q # <<>> BY <2>1
  <2>3. \A i \in 1 .. Len(p) : q[i] = p[i] BY <2>1
  <2>4. q[Len(p) + 1] = x BY <2>1
  <2>5. f.pending = q BY <1>11 DEF p
  <2> HIDE DEF q
  <2> QED BY <2>2, <2>3, <2>4, <2>5 DEF p
<1>14. /\ io' \in IoState /\ io'.live = io.live /\ io'.closing = io.closing /\ io'.todo = io.todo
       /\ io'.polled = io.polled /\ io'.cur = s /\ io'.pc = "flush" /\ io'.back = "accept"
  <2>1. io \in IoState /\ io' = [io EXCEPT !.pc = "flush", !.back = "accept", !.k = io.k + 1] BY <1>1
  <2>2. io.k + 1 \in Nat /\ DOMAIN io = DOMAIN io' BY <2>1 DEF IoState
  <2>3. io' \in IoState BY <2>1, <2>2 DEF IoState, IoPlaces
  <2>4. /\ io'.live = io.live /\ io'.closing = io.closing /\ io'.todo = io.todo
        /\ io'.polled = io.polled /\ io'.cur = io.cur /\ io'.pc = "flush" /\ io'.back = "accept"
    BY <2>1 DEF IoState
  <2> QED BY <1>0, <2>3, <2>4
<1>15. TypeOK'
  <2>1. ActorTypes' BY <1>1 DEF HubInv, TypeOK, ActorTypes
  <2>2. HubTypes' BY <1>1, <1>9, <1>12 DEF HubInv, TypeOK, HubTypes
  <2>3. \A t \in Sock : entry'[t].reads <= arrived[t]
    BY <1>6, <1>11, <1>12 DEF HubInv, TypeOK, Arriving
  <2>4. Arriving' /\ BoxTypes' BY <1>1, <2>3 DEF HubInv, TypeOK, Arriving, BoxTypes
  <2> QED BY <1>14, <2>1, <2>2, <2>4 DEF TypeOK
<1>16. Control'
  <2>1. \A t \in io'.polled : Readable(t)'
    BY <1>1, <1>2, <1>3, <1>12, <1>14 DEF Readable, IoState
  <2>2. io'.live \subseteq socks' /\ io'.todo = {} /\ io'.polled \subseteq io'.live /\ io'.closing = {}
    BY <1>1, <1>4, <1>14 DEF HubInv, Control
  <2>3. /\ world \in {"stop_wake", "join", "gone"} => \A a \in Actor : At(a, "dead")'
        /\ world \in {"stop_wake", "join", "gone"} => stopping
        /\ world = "gone" => socks = {}
    BY <1>1 DEF HubInv, Control, At, IoAt
  <2> HIDE DEF Readable, At
  <2> QED BY <1>1, <1>3, <1>14, <2>1, <2>2, <2>3 DEF Control, IoAt
<1>17. Owing' BY <1>4, <1>12, <1>13, <1>14 DEF HubInv, Owing, IoAt
<1>18. Standing' = Standing /\ s \in Standing BY <1>1, <1>3, <1>14 DEF Standing
<1>19. SocksStand'
  <2>1. \A t \in Sock : entry'[t].active = entry[t].active /\ entry'[t].close_req = entry[t].close_req
    BY <1>11, <1>12
  <2>2. \A a \in Actor : pc'[a] = "send" =>
          pc[a] = "send" /\ on'[a] = on[a] /\ entry'[on[a]].close_req = entry[on[a]].close_req
    BY <1>1, <2>1 DEF HubInv, SocksStand, At
  <2> QED BY <1>1, <1>14, <2>1, <2>2, SocksSame DEF HubInv, IoState
<1>20. \A c \in Conn : c \in Accepted' <=> c \in Accepted \/ c = x
  <2>1. \A t \in Listener : t # s => entry'[t].reads = entry[t].reads BY <1>12, SortsAssumption
  <2>2. entry'[s].reads = entry[s].reads + 1 BY <1>11, <1>12
  <2>3. \A i : i \in 1 .. entry'[s].reads <=> i \in 1 .. entry[s].reads \/ i = entry[s].reads + 1
    BY <1>6, <2>2
  <2>4. Arrives[s][entry[s].reads + 1].events = <<x>> BY <1>7 DEF chunk
  <2>5. \A c \in Conn : <<x>> = <<c>> <=> c = x OBVIOUS
  <2> QED BY <1>3, <2>1, <2>3, <2>4, <2>5 DEF Accepted
<1>21. ConnsStand'
  <2>1. \A c : Taken(c)' <=> Taken(c) BY <1>1 DEF Taken
  <2>2. \A c \in Conn : closes[c] = IF c \in Accepted /\ c \notin handoffs /\ ~Taken(c) THEN 1 ELSE 0
    BY DEF HubInv, ConnsStand
  <2>3. \A c \in Conn : closes'[c] = IF c \in Accepted' /\ c \notin handoffs' /\ ~Taken(c)' THEN 1 ELSE 0
    BY <1>1, <1>8, <1>9, <1>20, <2>1, <2>2
  <2>4. handoffs' \cup known' \subseteq Accepted'
    BY <1>1, <1>9, <1>20 DEF HubInv, ConnsStand, TypeOK, ActorTypes
  <2>5. \A a \in Actor : \A c \in fds'[a] : c \notin handoffs' /\ c \in known'
    BY <1>1, <1>8, <1>9 DEF HubInv, ConnsStand
  <2>6. \A a, b \in Actor : \A c \in fds'[a] \cap fds'[b] : a = b BY <1>1 DEF HubInv, ConnsStand
  <2> QED BY <2>3, <2>4, <2>5, <2>6 DEF ConnsStand
<1>22. OwedOnce'
  <2>1. \A t \in Sock : t # s => Owed(t)' = Owed(t) /\ ReadOf(t)' = ReadOf(t)
    BY <1>12 DEF Owed, ReadOf
  <2>2. \A c : c \in Owed(s)' <=> c \in Owed(s) \/ (c = x /\ c \in Conn)
    <3>1. Owed(s)' = {c \in Conn : \E i \in 1 .. Len(f.pending) : f.pending[i] = c}
      BY <1>12 DEF Owed
    <3>2. Owed(s) = {c \in Conn : \E i \in 1 .. Len(entry[s].pending) : entry[s].pending[i] = c}
      BY DEF Owed
    <3>3. f.pending[Len(entry[s].pending) + 1] = x /\ Len(entry[s].pending) + 1 \in 1 .. Len(f.pending)
      BY <1>10, <1>11, <1>13
    <3>4. \A i \in 1 .. Len(entry[s].pending) : f.pending[i] = entry[s].pending[i]
      BY <1>10, <1>11
    <3> QED BY <1>13, <3>1, <3>2, <3>3, <3>4
  <2>3. \A c : c \in ReadOf(s) => c \in ReadOf(s)'
    <3>1. \A i : i \in 1 .. entry[s].reads => i \in 1 .. entry'[s].reads BY <1>6, <1>11, <1>12
    <3> QED BY <3>1 DEF ReadOf
  <2>4. x \in Conn => x \in ReadOf(s)'
    <3>1. entry[s].reads + 1 \in 1 .. entry'[s].reads BY <1>6, <1>11, <1>12
    <3> QED BY <3>1, <1>7 DEF ReadOf, chunk
  <2>5. \A b \in Box : Heard(b)' = Heard(b) BY <1>1, SameHeard
  <2>6. \A t \in Sock : \A i, j \in 1 .. Len(entry'[t].pending) :
          entry'[t].pending[i] \in Conn /\ entry'[t].pending[i] = entry'[t].pending[j] => i = j
    <3>1. \A t \in Sock : \A i, j \in 1 .. Len(entry[t].pending) :
            entry[t].pending[i] \in Conn /\ entry[t].pending[i] = entry[t].pending[j] => i = j
      BY DEF HubInv, OwedOnce
    <3>2. x \in Conn => \A i \in 1 .. Len(entry[s].pending) : entry[s].pending[i] # x
      BY <1>3, <1>8 DEF Owed
    <3>3. \A i, j \in 1 .. Len(f.pending) : f.pending[i] \in Conn /\ f.pending[i] = f.pending[j] => i = j
      BY <1>3, <1>13, <3>1, <3>2
    <3> QED BY <1>12, <3>1, <3>3
  <2>7. \A t \in Sock : Owed(t) # {} => t \in Listener /\ entry[t].active /\ Owed(t) \subseteq ReadOf(t)
    BY DEF HubInv, OwedOnce
  <2>8. entry[s].active /\ entry'[s].active BY <1>11, <1>12, <1>18 DEF HubInv, SocksStand
  <2> HIDE DEF Owed, ReadOf, Heard, Standing
  <2>9. \A t \in Sock : Owed(t)' # {} =>
          t \in Listener /\ entry'[t].active /\ Owed(t)' \subseteq ReadOf(t)'
    <3>1. TAKE t \in Sock
    <3>2. CASE t = s BY <1>3, <2>2, <2>3, <2>4, <2>7, <2>8, <3>2
    <3>3. CASE t # s BY <1>12, <2>1, <2>7, <3>3
    <3> QED BY <3>2, <3>3
  <2>10. \A t \in Sock : Owed(t)' \cap known' = {} /\ \A b \in Box : Owed(t)' \cap Heard(b)' = {}
    <3>1. TAKE t \in Sock
    <3>2. CASE t = s BY <1>1, <1>8, <2>2, <2>5, <3>2 DEF HubInv, OwedOnce
    <3>3. CASE t # s BY <1>1, <2>1, <2>5, <3>3 DEF HubInv, OwedOnce
    <3> QED BY <3>2, <3>3
  <2>11. \A b \in Box : Heard(b)' \subseteq Accepted'
    <3>1. \A b \in Box : Heard(b) \subseteq Conn BY DEF Heard
    <3> QED BY <1>20, <2>5, <3>1 DEF HubInv, OwedOnce
  <2>12. \A t \in Sock : IF t \in Standing' THEN Owed(t)' \subseteq handoffs'
                                            ELSE Owed(t)' \cap handoffs' = {}
    <3>1. TAKE t \in Sock
    <3>2. CASE t = s BY <1>9, <1>18, <2>2, <3>2 DEF HubInv, OwedOnce
    <3>3. CASE t # s BY <1>8, <1>9, <1>18, <2>1, <3>3 DEF HubInv, OwedOnce
    <3> QED BY <3>2, <3>3
  <2> QED BY <2>6, <2>9, <2>10, <2>11, <2>12 DEF OwedOnce
<1>23. WakesCome' BY <1>14 DEF WakesCome, InRound, IoAt
<1> QED BY <1>15, <1>16, <1>17, <1>19, <1>21, <1>22, <1>23 DEF HubInv

-----------------------------------------------------------------------------
(* What is sent on.                                                        *)

\* What the I/O thread's send leaves of an inbox.
LEMMA OfferIs ==
  ASSUME NEW b \in Mailboxes, NEW x \in Event, NEW c, c = OfferOrPause(b, Msg(x), Capacity)
  PROVE  /\ c \in Mailboxes /\ c.dead = b.dead
         /\ OfferAnswer(b, Capacity) \in {"SENT", "FULL", "GONE"}
         /\ OfferAnswer(b, Capacity) = "GONE" => c = b /\ b.dead
         /\ OfferAnswer(b, Capacity) = "FULL" =>
              c.q = b.q /\ c.messages = b.messages /\ c.io_paused /\ Full(c, Capacity)
         /\ OfferAnswer(b, Capacity) = "SENT" =>
              c.q = Append(b.q, Msg(x)) /\ c.messages = b.messages + 1 /\ c.io_paused = b.io_paused
<1>1. DOMAIN b = {"owner", "q", "messages", "dead", "released", "stopped", "stop_seen", "io_paused"}
  BY DEF Mailboxes, MailboxOf
<1>2. Msg(x) \in MailOf(Actor \cup Event) BY DEF Msg, MailOf
<1>3. CASE OfferAnswer(b, Capacity) = "SENT"
  <2>1. c = Push(b, Msg(x)) BY <1>3 DEF OfferOrPause, Offer
  <2>2. c \in Mailboxes BY <1>2, <2>1, PushType DEF Mailboxes
  <2>3. /\ c.q = Append(b.q, Msg(x)) /\ c.messages = b.messages + 1 /\ c.io_paused = b.io_paused
        /\ c.dead = b.dead
    BY <1>1, <2>1 DEF Push
  <2> QED BY <1>3, <2>2, <2>3
<1>4. CASE OfferAnswer(b, Capacity) = "FULL"
  <2>1. c = [b EXCEPT !.io_paused = TRUE] BY <1>4 DEF OfferOrPause
  <2>2. c \in Mailboxes BY <2>1, MailboxField DEF Mailboxes
  <2>3. c.q = b.q /\ c.messages = b.messages /\ c.io_paused /\ c.dead = b.dead
    BY <1>1, <2>1
  <2>4. Full(b, Capacity) BY <1>4 DEF OfferAnswer
  <2>5. Full(c, Capacity) BY <2>3, <2>4 DEF Full
  <2> QED BY <1>4, <2>2, <2>3, <2>5
<1>5. CASE OfferAnswer(b, Capacity) = "GONE"
  <2>1. c = b /\ b.dead BY <1>5 DEF OfferOrPause, Offer, OfferAnswer
  <2> QED BY <1>5, <2>1
<1> QED BY <1>3, <1>4, <1>5 DEF OfferAnswer

\* The inboxes after it: none has become less full, and one event more may wait in one.
LEMMA OfferedBox ==
  ASSUME HubInv, NEW s \in Sock, NEW x \in Event, wake' = wake, pc' = pc,
         mb' = [mb EXCEPT ![Into[s]] = OfferOrPause(mb[Into[s]], Msg(x), Capacity)]
  PROVE  /\ BoxTypes'
         /\ \A t \in Sock : Deep(t) => Deep(t)'
         /\ OfferAnswer(mb[Into[s]], Capacity) = "FULL" => Deep(s)'
         /\ \A b \in Box : Heard(b)' \subseteq Heard(b) \cup ({x} \cap Conn)
         /\ OfferAnswer(mb[Into[s]], Capacity) # "SENT" => \A b \in Box : Heard(b)' = Heard(b)
<1> DEFINE b == Into[s]
           c == OfferOrPause(mb[b], Msg(x), Capacity)
           answer == OfferAnswer(mb[b], Capacity)
<1>1. mb \in [Box -> Mailboxes] /\ b \in Box BY SortsAssumption DEF HubInv, TypeOK, BoxTypes
<1>2. mb[b] \in Mailboxes BY <1>1
<1>3. mb[b].q \in Seq(MailOf(Actor \cup Event)) /\ mb[b].messages \in Int
  BY <1>2 DEF Mailboxes, MailboxOf
<1>4. /\ c \in Mailboxes /\ c.dead = mb[b].dead
      /\ answer \in {"SENT", "FULL", "GONE"}
      /\ answer = "GONE" => c = mb[b] /\ mb[b].dead
      /\ answer = "FULL" =>
           c.q = mb[b].q /\ c.messages = mb[b].messages /\ c.io_paused /\ Full(c, Capacity)
      /\ answer = "SENT" =>
           c.q = Append(mb[b].q, Msg(x)) /\ c.messages = mb[b].messages + 1 /\ c.io_paused = mb[b].io_paused
  BY <1>2, OfferIs
<1>5. \A y \in Box : mb'[y] = IF y = b THEN c ELSE mb[y] BY <1>1
<1>6. mb' = [mb EXCEPT ![b] = c] OBVIOUS
<1> HIDE DEF b, c, answer
<1>7. BoxTypes' BY <1>1, <1>4, <1>6 DEF BoxTypes
<1>8. ASSUME NEW t \in Sock, Deep(t) PROVE Deep(t)'
  <2>1. Into[t] \in Box BY SortsAssumption
  <2>2. CASE Into[t] # b
    <3>1. mb'[Into[t]] = mb[Into[t]] BY <1>5, <2>1, <2>2
    <3> QED BY <1>8, <3>1, SameDeep
  <2>3. CASE Into[t] = b
    <3>1. mb'[b] = c BY <1>1, <1>5
    <3>2. Full(mb[b], Capacity) /\ mb[b].io_paused => c.dead \/ (Full(c, Capacity) /\ c.io_paused)
      <4>1. CASE answer = "SENT"
        <5>1. mb[b].messages >= Capacity => c.messages >= Capacity
          BY <1>3, <1>4, <4>1, BoundAssumption
        <5> QED BY <1>4, <4>1, <5>1 DEF Full
      <4>2. CASE answer = "FULL" BY <1>4, <4>2
      <4>3. CASE answer = "GONE" BY <1>4, <4>3
      <4> QED BY <1>4, <4>1, <4>2, <4>3
    <3> QED BY <1>4, <1>8, <2>3, <3>1, <3>2 DEF Deep, At
  <2> QED BY <2>2, <2>3
<1>9. answer = "FULL" => Deep(s)' BY <1>1, <1>4, <1>5 DEF Deep, b
<1>10. \A y \in Box : y # b => Heard(y)' = Heard(y) BY <1>5, SameHeard
<1>11. mb'[b] = c BY <1>1, <1>5
<1>12. answer # "SENT" => Heard(b)' = Heard(b)
  <2>1. answer # "SENT" => c.q = mb[b].q BY <1>4
  <2> QED BY <1>1, <1>11, <2>1, SameHeard
<1>13. answer = "SENT" => Heard(b)' \subseteq Heard(b) \cup ({x} \cap Conn)
  <2>1. SUFFICES ASSUME answer = "SENT", NEW d \in Heard(b)' PROVE d \in Heard(b) \cup ({x} \cap Conn)
    OBVIOUS
  <2>2. c.q = Append(mb[b].q, Msg(x)) BY <1>4, <2>1
  <2>3. d \in Conn /\ \E i \in 1 .. Len(c.q) : c.q[i].kind = "msg" /\ c.q[i].of = d
    BY <1>11, <2>1 DEF Heard
  <2>4. PICK i \in 1 .. Len(c.q) : c.q[i].kind = "msg" /\ c.q[i].of = d BY <2>3
  <2>5. \/ i \in 1 .. Len(mb[b].q) /\ c.q[i] = mb[b].q[i]
        \/ c.q[i] = Msg(x)
    BY <1>3, <2>2, <2>4
  <2>6. CASE i \in 1 .. Len(mb[b].q) /\ c.q[i] = mb[b].q[i] BY <2>3, <2>4, <2>6 DEF Heard
  <2>7. CASE c.q[i] = Msg(x) BY <2>3, <2>4, <2>7 DEF Msg
  <2> QED BY <2>5, <2>6, <2>7
<1>14. \A y \in Box : Heard(y)' \subseteq Heard(y) \cup ({x} \cap Conn) BY <1>10, <1>12, <1>13
<1>15. answer # "SENT" => \A y \in Box : Heard(y)' = Heard(y) BY <1>10, <1>12
<1> QED BY <1>7, <1>8, <1>9, <1>14, <1>15 DEF answer, b

\* Where a flush leaves the thread.
LEMMA AfterFlush ==
  ASSUME HubInv, IoAt("flush"), socks' = socks, stopping' = stopping, arrived' = arrived,
         world' = world, pc' = pc, \A s \in Sock : entry'[s].reads = entry[s].reads,
         io' = io \/ io' = IF io.back = "accept" THEN [io EXCEPT !.pc = "accept"] ELSE Idle(io.back)
  PROVE  /\ io' \in IoState /\ Control'
         /\ io'.live = io.live /\ io'.closing = io.closing /\ io'.todo = io.todo
         /\ io' # io => io'.pc # "flush"
         /\ InRound' => InRound
<1>1. io \in IoState /\ io.pc = "flush" BY DEF HubInv, TypeOK, IoAt
<1>2. /\ io' \in IoState /\ io'.live = io.live /\ io'.closing = io.closing /\ io'.todo = io.todo
      /\ io'.polled = io.polled
      /\ \/ io' = io
         \/ io.back = "accept" /\ io'.pc = "accept" /\ io'.cur = io.cur
         \/ io.back \in {"round", "ready"} /\ io'.pc = io.back
  <2>1. CASE io' = io BY <1>1, <2>1
  <2>2. CASE io.back = "accept" /\ io' = [io EXCEPT !.pc = "accept"]
    BY <1>1, <2>2 DEF IoState, IoPlaces
  <2>3. CASE io.back # "accept" /\ io' = Idle(io.back)
    <3>1. io.back \in {"round", "ready"} BY <1>1, <2>3 DEF IoState
    <3>2. io' = [io EXCEPT !.pc = io.back, !.cur = NoSock, !.back = "round", !.k = 0]
      BY <2>3 DEF Idle
    <3>3. io' \in IoState BY <1>1, <3>1, <3>2 DEF IoState, IoPlaces, Cursor
    <3>4. /\ io'.live = io.live /\ io'.closing = io.closing /\ io'.todo = io.todo
          /\ io'.polled = io.polled /\ io'.pc = io.back
      BY <1>1, <3>2 DEF IoState
    <3> QED BY <3>1, <3>3, <3>4
  <2> QED BY <2>1, <2>2, <2>3
<1>3. io.closing = {} BY <1>1 DEF HubInv, Control, IoAt
<1>4. InRound' => InRound BY <1>1, <1>2 DEF InRound, IoAt
<1>5. io' # io => io'.pc # "flush" BY <1>2
<1>6. \A s \in io.polled : Readable(s)' <=> Readable(s) BY <1>1 DEF Readable, IoState
<1>7. /\ io.live \subseteq socks /\ io.todo \subseteq io.live /\ io.polled \subseteq io.live
      /\ io.cur \in io.live /\ io.cur \notin io.todo
      /\ io.back = "accept" => io.cur \in Listener \ io.polled
      /\ io.todo # {} => io.back = "round"
      /\ io.back # "round" => \A s \in io.polled : Readable(s)
      /\ world \in {"stop_wake", "join", "gone"} => (\A a \in Actor : At(a, "dead")) /\ stopping
      /\ world = "gone" => socks = {} /\ io.closing = {}
  BY <1>1 DEF HubInv, Control, InRound, IoAt
<1>8. (\A a \in Actor : At(a, "dead")) => \A a \in Actor : At(a, "dead")' BY DEF At
<1> HIDE DEF Readable, At
<1>9. Control'
  <2>1. CASE io' = io BY <1>1, <1>3, <1>6, <1>7, <1>8, <2>1 DEF Control, InRound, IoAt
  <2>2. CASE io.back = "accept" /\ io'.pc = "accept" /\ io'.cur = io.cur
    BY <1>2, <1>3, <1>6, <1>7, <1>8, <2>2 DEF Control, InRound, IoAt
  <2>3. CASE io.back \in {"round", "ready"} /\ io'.pc = io.back
    BY <1>2, <1>3, <1>6, <1>7, <1>8, <2>3 DEF Control, InRound, IoAt
  <2> QED BY <1>2, <2>1, <2>2, <2>3
<1> QED BY <1>2, <1>4, <1>5, <1>9

\* The events of a socket after the first was sent.
LEMMA TailOwes ==
  ASSUME HubInv, NEW s \in Sock, entry[s].pending # <<>>,
         entry'[s].pending = Tail(entry[s].pending)
  PROVE  /\ Head(entry[s].pending) \in Event
         /\ Head(entry[s].pending) \in Conn => Head(entry[s].pending) \in Owed(s)
         /\ Owed(s)' = Owed(s) \ {Head(entry[s].pending)}
         /\ \A i, j \in 1 .. Len(entry'[s].pending) :
              entry'[s].pending[i] \in Conn /\ entry'[s].pending[i] = entry'[s].pending[j] => i = j
<1> DEFINE p == entry[s].pending
           q == Tail(p)
           x == Head(p)
<1>1. p \in Seq(Event) /\ p # <<>> BY DEF HubInv, TypeOK, HubTypes, EntryState
<1>2. \A i, j \in 1 .. Len(p) : p[i] \in Conn /\ p[i] = p[j] => i = j BY DEF HubInv, OwedOnce
<1>3. Owed(s) = {c \in Conn : \E i \in 1 .. Len(p) : p[i] = c} BY DEF Owed
<1>4. Owed(s)' = {c \in Conn : \E i \in 1 .. Len(q) : q[i] = c} BY DEF Owed
<1> HIDE DEF p
<1>5. /\ x = p[1] /\ x \in Event /\ 1 \in 1 .. Len(p) /\ Len(p) \in Nat /\ Len(q) = Len(p) - 1
      /\ \A i \in 1 .. Len(q) : q[i] = p[i + 1] /\ i + 1 \in 1 .. Len(p) /\ i + 1 # 1
  BY <1>1
<1>6. \A i \in 1 .. Len(p) : i # 1 => i - 1 \in 1 .. Len(q) /\ q[i - 1] = p[i]
  BY <1>1
<1> HIDE DEF q, x
<1>7. x \in Conn => x \in Owed(s) BY <1>3, <1>5
<1>8. ASSUME NEW i \in 1 .. Len(q), NEW j \in 1 .. Len(q), q[i] \in Conn, q[i] = q[j]
      PROVE  i = j
  <2>1. i + 1 = j + 1 BY <1>2, <1>5, <1>8
  <2> QED BY <2>1
<1>9. \A c : c \in Owed(s)' <=> c \in Owed(s) /\ c # x
  <2>1. ASSUME NEW c, c \in Owed(s)' PROVE c \in Owed(s) /\ c # x
    <3>1. PICK i \in 1 .. Len(q) : q[i] = c /\ c \in Conn BY <1>4, <2>1
    <3>2. p[i + 1] = c /\ i + 1 \in 1 .. Len(p) /\ i + 1 # 1 BY <1>5, <3>1
    <3> QED BY <1>2, <1>3, <1>5, <3>1, <3>2
  <2>2. ASSUME NEW c, c \in Owed(s), c # x PROVE c \in Owed(s)'
    <3>1. PICK i \in 1 .. Len(p) : p[i] = c /\ c \in Conn BY <1>3, <2>2
    <3>2. i # 1 BY <1>5, <2>2, <3>1
    <3> QED BY <1>4, <1>6, <3>1, <3>2
  <2> QED BY <2>1, <2>2
<1> QED BY <1>5, <1>7, <1>8, <1>9 DEF p, q, x

\* Events of a registered socket that leave its entry, for an inbox or for good.
LEMMA FlushOwes ==
  ASSUME HubInv, NEW s \in Sock, s \in Standing, Standing' = Standing,
         entry'[s].active = entry[s].active, entry'[s].reads = entry[s].reads,
         \A t \in Sock : t # s => entry'[t] = entry[t],
         known' = known, Accepted' = Accepted, Owed(s)' \subseteq Owed(s),
         \A i, j \in 1 .. Len(entry'[s].pending) :
           entry'[s].pending[i] \in Conn /\ entry'[s].pending[i] = entry'[s].pending[j] => i = j,
         NEW D, D \subseteq Owed(s) \ Owed(s)', handoffs' = handoffs \ D,
         NEW H, H \subseteq Owed(s) \ Owed(s)',
         \A b \in Box : Heard(b)' \subseteq Heard(b) \cup H
  PROVE  OwedOnce'
<1>1. \A t \in Sock : t # s => Owed(t)' = Owed(t) BY DEF Owed
<1>2. \A t \in Sock : ReadOf(t)' = ReadOf(t) BY DEF ReadOf
<1>3. \A t \in Sock : t # s => Owed(t) \cap Owed(s) = {} BY OwedByOne
<1>4. Owed(s) \subseteq Accepted
  <2>1. Owed(s) # {} => s \in Listener /\ Owed(s) \subseteq ReadOf(s) BY DEF HubInv, OwedOnce
  <2>2. s \in Listener => ReadOf(s) \subseteq Accepted BY DEF ReadOf, Accepted
  <2> QED BY <2>1, <2>2
<1>5. \A t \in Sock : \A i, j \in 1 .. Len(entry'[t].pending) :
        entry'[t].pending[i] \in Conn /\ entry'[t].pending[i] = entry'[t].pending[j] => i = j
  <2>1. \A t \in Sock : \A i, j \in 1 .. Len(entry[t].pending) :
          entry[t].pending[i] \in Conn /\ entry[t].pending[i] = entry[t].pending[j] => i = j
    BY DEF HubInv, OwedOnce
  <2> QED BY <2>1
<1> HIDE DEF Owed, ReadOf, Heard, Standing
<1>6. \A t \in Sock : Owed(t)' \subseteq Owed(t) BY <1>1
<1>7. \A t \in Sock : Owed(t)' # {} =>
        t \in Listener /\ entry'[t].active /\ Owed(t)' \subseteq ReadOf(t)'
  <2>1. \A t \in Sock : Owed(t) # {} => t \in Listener /\ entry[t].active /\ Owed(t) \subseteq ReadOf(t)
    BY DEF HubInv, OwedOnce
  <2>2. \A t \in Sock : entry[t].active => entry'[t].active OBVIOUS
  <2> QED BY <1>2, <1>6, <2>1, <2>2
<1>8. \A t \in Sock : Owed(t)' \cap known' = {} /\ \A b \in Box : Owed(t)' \cap Heard(b)' = {}
  <2>1. \A t \in Sock : Owed(t)' \cap H = {} BY <1>1, <1>3
  <2>2. \A t \in Sock : Owed(t) \cap known = {} /\ \A b \in Box : Owed(t) \cap Heard(b) = {}
    BY DEF HubInv, OwedOnce
  <2> QED BY <1>6, <2>1, <2>2
<1>9. \A b \in Box : Heard(b)' \subseteq Accepted' BY <1>4 DEF HubInv, OwedOnce
<1>10. \A t \in Sock : IF t \in Standing' THEN Owed(t)' \subseteq handoffs'
                                          ELSE Owed(t)' \cap handoffs' = {}
  <2>1. \A t \in Sock : Owed(t)' \cap D = {} BY <1>1, <1>3
  <2>2. \A t \in Sock : IF t \in Standing THEN Owed(t) \subseteq handoffs ELSE Owed(t) \cap handoffs = {}
    BY DEF HubInv, OwedOnce
  <2> QED BY <1>6, <2>1, <2>2
<1> QED BY <1>5, <1>7, <1>8, <1>9, <1>10 DEF OwedOnce

LEMMA FlushKeeps ==
  ASSUME HubInv, Flush
  PROVE  HubInv'
<1>0. PICK s \in Sock : s = io.cur BY DEF Flush, IoAt, HubInv, Control, TypeOK, IoState
<1> DEFINE e == entry[s]
           p == entry[s].pending
           answer == OfferAnswer(mb[Into[s]], Capacity)
<1>1. /\ pc' = pc /\ on' = on /\ fds' = fds /\ known' = known /\ socks' = socks
      /\ stopping' = stopping /\ arrived' = arrived
      /\ world' = world /\ wake' = wake /\ io \in IoState
      /\ entry \in [Sock -> EntryState] /\ socks \subseteq Sock /\ handoffs \subseteq Conn
      /\ closes \in [Sock \cup Conn -> Nat]
      /\ IoAt("flush")
  BY DEF HubInv, TypeOK, HubTypes, Flush
<1>2. mb' = [mb EXCEPT ![Into[s]] = OfferOrPause(mb[Into[s]], Msg(Head(p)), Capacity)]
  BY <1>0 DEF Flush
<1>3. entry' = [entry EXCEPT ![s] =
       CASE answer = "SENT" -> [e EXCEPT !.pending = Tail(p), !.paused = e.paused /\ Tail(p) # <<>>]
         [] answer = "FULL" -> [e EXCEPT !.paused = TRUE]
         [] answer = "GONE" -> [e EXCEPT !.pending = <<>>, !.paused = FALSE, !.done = TRUE]]
  BY <1>0 DEF Flush
<1>4. /\ handoffs' = IF answer = "GONE" THEN handoffs \ Tickets(s) ELSE handoffs
      /\ closes' = IF answer = "GONE" THEN Closed(Tickets(s)) ELSE closes
      /\ io' = IF answer = "SENT" /\ Tail(p) # <<>> THEN io
               ELSE IF io.back = "accept" THEN [io EXCEPT !.pc = "accept"] ELSE Idle(io.back)
  BY <1>0 DEF Flush
<1>5. s \in io.live /\ s \in socks /\ s \notin io.todo BY <1>0, <1>1 DEF HubInv, Control, IoAt
<1>6. s \in Standing BY <1>5 DEF Standing
<1>7. p \in Seq(Event) /\ p # <<>> /\ e \in EntryState /\ e.paused \in BOOLEAN
  <2>1. e \in EntryState BY <1>1
  <2>2. p \in Seq(Event) /\ e.paused \in BOOLEAN BY <2>1 DEF EntryState
  <2> QED BY <1>0, <1>1, <2>1, <2>2 DEF HubInv, Owing
<1>8. Head(p) \in Event /\ Tail(p) \in Seq(Event) BY <1>7
<1>9. PICK x \in Event : x = Head(p) BY <1>8
<1>10. /\ BoxTypes'
       /\ \A t \in Sock : Deep(t) => Deep(t)'
       /\ answer = "FULL" => Deep(s)'
       /\ \A b \in Box : Heard(b)' \subseteq Heard(b) \cup ({x} \cap Conn)
       /\ answer # "SENT" => \A b \in Box : Heard(b)' = Heard(b)
  BY <1>1, <1>2, <1>9, OfferedBox
<1>11. answer \in {"SENT", "FULL", "GONE"} BY DEF OfferAnswer
<1>12. PICK f \in EntryState :
         /\ entry' = [entry EXCEPT ![s] = f]
         /\ f.active = e.active /\ f.close_req = e.close_req /\ f.reads = e.reads
         /\ answer = "SENT" => f.pending = Tail(p) /\ f.paused = (e.paused /\ Tail(p) # <<>>)
         /\ answer = "FULL" => f.pending = p /\ f.paused
         /\ answer = "GONE" => f.pending = <<>> /\ ~f.paused
  <2>2. CASE answer = "SENT"
    <3>0. PICK still \in BOOLEAN : still = (e.paused /\ Tail(p) # <<>>) OBVIOUS
    <3> DEFINE g == [e EXCEPT !.pending = Tail(p), !.paused = still]
    <3>1. entry' = [entry EXCEPT ![s] = g] BY <1>3, <2>2, <3>0
    <3>3. e \in EntryState /\ Tail(p) \in Seq(Event) BY <1>7, <1>8
    <3> HIDE DEF e, p
    <3>2. /\ g \in EntryState /\ g.active = e.active /\ g.close_req = e.close_req
          /\ g.reads = e.reads /\ g.pending = Tail(p) /\ g.paused = still
      BY <3>3 DEF EntryState
    <3> HIDE DEF g
    <3> QED BY <2>2, <3>0, <3>1, <3>2 DEF e
  <2>3. CASE answer = "FULL"
    <3> DEFINE g == [e EXCEPT !.paused = TRUE]
    <3>1. entry' = [entry EXCEPT ![s] = g] BY <1>3, <2>3
    <3>2. /\ g \in EntryState /\ g.active = e.active /\ g.close_req = e.close_req
          /\ g.reads = e.reads /\ g.pending = p /\ g.paused
      BY <1>7 DEF EntryState
    <3> HIDE DEF g
    <3> QED BY <2>3, <3>1, <3>2
  <2>4. CASE answer = "GONE"
    <3>0. PICK no \in BOOLEAN : no = FALSE OBVIOUS
    <3> DEFINE g == [e EXCEPT !.pending = <<>>, !.paused = no, !.done = TRUE]
    <3>1. entry' = [entry EXCEPT ![s] = g] BY <1>3, <2>4, <3>0
    <3>2. <<>> \in Seq(Event) OBVIOUS
    <3>4. e \in EntryState BY <1>7
    <3> HIDE DEF e
    <3>3. /\ g \in EntryState /\ g.active = e.active /\ g.close_req = e.close_req
          /\ g.reads = e.reads /\ g.pending = <<>> /\ g.paused = no
      BY <3>2, <3>4 DEF EntryState
    <3> HIDE DEF g
    <3> QED BY <2>4, <3>0, <3>1, <3>3 DEF e
  <2> QED BY <1>11, <2>2, <2>3, <2>4
<1>13. entry'[s] = f /\ (\A t \in Sock : t # s => entry'[t] = entry[t]) /\ entry' \in [Sock -> EntryState]
  BY <1>1, <1>12
<1> HIDE DEF answer
<1>14. \A t \in Sock : entry'[t].active = entry[t].active /\ entry'[t].close_req = entry[t].close_req
                       /\ entry'[t].reads = entry[t].reads
  BY <1>12, <1>13
<1>15. io' = io \/ io' = IF io.back = "accept" THEN [io EXCEPT !.pc = "accept"] ELSE Idle(io.back)
  BY <1>4
<1>16. /\ io' \in IoState /\ Control'
       /\ io'.live = io.live /\ io'.closing = io.closing /\ io'.todo = io.todo
       /\ io' # io => io'.pc # "flush"
       /\ InRound' => InRound
  BY <1>1, <1>14, <1>15, AfterFlush
<1>17. Tickets(s) = Owed(s) /\ Tickets(s) \subseteq Conn /\ Tickets(s) \subseteq handoffs
  BY <1>6, TicketsAreOwed
<1>18. /\ closes' \in [Sock \cup Conn -> Nat]
       /\ \A t \in Sock : closes'[t] = closes[t]
       /\ answer = "GONE" => \A c \in Conn : closes'[c] = closes[c] + (IF c \in Tickets(s) THEN 1 ELSE 0)
  <2>1. CASE answer = "GONE"
    <3>1. closes' = [y \in Sock \cup Conn |-> closes[y] + (IF y \in Tickets(s) THEN 1 ELSE 0)]
      BY <1>1, <1>4, <2>1 DEF Closed
    <3> HIDE DEF Tickets
    <3> QED BY <1>1, <1>17, <2>1, <3>1, SortsAssumption
  <2>2. CASE answer # "GONE" BY <1>1, <1>4, <2>2
  <2> QED BY <2>1, <2>2
<1> HIDE DEF Tickets
<1>19. TypeOK'
  <2>1. ActorTypes' BY <1>1 DEF HubInv, TypeOK, ActorTypes
  <2>2. HubTypes' BY <1>1, <1>4, <1>13, <1>18 DEF HubInv, TypeOK, HubTypes
  <2>3. Arriving' BY <1>1, <1>14 DEF HubInv, TypeOK, Arriving
  <2> QED BY <1>10, <1>16, <2>1, <2>2, <2>3 DEF TypeOK
<1>20. Owing'
  <2>1. f.paused => f.pending # <<>> BY <1>7, <1>11, <1>12
  <2>2. IoAt("flush")' => io' = io BY <1>16 DEF IoAt
  <2>3. io' = io => f.pending # <<>>
    <3>1. SUFFICES ASSUME io' = io PROVE answer = "SENT" /\ Tail(p) # <<>> BY <1>12
    <3>2. Idle(io.back).pc = io.back /\ [io EXCEPT !.pc = "accept"].pc = "accept"
      BY <1>1 DEF Idle, IoState
    <3>3. io.pc = "flush" /\ io.back \in {"round", "ready", "accept"} BY <1>1 DEF IoState, IoAt
    <3> QED BY <1>4, <3>1, <3>2, <3>3
  <2>4. io.todo \subseteq Sock BY <1>1 DEF IoState
  <2> QED BY <1>0, <1>5, <1>13, <1>16, <2>1, <2>2, <2>3, <2>4 DEF HubInv, Owing
<1>21. Standing' = Standing BY <1>1, <1>16 DEF Standing
<1>22. SocksStand'
  <2>1. \A a \in Actor : pc'[a] = "send" =>
          pc[a] = "send" /\ on'[a] = on[a] /\ entry'[on[a]].close_req = entry[on[a]].close_req
    BY <1>1, <1>14 DEF HubInv, SocksStand, At
  <2> QED BY <1>1, <1>14, <1>16, <1>18, <2>1, SocksSame DEF HubInv, IoState
<1>23. ConnsStand' /\ Accepted' = Accepted
  <2>1. CASE answer = "GONE"
    <3>1. Tickets(s) \cap known = {} BY <1>17 DEF HubInv, OwedOnce
    <3> QED BY <1>1, <1>4, <1>14, <1>17, <1>18, <2>1, <3>1, DropTickets
  <2>2. CASE answer # "GONE" BY <1>1, <1>4, <1>14, <2>2, ConnsSame DEF HubInv
  <2> QED BY <2>1, <2>2
<1>24. OwedOnce'
  <2>1. CASE answer = "SENT"
    <3>1. entry'[s].pending = Tail(entry[s].pending) BY <1>12, <1>13, <2>1
    <3>2. /\ x \in Conn => x \in Owed(s)
          /\ Owed(s)' = Owed(s) \ {x}
          /\ \A i, j \in 1 .. Len(entry'[s].pending) :
               entry'[s].pending[i] \in Conn /\ entry'[s].pending[i] = entry'[s].pending[j] => i = j
      BY <1>7, <1>9, <3>1, TailOwes
    <3>3. {} \subseteq Owed(s) \ Owed(s)' /\ handoffs' = handoffs \ {} BY <1>4, <2>1
    <3>4. {x} \cap Conn \subseteq Owed(s) \ Owed(s)' BY <3>2
    <3> HIDE DEF Owed, Heard, Standing
    <3> QED BY <1>1, <1>6, <1>10, <1>13, <1>14, <1>21, <1>23, <3>2, <3>3, <3>4, FlushOwes
  <2>2. CASE answer = "FULL"
    <3>1. entry'[s].pending = entry[s].pending BY <1>12, <1>13, <2>2
    <3>2. Owed(s)' = Owed(s) BY <3>1 DEF Owed
    <3>3. \A i, j \in 1 .. Len(entry'[s].pending) :
            entry'[s].pending[i] \in Conn /\ entry'[s].pending[i] = entry'[s].pending[j] => i = j
      BY <3>1 DEF HubInv, OwedOnce
    <3>4. {} \subseteq Owed(s) \ Owed(s)' /\ handoffs' = handoffs \ {} BY <1>4, <2>2
    <3>5. \A b \in Box : Heard(b)' \subseteq Heard(b) \cup {} BY <1>10, <2>2
    <3> HIDE DEF Owed, Heard, Standing
    <3> QED BY <1>1, <1>6, <1>13, <1>14, <1>21, <1>23, <3>2, <3>3, <3>4, <3>5, FlushOwes
  <2>3. CASE answer = "GONE"
    <3>1. entry'[s].pending = <<>> BY <1>12, <1>13, <2>3
    <3>2. Owed(s)' = {} BY <3>1 DEF Owed
    <3>3. \A i, j \in 1 .. Len(entry'[s].pending) :
            entry'[s].pending[i] \in Conn /\ entry'[s].pending[i] = entry'[s].pending[j] => i = j
      BY <3>1
    <3>4. Owed(s) \subseteq Owed(s) \ Owed(s)' /\ {} \subseteq Owed(s) \ Owed(s)'
          /\ handoffs' = handoffs \ Owed(s)
      BY <1>4, <1>17, <2>3, <3>2
    <3>5. \A b \in Box : Heard(b)' \subseteq Heard(b) \cup {} BY <1>10, <2>3
    <3> HIDE DEF Owed, Heard, Standing
    <3> QED BY <1>1, <1>6, <1>13, <1>14, <1>21, <1>23, <3>2, <3>3, <3>4, <3>5, FlushOwes
  <2> QED BY <1>11, <2>1, <2>2, <2>3
<1>25. WakesCome'
  <2>1. world' = "join" /\ InRound' => wake' BY <1>1, <1>16 DEF HubInv, WakesCome
  <2>2. ASSUME InRound', NEW t \in io'.live \ io'.todo, entry'[t].paused,
               ~(IoAt("flush")' /\ io'.cur = t)
        PROVE  Deep(t)'
    <3>1. t \in Sock /\ t \in io.live \ io.todo /\ InRound BY <1>1, <1>16, <2>2 DEF IoState
    <3>2. CASE t # s
      <4>1. entry[t].paused BY <1>13, <2>2, <3>1, <3>2
      <4>2. Deep(t) BY <1>0, <3>1, <3>2, <4>1 DEF HubInv, WakesCome
      <4> QED BY <1>10, <3>1, <4>2
    <3>3. CASE t = s
      <4>1. io' # io BY <1>0, <1>1, <2>2, <3>3 DEF IoAt
      <4>2. ~(answer = "SENT" /\ Tail(p) # <<>>) BY <1>4, <4>1
      <4>3. f.paused BY <1>13, <2>2, <3>3
      <4>4. answer = "FULL" BY <1>11, <1>12, <4>2, <4>3
      <4> QED BY <1>10, <3>3, <4>4
    <3> QED BY <3>2, <3>3
  <2> HIDE DEF Deep, InRound
  <2> QED BY <2>1, <2>2 DEF WakesCome
<1> QED BY <1>16, <1>19, <1>20, <1>22, <1>23, <1>24, <1>25 DEF HubInv

-----------------------------------------------------------------------------
(* The theorems.                                                           *)

LEMMA HubStutters ==
  ASSUME HubInv, UNCHANGED vars
  PROVE  HubInv'
<1>1. /\ mb' = mb /\ pc' = pc /\ on' = on /\ fds' = fds /\ known' = known /\ entry' = entry
      /\ socks' = socks /\ stopping' = stopping /\ wake' = wake /\ io' = io /\ arrived' = arrived
      /\ handoffs' = handoffs /\ world' = world /\ closes' = closes
  BY DEF vars
<1>2. TypeOK' BY <1>1 DEF HubInv, TypeOK, ActorTypes, HubTypes, Arriving, BoxTypes
<1>3. Control' BY <1>1 DEF HubInv, Control, InRound, IoAt, At, Readable
<1>4. Owing' BY <1>1 DEF HubInv, Owing, IoAt
<1>5. WakesCome' BY <1>1 DEF HubInv, WakesCome, InRound, IoAt, Deep, At
<1> QED BY <1>1, <1>2, <1>3, <1>4, <1>5, ThreadMoves DEF HubInv, TypeOK, HubTypes

\* Every step of an actor, of the I/O thread, of the end of the world and of a peer keeps
\* the invariant.
LEMMA HubStep == ASSUME HubInv, [Next]_vars PROVE HubInv'
<1>1. ASSUME NEW a \in Actor, Program(a) PROVE HubInv'
  <2>1. CASE \E s \in Sock : Activate(a, s) \/ SendBegin(a, s) \/ ActiveClose(a, s)
    BY <2>1, ActivateKeeps, SendKeeps, AskCloseKeeps
  <2>2. CASE \E b \in Box : Receive(a, b) \/ CloseInbox(a, b)
    BY <2>2, ReceiveKeeps, CloseInboxKeeps
  <2>3. CASE \E c \in Conn : TakeTicket(a, c) \/ HandOff(a, c)
    BY <2>3, TakeTicketKeeps, HandOffKeeps
  <2>4. CASE Return(a) BY <2>4, ReturnKeeps
  <2> QED BY <1>1, <2>1, <2>2, <2>3, <2>4 DEF Program
<1>2. ASSUME NEW a \in Actor, Native(a) \/ SendEnds(a) \/ SendDeadline(a) \/ SendStopped(a)
      PROVE  HubInv'
  BY <1>2, WakeKeeps, EndHubKeeps, EndBoxesKeeps, SendKeeps, AskCloseKeeps DEF Native
<1>3. CASE Loop
  <2>1. CASE IoTop BY <2>1, IoTopKeeps
  <2>2. CASE IoWatch BY <2>2, IoWatchKeeps
  <2>3. CASE IoPoll \/ IoDrain \/ AcceptEnds BY <2>3, RoundIsOver
  <2>4. CASE Flush BY <2>4, FlushKeeps
  <2>5. CASE Accept BY <2>5, AcceptKeeps
  <2>6. CASE \E s \in Sock : IoClose(s) \/ IoFlushNext(s) \/ ReadOnce(s) \/ AcceptBegin(s)
    BY <2>6, IoCloseKeeps, IoFlushNextKeeps, ReadOnceKeeps, RoundIsOver
  <2> QED BY <1>3, <2>1, <2>2, <2>3, <2>4, <2>5, <2>6 DEF Loop
<1>4. CASE WorldStop BY <1>4, WorldStopKeeps
<1>5. CASE Hub BY <1>5, OutsideKeeps, HubJoinedKeeps DEF Hub
<1>6. CASE \E s \in Sock : PeerActs(s) BY <1>6, OutsideKeeps
<1>7. CASE UNCHANGED vars BY <1>7, HubStutters
<1> QED BY <1>1, <1>2, <1>3, <1>4, <1>5, <1>6, <1>7 DEF Next, Finished

\* What the parts of the invariant amount to.
LEMMA StandingClosedOnce == ASSUME HubInv PROVE ClosedOnce
<1>1. \A s \in Sock : closes[s] = IF entry[s].active /\ s \notin Standing THEN 1 ELSE 0
  BY DEF HubInv, SocksStand
<1>2. ASSUME NEW s \in Sock
      PROVE  closes[s] <= 1 /\ (world = "gone" /\ entry[s].active => closes[s] = 1)
  <2>1. world = "gone" => Standing = {} BY DEF HubInv, Control, Standing
  <2> QED BY <1>1, <2>1
<1>3. ASSUME NEW a \in Actor, At(a, "send") PROVE closes[on[a]] = 0
  <2>1. on[a] \in socks /\ on[a] \in Sock BY <1>3 DEF HubInv, SocksStand, TypeOK, HubTypes
  <2> QED BY <1>1, <2>1 DEF Standing
<1>4. ASSUME NEW s \in io.live PROVE closes[s] = 0
  <2>1. s \in socks /\ s \in Sock BY DEF HubInv, Control, TypeOK, HubTypes
  <2> QED BY <1>1, <2>1 DEF Standing
<1> QED BY <1>2, <1>3, <1>4 DEF ClosedOnce

LEMMA WakesAreNotMissed == ASSUME HubInv PROVE NoWakeIsMissed
<1>1. ASSUME NEW s \in io.live, IoAt("poll"), entry[s].paused,
             ~mb[Into[s]].dead, ~Full(mb[Into[s]], Capacity)
      PROVE  wake \/ At(Owner[s], "wake")
  <2>1. io.todo = {} /\ InRound /\ ~IoAt("flush") BY <1>1 DEF HubInv, Control, InRound, IoAt
  <2>2. Deep(s) BY <1>1, <2>1 DEF HubInv, WakesCome
  <2> QED BY <1>1, <2>2 DEF Deep
<1>2. PausedWillBeWoken BY <1>1 DEF PausedWillBeWoken
<1>3. StopIsSeen
  <2>1. IoAt("poll") => InRound BY DEF InRound, IoAt
  <2> QED BY <2>1 DEF HubInv, WakesCome, StopIsSeen
<1> QED BY <1>2, <1>3 DEF NoWakeIsMissed

LEMMA OwedAreHeld == ASSUME HubInv PROVE UndeliveredAreHeld
<1>1. SUFFICES ASSUME NEW s \in Listener
               PROVE  /\ \A c \in Tickets(s) : s \in socks \cup io.closing
                      /\ s \in socks => Conn \cap ToSet(entry[s].pending) \subseteq handoffs
  BY DEF UndeliveredAreHeld
<1>2. s \in Sock BY SortsAssumption
<1>3. Tickets(s) = Owed(s) \cap handoffs BY <1>2, TicketsAreOwed
<1>4. IF s \in Standing THEN Owed(s) \subseteq handoffs ELSE Owed(s) \cap handoffs = {}
  BY <1>2 DEF HubInv, OwedOnce
<1>5. Conn \cap ToSet(entry[s].pending) \subseteq Owed(s)
  <2>1. entry[s].pending \in Seq(Event) BY <1>2 DEF HubInv, TypeOK, HubTypes, EntryState
  <2> QED BY <2>1 DEF ToSet, Owed
<1> HIDE DEF Tickets, Owed
<1> QED BY <1>3, <1>4, <1>5 DEF Standing

LEMMA OneHolder == ASSUME HubInv PROVE ConnectionHasOneHolder
<1>1. SUFFICES ASSUME NEW c \in Accepted
               PROVE  Cardinality({a \in Actor : c \in fds[a]}) + (IF c \in handoffs THEN 1 ELSE 0)
                        + closes[c] = 1
  BY DEF ConnectionHasOneHolder
<1> DEFINE H == {a \in Actor : c \in fds[a]}
<1>2. c \in Conn BY DEF Accepted
<1>3. closes[c] = IF c \notin handoffs /\ ~Taken(c) THEN 1 ELSE 0
  BY <1>2 DEF HubInv, ConnsStand
<1>4. CASE Taken(c)
  <2>1. PICK a \in Actor : c \in fds[a] BY <1>4 DEF Taken
  <2>2. H = {a} BY <2>1 DEF HubInv, ConnsStand
  <2>3. Cardinality(H) = 1 BY <2>2, FS_Singleton
  <2>4. c \notin handoffs BY <2>1 DEF HubInv, ConnsStand
  <2> QED BY <1>3, <1>4, <2>3, <2>4
<1>5. CASE ~Taken(c)
  <2>1. H = {} BY <1>5 DEF Taken
  <2>2. Cardinality(H) = 0 BY <2>1, FS_EmptySet
  <2> HIDE DEF H
  <2>3. Cardinality(H) + (IF c \in handoffs THEN 1 ELSE 0) + closes[c] = 1 BY <1>3, <1>5, <2>2
  <2> QED BY <2>3 DEF H
<1> QED BY <1>4, <1>5

THEOREM HubInvariant == Spec => []HubInv
<1>1. Init => HubInv BY HubInit
<1>2. HubInv /\ [Next]_vars => HubInv' BY HubStep
<1> QED BY <1>1, <1>2, PTL DEF Spec

\* However the requests to close a socket meet (of its owner, of a send whose peer does not
\* read, of the end of the program and of the world), it is closed once, and never while the
\* thread polls it or its owner writes to it (request_close, close_owned_by, IoHub::stop).
THEOREM SocketsCloseOnce == Spec => []ClosedOnce
<1>1. HubInv => ClosedOnce BY StandingClosedOnce
<1> QED BY <1>1, HubInvariant, PTL

\* The thread never sits in poll with a paused socket whose inbox has room, or after the world
\* was ended, without a byte in the wake line or on its way (offer_or_pause, rawReceive, stop).
THEOREM PausesEnd == Spec => []NoWakeIsMissed
<1>1. HubInv => NoWakeIsMissed BY WakesAreNotMissed
<1> QED BY <1>1, HubInvariant, PTL

\* A listener with undelivered tickets in the hand-off table stands or is about to be closed,
\* and while it stands all its undelivered connections are in the table (drop_tickets).
THEOREM TicketsAreHeld == Spec => []UndeliveredAreHeld
<1>1. HubInv => UndeliveredAreHeld BY OwedAreHeld
<1> QED BY <1>1, HubInvariant, PTL

\* An accepted connection is in the hand-off table, with one isolate, or closed once, however
\* often it changes hands (rawTake, rawHandOff, drop_tickets, ~World).
THEOREM ConnectionsHaveOneHolder == Spec => []ConnectionHasOneHolder
<1>1. HubInv => ConnectionHasOneHolder BY OneHolder
<1> QED BY <1>1, HubInvariant, PTL

-----------------------------------------------------------------------------
(* What FlattenSeq of the community modules makes of its argument.         *)

\* A set of naturals that is not empty has a least element.
LEMMA LeastNat ==
  ASSUME NEW T, T \subseteq Nat, T # {}
  PROVE  \E x \in T : \A y \in T : x <= y
<1>1. IsWellFoundedOn(OpToRel(<, Nat), Nat) BY NatLessThanWellFounded
<1>2. \A x, y \in Nat : x < y => <<x, y>> \in OpToRel(<, Nat) BY Zenon DEF OpToRel
<1>3. \E x \in T : \A y \in T : ~ (<<y, x>> \in OpToRel(<, Nat)) BY <1>1, WFMin, Zenon
<1>4. PICK x \in T : \A y \in T : ~ (<<y, x>> \in OpToRel(<, Nat)) BY <1>3, Zenon
<1>5. \A y \in T : ~ (y < x) BY <1>2, <1>4, Zenon
<1> QED BY <1>5

\* Induction up to n: a set that is not empty has a first element.
LEMMA FirstOf ==
  ASSUME NEW n \in Nat, NEW B, B \subseteq 1 .. n, B # {}
  PROVE  \E k \in 1 .. n : k \in B /\ (k = 1 \/ (k # 1 /\ k - 1 \in 1 .. n /\ k - 1 \notin B))
<1>1. B \subseteq Nat OBVIOUS
<1>2. PICK k \in B : \A y \in B : k <= y BY <1>1, LeastNat
<1>3. k \in 1 .. n OBVIOUS
<1>4. k # 1 => k - 1 \in 1 .. n /\ ~(k <= k - 1) BY <1>3
<1> QED BY <1>2, <1>3, <1>4

\* f sums the first n sequences of ss up.
Sums(f, ss, n) ==
  f = [k \in 1 .. n |-> IF k = 1 THEN ss[k] ELSE f[k - 1] \o ss[k]]

\* The sums of the first n + 1 begin with those of the first n.
LEMMA SumsGrow ==
  ASSUME NEW ss, NEW n \in Nat \ {0}, NEW f, Sums(f, ss, n)
  PROVE  Sums([k \in 1 .. n + 1 |-> IF k = n + 1 THEN f[n] \o ss[n + 1] ELSE f[k]], ss, n + 1)
<1> DEFINE g == [k \in 1 .. n + 1 |-> IF k = n + 1 THEN f[n] \o ss[n + 1] ELSE f[k]]
<1>1. \A k \in 1 .. n : f[k] = IF k = 1 THEN ss[k] ELSE f[k - 1] \o ss[k] BY DEF Sums
<1>2. \A k \in 1 .. n + 1 : g[k] = IF k = 1 THEN ss[k] ELSE g[k - 1] \o ss[k]
  <2> TAKE k \in 1 .. n + 1
  <2>1. CASE k = n + 1
    <3>1. n \in 1 .. n + 1 /\ n # n + 1 /\ k # 1 /\ k - 1 = n BY <2>1
    <3>2. g[n] = f[n] /\ g[k] = f[n] \o ss[n + 1] BY <2>1, <3>1
    <3> QED BY <2>1, <3>1, <3>2
  <2>2. CASE k # n + 1 /\ k # 1
    <3>1. k \in 1 .. n /\ k - 1 \in 1 .. n BY <2>2
    <3>2. g[k] = f[k] /\ g[k - 1] = f[k - 1] BY <2>2, <3>1
    <3> QED BY <1>1, <2>2, <3>1, <3>2
  <2>3. CASE k # n + 1 /\ k = 1 BY <1>1, <2>3
  <2> QED BY <2>1, <2>2, <2>3
<1>3. g = [k \in 1 .. n + 1 |-> g[k]] OBVIOUS
<1> HIDE DEF g
<1>4. g = [k \in 1 .. n + 1 |-> IF k = 1 THEN ss[k] ELSE g[k - 1] \o ss[k]] BY <1>2, <1>3
<1> QED BY <1>4 DEF Sums, g

\* There are such sums.
LEMMA SumsExist == ASSUME NEW ss, NEW n \in Nat \ {0} PROVE \E f : Sums(f, ss, n)
<1> DEFINE T == {m \in Nat \ {0} : ~ \E f : Sums(f, ss, m)}
<1>1. SUFFICES ASSUME T # {} PROVE FALSE OBVIOUS
<1>2. T \subseteq Nat OBVIOUS
<1>3. PICK m \in T : \A y \in T : m <= y BY <1>1, <1>2, LeastNat
<1>4. CASE m = 1
  <2> DEFINE g == [k \in 1 .. 1 |-> ss[1]]
  <2>1. g = [k \in 1 .. 1 |-> IF k = 1 THEN ss[k] ELSE g[k - 1] \o ss[k]] OBVIOUS
  <2> QED BY <1>4, <2>1 DEF Sums
<1>5. CASE m # 1
  <2>1. m - 1 \in Nat \ {0} /\ m - 1 \notin T BY <1>3, <1>5
  <2>2. PICK f : Sums(f, ss, m - 1) BY <2>1
  <2>3. \E g : Sums(g, ss, (m - 1) + 1) BY <2>1, <2>2, SumsGrow
  <2> QED BY <2>3
<1> QED BY <1>4, <1>5

\* And no others.
LEMMA SumsAgree ==
  ASSUME NEW ss, NEW n \in Nat, NEW m \in Nat, NEW f, NEW g, Sums(f, ss, n), Sums(g, ss, m), n <= m
  PROVE  \A k \in 1 .. n : f[k] = g[k]
<1> DEFINE T == {k \in 1 .. n : f[k] # g[k]}
<1>1. SUFFICES ASSUME T # {} PROVE FALSE OBVIOUS
<1>2. T \subseteq Nat OBVIOUS
<1>3. PICK k \in T : \A y \in T : k <= y BY <1>1, <1>2, LeastNat
<1>4. k \in 1 .. n /\ k \in 1 .. m OBVIOUS
<1>5. /\ f[k] = IF k = 1 THEN ss[k] ELSE f[k - 1] \o ss[k]
      /\ g[k] = IF k = 1 THEN ss[k] ELSE g[k - 1] \o ss[k]
  BY <1>4 DEF Sums
<1>6. k # 1 => f[k - 1] = g[k - 1]
  <2> SUFFICES ASSUME k # 1 PROVE f[k - 1] = g[k - 1] OBVIOUS
  <2>1. k - 1 \in 1 .. n /\ ~(k <= k - 1) BY <1>4
  <2> QED BY <1>3, <2>1
<1> QED BY <1>3, <1>5, <1>6

\* FlattenSeq is the last of the sums.
LEMMA FlattenIs ==
  ASSUME NEW ss, Len(ss) \in Nat \ {0}
  PROVE  \E f : Sums(f, ss, Len(ss)) /\ FlattenSeq(ss) = f[Len(ss)]
<1> DEFINE G == CHOOSE f : f = [k \in 1 .. Len(ss) |-> IF k = 1 THEN ss[k] ELSE f[k - 1] \o ss[k]]
<1>1. FlattenSeq(ss) = G[Len(ss)] BY Zenon DEF FlattenSeq
<1>2. \E f : f = [k \in 1 .. Len(ss) |-> IF k = 1 THEN ss[k] ELSE f[k - 1] \o ss[k]]
  BY SumsExist DEF Sums
<1>3. G = [k \in 1 .. Len(ss) |-> IF k = 1 THEN ss[k] ELSE G[k - 1] \o ss[k]] BY <1>2, Zenon
<1> HIDE DEF G
<1> QED BY <1>1, <1>3 DEF Sums

LEMMA SumsType ==
  ASSUME NEW S, NEW n \in Nat, NEW ss, \A k \in 1 .. n : ss[k] \in Seq(S), NEW f, Sums(f, ss, n)
  PROVE  \A k \in 1 .. n : f[k] \in Seq(S)
<1> DEFINE T == {k \in 1 .. n : f[k] \notin Seq(S)}
<1>1. SUFFICES ASSUME T # {} PROVE FALSE OBVIOUS
<1>2. T \subseteq Nat OBVIOUS
<1>3. PICK k \in T : \A y \in T : k <= y BY <1>1, <1>2, LeastNat
<1>4. f[k] = IF k = 1 THEN ss[k] ELSE f[k - 1] \o ss[k] BY DEF Sums
<1>5. k # 1 => f[k - 1] \in Seq(S)
  <2> SUFFICES ASSUME k # 1 PROVE f[k - 1] \in Seq(S) OBVIOUS
  <2>1. k - 1 \in 1 .. n /\ ~(k <= k - 1) OBVIOUS
  <2> QED BY <1>3, <2>1
<1>6. ss[k] \in Seq(S) OBVIOUS
<1>7. f[k] \in Seq(S)
  <2>1. CASE k = 1 BY <1>4, <1>6, <2>1
  <2>2. CASE k # 1 BY <1>4, <1>5, <1>6, <2>2, ConcatProperties
  <2> QED BY <2>1, <2>2
<1> QED BY <1>7

\* Two lists with the same first sequences have the same first sums.
LEMMA SumsSame ==
  ASSUME NEW ss, NEW tt, NEW n \in Nat, \A k \in 1 .. n : ss[k] = tt[k], NEW f, Sums(f, tt, n)
  PROVE  Sums(f, ss, n)
BY DEF Sums

\* The sum of sequences of things is a sequence of things.
LEMMA FlattenType ==
  ASSUME NEW S, NEW ss \in Seq(Seq(S)) PROVE FlattenSeq(ss) \in Seq(S)
<1>1. CASE Len(ss) = 0 BY <1>1 DEF FlattenSeq
<1>2. CASE Len(ss) # 0
  <2>1. Len(ss) \in Nat \ {0} /\ \A k \in 1 .. Len(ss) : ss[k] \in Seq(S) BY <1>2
  <2>2. PICK f : Sums(f, ss, Len(ss)) /\ FlattenSeq(ss) = f[Len(ss)] BY <2>1, FlattenIs
  <2>3. Len(ss) \in 1 .. Len(ss) BY <2>1
  <2> QED BY <2>1, <2>2, <2>3, SumsType
<1> QED BY <1>1, <1>2

LEMMA FlattenEmpty == FlattenSeq(<<>>) = <<>> BY DEF FlattenSeq

\* One sequence more at the end is one more summand at the end.
LEMMA FlattenAppend ==
  ASSUME NEW S, NEW ss \in Seq(Seq(S)), NEW x \in Seq(S)
  PROVE  FlattenSeq(Append(ss, x)) = FlattenSeq(ss) \o x
<1> DEFINE tt == Append(ss, x)
           n == Len(ss)
<1>1. /\ n \in Nat /\ Len(tt) = n + 1 /\ tt[n + 1] = x /\ \A k \in 1 .. n : tt[k] = ss[k]
      /\ Len(tt) \in Nat \ {0}
  OBVIOUS
<1> HIDE DEF tt, n
<1>2. PICK g : Sums(g, tt, n + 1) /\ FlattenSeq(tt) = g[n + 1] BY <1>1, FlattenIs
<1>3. g[n + 1] = IF n + 1 = 1 THEN tt[n + 1] ELSE g[n] \o tt[n + 1]
  <2>1. n + 1 \in 1 .. n + 1 /\ (n + 1) - 1 = n BY <1>1
  <2> QED BY <1>2, <2>1 DEF Sums
<1>4. CASE n = 0
  <2>1. ss = <<>> BY <1>4 DEF n
  <2>2. FlattenSeq(ss) = <<>> BY <2>1, FlattenEmpty
  <2> QED BY <1>1, <1>2, <1>3, <1>4, <2>2 DEF tt
<1>5. CASE n # 0
  <2>1. PICK f : Sums(f, ss, n) /\ FlattenSeq(ss) = f[n] BY <1>1, <1>5, FlattenIs DEF n
  <2>2. Sums(f, tt, n) BY <1>1, <2>1, SumsSame
  <2>3. n \in 1 .. n /\ n <= n + 1 /\ n + 1 \in Nat BY <1>1, <1>5
  <2>4. f[n] = g[n] BY <1>1, <1>2, <2>2, <2>3, SumsAgree
  <2> QED BY <1>1, <1>2, <1>3, <1>5, <2>1, <2>4 DEF tt
<1> QED BY <1>4, <1>5

\* A sum of three, either way.
LEMMA SumOfThree ==
  ASSUME NEW S, NEW a \in Seq(S), NEW b \in Seq(S), NEW c \in Seq(S),
         NEW u, NEW v, NEW x, u = a \o b, x = u \o c, v = b \o c
  PROVE  x = a \o v
BY ConcatAssociative

\* f sums up a head and then tt, g sums up tt.
HeadFirst(f, g, h, tt, n, S) ==
  /\ n \in Nat /\ h \in Seq(S) /\ \A k \in 1 .. n : tt[k] \in Seq(S) /\ g[k] \in Seq(S)
  /\ f[1] = h /\ \A k \in 1 .. n : f[k + 1] = f[k] \o tt[k]
  /\ \A k \in 1 .. n : g[k] = IF k = 1 THEN tt[k] ELSE g[k - 1] \o tt[k]

\* Every sum but the first is the head with the sum of the rest.
LEMMA SumsAfterHead ==
  ASSUME NEW S, NEW n, NEW h, NEW tt, NEW f, NEW g, HeadFirst(f, g, h, tt, n, S)
  PROVE  \A k \in 1 .. n : f[k + 1] = h \o g[k]
<1> USE DEF HeadFirst
<1> DEFINE B == {k \in 1 .. n : f[k + 1] # h \o g[k]}
<1>1. SUFFICES ASSUME B # {} PROVE FALSE BY Zenon
<1>2. B \subseteq 1 .. n BY Zenon
<1>3. PICK k \in 1 .. n : k \in B /\ (k = 1 \/ (k # 1 /\ k - 1 \in 1 .. n /\ k - 1 \notin B))
  <2> HIDE DEF B
  <2> QED BY <1>1, <1>2, FirstOf
<1>4. f[k + 1] # h \o g[k] BY <1>3, Zenon
<1>5. f[k + 1] = f[k] \o tt[k] OBVIOUS
<1>6. CASE k = 1
  <2>1. g[k] = tt[k] /\ f[k] = h BY <1>6
  <2> QED BY <1>4, <1>5, <2>1, Zenon
<1>7. CASE k # 1
  <2>1. k - 1 \in 1 .. n /\ k - 1 \notin B BY <1>3, <1>7, Zenon
  <2>2. f[(k - 1) + 1] = h \o g[k - 1] BY <2>1, Zenon
  <2>3. (k - 1) + 1 = k OBVIOUS
  <2>4. f[k] = h \o g[k - 1] BY <2>2, <2>3, Zenon
  <2>5. g[k] = g[k - 1] \o tt[k] BY <1>7, Zenon
  <2>6. g[k - 1] \in Seq(S) /\ tt[k] \in Seq(S) BY <2>1, Zenon
  <2> DEFINE b == g[k - 1]
             c == tt[k]
             u == f[k]
             v == g[k]
             x == f[k + 1]
  <2>7. b \in Seq(S) /\ c \in Seq(S) /\ u = h \o b /\ x = u \o c /\ v = b \o c
    BY <1>5, <2>4, <2>5, <2>6, Zenon
  <2>8. x # h \o v BY <1>4, Zenon
  <2> HIDE DEF b, c, u, v, x, B
  <2>9. x = h \o v BY <2>7, SumOfThree
  <2> QED BY <2>8, <2>9, Zenon
<1> QED BY <1>6, <1>7

\* The head comes first, and then what the tail sums up to.
LEMMA FlattenHead ==
  ASSUME NEW S, NEW ss \in Seq(Seq(S)), ss # <<>>
  PROVE  FlattenSeq(ss) = Head(ss) \o FlattenSeq(Tail(ss))
<1> DEFINE tt == Tail(ss)
           n == Len(tt)
<1>0. tt \in Seq(Seq(S)) /\ n = Len(tt) OBVIOUS
<1>1. /\ n \in Nat /\ Len(ss) = n + 1 /\ \A k \in 1 .. n : tt[k] = ss[k + 1] /\ tt[k] \in Seq(S)
      /\ Len(ss) \in Nat \ {0} /\ Head(ss) = ss[1] /\ ss[1] \in Seq(S)
  OBVIOUS
<1> HIDE DEF tt, n
<1>2. PICK f : Sums(f, ss, n + 1) /\ FlattenSeq(ss) = f[n + 1] BY <1>1, FlattenIs
<1>3. \A k \in 1 .. n + 1 : f[k] = IF k = 1 THEN ss[k] ELSE f[k - 1] \o ss[k] BY <1>2 DEF Sums
<1>4. f[1] = ss[1]
  <2>1. 1 \in 1 .. n + 1 BY <1>1
  <2> QED BY <1>3, <2>1
<1>5. CASE n = 0
  <2>1. tt = <<>> BY <1>0, <1>5, EmptySeq
  <2>2. FlattenSeq(tt) = <<>> BY <2>1, FlattenEmpty
  <2>3. ss[1] \o <<>> = ss[1] BY <1>1, ConcatEmptySeq
  <2> QED BY <1>1, <1>2, <1>4, <1>5, <2>2, <2>3 DEF tt
<1>6. CASE n # 0
  <2>1. PICK g : Sums(g, tt, n) /\ FlattenSeq(tt) = g[n] BY <1>0, <1>1, <1>6, FlattenIs
  <2>2. \A k \in 1 .. n : g[k] = IF k = 1 THEN tt[k] ELSE g[k - 1] \o tt[k] BY <2>1 DEF Sums
  <2>3. \A k \in 1 .. n : g[k] \in Seq(S) BY <1>1, <2>1, SumsType
  <2>4. \A k \in 1 .. n : f[k + 1] = f[k] \o tt[k]
    <3> TAKE k \in 1 .. n
    <3>1. k + 1 \in 1 .. n + 1 /\ k + 1 # 1 /\ (k + 1) - 1 = k BY <1>1
    <3>2. f[k + 1] = f[(k + 1) - 1] \o ss[k + 1] BY <1>3, <3>1, Zenon
    <3>3. tt[k] = ss[k + 1] BY <1>1
    <3> QED BY <3>1, <3>2, <3>3, Zenon
  <2>5. \A k \in 1 .. n : f[k + 1] = ss[1] \o g[k]
    <3>1. \A k \in 1 .. n : tt[k] \in Seq(S) /\ g[k] \in Seq(S) BY <1>1, <2>3, Zenon
    <3>2. n \in Nat /\ ss[1] \in Seq(S) BY <1>1, Zenon
    <3>3. HeadFirst(f, g, ss[1], tt, n, S) BY <1>4, <2>2, <2>4, <3>1, <3>2, Zenon DEF HeadFirst
    <3> DEFINE h == ss[1]
    <3>4. HeadFirst(f, g, h, tt, n, S) BY <3>3
    <3> HIDE DEF h
    <3>5. \A k \in 1 .. n : f[k + 1] = h \o g[k] BY <3>4, SumsAfterHead
    <3>6. h = ss[1] BY DEF h
    <3> QED BY <3>5, <3>6
  <2>6. n \in 1 .. n BY <1>1, <1>6
  <2> QED BY <1>1, <1>2, <2>1, <2>5, <2>6 DEF tt
<1> QED BY <1>5, <1>6

-----------------------------------------------------------------------------
(* The order of the events.                                                *)

\* What an owner heard, what is queued for it, what is pending, and all that was read: the
\* three are the fourth as long as the inbox is open, and what was heard begins it for good.
Ordered(h, q, p, all, dead) ==
  /\ h \in Seq(Event) /\ q \in Seq(Event) /\ p \in Seq(Event) /\ all \in Seq(Event)
  /\ \E rest \in Seq(Event) : all = h \o rest
  /\ ~dead => all = (h \o q) \o p

\* A socket that is not activated has read nothing, and one that is polled has not ended.
Opened ==
  /\ \A s \in Sock : ~entry[s].active =>
       entry[s].pending = <<>> /\ ~entry[s].done /\ entry[s].reads = 0
  /\ \A s \in io.polled : ~entry[s].done
  /\ IoAt("flush") => io.cur \notin io.polled
  /\ InRound /\ ~IoAt("poll") => io.polled = {}

Pending(s) == entry[s].pending \in Seq(EventsOf(s))
InOrder(s) == Ordered(heard[s], Queued(s), entry[s].pending, SoFar(s), mb[Into[s]].dead)
OrderInv ==
  /\ Opened
  /\ heard \in [Sock -> Seq(Event)]
  /\ \A s \in Sock : Pending(s) /\ InOrder(s)

\* To the provers a sum of sequences of events is what the next lemma says of it.
Then(a, b) == a \o b

LEMMA ThenIs ==
  /\ \A a, b \in Seq(Event) : Then(a, b) \in Seq(Event) /\ Then(a, <<>>) = a /\ Then(<<>>, a) = a
  /\ \A a, b, c \in Seq(Event) : Then(Then(a, b), c) = Then(a, Then(b, c))
<1>1. ASSUME NEW a \in Seq(Event), NEW b \in Seq(Event)
      PROVE  Then(a, b) \in Seq(Event) /\ Then(a, <<>>) = a /\ Then(<<>>, a) = a
  BY DEF Then
<1>2. ASSUME NEW a \in Seq(Event), NEW b \in Seq(Event), NEW c \in Seq(Event)
      PROVE  Then(Then(a, b), c) = Then(a, Then(b, c))
  BY ConcatAssociative DEF Then
<1> QED BY <1>1, <1>2

\* Ordered in these terms.
LEMMA OrderedThen ==
  ASSUME NEW h, NEW q, NEW p, NEW all, NEW dead
  PROVE  Ordered(h, q, p, all, dead) <=>
           /\ h \in Seq(Event) /\ q \in Seq(Event) /\ p \in Seq(Event) /\ all \in Seq(Event)
           /\ \E rest \in Seq(Event) : all = Then(h, rest)
           /\ ~dead => all = Then(Then(h, q), p)
BY DEF Ordered, Then

\* What is read is pending.
LEMMA OrderedRead ==
  ASSUME NEW h, NEW q, NEW p, NEW all, NEW dead, Ordered(h, q, p, all, dead), NEW x \in Seq(Event)
  PROVE  Ordered(h, q, p \o x, all \o x, dead)
<1>1. /\ h \in Seq(Event) /\ q \in Seq(Event) /\ p \in Seq(Event) /\ all \in Seq(Event)
      /\ Then(p, x) \in Seq(Event) /\ Then(all, x) \in Seq(Event) /\ Then(h, q) \in Seq(Event)
  BY OrderedThen, ThenIs
<1>2. PICK rest \in Seq(Event) : all = Then(h, rest) BY OrderedThen
<1>3. Then(rest, x) \in Seq(Event) /\ Then(all, x) = Then(h, Then(rest, x)) BY <1>1, <1>2, ThenIs
<1>4. ASSUME ~dead PROVE Then(all, x) = Then(Then(h, q), Then(p, x))
  <2>1. all = Then(Then(h, q), p) BY <1>4, OrderedThen
  <2> QED BY <1>1, <2>1, ThenIs
<1>5. Ordered(h, q, Then(p, x), Then(all, x), dead) BY <1>1, <1>3, <1>4, OrderedThen
<1> QED BY <1>5 DEF Then

\* What is pending is sent, its first event first.
LEMMA OrderedSent ==
  ASSUME NEW h, NEW q, NEW p, NEW all, NEW dead, Ordered(h, q, p, all, dead), p # <<>>
  PROVE  Ordered(h, q \o <<Head(p)>>, Tail(p), all, dead)
<1> DEFINE x == <<Head(p)>>
           t == Tail(p)
<1>1. /\ h \in Seq(Event) /\ q \in Seq(Event) /\ p \in Seq(Event) /\ all \in Seq(Event)
      /\ Then(h, q) \in Seq(Event)
  BY OrderedThen, ThenIs
<1>2. x \in Seq(Event) /\ t \in Seq(Event) /\ p = Then(x, t) BY <1>1 DEF Then
<1> HIDE DEF x, t
<1>3. Then(q, x) \in Seq(Event) BY <1>1, <1>2, ThenIs
<1>4. ASSUME ~dead PROVE all = Then(Then(h, Then(q, x)), t)
  <2>1. all = Then(Then(h, q), Then(x, t)) BY <1>2, <1>4, OrderedThen
  <2>2. all = Then(Then(Then(h, q), x), t) BY <1>1, <1>2, <2>1, ThenIs
  <2>3. Then(Then(h, q), x) = Then(h, Then(q, x)) BY <1>1, <1>2, ThenIs
  <2> QED BY <2>2, <2>3
<1>5. \E rest \in Seq(Event) : all = Then(h, rest) BY OrderedThen
<1>6. Ordered(h, Then(q, x), t, all, dead) BY <1>1, <1>2, <1>3, <1>4, <1>5, OrderedThen
<1> QED BY <1>6 DEF x, t, Then

\* What is sent is heard.
LEMMA OrderedHeard ==
  ASSUME NEW h, NEW q, NEW p, NEW all, Ordered(h, q, p, all, FALSE),
         NEW x \in Event, NEW r \in Seq(Event), q = <<x>> \o r
  PROVE  Ordered(Append(h, x), r, p, all, FALSE)
<1> DEFINE y == <<x>>
<1>0. h \in Seq(Event) /\ p \in Seq(Event) /\ all \in Seq(Event) BY DEF Ordered
<1>1. h \in Seq(Event) /\ p \in Seq(Event) /\ all \in Seq(Event) /\ y \in Seq(Event) BY <1>0
<1>2. Append(h, x) = Then(h, y) /\ q = Then(y, r) BY <1>1 DEF Then
<1> HIDE DEF y
<1>3. Then(h, y) \in Seq(Event) /\ Then(r, p) \in Seq(Event) BY <1>1, ThenIs
<1>4. all = Then(Then(h, Then(y, r)), p) BY <1>2, OrderedThen
<1>5. Then(h, Then(y, r)) = Then(Then(h, y), r) BY <1>1, ThenIs
<1>6. all = Then(Then(Then(h, y), r), p) BY <1>4, <1>5
<1>7. all = Then(Then(h, y), Then(r, p)) BY <1>1, <1>3, <1>6, ThenIs
<1>8. Ordered(Then(h, y), r, p, all, FALSE) BY <1>1, <1>3, <1>6, <1>7, OrderedThen
<1> QED BY <1>2, <1>8

\* In an inbox that is closed only what was heard counts.
LEMMA OrderedDead ==
  ASSUME NEW h, NEW q, NEW p, NEW all, NEW dead, Ordered(h, q, p, all, dead),
         NEW q2 \in Seq(Event), NEW p2 \in Seq(Event)
  PROVE  Ordered(h, q2, p2, all, TRUE)
BY DEF Ordered

\* What was heard begins what was read.
LEMMA OrderedBegins ==
  ASSUME NEW h, NEW q, NEW p, NEW all, NEW dead, Ordered(h, q, p, all, dead)
  PROVE  IsPrefix(h, all)
<1>1. PICK rest \in Seq(Event) : all = h \o rest BY DEF Ordered
<1>2. h \in Seq(Event) BY DEF Ordered
<1>3. Len(h) <= Len(all) /\ h = SubSeq(all, 1, Len(h))
  BY <1>1, <1>2
<1> QED BY <1>3 DEF IsPrefix

\* The events of a socket, and what a chunk or a mail brings of them.
LEMMA EventsOfType == ASSUME NEW s \in Sock PROVE EventsOf(s) \subseteq Event
<1>1. Buffered[s] \in Chunk /\ Arrives[s] \in Seq(Chunk) BY ArrivesAssumption
<1>2. \A c \in Chunk : ToSet(c.events) \subseteq Event
  <2> TAKE c \in Chunk
  <2>1. c.events \in Seq(Event) BY DEF Chunk
  <2> QED BY <2>1 DEF ToSet
<1>3. \A i \in 1 .. Len(Arrives[s]) : Arrives[s][i] \in Chunk BY <1>1
<1>4. \A i \in 1 .. Len(Arrives[s]) : ToSet(Arrives[s][i].events) \subseteq Event BY <1>2, <1>3
<1>5. ToSet(Buffered[s].events) \subseteq Event BY <1>1, <1>2
<1> QED BY <1>4, <1>5, Zenon DEF EventsOf

\* A sequence is one of any set that has its elements.
LEMMA SeqOfItsElements ==
  ASSUME NEW S, NEW q \in Seq(S), NEW T, ToSet(q) \subseteq T
  PROVE  q \in Seq(T)
BY DEF ToSet

LEMMA ChunkEvents ==
  ASSUME NEW s \in Sock
  PROVE  /\ Buffered[s].events \in Seq(EventsOf(s)) /\ Buffered[s].events \in Seq(Event)
         /\ \A i \in 1 .. Len(Arrives[s]) :
              Arrives[s][i].events \in Seq(EventsOf(s)) /\ Arrives[s][i].events \in Seq(Event)
<1>1. Buffered[s] \in Chunk /\ Arrives[s] \in Seq(Chunk) BY ArrivesAssumption
<1>2. \A i \in 1 .. Len(Arrives[s]) : Arrives[s][i].events \in Seq(Event)
  <2>1. \A i \in 1 .. Len(Arrives[s]) : Arrives[s][i] \in Chunk BY <1>1
  <2> QED BY <2>1 DEF Chunk
<1>3. Buffered[s].events \in Seq(Event) BY <1>1 DEF Chunk
<1>4. ToSet(Buffered[s].events) \subseteq EventsOf(s) BY DEF EventsOf
<1>5. \A i \in 1 .. Len(Arrives[s]) : ToSet(Arrives[s][i].events) \subseteq EventsOf(s)
  BY DEF EventsOf
<1> HIDE DEF EventsOf
<1>6. Buffered[s].events \in Seq(EventsOf(s)) BY <1>3, <1>4, SeqOfItsElements
<1>7. \A i \in 1 .. Len(Arrives[s]) : Arrives[s][i].events \in Seq(EventsOf(s))
  BY <1>2, <1>5, SeqOfItsElements
<1> QED BY <1>2, <1>3, <1>6, <1>7

\* What was read of a socket after another read.
ReadUpTo(s, n) == [i \in 1 .. n |-> Arrives[s][i].events]

LEMMA ReadUpToType ==
  ASSUME NEW s \in Sock, NEW n \in Nat, n <= Len(Arrives[s])
  PROVE  ReadUpTo(s, n) \in Seq(Seq(Event))
<1>1. Arrives[s] \in Seq(Chunk) BY ArrivesAssumption
<1>2. \A i \in 1 .. n : i \in 1 .. Len(Arrives[s]) BY <1>1
<1>3. \A i \in 1 .. n : Arrives[s][i].events \in Seq(Event) BY <1>2, ChunkEvents
<1> QED BY <1>3 DEF ReadUpTo

\* What was read, in terms of the reads.
LEMMA SoFarIs ==
  ASSUME HubInv, NEW s \in Sock
  PROVE  /\ SoFar(s) \in Seq(Event)
         /\ ~entry[s].active => SoFar(s) = <<>>
         /\ entry[s].active =>
              SoFar(s) = Buffered[s].events \o FlattenSeq(ReadUpTo(s, entry[s].reads))
<1>1. entry[s].reads \in Nat /\ entry[s].reads <= Len(Arrives[s])
  <2>1. entry[s].reads \in Nat /\ arrived[s] \in Nat /\ arrived[s] <= Len(Arrives[s])
        /\ entry[s].reads <= arrived[s]
    BY DEF HubInv, TypeOK, HubTypes, Arriving, EntryState
  <2>2. Len(Arrives[s]) \in Nat BY ArrivesAssumption
  <2> QED BY <2>1, <2>2
<1> DEFINE flat == FlattenSeq(ReadUpTo(s, entry[s].reads))
<1>2. flat \in Seq(Event) BY <1>1, ReadUpToType, FlattenType
<1>3. /\ ~entry[s].active => SoFar(s) = <<>>
      /\ entry[s].active => SoFar(s) = Buffered[s].events \o flat
  BY DEF SoFar, ReadUpTo
<1> HIDE DEF flat
<1>4. Buffered[s].events \in Seq(Event) BY ChunkEvents
<1>5. Buffered[s].events \o flat \in Seq(Event) BY <1>2, <1>4
<1>6. <<>> \in Seq(Event) OBVIOUS
<1>7. SoFar(s) \in Seq(Event) BY <1>3, <1>5, <1>6
<1> QED BY <1>3, <1>7 DEF flat

LEMMA SoFarSame ==
  ASSUME NEW s \in Sock, entry'[s].active = entry[s].active, entry'[s].reads = entry[s].reads
  PROVE  SoFar(s)' = SoFar(s)
BY DEF SoFar

LEMMA SoFarStarts ==
  ASSUME NEW s \in Sock, entry'[s].active, entry'[s].reads = 0
  PROVE  SoFar(s)' = Buffered[s].events
<1>1. ReadUpTo(s, 0) = <<>> BY DEF ReadUpTo
<1>2. SoFar(s)' = Buffered[s].events \o FlattenSeq(ReadUpTo(s, 0)) BY DEF SoFar, ReadUpTo
<1>3. Buffered[s].events \in Seq(Event) BY ChunkEvents
<1> QED BY <1>1, <1>2, <1>3, FlattenEmpty

\* A read adds its events to what was read.
LEMMA SoFarGrows ==
  ASSUME HubInv, NEW s \in Sock, entry[s].active, entry'[s].active,
         entry'[s].reads = entry[s].reads + 1, entry[s].reads + 1 \in 1 .. Len(Arrives[s])
  PROVE  SoFar(s)' = SoFar(s) \o Arrives[s][entry[s].reads + 1].events
<1> DEFINE n == entry[s].reads
           x == Arrives[s][n + 1].events
           old == ReadUpTo(s, n)
           new == ReadUpTo(s, n + 1)
           b == Buffered[s].events
<1>1. n \in Nat /\ n <= Len(Arrives[s]) /\ n + 1 \in Nat /\ n + 1 <= Len(Arrives[s])
  <2>1. Len(Arrives[s]) \in Nat BY ArrivesAssumption
  <2>2. n \in Nat BY DEF HubInv, TypeOK, HubTypes, EntryState
  <2> QED BY <2>1, <2>2
<1>2. old \in Seq(Seq(Event)) /\ b \in Seq(Event) /\ x \in Seq(Event)
  BY <1>1, ReadUpToType, ChunkEvents
<1>3. new = Append(old, x) BY <1>1, <1>2 DEF ReadUpTo
<1>4. SoFar(s) = b \o FlattenSeq(old) BY DEF SoFar, ReadUpTo
<1>5. SoFar(s)' = b \o FlattenSeq(new) BY <1>1 DEF SoFar, ReadUpTo
<1> HIDE DEF old, new, x, b
<1>6. FlattenSeq(new) = FlattenSeq(old) \o x BY <1>2, <1>3, FlattenAppend
<1>7. FlattenSeq(old) \in Seq(Event) BY <1>2, FlattenType
<1>8. Then(b, Then(FlattenSeq(old), x)) = Then(Then(b, FlattenSeq(old)), x) BY <1>2, <1>7, ThenIs
<1>9. b \o (FlattenSeq(old) \o x) = (b \o FlattenSeq(old)) \o x BY <1>8 DEF Then
<1>10. SoFar(s)' = SoFar(s) \o x BY <1>4, <1>5, <1>6, <1>9
<1> QED BY <1>10 DEF x, n

\* What one mail brings of a socket.
Brings(s, mail) == IF mail.kind = "msg" /\ mail.of \in EventsOf(s) THEN <<mail.of>> ELSE <<>>
Mails == MailOf(Actor \cup Event)

LEMMA BringsType ==
  ASSUME NEW s \in Sock, NEW mail
  PROVE  Brings(s, mail) \in Seq(Event)
<1>1. CASE mail.kind = "msg" /\ mail.of \in EventsOf(s)
  <2>1. mail.of \in Event BY <1>1, EventsOfType
  <2> QED BY <1>1, <2>1 DEF Brings
<1>2. CASE ~(mail.kind = "msg" /\ mail.of \in EventsOf(s)) BY <1>2 DEF Brings
<1> QED BY <1>1, <1>2

\* The events that mails bring are the sum of what each brings.
LEMMA PickedIs ==
  ASSUME NEW s \in Sock, NEW mails \in Seq(Mails)
  PROVE  /\ [k \in 1 .. Len(mails) |-> Brings(s, mails[k])] \in Seq(Seq(Event))
         /\ Picked(s, mails) = FlattenSeq([k \in 1 .. Len(mails) |-> Brings(s, mails[k])])
         /\ Picked(s, mails) \in Seq(Event)
<1> DEFINE ss == [k \in 1 .. Len(mails) |-> Brings(s, mails[k])]
<1>1. Len(mails) \in Nat OBVIOUS
<1>2. \A k \in 1 .. Len(mails) : Brings(s, mails[k]) \in Seq(Event) BY BringsType
<1>3. ss \in Seq(Seq(Event)) BY <1>1, <1>2
<1>4. Picked(s, mails) = FlattenSeq(ss) BY DEF Picked, Brings
<1> HIDE DEF ss
<1>5. Picked(s, mails) \in Seq(Event) BY <1>3, <1>4, FlattenType
<1> QED BY <1>3, <1>4, <1>5 DEF ss

\* A mail more at the end of the queue, and a mail less at its head.
LEMMA PickedAppend ==
  ASSUME NEW s \in Sock, NEW mails \in Seq(Mails), NEW mail \in Mails
  PROVE  Picked(s, Append(mails, mail)) = Picked(s, mails) \o Brings(s, mail)
<1> DEFINE more == Append(mails, mail)
           ss == [k \in 1 .. Len(mails) |-> Brings(s, mails[k])]
           tt == [k \in 1 .. Len(more) |-> Brings(s, more[k])]
           x == Brings(s, mail)
<1>1. more \in Seq(Mails) OBVIOUS
<1>2. Picked(s, more) = FlattenSeq(tt) BY <1>1, PickedIs
<1>3. Picked(s, mails) = FlattenSeq(ss) /\ ss \in Seq(Seq(Event)) BY PickedIs
<1>4. tt = Append(ss, x)
  <2>1. Len(mails) \in Nat /\ Len(more) = Len(mails) + 1 /\ more[Len(mails) + 1] = mail
        /\ \A k \in 1 .. Len(mails) : more[k] = mails[k]
    OBVIOUS
  <2>2. Len(ss) = Len(mails) BY <2>1
  <2> HIDE DEF more
  <2>3. DOMAIN tt = 1 .. Len(mails) + 1 /\ DOMAIN Append(ss, x) = 1 .. Len(mails) + 1
    BY <1>3, <2>1, <2>2
  <2>4. \A k \in 1 .. Len(mails) + 1 : tt[k] = Append(ss, x)[k]
    BY <1>3, <2>1, <2>2
  <2>5. tt = [k \in 1 .. Len(mails) + 1 |-> tt[k]] BY <2>1
  <2>6. Append(ss, x) = [k \in 1 .. Len(mails) + 1 |-> Append(ss, x)[k]] BY <2>1, <2>2
  <2> HIDE DEF tt, ss, x
  <2> QED BY <2>4, <2>5, <2>6
<1>5. x \in Seq(Event) BY BringsType
<1> HIDE DEF ss, tt, x
<1>6. FlattenSeq(tt) = FlattenSeq(ss) \o x BY <1>3, <1>4, <1>5, FlattenAppend
<1> QED BY <1>2, <1>3, <1>6 DEF x

LEMMA PickedHead ==
  ASSUME NEW s \in Sock, NEW mails \in Seq(Mails), mails # <<>>
  PROVE  Picked(s, mails) = Brings(s, Head(mails)) \o Picked(s, Tail(mails))
<1> DEFINE rest == Tail(mails)
           ss == [k \in 1 .. Len(mails) |-> Brings(s, mails[k])]
           tt == [k \in 1 .. Len(rest) |-> Brings(s, rest[k])]
<1>1. rest \in Seq(Mails) OBVIOUS
<1>2. Picked(s, rest) = FlattenSeq(tt) BY <1>1, PickedIs
<1>3. Picked(s, mails) = FlattenSeq(ss) /\ ss \in Seq(Seq(Event)) BY PickedIs
<1>4. /\ Len(mails) \in Nat \ {0} /\ Len(rest) = Len(mails) - 1 /\ Head(mails) = mails[1]
      /\ \A k \in 1 .. Len(rest) : rest[k] = mails[k + 1]
  OBVIOUS
<1>5. Len(ss) = Len(mails) /\ ss # <<>> BY <1>4
<1>6. Head(ss) = Brings(s, Head(mails)) BY <1>4, <1>5
<1>7. Tail(ss) = tt
  <2> HIDE DEF rest
  <2>1. DOMAIN Tail(ss) = 1 .. Len(mails) - 1 BY <1>3, <1>4, <1>5
  <2>2. \A k \in 1 .. Len(mails) - 1 : Tail(ss)[k] = tt[k]
    <3> TAKE k \in 1 .. Len(mails) - 1
    <3>1. Tail(ss)[k] = ss[k + 1] BY <1>3, <1>4, <1>5
    <3> QED BY <1>4, <3>1
  <2>3. Tail(ss) \in Seq(Seq(Event)) BY <1>3, <1>5
  <2> QED BY <1>4, <2>1, <2>2, <2>3
<1> HIDE DEF ss, tt, rest
<1>8. FlattenSeq(ss) = Head(ss) \o FlattenSeq(Tail(ss)) BY <1>3, <1>5, FlattenHead
<1> QED BY <1>2, <1>3, <1>6, <1>7, <1>8 DEF rest

-----------------------------------------------------------------------------
(* What each step does to the order.                                       *)

\* At the start nothing was read.
LEMMA OrderInit == ASSUME Init PROVE OrderInv
<1>1. /\ \A s \in Sock : entry[s].active = FALSE /\ entry[s].pending = <<>>
                         /\ entry[s].done = FALSE /\ entry[s].reads = 0
      /\ io.polled = {} /\ ~IoAt("flush") /\ heard = [s \in Sock |-> <<>>]
  BY DEF Init, IoAt
<1>2. Opened BY <1>1 DEF Opened
<1>3. ASSUME NEW s \in Sock PROVE Pending(s) /\ InOrder(s)
  <2>1. mb[Into[s]].q = <<>> BY SortsAssumption DEF Init, NewMailbox
  <2>2. Queued(s) = <<>> BY <2>1 DEF Queued, Picked, FlattenSeq
  <2>3. SoFar(s) = <<>> BY <1>1 DEF SoFar
  <2>4. <<>> \in Seq(Event) /\ <<>> = <<>> \o <<>> /\ <<>> = (<<>> \o <<>>) \o <<>> OBVIOUS
  <2>5. InOrder(s) BY <1>1, <2>2, <2>3, <2>4 DEF InOrder, Ordered
  <2>6. <<>> \in Seq(EventsOf(s)) OBVIOUS
  <2>7. Pending(s) BY <1>1, <2>6 DEF Pending
  <2> QED BY <2>5, <2>7
<1>4. heard \in [Sock -> Seq(Event)] BY <1>1
<1> QED BY <1>2, <1>3, <1>4 DEF OrderInv

\* A step that neither reads nor sends nor receives.
LEMMA OrderSame ==
  ASSUME OrderInv, mb' = mb, heard' = heard,
         \A s \in Sock : /\ entry'[s].active = entry[s].active /\ entry'[s].done = entry[s].done
                         /\ entry'[s].pending = entry[s].pending
                         /\ entry'[s].reads = entry[s].reads,
         \A s \in io'.polled : s \in Sock /\ ~entry[s].done,
         IoAt("flush")' => io'.cur \notin io'.polled,
         InRound' /\ ~IoAt("poll")' => io'.polled = {}
  PROVE  OrderInv'
<1>1. Opened' BY DEF OrderInv, Opened
<1>2. ASSUME NEW s \in Sock PROVE Pending(s)' /\ InOrder(s)'
  <2>1. Queued(s)' = Queued(s) BY DEF Queued
  <2>2. SoFar(s)' = SoFar(s) BY SoFarSame
  <2>3. Pending(s) /\ InOrder(s) BY DEF OrderInv
  <2> QED BY <2>1, <2>2, <2>3 DEF Pending, InOrder
<1> QED BY <1>1, <1>2 DEF OrderInv

\* Of an actor, or of the end of the world.
LEMMA OrderSameElsewhere ==
  ASSUME HubInv, OrderInv, mb' = mb, heard' = heard, io' = io,
         \A s \in Sock : /\ entry'[s].active = entry[s].active /\ entry'[s].done = entry[s].done
                         /\ entry'[s].pending = entry[s].pending
                         /\ entry'[s].reads = entry[s].reads
  PROVE  OrderInv'
<1>1. io.polled \subseteq Sock BY DEF HubInv, TypeOK, IoState
<1>2. /\ \A s \in io.polled : ~entry[s].done
      /\ IoAt("flush") => io.cur \notin io.polled
      /\ InRound /\ ~IoAt("poll") => io.polled = {}
  BY DEF OrderInv, Opened
<1>3. (IoAt("flush")' <=> IoAt("flush")) /\ (IoAt("poll")' <=> IoAt("poll")) /\ (InRound' <=> InRound)
  BY DEF IoAt, InRound
<1> QED BY <1>1, <1>2, <1>3, OrderSame

\* The natives that have nothing to do with mail or with reads.
LEMMA ActorsKeepOrder ==
  ASSUME HubInv, OrderInv, NEW a \in Actor,
         \/ Wake(a) \/ EndHub(a) \/ Return(a) \/ SendEnds(a) \/ SendDeadline(a) \/ SendStopped(a)
         \/ \E s \in Sock : SendBegin(a, s) \/ ActiveClose(a, s)
         \/ \E c \in Conn : TakeTicket(a, c) \/ HandOff(a, c)
  PROVE  OrderInv'
<1>1. entry \in [Sock -> EntryState] BY DEF HubInv, TypeOK, HubTypes
<1>2. \A s \in Sock : AskClose(a, s) => OrderInv'
  <2> SUFFICES ASSUME NEW s \in Sock, AskClose(a, s) PROVE OrderInv' OBVIOUS
  <2>1. entry' = [entry EXCEPT ![s].close_req = TRUE] /\ mb' = mb /\ heard' = heard /\ io' = io
    BY DEF AskClose
  <2>2. \A t \in Sock : /\ entry'[t].active = entry[t].active /\ entry'[t].done = entry[t].done
                        /\ entry'[t].pending = entry[t].pending
                        /\ entry'[t].reads = entry[t].reads
    BY <1>1, <2>1 DEF EntryState
  <2> QED BY <2>1, <2>2, OrderSameElsewhere
<1>3. CASE EndHub(a)
  <2>1. mb' = mb /\ heard' = heard /\ io' = io BY <1>3 DEF EndHub
  <2>2. PICK D \in SUBSET Sock :
          entry' = [t \in Sock |-> IF t \in D THEN [entry[t] EXCEPT !.close_req = TRUE] ELSE entry[t]]
    <3> DEFINE D == {t \in socks : Owner[t] = a /\ ~entry[t].close_req}
    <3>1. D \subseteq Sock BY DEF HubInv, TypeOK, HubTypes
    <3>2. entry' = [t \in Sock |-> IF t \in D THEN [entry[t] EXCEPT !.close_req = TRUE] ELSE entry[t]]
      BY <1>3 DEF EndHub
    <3> QED BY <3>1, <3>2
  <2>3. \A t \in Sock : /\ entry'[t].active = entry[t].active /\ entry'[t].done = entry[t].done
                        /\ entry'[t].pending = entry[t].pending
                        /\ entry'[t].reads = entry[t].reads
    BY <1>1, <2>2 DEF EntryState
  <2> QED BY <2>1, <2>3, OrderSameElsewhere
<1>4. CASE \/ Wake(a) \/ Return(a) \/ SendEnds(a) \/ SendStopped(a)
           \/ \E s \in Sock : SendBegin(a, s)
           \/ \E c \in Conn : TakeTicket(a, c) \/ HandOff(a, c)
  <2>1. mb' = mb /\ heard' = heard /\ io' = io /\ entry' = entry
    BY <1>4 DEF Wake, Return, SendEnds, SendStopped, SendBegin, TakeTicket, HandOff
  <2> QED BY <2>1, OrderSameElsewhere
<1>5. CASE \E s \in Sock : ActiveClose(a, s) BY <1>2, <1>5 DEF ActiveClose
<1>6. CASE SendDeadline(a)
  <2>1. on[a] \in Sock BY <1>6 DEF SendDeadline, HubInv, SocksStand, TypeOK, HubTypes
  <2> QED BY <1>2, <1>6, <2>1 DEF SendDeadline
<1> QED BY <1>3, <1>4, <1>5, <1>6

\* Peers, and the end of the hub.
LEMMA OutsideKeepsOrder ==
  ASSUME HubInv, OrderInv,
         HubStop \/ HubStopWake \/ HubJoined \/ UNCHANGED vars \/ \E s \in Sock : PeerActs(s)
  PROVE  OrderInv'
<1>1. mb' = mb /\ heard' = heard /\ io' = io /\ entry' = entry
  BY DEF HubStop, HubStopWake, HubJoined, PeerActs, vars, actors
<1> QED BY <1>1, OrderSameElsewhere

\* The thread between its turns to read and to send.
LEMMA ThreadKeepsOrder ==
  ASSUME HubInv, OrderInv,
         \/ IoTop \/ IoWatch \/ IoPoll \/ IoDrain \/ AcceptEnds
         \/ \E s \in Sock : IoClose(s) \/ IoFlushNext(s) \/ AcceptBegin(s)
  PROVE  OrderInv'
<1>1. mb' = mb /\ heard' = heard /\ entry' = entry
  BY DEF IoTop, IoWatch, IoPoll, IoDrain, AcceptEnds, IoClose, IoFlushNext, AcceptBegin, actors
<1>2. io \in IoState /\ io.polled \subseteq Sock /\ io.live \subseteq Sock
  BY DEF HubInv, TypeOK, IoState
<1>3. /\ \A s \in io.polled : ~entry[s].done
      /\ InRound /\ ~IoAt("poll") => io.polled = {}
  BY DEF OrderInv, Opened
<1>4. SUFFICES /\ \A s \in io'.polled : s \in Sock /\ ~entry[s].done
               /\ IoAt("flush")' => io'.cur \notin io'.polled
               /\ InRound' /\ ~IoAt("poll")' => io'.polled = {}
  BY <1>1, OrderSame
<1>5. CASE IoTop
  <2>1. io'.polled = {} BY <1>2, <1>5 DEF IoTop, IoState
  <2> QED BY <2>1
<1>6. CASE IoWatch
  <2>1. io' = [io EXCEPT !.pc = "poll",
                 !.polled = {s \in io.live : ~entry[s].paused /\ ~entry[s].done}]
    BY <1>6 DEF IoWatch
  <2>2. io'.pc = "poll" /\ io'.polled = {s \in io.live : ~entry[s].paused /\ ~entry[s].done}
    BY <1>2, <2>1 DEF IoState
  <2> QED BY <1>2, <2>2 DEF IoAt
<1>7. CASE IoPoll
  <2>1. io'.pc \in {"drain", "ready"} /\ io'.polled \subseteq io.polled
    BY <1>2, <1>7 DEF IoPoll, IoState
  <2> QED BY <1>2, <1>3, <2>1 DEF IoAt, InRound
<1>8. CASE IoDrain \/ AcceptEnds
  <2>1. io'.pc = "ready" /\ io'.polled = io.polled BY <1>2, <1>8 DEF IoDrain, AcceptEnds, Idle, IoState
  <2> QED BY <1>2, <1>3, <2>1 DEF IoAt, InRound
<1>9. CASE \E s \in Sock : AcceptBegin(s)
  <2>0. PICK s \in Sock :
          io' = [io EXCEPT !.pc = "accept", !.cur = s, !.k = 0, !.polled = io.polled \ {s}]
    BY <1>9 DEF AcceptBegin
  <2>1. io'.pc = "accept" /\ io'.polled \subseteq io.polled BY <1>2, <2>0 DEF IoState
  <2> QED BY <1>2, <1>3, <2>1 DEF IoAt, InRound
<1>10. CASE \E s \in Sock : IoClose(s) \/ IoFlushNext(s)
  <2>1. io'.polled = io.polled /\ io.pc = "round"
    BY <1>2, <1>10 DEF IoClose, IoFlushNext, IoAt, IoState
  <2>2. io'.polled = {} BY <1>3, <2>1 DEF InRound, IoAt
  <2> QED BY <2>2
<1> QED BY <1>5, <1>6, <1>7, <1>8, <1>9, <1>10

\* A step that reads of one socket.
LEMMA OrderAfterRead ==
  ASSUME HubInv, OrderInv, NEW s \in Sock, mb' = mb, heard' = heard,
         \A t \in Sock : t # s => entry'[t] = entry[t],
         NEW x \in Seq(EventsOf(s)), entry'[s].active,
         entry'[s].pending = entry[s].pending \o x, SoFar(s)' = SoFar(s) \o x,
         \A t \in io'.polled : t \in Sock /\ t # s /\ ~entry[t].done,
         IoAt("flush")' => io'.cur \notin io'.polled,
         InRound' /\ ~IoAt("poll")' => io'.polled = {}
  PROVE  OrderInv'
<1>1. Opened' BY DEF OrderInv, Opened
<1>2. ASSUME NEW t \in Sock, t # s PROVE Pending(t)' /\ InOrder(t)'
  <2>1. Queued(t)' = Queued(t) BY DEF Queued
  <2>2. SoFar(t)' = SoFar(t) BY <1>2, SoFarSame
  <2>3. Pending(t) /\ InOrder(t) BY DEF OrderInv
  <2> QED BY <1>2, <2>1, <2>2, <2>3 DEF Pending, InOrder
<1>3. Pending(s)'
  <2>1. Pending(s) BY DEF OrderInv
  <2> QED BY <2>1 DEF Pending
<1>4. InOrder(s)'
  <2>1. x \in Seq(Event) BY EventsOfType
  <2>2. Queued(s)' = Queued(s) BY DEF Queued
  <2>3. Ordered(heard[s], Queued(s), entry[s].pending, SoFar(s), mb[Into[s]].dead)
    BY DEF OrderInv, InOrder
  <2>4. Ordered(heard[s], Queued(s), entry[s].pending \o x, SoFar(s) \o x, mb[Into[s]].dead)
    BY <2>1, <2>3, OrderedRead
  <2> QED BY <2>2, <2>4 DEF InOrder
<1> QED BY <1>1, <1>2, <1>3, <1>4 DEF OrderInv

\* What was buffered is the first thing that is read.
LEMMA ActivateKeepsOrder ==
  ASSUME HubInv, OrderInv, NEW a \in Actor, NEW s \in Sock, Activate(a, s)
  PROVE  OrderInv'
<1>1. /\ mb' = mb /\ heard' = heard /\ io \in IoState /\ entry \in [Sock -> EntryState]
      /\ ~entry[s].active
      /\ entry' = [entry EXCEPT ![s] = Frame([entry[s] EXCEPT !.active = TRUE], Buffered[s])]
      /\ io' = [io EXCEPT !.pc = IF io.pc = "none" THEN "ready" ELSE io.pc]
  BY DEF HubInv, TypeOK, HubTypes, Activate
<1>2. entry[s].pending = <<>> /\ ~entry[s].done /\ entry[s].reads = 0
  BY <1>1 DEF OrderInv, Opened
<1>3. PICK e \in EntryState : /\ e = [entry[s] EXCEPT !.active = TRUE] /\ e.active
                              /\ e.reads = entry[s].reads /\ e.pending = entry[s].pending
                              /\ e.done = entry[s].done
  <2> DEFINE g == [entry[s] EXCEPT !.active = TRUE]
  <2>1. entry[s] \in EntryState BY <1>1
  <2>2. /\ g \in EntryState /\ g.active /\ g.pending = entry[s].pending
        /\ g.done = entry[s].done /\ g.reads = entry[s].reads
    BY <2>1, ActivatedEntry
  <2> HIDE DEF g
  <2>3. g = [entry[s] EXCEPT !.active = TRUE] BY DEF g
  <2> QED BY <2>2, <2>3
<1>4. Buffered[s] \in Chunk BY ArrivesAssumption
<1>5. PICK f \in EntryState : /\ f = Frame(e, Buffered[s]) /\ f.active /\ f.reads = 0
                              /\ f.pending = entry[s].pending \o Buffered[s].events
  <2> DEFINE g == Frame(e, Buffered[s])
  <2>1. /\ g \in EntryState /\ g.active = e.active /\ g.reads = e.reads
        /\ g.pending = IF e.done THEN e.pending ELSE e.pending \o Buffered[s].events
    BY <1>4, FrameIs
  <2> HIDE DEF g
  <2>2. g = Frame(e, Buffered[s]) BY DEF g
  <2> QED BY <1>2, <1>3, <2>1, <2>2
<1>6. entry'[s] = f /\ \A t \in Sock : t # s => entry'[t] = entry[t] BY <1>1, <1>3, <1>5
<1>7. SoFar(s) = <<>> BY <1>1 DEF SoFar
<1>8. SoFar(s)' = Buffered[s].events BY <1>5, <1>6, SoFarStarts
<1>9. Buffered[s].events \in Seq(EventsOf(s)) /\ Buffered[s].events \in Seq(Event)
  BY ChunkEvents
<1>10. SoFar(s)' = SoFar(s) \o Buffered[s].events BY <1>7, <1>8, <1>9
<1>11. s \notin io.polled /\ io.polled \subseteq Sock
  <2>1. io.polled \subseteq Standing BY DEF HubInv, Control, Standing
  <2>2. s \notin Standing BY <1>1 DEF HubInv, SocksStand
  <2> QED BY <1>1, <2>1, <2>2 DEF IoState
<1>12. /\ io'.polled = io.polled /\ io'.cur = io.cur /\ io'.back = io.back
       /\ io'.pc = io.pc \/ io'.pc = "ready"
  BY <1>1 DEF IoState
<1>13. /\ \A t \in io'.polled : t \in Sock /\ t # s /\ ~entry[t].done
       /\ IoAt("flush")' => io'.cur \notin io'.polled
       /\ InRound' /\ ~IoAt("poll")' => io'.polled = {}
  BY <1>11, <1>12 DEF OrderInv, Opened, InRound, IoAt
<1> QED BY <1>1, <1>5, <1>6, <1>9, <1>10, <1>13, OrderAfterRead

\* A read of a socket that has not ended, by ReadOnce or by Accept.
LEMMA ReadKeepsOrder ==
  ASSUME HubInv, OrderInv, NEW s \in Sock, Readable(s), ~entry[s].done, entry[s].active,
         mb' = mb, heard' = heard,
         entry' = [entry EXCEPT ![s] = [Frame(entry[s], Arrives[s][entry[s].reads + 1])
                                          EXCEPT !.reads = entry[s].reads + 1]],
         \A t \in io'.polled : t \in Sock /\ t # s /\ ~entry[t].done,
         IoAt("flush")' => io'.cur \notin io'.polled,
         InRound' /\ ~IoAt("poll")' => io'.polled = {}
  PROVE  OrderInv'
<1> DEFINE chunk == Arrives[s][entry[s].reads + 1]
<1>1. entry[s].reads + 1 \in 1 .. Len(Arrives[s]) /\ chunk \in Chunk BY NextRead
<1>2. entry \in [Sock -> EntryState] /\ entry[s] \in EntryState
  BY DEF HubInv, TypeOK, HubTypes
<1>3. chunk.events \in Seq(EventsOf(s)) BY <1>1, ChunkEvents
<1> HIDE DEF chunk
<1>4. PICK f \in EntryState : /\ f = [Frame(entry[s], chunk) EXCEPT !.reads = entry[s].reads + 1]
                              /\ f.active /\ f.reads = entry[s].reads + 1
                              /\ f.pending = entry[s].pending \o chunk.events
  <2> DEFINE g == [Frame(entry[s], chunk) EXCEPT !.reads = entry[s].reads + 1]
  <2>1. entry[s] \in EntryState /\ chunk \in Chunk BY <1>1, <1>2
  <2>2. /\ g \in EntryState /\ g.active = entry[s].active /\ g.close_req = entry[s].close_req
        /\ g.paused = entry[s].paused /\ g.reads = entry[s].reads + 1
        /\ g.pending = IF entry[s].done THEN entry[s].pending ELSE entry[s].pending \o chunk.events
    BY <2>1, ReadIs
  <2>3. g = [Frame(entry[s], chunk) EXCEPT !.reads = entry[s].reads + 1] OBVIOUS
  <2> HIDE DEF g
  <2> QED BY <2>2, <2>3
<1>5. entry'[s] = f /\ \A t \in Sock : t # s => entry'[t] = entry[t] BY <1>2, <1>4 DEF chunk
<1>6. SoFar(s)' = SoFar(s) \o chunk.events BY <1>1, <1>4, <1>5, SoFarGrows DEF chunk
<1> QED BY <1>3, <1>4, <1>5, <1>6, OrderAfterRead

LEMMA ReadOnceKeepsOrder ==
  ASSUME HubInv, OrderInv, NEW s \in Sock, ReadOnce(s)
  PROVE  OrderInv'
<1>1. /\ mb' = mb /\ heard' = heard /\ io \in IoState
      /\ io.pc = "ready" /\ s \in io.polled
      /\ entry' = [entry EXCEPT ![s] = [Frame(entry[s], Arrives[s][entry[s].reads + 1])
                                          EXCEPT !.reads = entry[s].reads + 1]]
      /\ io' = IF entry'[s].pending = <<>> THEN [io EXCEPT !.polled = io.polled \ {s}]
               ELSE [io EXCEPT !.pc = "flush", !.cur = s, !.back = "ready", !.polled = io.polled \ {s}]
  BY DEF HubInv, TypeOK, ReadOnce, IoAt, actors
<1>2. /\ Readable(s) /\ s \in Standing /\ io.polled \subseteq Sock
  BY <1>1 DEF HubInv, Control, IoAt, Standing, IoState
<1>3. entry[s].active BY <1>2 DEF HubInv, SocksStand
<1>4. \A t \in io.polled : ~entry[t].done BY DEF OrderInv, Opened
<1>5. /\ io'.polled = io.polled \ {s}
      /\ io'.pc = "ready" \/ (io'.pc = "flush" /\ io'.cur = s /\ io'.back = "ready")
  <2>1. CASE entry'[s].pending = <<>> BY <1>1, <2>1 DEF IoState
  <2>2. CASE entry'[s].pending # <<>> BY <1>1, <2>2 DEF IoState
  <2> QED BY <2>1, <2>2
<1>6. /\ \A t \in io'.polled : t \in Sock /\ t # s /\ ~entry[t].done
      /\ IoAt("flush")' => io'.cur \notin io'.polled
      /\ InRound' /\ ~IoAt("poll")' => io'.polled = {}
  BY <1>2, <1>4, <1>5 DEF InRound, IoAt
<1> QED BY <1>1, <1>2, <1>3, <1>4, <1>6, ReadKeepsOrder

LEMMA AcceptKeepsOrder ==
  ASSUME HubInv, OrderInv, Accept
  PROVE  OrderInv'
<1>0. PICK s \in Sock : s = io.cur BY DEF Accept, IoAt, HubInv, Control, TypeOK, IoState
<1>1. /\ mb' = mb /\ heard' = heard /\ io \in IoState /\ io.pc = "accept" /\ Accepting(s)
      /\ entry' = [entry EXCEPT ![s] = [Frame(entry[s], Arrives[s][entry[s].reads + 1])
                                          EXCEPT !.reads = entry[s].reads + 1]]
      /\ io' = [io EXCEPT !.pc = "flush", !.back = "accept", !.k = io.k + 1]
  BY <1>0 DEF HubInv, TypeOK, Accept, IoAt, actors
<1>2. s \notin io.polled /\ s \in Standing /\ io.polled \subseteq Sock
  BY <1>0, <1>1 DEF HubInv, Control, IoAt, Standing, IoState
<1>3. entry[s].active BY <1>2 DEF HubInv, SocksStand
<1>4. Readable(s) /\ ~entry[s].done BY <1>1 DEF Accepting
<1>5. io'.polled = io.polled /\ io'.cur = s /\ io'.pc = "flush" /\ io'.back = "accept"
  BY <1>0, <1>1 DEF IoState
<1>6. /\ \A t \in io'.polled : t \in Sock /\ t # s /\ ~entry[t].done
      /\ IoAt("flush")' => io'.cur \notin io'.polled
      /\ InRound' /\ ~IoAt("poll")' => io'.polled = {}
  BY <1>2, <1>5 DEF InRound, IoAt, OrderInv, Opened
<1> QED BY <1>1, <1>3, <1>4, <1>6, ReadKeepsOrder

\* A step that changes inboxes and what was heard.
LEMMA OrderAfterMail ==
  ASSUME HubInv, OrderInv, heard' \in [Sock -> Seq(Event)], entry' = entry, io' = io,
         \A s \in Sock : InOrder(s)'
  PROVE  OrderInv'
<1>1. Opened' BY DEF OrderInv, Opened, InRound, IoAt
<1>2. \A s \in Sock : Pending(s)' BY DEF OrderInv, Pending
<1> QED BY <1>1, <1>2 DEF OrderInv

LEMMA MailOfBox == ASSUME HubInv, NEW b \in Box PROVE mb[b] \in Mailboxes /\ mb[b].q \in Seq(Mails)
<1>1. mb[b] \in Mailboxes BY DEF HubInv, TypeOK, BoxTypes
<1> QED BY <1>1 DEF Mailboxes, MailboxOf, Mails

\* In an inbox that keeps its mail, or is closed, the order stays.
LEMMA OrderInBox ==
  ASSUME HubInv, OrderInv, NEW s \in Sock, heard'[s] = heard[s], entry'[s] = entry[s],
         \/ mb'[Into[s]].q = mb[Into[s]].q /\ mb'[Into[s]].dead = mb[Into[s]].dead
         \/ mb'[Into[s]].q = <<>> /\ mb'[Into[s]].dead = TRUE
  PROVE  InOrder(s)'
<1>1. SoFar(s)' = SoFar(s) BY SoFarSame
<1>2. Ordered(heard[s], Queued(s), entry[s].pending, SoFar(s), mb[Into[s]].dead)
  BY DEF OrderInv, InOrder
<1>3. CASE mb'[Into[s]].q = mb[Into[s]].q /\ mb'[Into[s]].dead = mb[Into[s]].dead
  <2>1. Queued(s)' = Queued(s) BY <1>3 DEF Queued
  <2> QED BY <1>1, <1>2, <1>3, <2>1 DEF InOrder
<1>4. CASE mb'[Into[s]].q = <<>> /\ mb'[Into[s]].dead = TRUE
  <2>1. Queued(s)' \in Seq(Event)
    <3>1. <<>> \in Seq(Mails) OBVIOUS
    <3>2. Picked(s, <<>>) \in Seq(Event) BY <3>1, PickedIs
    <3> QED BY <1>4, <3>2 DEF Queued
  <2>2. entry[s].pending \in Seq(Event) BY <1>2 DEF Ordered
  <2>3. Ordered(heard[s], Queued(s)', entry[s].pending, SoFar(s), TRUE)
    BY <1>2, <2>1, <2>2 DEF Ordered
  <2> QED BY <1>1, <1>4, <2>3 DEF InOrder
<1> QED BY <1>3, <1>4

\* A program that closes an inbox has heard what it has heard.
LEMMA ClosingKeepsOrder ==
  ASSUME HubInv, OrderInv, NEW a \in Actor, EndBoxes(a) \/ \E b \in Box : CloseInbox(a, b)
  PROVE  OrderInv'
<1>1. heard' = heard /\ entry' = entry /\ io' = io /\ mb \in [Box -> Mailboxes]
  BY DEF EndBoxes, CloseInbox, HubInv, TypeOK, BoxTypes
<1>2. \A x \in Box : mb'[x] = mb[x] \/ mb'[x] = Close(mb[x]) BY <1>1 DEF EndBoxes, CloseInbox
<1>3. \A x \in Box : Close(mb[x]).dead = TRUE /\ Close(mb[x]).q = <<>>
  <2> TAKE x \in Box
  <2>1. Close(mb[x]) \in Mailboxes /\ Close(mb[x]).dead /\ Close(mb[x]).q = <<>> BY <1>1, CloseIs
  <2> QED BY <2>1 DEF Mailboxes, MailboxOf
<1>4. ASSUME NEW s \in Sock PROVE InOrder(s)'
  <2>1. Into[s] \in Box BY SortsAssumption
  <2>2. \/ mb'[Into[s]].q = mb[Into[s]].q /\ mb'[Into[s]].dead = mb[Into[s]].dead
        \/ mb'[Into[s]].q = <<>> /\ mb'[Into[s]].dead = TRUE
    BY <1>2, <1>3, <2>1
  <2>3. heard'[s] = heard[s] /\ entry'[s] = entry[s] BY <1>1
  <2> QED BY <2>2, <2>3, OrderInBox
<1>5. heard' \in [Sock -> Seq(Event)] BY <1>1 DEF OrderInv
<1> QED BY <1>1, <1>4, <1>5, OrderAfterMail

\* A Stop in the queue is no event.
LEMMA WorldStopKeepsOrder ==
  ASSUME HubInv, OrderInv, WorldStop
  PROVE  OrderInv'
<1>1. heard' = heard /\ entry' = entry /\ io' = io /\ mb' = [b \in Box |-> Release(Put(mb[b], Stop))]
  BY DEF WorldStop
<1>2. ASSUME NEW s \in Sock PROVE InOrder(s)'
  <2> DEFINE b == Into[s]
             q == mb[b].q
  <2>1. b \in Box BY SortsAssumption
  <2>2. mb[b] \in Mailboxes /\ q \in Seq(Mails) BY <2>1, MailOfBox
  <2>3. mb'[b] = Release(Put(mb[b], Stop)) BY <1>1, <2>1
  <2>4. mb'[b].dead = mb[b].dead /\ (mb'[b].q = q \/ mb'[b].q = Append(q, Stop))
    BY <2>2, <2>3, StopIs
  <2>5. CASE mb'[b].q = q BY <1>1, <2>4, <2>5, OrderInBox
  <2>6. CASE mb'[b].q = Append(q, Stop)
    <3>1. Stop \in Mails /\ Brings(s, Stop) = <<>> BY DEF Stop, Mails, MailOf, Brings
    <3>2. Picked(s, Append(q, Stop)) = Picked(s, q) \o <<>> BY <2>2, <3>1, PickedAppend
    <3>3. Picked(s, q) \in Seq(Event) BY <2>2, PickedIs
    <3>4. Picked(s, Append(q, Stop)) = Picked(s, q) BY <3>2, <3>3
    <3>5. Queued(s)' = Queued(s) BY <2>6, <3>4 DEF Queued, Picked
    <3>6. SoFar(s)' = SoFar(s) BY <1>1, SoFarSame
    <3>7. InOrder(s) BY DEF OrderInv
    <3> QED BY <1>1, <2>4, <3>5, <3>6, <3>7 DEF InOrder
  <2> QED BY <2>4, <2>5, <2>6
<1>3. heard' \in [Sock -> Seq(Event)] BY <1>1 DEF OrderInv
<1> QED BY <1>1, <1>2, <1>3, OrderAfterMail

\* A receive moves the head of the queue to what was heard, of its own socket alone.
LEMMA ReceiveKeepsOrder ==
  ASSUME HubInv, OrderInv, NEW a \in Actor, NEW b \in Box, Receive(a, b)
  PROVE  OrderInv'
<1> DEFINE q == mb[b].q
           taken == IF q # <<>> /\ TakenKind(mb[b]) = "msg" THEN {Head(q).of} ELSE {}
<1>1. /\ entry' = entry /\ io' = io /\ mb \in [Box -> Mailboxes] /\ ~mb[b].dead
      /\ mb' = [mb EXCEPT ![b] = Take(mb[b])]
      /\ heard' = [s \in Sock |->
           IF taken # {} /\ Into[s] = b /\ taken \subseteq EventsOf(s)
           THEN Append(heard[s], Head(q).of) ELSE heard[s]]
  BY DEF Receive, HubInv, TypeOK, BoxTypes
<1>2. mb[b] \in Mailboxes /\ q \in Seq(Mails) /\ mb[b].dead = FALSE
  BY <1>1, MailOfBox DEF Mailboxes, MailboxOf
<1>3. mb'[b].q = (IF q = <<>> THEN <<>> ELSE Tail(q)) /\ mb'[b].dead = FALSE
  BY <1>1, <1>2, TakeIs
<1>4. taken = IF q # <<>> /\ Head(q).kind = "msg" THEN {Head(q).of} ELSE {} BY DEF TakenKind
<1> HIDE DEF taken
<1>5. ASSUME NEW s \in Sock, Into[s] = b, q # <<>> PROVE heard'[s] \in Seq(Event) /\ InOrder(s)'
  <2> DEFINE x == Head(q).of
             rest == Picked(s, Tail(q))
  <2>1. Tail(q) \in Seq(Mails) BY <1>2, <1>5
  <2>2. rest \in Seq(Event) BY <2>1, PickedIs
  <2>3. Picked(s, q) = Brings(s, Head(q)) \o rest BY <1>2, <1>5, PickedHead
  <2>4. Queued(s) = Picked(s, q) BY <1>5 DEF Queued
  <2>5. Queued(s)' = rest BY <1>3, <1>5 DEF Queued, Picked
  <2>6. SoFar(s)' = SoFar(s) BY <1>1, SoFarSame
  <2>7. Ordered(heard[s], Queued(s), entry[s].pending, SoFar(s), FALSE)
    BY <1>2, <1>5 DEF OrderInv, InOrder
  <2>8. heard[s] \in Seq(Event) BY DEF OrderInv
  <2> HIDE DEF rest
  <2>9. CASE Head(q).kind = "msg" /\ x \in EventsOf(s)
    <3>1. heard'[s] = Append(heard[s], x) BY <1>1, <1>4, <1>5, <2>9
    <3>2. Picked(s, q) = <<x>> \o rest BY <2>3, <2>9 DEF Brings
    <3>3. x \in Event BY <2>9, EventsOfType
    <3> HIDE DEF x
    <3>4. Ordered(Append(heard[s], x), rest, entry[s].pending, SoFar(s), FALSE)
      BY <2>2, <2>4, <2>7, <3>2, <3>3, OrderedHeard
    <3>5. InOrder(s)' BY <1>1, <1>3, <1>5, <2>5, <2>6, <3>1, <3>4 DEF InOrder
    <3> QED BY <2>8, <3>1, <3>3, <3>5
  <2>10. CASE ~(Head(q).kind = "msg" /\ x \in EventsOf(s))
    <3>1. heard'[s] = heard[s] BY <1>1, <1>4, <1>5, <2>10
    <3>2. Picked(s, q) = <<>> \o rest BY <2>3, <2>10 DEF Brings
    <3>3. Picked(s, q) = rest BY <2>2, <3>2
    <3>4. InOrder(s)' BY <1>1, <1>3, <1>5, <2>4, <2>5, <2>6, <2>7, <3>1, <3>3 DEF InOrder
    <3> QED BY <2>8, <3>1, <3>4
  <2> QED BY <2>9, <2>10
<1>6. ASSUME NEW s \in Sock, ~(Into[s] = b /\ q # <<>>) PROVE heard'[s] = heard[s] /\ InOrder(s)'
  <2>1. heard'[s] = heard[s] /\ entry'[s] = entry[s] BY <1>1, <1>4, <1>6
  <2>2. mb'[Into[s]].q = mb[Into[s]].q /\ mb'[Into[s]].dead = mb[Into[s]].dead
    <3>1. CASE Into[s] = b BY <1>2, <1>3, <1>6, <3>1
    <3>2. CASE Into[s] # b BY <1>1, <3>2, SortsAssumption
    <3> QED BY <3>1, <3>2
  <2> QED BY <2>1, <2>2, OrderInBox
<1>7. heard' \in [Sock -> Seq(Event)]
  <2>1. \A s \in Sock : heard'[s] \in Seq(Event) BY <1>5, <1>6 DEF OrderInv
  <2> QED BY <1>1, <2>1
<1> QED BY <1>1, <1>5, <1>6, <1>7, OrderAfterMail

\* A flush moves the first pending event to the end of the queue, or stops, or drops the rest
\* because the inbox is closed.
LEMMA FlushKeepsOrder ==
  ASSUME HubInv, OrderInv, Flush
  PROVE  OrderInv'
<1>0. PICK s \in Sock : s = io.cur BY DEF Flush, IoAt, HubInv, Control, TypeOK, IoState
<1> DEFINE e == entry[s]
           p == entry[s].pending
           b == Into[s]
           answer == OfferAnswer(mb[b], Capacity)
<1>1. /\ heard' = heard /\ io \in IoState /\ entry \in [Sock -> EntryState] /\ io.pc = "flush"
      /\ mb \in [Box -> Mailboxes]
      /\ mb' = [mb EXCEPT ![b] = OfferOrPause(mb[b], Msg(Head(p)), Capacity)]
  BY <1>0 DEF HubInv, TypeOK, HubTypes, BoxTypes, Flush, IoAt
<1>2. entry' = [entry EXCEPT ![s] =
       CASE answer = "SENT" -> [e EXCEPT !.pending = Tail(p), !.paused = e.paused /\ Tail(p) # <<>>]
         [] answer = "FULL" -> [e EXCEPT !.paused = TRUE]
         [] answer = "GONE" -> [e EXCEPT !.pending = <<>>, !.paused = FALSE, !.done = TRUE]]
  BY <1>0 DEF Flush
<1>3. io' = io \/ io' = IF io.back = "accept" THEN [io EXCEPT !.pc = "accept"] ELSE Idle(io.back)
  BY <1>0 DEF Flush
<1>4. s \in Standing /\ io.polled \subseteq Sock /\ s \notin io.polled
  BY <1>0, <1>1 DEF HubInv, Control, IoAt, Standing, IoState, OrderInv, Opened
<1>5. e.active BY <1>4 DEF HubInv, SocksStand
<1>6. p \in Seq(EventsOf(s)) /\ p # <<>> /\ e \in EntryState
  BY <1>0, <1>1 DEF OrderInv, Pending, HubInv, Owing, IoAt
<1>7. PICK x \in EventsOf(s) : x = Head(p) BY <1>6
<1>8. x \in Event BY <1>7, EventsOfType
<1>9. b \in Box /\ mb[b] \in Mailboxes /\ mb[b].q \in Seq(Mails) BY SortsAssumption, MailOfBox
<1>10. /\ mb'[b].dead = mb[b].dead
       /\ answer \in {"SENT", "FULL", "GONE"}
       /\ answer = "GONE" => mb'[b].q = mb[b].q /\ mb[b].dead
       /\ answer = "FULL" => mb'[b].q = mb[b].q
       /\ answer = "SENT" => mb'[b].q = Append(mb[b].q, Msg(x))
  <2> DEFINE c == OfferOrPause(mb[b], Msg(x), Capacity)
  <2>1. mb'[b] = c BY <1>1, <1>7, <1>9
  <2>2. /\ c.dead = mb[b].dead
        /\ answer \in {"SENT", "FULL", "GONE"}
        /\ answer = "GONE" => c = mb[b] /\ mb[b].dead
        /\ answer = "FULL" => c.q = mb[b].q
        /\ answer = "SENT" => c.q = Append(mb[b].q, Msg(x))
    BY <1>8, <1>9, OfferIs
  <2> HIDE DEF c, answer
  <2> QED BY <2>1, <2>2
<1>11. \A y \in Box : y # b => mb'[y] = mb[y] BY <1>1
<1>12. PICK f \in EntryState :
         /\ entry' = [entry EXCEPT ![s] = f]
         /\ f.active = e.active /\ f.reads = e.reads
         /\ answer = "SENT" => f.pending = Tail(p)
         /\ answer = "FULL" => f.pending = p
         /\ answer = "GONE" => f.pending = <<>>
  <2>2. CASE answer = "SENT"
    <3>0. PICK still \in BOOLEAN : still = (e.paused /\ Tail(p) # <<>>) OBVIOUS
    <3> DEFINE g == [e EXCEPT !.pending = Tail(p), !.paused = still]
    <3>1. entry' = [entry EXCEPT ![s] = g] BY <1>2, <2>2, <3>0
    <3>2. p \in Seq(Event) BY <1>6 DEF EntryState
    <3>3. e \in EntryState /\ Tail(p) \in Seq(Event) BY <1>6, <3>2
    <3> HIDE DEF e, p
    <3>4. g \in EntryState /\ g.active = e.active /\ g.reads = e.reads /\ g.pending = Tail(p)
      BY <3>3 DEF EntryState
    <3> HIDE DEF g
    <3> QED BY <2>2, <3>1, <3>4
  <2>3. CASE answer = "FULL"
    <3> DEFINE g == [e EXCEPT !.paused = TRUE]
    <3>1. entry' = [entry EXCEPT ![s] = g] BY <1>2, <2>3
    <3>2. g \in EntryState /\ g.active = e.active /\ g.reads = e.reads /\ g.pending = p
      BY <1>6 DEF EntryState
    <3> HIDE DEF g
    <3> QED BY <2>3, <3>1, <3>2
  <2>4. CASE answer = "GONE"
    <3>0. PICK no \in BOOLEAN : no = FALSE OBVIOUS
    <3> DEFINE g == [e EXCEPT !.pending = <<>>, !.paused = no, !.done = TRUE]
    <3>1. entry' = [entry EXCEPT ![s] = g] BY <1>2, <2>4, <3>0
    <3>2. <<>> \in Seq(Event) OBVIOUS
    <3>3. e \in EntryState BY <1>6
    <3> HIDE DEF e
    <3>4. g \in EntryState /\ g.active = e.active /\ g.reads = e.reads /\ g.pending = <<>>
      BY <3>2, <3>3 DEF EntryState
    <3> HIDE DEF g
    <3> QED BY <2>4, <3>1, <3>4
  <2> HIDE DEF answer
  <2> QED BY <1>10, <2>2, <2>3, <2>4
<1>13. entry'[s] = f /\ \A t \in Sock : t # s => entry'[t] = entry[t] BY <1>1, <1>12
<1> HIDE DEF answer
<1>14. Opened'
  <2>1. /\ io'.polled = io.polled
        /\ \/ io' = io
           \/ io.back = "accept" /\ io'.pc = "accept"
           \/ io.back \in {"round", "ready"} /\ io'.pc = io.back
    <3>1. CASE io' = io BY <3>1
    <3>2. CASE io.back = "accept" /\ io' = [io EXCEPT !.pc = "accept"] BY <1>1, <3>2 DEF IoState
    <3>3. CASE io.back # "accept" /\ io' = Idle(io.back) BY <1>1, <3>3 DEF IoState, Idle
    <3> QED BY <1>3, <3>1, <3>2, <3>3
  <2>2. \A t \in io.polled : t \in Sock /\ t # s /\ ~entry[t].done
    BY <1>4 DEF OrderInv, Opened
  <2>3. io.back = "round" => io.polled = {} BY <1>1 DEF OrderInv, Opened, InRound, IoAt
  <2>4. \A t \in Sock : ~entry'[t].active =>
          entry'[t].pending = <<>> /\ ~entry'[t].done /\ entry'[t].reads = 0
    BY <1>5, <1>12, <1>13 DEF OrderInv, Opened
  <2>5. \A t \in io'.polled : ~entry'[t].done BY <1>13, <2>1, <2>2
  <2>6. IoAt("flush")' => io'.cur \notin io'.polled BY <1>0, <1>4, <2>1 DEF IoAt
  <2>7. InRound' /\ ~IoAt("poll")' => io'.polled = {} BY <1>1, <2>1, <2>3 DEF InRound, IoAt
  <2> QED BY <2>4, <2>5, <2>6, <2>7 DEF Opened
<1>15. ASSUME NEW t \in Sock, t # s PROVE Pending(t)' /\ InOrder(t)'
  <2>1. Pending(t)' BY <1>13, <1>15 DEF OrderInv, Pending
  <2>2. SoFar(t)' = SoFar(t) BY <1>13, <1>15, SoFarSame
  <2>3. Queued(t)' = Queued(t)
    <3>1. CASE Into[t] # b \/ answer # "SENT"
      <4>1. mb'[Into[t]].q = mb[Into[t]].q BY <1>10, <1>11, <3>1, SortsAssumption
      <4> QED BY <4>1 DEF Queued
    <3>2. CASE Into[t] = b /\ answer = "SENT"
      <4>1. x \notin EventsOf(t) BY <1>15, <3>2, EventsAssumption
      <4>2. Msg(x) \in Mails /\ Brings(t, Msg(x)) = <<>>
        BY <1>8, <4>1 DEF Msg, Mails, MailOf, Brings
      <4>3. Picked(t, Append(mb[b].q, Msg(x))) = Picked(t, mb[b].q) \o <<>>
        BY <1>9, <4>2, PickedAppend
      <4>4. Picked(t, mb[b].q) \in Seq(Event) BY <1>9, PickedIs
      <4>5. Picked(t, Append(mb[b].q, Msg(x))) = Picked(t, mb[b].q) BY <4>3, <4>4
      <4> QED BY <1>10, <3>2, <4>5 DEF Queued, Picked
    <3> QED BY <3>1, <3>2
  <2>4. mb'[Into[t]].dead = mb[Into[t]].dead BY <1>10, <1>11, SortsAssumption
  <2>5. InOrder(t) BY DEF OrderInv
  <2> QED BY <1>1, <1>13, <1>15, <2>1, <2>2, <2>3, <2>4, <2>5 DEF InOrder
<1>16. Pending(s)'
  <2>1. Tail(p) \in Seq(EventsOf(s)) /\ <<>> \in Seq(EventsOf(s)) BY <1>6
  <2> QED BY <1>6, <1>10, <1>12, <1>13, <2>1 DEF Pending
<1>17. InOrder(s)'
  <2>1. SoFar(s)' = SoFar(s) BY <1>12, <1>13, SoFarSame
  <2>2. Ordered(heard[s], Queued(s), p, SoFar(s), mb[b].dead) BY DEF OrderInv, InOrder
  <2>3. CASE answer = "SENT"
    <3>1. Msg(x) \in Mails /\ Brings(s, Msg(x)) = <<x>>
      BY <1>7, <1>8 DEF Msg, Mails, MailOf, Brings
    <3>2. Picked(s, Append(mb[b].q, Msg(x))) = Picked(s, mb[b].q) \o <<x>>
      BY <1>9, <3>1, PickedAppend
    <3>3. Queued(s)' = Queued(s) \o <<x>> BY <1>10, <2>3, <3>2 DEF Queued, Picked
    <3>4. Ordered(heard[s], Queued(s) \o <<x>>, Tail(p), SoFar(s), mb[b].dead)
      BY <1>6, <1>7, <2>2, OrderedSent
    <3>5. entry'[s].pending = Tail(p) /\ mb'[b].dead = mb[b].dead /\ heard'[s] = heard[s]
      BY <1>1, <1>10, <1>12, <1>13, <2>3
    <3> QED BY <2>1, <3>3, <3>4, <3>5 DEF InOrder
  <2>4. CASE answer = "FULL"
    <3>1. Queued(s)' = Queued(s) BY <1>10, <2>4 DEF Queued
    <3> QED BY <1>1, <1>10, <1>12, <1>13, <2>1, <2>2, <2>4, <3>1 DEF InOrder
  <2>5. CASE answer = "GONE"
    <3>1. Queued(s)' = Queued(s) BY <1>10, <2>5 DEF Queued
    <3>2. Queued(s) \in Seq(Event) /\ <<>> \in Seq(Event) BY <2>2 DEF Ordered
    <3>3. mb[b].dead = TRUE BY <1>9, <1>10, <2>5 DEF Mailboxes, MailboxOf
    <3>4. Ordered(heard[s], Queued(s), <<>>, SoFar(s), TRUE) BY <2>2, <3>2 DEF Ordered
    <3> QED BY <1>1, <1>10, <1>12, <1>13, <2>1, <2>5, <3>1, <3>3, <3>4 DEF InOrder
  <2> QED BY <1>10, <2>3, <2>4, <2>5
<1>18. heard' \in [Sock -> Seq(Event)] BY <1>1 DEF OrderInv
<1> QED BY <1>14, <1>15, <1>16, <1>17, <1>18 DEF OrderInv

\* Every step keeps the order.
LEMMA OrderStep == ASSUME HubInv, OrderInv, [Next]_vars PROVE OrderInv'
<1>1. ASSUME NEW a \in Actor, Program(a) PROVE OrderInv'
  <2>1. CASE \E s \in Sock : Activate(a, s) BY <2>1, ActivateKeepsOrder
  <2>2. CASE \E b \in Box : Receive(a, b) BY <2>2, ReceiveKeepsOrder
  <2>3. CASE \E b \in Box : CloseInbox(a, b) BY <2>3, ClosingKeepsOrder
  <2>4. CASE \/ Return(a) \/ \E s \in Sock : SendBegin(a, s) \/ ActiveClose(a, s)
             \/ \E c \in Conn : TakeTicket(a, c) \/ HandOff(a, c)
    BY <2>4, ActorsKeepOrder
  <2> QED BY <1>1, <2>1, <2>2, <2>3, <2>4 DEF Program
<1>2. ASSUME NEW a \in Actor, Native(a) \/ SendEnds(a) \/ SendDeadline(a) \/ SendStopped(a)
      PROVE  OrderInv'
  BY <1>2, ActorsKeepOrder, ClosingKeepsOrder DEF Native
<1>3. CASE Loop
  <2>1. CASE Flush BY <2>1, FlushKeepsOrder
  <2>2. CASE Accept BY <2>2, AcceptKeepsOrder
  <2>3. CASE \E s \in Sock : ReadOnce(s) BY <2>3, ReadOnceKeepsOrder
  <2>4. CASE \/ IoTop \/ IoWatch \/ IoPoll \/ IoDrain \/ AcceptEnds
             \/ \E s \in Sock : IoClose(s) \/ IoFlushNext(s) \/ AcceptBegin(s)
    BY <2>4, ThreadKeepsOrder
  <2> QED BY <1>3, <2>1, <2>2, <2>3, <2>4 DEF Loop
<1>4. CASE WorldStop BY <1>4, WorldStopKeepsOrder
<1>5. CASE Hub \/ UNCHANGED vars \/ \E s \in Sock : PeerActs(s)
  BY <1>5, OutsideKeepsOrder DEF Hub
<1> QED BY <1>1, <1>2, <1>3, <1>4, <1>5 DEF Next, Finished

\* What the order amounts to.
LEMMA OrderHolds == ASSUME OrderInv PROVE EventsInOrder
<1>1. SUFFICES ASSUME NEW s \in Sock
               PROVE  /\ IsPrefix(heard[s], SoFar(s))
                      /\ ~mb[Into[s]].dead => heard[s] \o Queued(s) \o entry[s].pending = SoFar(s)
  BY DEF EventsInOrder
<1>2. Ordered(heard[s], Queued(s), entry[s].pending, SoFar(s), mb[Into[s]].dead)
  BY DEF OrderInv, InOrder
<1>3. IsPrefix(heard[s], SoFar(s)) BY <1>2, OrderedBegins
<1>4. ~mb[Into[s]].dead => heard[s] \o Queued(s) \o entry[s].pending = SoFar(s)
  BY <1>2 DEF Ordered
<1> QED BY <1>3, <1>4

\* Whatever arrives on the sockets, in whatever pieces, and however often a full inbox makes the
\* thread pause, the owner of a socket receives its events in their order, and none is lost or
\* doubled on the way as long as the inbox is open (flush, rawActivate).
THEOREM EventsComeInOrder == Spec => []EventsInOrder
<1>1. Init => OrderInv BY OrderInit
<1>2. HubInv /\ OrderInv /\ [Next]_vars => OrderInv' BY OrderStep
<1>3. OrderInv => EventsInOrder BY OrderHolds
<1> QED BY <1>1, <1>2, <1>3, HubInvariant, PTL DEF Spec
=============================================================================
