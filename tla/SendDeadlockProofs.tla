------------------------- MODULE SendDeadlockProofs -------------------------
(***************************************************************************)
(* Theorems about SendDeadlock, for any isolates, any inboxes, homes and   *)
(* slots, any capacity and any number of waits.                            *)
(*                                                                         *)
(* A ticket names one wait, and the list of an object is the evidence that *)
(* it goes on.  The proofs follow one ticket: it is listed at one object,  *)
(* while its isolate is in that wait; once it has been listed and is not   *)
(* any more it is over, and stays so.  Of this comes that nothing is left  *)
(* of a wait, and that a ring which two passes have found listed was       *)
(* listed as a whole at the moment between them.                           *)
(***************************************************************************)
EXTENDS SendDeadlock, MailboxProofs, SequenceTheorems

Places == {"unborn", "run", "offer", "asleep", "publish", "index", "walk", "confirm",
           "again", "mark", "gone", "unlist", "unindex", "close", "dead"}

\* Where an isolate may still put its ticket into a list.
Listable == {"offer", "asleep", "publish", "index", "walk", "confirm", "again", "mark"}

\* Where it is in no wait.
Free == {"unborn", "run", "close", "dead"}

Ticket == Isolate \X Nat
Edge == [obj: Object, ticket: Ticket, target: Isolate \cup {NO_OWNER}]
Hop == [sender: Isolate, e: [obj: Object, ticket: Ticket, target: Isolate]]
WaitRecord == [obj: Object \cup {CHOOSE o \in Object : TRUE}, n: Nat, published: BOOLEAN,
               target: Isolate \cup {NO_OWNER}, fault: BOOLEAN]
WalkRecord == [path: Seq(Hop), at: Isolate, hop: Seq(Hop), rest: Seq(Hop), ring: Seq(Hop),
               together: BOOLEAN, stuck: BOOLEAN]

TypeInv ==
  /\ mb \in [Box -> MailboxOf(Isolate)]
  /\ blocked \in [Object -> SUBSET Ticket]
  /\ DOMAIN send_waits \subseteq Isolate
  /\ \A t \in DOMAIN send_waits : send_waits[t] \in Edge
  /\ pc \in [Isolate -> Places]
  /\ w \in [Isolate -> WaitRecord]
  /\ walk \in [Isolate -> WalkRecord]

WaitsHaveObjects == \A t \in Isolate : pc[t] \notin Free => w[t].obj \in Object

\* A list holds only tickets of waits that go on, each at the object it waits for.
ListedWait ==
  \A o \in Object : \A k \in blocked[o] :
    /\ k = MyTicket(k[1]) /\ o = w[k[1]].obj
    /\ pc[k[1]] \in Listable \cup {"unlist"}

IndexedWait == \A t \in DOMAIN send_waits : pc[t] \notin Free

WalksHaveHops == \A t \in Isolate : At(t, "confirm") => walk[t].hop # <<>>

LeakInv ==
  /\ TypeInv
  /\ WaitsHaveObjects
  /\ ListedWait
  /\ IndexedWait
  /\ WalksHaveHops

-----------------------------------------------------------------------------
(* Types.                                                                  *)

LEMMA RestOf ==
  ASSUME NEW S, NEW s \in Seq(S), NEW i \in 1 .. Len(s)
  PROVE /\ Rest(s, i) \in Seq(S)
        /\ \A j \in 1 .. Len(Rest(s, i)) : \E k \in 1 .. Len(s) : Rest(s, i)[j] = s[k]
        /\ \A k \in i .. Len(s) : \E j \in 1 .. Len(Rest(s, i)) : Rest(s, i)[j] = s[k]
<1>1. Len(s) \in Nat /\ i \in Nat /\ i >= 1 /\ i <= Len(s) OBVIOUS
<1>2. /\ Rest(s, i) = [j \in 1 .. Len(s) - i + 1 |-> s[i + j - 1]]
      /\ Len(Rest(s, i)) = Len(s) - i + 1
  BY <1>1, SMT DEF Rest
<1>3. \A j \in 1 .. Len(s) - i + 1 : i + j - 1 \in 1 .. Len(s) BY <1>1
<1>4. \A j \in 1 .. Len(s) - i + 1 : Rest(s, i)[j] = s[i + j - 1] BY <1>2
<1>5. Rest(s, i) \in Seq(S)
  <2>1. \A j \in 1 .. Len(s) - i + 1 : s[i + j - 1] \in S BY <1>3
  <2>2. Len(s) - i + 1 \in Nat BY <1>1
  <2>3. [j \in 1 .. Len(s) - i + 1 |-> s[i + j - 1]] \in Seq(S)
    BY <2>1, <2>2, IsASeq
  <2> QED BY <1>2, <2>3
<1>6. \A k \in i .. Len(s) : k - i + 1 \in 1 .. Len(s) - i + 1 /\ i + (k - i + 1) - 1 = k BY <1>1
<1> QED BY <1>2, <1>3, <1>4, <1>5, <1>6

LEMMA ChosenOwners ==
  ASSUME NEW b \in Box
  PROVE LET owners == {a \in First : Home[a] = b} IN
        (IF owners = {} THEN NO_OWNER ELSE CHOOSE a \in owners : TRUE) \in Isolate \cup {NO_OWNER}
BY HomeAssumption DEF Isolate

LEMMA InitTypes == Init => TypeInv
<1> SUFFICES ASSUME Init PROVE TypeInv OBVIOUS
<1>1. mb \in [Box -> MailboxOf(Isolate)] BY ChosenOwners, NewMailboxType DEF Init
<1>2. pc \in [Isolate -> Places] BY DEF Init, Places
<1>3. w \in [Isolate -> WaitRecord] BY DEF Init, WaitRecord
<1>4. walk \in [Isolate -> WalkRecord]
  <2>1. \A t \in Isolate : NoWalk(t) \in WalkRecord BY DEF NoWalk, WalkRecord
  <2> QED BY <2>1 DEF Init
<1> QED BY <1>1, <1>2, <1>3, <1>4 DEF Init, TypeInv

\* The wait record of one isolate, and its walk, field by field.
LEMMA WaitField ==
  ASSUME NEW x \in WaitRecord
  PROVE /\ \A f \in BOOLEAN : [x EXCEPT !.fault = f] \in WaitRecord
        /\ \A f \in BOOLEAN : [x EXCEPT !.published = f] \in WaitRecord
        /\ \A a \in Isolate \cup {NO_OWNER} : [x EXCEPT !.target = a] \in WaitRecord
        /\ \A o \in Object : [x EXCEPT !.obj = o, !.n = x.n + 1, !.published = FALSE] \in WaitRecord
<1>1. \A f \in BOOLEAN : [x EXCEPT !.fault = f] \in WaitRecord BY DEF WaitRecord
<1>2. \A f \in BOOLEAN : [x EXCEPT !.published = f] \in WaitRecord BY DEF WaitRecord
<1>3. \A a \in Isolate \cup {NO_OWNER} : [x EXCEPT !.target = a] \in WaitRecord BY DEF WaitRecord
<1>4. ASSUME NEW o \in Object
      PROVE [x EXCEPT !.obj = o, !.n = x.n + 1, !.published = FALSE] \in WaitRecord
  <2>1. x.n + 1 \in Nat BY DEF WaitRecord
  <2> QED BY <2>1 DEF WaitRecord
<1> QED BY <1>1, <1>2, <1>3, <1>4

LEMMA WalkField ==
  ASSUME NEW x \in WalkRecord
  PROVE /\ \A s \in Seq(Hop), p, q \in BOOLEAN :
             [x EXCEPT !.rest = s, !.ring = s, !.together = p, !.stuck = q] \in WalkRecord
        /\ \A s \in Seq(Hop) : [x EXCEPT !.hop = s] \in WalkRecord
        /\ \A s \in Seq(Hop) : [x EXCEPT !.rest = s] \in WalkRecord
        /\ \A s \in Seq(Hop), a \in Isolate :
             [x EXCEPT !.path = s, !.at = a, !.hop = <<>>] \in WalkRecord
<1>1. ASSUME NEW s \in Seq(Hop), NEW p \in BOOLEAN, NEW q \in BOOLEAN
      PROVE [x EXCEPT !.rest = s, !.ring = s, !.together = p, !.stuck = q] \in WalkRecord
  BY DEF WalkRecord
<1>2. \A s \in Seq(Hop) : [x EXCEPT !.hop = s] \in WalkRecord BY DEF WalkRecord
<1>3. \A s \in Seq(Hop) : [x EXCEPT !.rest = s] \in WalkRecord BY DEF WalkRecord
<1>4. ASSUME NEW s \in Seq(Hop), NEW a \in Isolate
      PROVE [x EXCEPT !.path = s, !.at = a, !.hop = <<>>] \in WalkRecord
  <2>1. <<>> \in Seq(Hop) OBVIOUS
  <2> QED BY <2>1 DEF WalkRecord
<1> QED BY <1>1, <1>2, <1>3, <1>4

LEMMA StepTypes ==
  ASSUME TypeInv, WaitsHaveObjects, WalksHaveHops, [Next]_vars
  PROVE TypeInv'
<1> USE DEF TypeInv
<1>m. /\ \A b \in Box : mb[b] \in MailboxOf(Isolate) /\ mb[b].owner \in Isolate \cup {NO_OWNER}
      /\ Msg(NO_OWNER) \in MailOf(Isolate) /\ Stop \in MailOf(Isolate)
  BY DEF MailboxOf, MailOf, Msg, Stop
<1>k. \A t \in Isolate : MyTicket(t) \in Ticket BY DEF MyTicket, Ticket, WaitRecord
<1>a. Actor \subseteq Isolate /\ Task \subseteq Isolate /\ Box \subseteq Object /\ Task \subseteq Object
      /\ Object = Box \cup Task /\ Isolate = Actor \cup Task
      /\ \A a \in Actor : Home[a] \in Box
  BY HomeAssumption DEF Isolate, Object
<1>l. \A t, l : l \in Places /\ Goto(t, l) => pc' \in [Isolate -> Places] BY DEF Goto
<1>n. \A t \in Isolate : NoWalk(t) \in WalkRecord BY DEF NoWalk, WalkRecord
<1>b. \A t \in Isolate : Abandon(t) => pc' \in [Isolate -> Places] /\ walk' \in [Isolate -> WalkRecord]
  BY <1>n, <1>l DEF Abandon, Places
<1>1. ASSUME NEW t \in Isolate, NEW b \in Box, SendNow(t, b) PROVE TypeInv'
  <2>1. Offer(mb[b], Msg(NO_OWNER), Capacity) \in MailboxOf(Isolate) BY <1>m, OfferType
  <2>2. mb' \in [Box -> MailboxOf(Isolate)] BY <1>1, <2>1 DEF SendNow
  <2> QED BY <1>1, <2>2 DEF SendNow
<1>2. ASSUME NEW t \in Isolate, NEW b \in Box, SendToSelf(t, b) PROVE TypeInv'
  <2>1. pc' \in [Isolate -> Places] BY <1>2, <1>l DEF SendToSelf, Places
  <2> QED BY <1>2, <2>1 DEF SendToSelf
<1>3. ASSUME NEW t \in Isolate, NEW o \in Object, BeginWait(t, o) PROVE TypeInv'
  <2>1. pc' \in [Isolate -> Places] BY <1>3, <1>l DEF BeginWait, Places
  <2>2. w' \in [Isolate -> WaitRecord] BY <1>3, WaitField DEF BeginWait
  <2> QED BY <1>3, <2>1, <2>2 DEF BeginWait
<1>4. ASSUME NEW t \in Isolate, Receive(t) PROVE TypeInv'
  <2>1. mb' \in [Box -> MailboxOf(Isolate)] BY <1>4, <1>m, <1>a, TakeType DEF Receive
  <2> QED BY <1>4, <2>1 DEF Receive
<1>5. ASSUME NEW t \in Isolate, Return(t) PROVE TypeInv'
  <2>1. pc' \in [Isolate -> Places] BY <1>5, <1>l DEF Return, Places
  <2> QED BY <1>5, <2>1 DEF Return
<1>6. ASSUME NEW t \in Isolate, Sleep(t) PROVE TypeInv'
  <2>1. pc' \in [Isolate -> Places] BY <1>6, <1>l DEF Sleep, Places
  <2>2. blocked' \in [Object -> SUBSET Ticket] BY <1>6, <1>k DEF Sleep
  <2> QED BY <1>6, <2>1, <2>2 DEF Sleep
<1>7. ASSUME NEW t \in Isolate, Proceed(t) PROVE TypeInv'
  <2>1. pc' \in [Isolate -> Places] BY <1>7, <1>l DEF Proceed, Places
  <2>2. blocked' \in [Object -> SUBSET Ticket] BY <1>7 DEF Proceed
  <2>3. w[t].obj \in Object BY <1>7 DEF WaitsHaveObjects, Proceed, Free
  <2>4. mb' \in [Box -> MailboxOf(Isolate)]
    <3>1. CASE mb' = mb BY <3>1
    <3>2. CASE mb' # mb
      <4>1. w[t].obj \in Box /\ mb' = [mb EXCEPT ![w[t].obj] = Offer(@, Msg(NO_OWNER), Capacity)]
        BY <1>7, <3>2, <2>3, <1>a DEF Proceed
      <4> QED BY <4>1, <1>m, OfferType
    <3> QED BY <3>1, <3>2
  <2> QED BY <1>7, <2>1, <2>2, <2>4 DEF Proceed
<1>8. ASSUME NEW t \in Isolate, SliceOver(t) PROVE TypeInv'
  <2>1. pc' \in [Isolate -> Places] BY <1>8, <1>l DEF SliceOver, Places
  <2> QED BY <1>8, <2>1 DEF SliceOver
<1>9. ASSUME NEW t \in Isolate, PublishRead(t) PROVE TypeInv'
  <2>1. pc' \in [Isolate -> Places] BY <1>9, <1>l DEF PublishRead, Places
  <2>2. w[t].obj \in Object BY <1>9 DEF WaitsHaveObjects, PublishRead, Free, At
  <2>3. (IF w[t].obj \in Task THEN w[t].obj ELSE mb[w[t].obj].owner) \in Isolate \cup {NO_OWNER}
    BY <2>2, <1>a, <1>m
  <2>4. w' \in [Isolate -> WaitRecord] BY <1>9, <2>3, WaitField DEF PublishRead
  <2> QED BY <1>9, <2>1, <2>4 DEF PublishRead
<1>10. ASSUME NEW t \in Isolate, PublishPut(t) PROVE TypeInv'
  <2>1. pc' \in [Isolate -> Places] BY <1>10, <1>l DEF PublishPut, Places
  <2>2. w[t].obj \in Object BY <1>10 DEF WaitsHaveObjects, PublishPut, Free, At
  <2>3. w' \in [Isolate -> WaitRecord] BY <1>10, WaitField DEF PublishPut
  <2>4. [obj |-> w[t].obj, ticket |-> MyTicket(t), target |-> w[t].target] \in Edge
    BY <2>2, <1>k DEF Edge, WaitRecord
  <2>5. DOMAIN send_waits' = DOMAIN send_waits \cup {t} BY <1>10 DEF PublishPut
  <2>6. \A i \in DOMAIN send_waits' : send_waits'[i] \in Edge BY <1>10, <2>4, <2>5 DEF PublishPut
  <2> QED BY <1>10, <2>1, <2>3, <2>5, <2>6 DEF PublishPut
<1>11. ASSUME NEW t \in Isolate, RingFound(t) PROVE TypeInv'
  <2>1. pc' \in [Isolate -> Places] BY <1>11, <1>l DEF RingFound, Places
  <2>2. (CHOOSE i \in SeenAt(t) : TRUE) \in 1 .. Len(walk[t].path) BY <1>11 DEF RingFound, SeenAt
  <2>3. Rest(walk[t].path, CHOOSE i \in SeenAt(t) : TRUE) \in Seq(Hop)
    BY <2>2, RestOf DEF WalkRecord
  <2>4. walk' \in [Isolate -> WalkRecord] BY <1>11, <2>3, WalkField DEF RingFound
  <2> QED BY <1>11, <2>1, <2>4 DEF RingFound
<1>12. ASSUME NEW t \in Isolate, WalkRead(t) PROVE TypeInv'
  <2>1. CASE Abandon(t) BY <1>12, <1>b, <2>1 DEF WalkRead
  <2>2. CASE ~Abandon(t)
    <3> DEFINE id == walk[t].at
    <3>1. /\ id \in DOMAIN send_waits /\ send_waits[id].target # NO_OWNER
          /\ walk' = [walk EXCEPT ![t].hop = <<[sender |-> id, e |-> send_waits[id]]>>]
          /\ Goto(t, "confirm")
      BY <1>12, <2>2 DEF WalkRead
    <3>2. [sender |-> id, e |-> send_waits[id]] \in Hop BY <3>1 DEF Hop, Edge
    <3>3. <<[sender |-> id, e |-> send_waits[id]]>> \in Seq(Hop) BY <3>2
    <3>5. walk' \in [Isolate -> WalkRecord] BY <3>1, <3>3, WalkField
    <3>4. pc' \in [Isolate -> Places] BY <3>1, <1>l DEF Places
    <3> QED BY <1>12, <3>4, <3>5 DEF WalkRead
  <2> QED BY <2>1, <2>2
<1>13. ASSUME NEW t \in Isolate, WalkConfirm(t) PROVE TypeInv'
  <2>1. CASE Abandon(t) BY <1>13, <1>b, <2>1 DEF WalkConfirm
  <2>2. CASE ~Abandon(t)
    <3> DEFINE h == Head(walk[t].hop)
    <3>1. /\ walk' = [walk EXCEPT ![t].path = Append(@, h), ![t].at = h.e.target, ![t].hop = <<>>]
          /\ Goto(t, "walk")
      BY <1>13, <2>2 DEF WalkConfirm
    <3>2. h \in Hop BY <1>13 DEF WalkConfirm, WalksHaveHops, WalkRecord
    <3>6. h.e.target \in Isolate
      <4> HIDE DEF h
      <4> QED BY <3>2 DEF Hop
    <3>3. Append(walk[t].path, h) \in Seq(Hop) BY <3>2 DEF WalkRecord
    <3>4. walk' \in [Isolate -> WalkRecord] BY <3>1, <3>3, <3>6, WalkField
    <3>5. pc' \in [Isolate -> Places] BY <3>1, <1>l DEF Places
    <3> QED BY <1>13, <3>4, <3>5 DEF WalkConfirm
  <2> QED BY <2>1, <2>2
<1>14. ASSUME NEW t \in Isolate, ConfirmAgain(t) PROVE TypeInv'
  <2>1. CASE Abandon(t) BY <1>14, <1>b, <2>1 DEF ConfirmAgain
  <2>2. CASE Goto(t, "mark") /\ UNCHANGED walk BY <1>14, <1>l, <2>2 DEF ConfirmAgain, Places
  <2>3. CASE /\ walk[t].rest # <<>> /\ walk' = [walk EXCEPT ![t].rest = Tail(@)]
             /\ UNCHANGED pc
    <3>1. Tail(walk[t].rest) \in Seq(Hop) BY <2>3 DEF WalkRecord
    <3>2. walk' \in [Isolate -> WalkRecord] BY <2>3, <3>1, WalkField
    <3> QED BY <1>14, <2>3, <3>2 DEF ConfirmAgain
  <2> QED BY <1>14, <2>1, <2>2, <2>3 DEF ConfirmAgain
<1>15. ASSUME NEW t \in Isolate, Mark(t) PROVE TypeInv'
  <2>1. pc' \in [Isolate -> Places] BY <1>15, <1>l DEF Mark, Places
  <2>2. w' \in [Isolate -> WaitRecord] BY <1>15, WaitField DEF Mark
  <2>3. walk' \in [Isolate -> WalkRecord] BY <1>15, <1>n DEF Mark
  <2> QED BY <1>15, <2>1, <2>2, <2>3 DEF Mark
<1>16. ASSUME NEW t \in Isolate, GoneAnswer(t) PROVE TypeInv'
  <2>1. pc' \in [Isolate -> Places] BY <1>16, <1>l DEF GoneAnswer, Places
  <2>3. (t \in deadlocked) \in BOOLEAN OBVIOUS
  <2>2. w' \in [Isolate -> WaitRecord] BY <1>16, <2>3, WaitField DEF GoneAnswer
  <2> QED BY <1>16, <2>1, <2>2 DEF GoneAnswer
<1>17. ASSUME NEW t \in Isolate, Unlist(t) PROVE TypeInv'
  <2>1. pc' \in [Isolate -> Places] BY <1>17, <1>l DEF Unlist, Places
  <2>2. blocked' \in [Object -> SUBSET Ticket] BY <1>17 DEF Unlist
  <2> QED BY <1>17, <2>1, <2>2 DEF Unlist
<1>18. ASSUME NEW t \in Isolate, Unindex(t) PROVE TypeInv'
  <2>1. pc' \in [Isolate -> Places] BY <1>18, <1>l DEF Unindex, Places
  <2>2. send_waits' = [i \in DOMAIN send_waits \ {t} |-> send_waits[i]] BY <1>18 DEF Unindex
  <2> QED BY <1>18, <2>1, <2>2 DEF Unindex
<1>19. ASSUME NEW t \in Isolate, End(t) PROVE TypeInv'
  <2>1. pc' \in [Isolate -> Places] BY <1>19, <1>l DEF End, Places
  <2>2. mb' \in [Box -> MailboxOf(Isolate)]
    <3>1. CASE t \in Task BY <1>19, <3>1 DEF End
    <3>2. CASE t \notin Task
      <4>1. mb' = [mb EXCEPT ![Home[t]] = IF Home[t] \in Slot THEN Vacate(@) ELSE Close(@)]
        BY <1>19, <3>2 DEF End
      <4>2. Home[t] \in Box BY <3>2, <1>a
      <4> QED BY <4>1, <4>2, <1>m, EndType
    <3> QED BY <3>1, <3>2
  <2> QED BY <1>19, <2>1, <2>2 DEF End
<1>20. ASSUME NEW t \in Isolate, SpawnInto(t) PROVE TypeInv'
  <2>1. pc' \in [Isolate -> Places] BY <1>20, <1>l DEF SpawnInto, Places
  <2>2. mb' \in [Box -> MailboxOf(Isolate)]
    BY <1>20, <1>m, MailboxField DEF SpawnInto
  <2> QED BY <1>20, <2>1, <2>2 DEF SpawnInto
<1>21. ASSUME EndWorld PROVE TypeInv'
  <2>1. mb' \in [Box -> MailboxOf(Isolate)] BY <1>21, <1>m, PutType, EndType DEF EndWorld
  <2> QED BY <1>21, <2>1 DEF EndWorld
<1>22. ASSUME UNCHANGED vars PROVE TypeInv' BY <1>22 DEF vars
<1> QED
  BY <1>1, <1>2, <1>3, <1>4, <1>5, <1>6, <1>7, <1>8, <1>9, <1>10, <1>11, <1>12, <1>13, <1>14,
     <1>15, <1>16, <1>17, <1>18, <1>19, <1>20, <1>21, <1>22
     DEF Next, Program, Runtime, Finished

-----------------------------------------------------------------------------
(* Nothing is left of a wait.                                              *)

\* No ticket is listed and none is new; who moves goes on inside its wait, or outside of one.
Quiet ==
  /\ blocked' = blocked /\ send_waits' = send_waits
  /\ \A u \in Isolate :
       /\ w'[u].n = w[u].n /\ w'[u].obj = w[u].obj
       /\ \/ pc'[u] = pc[u]
          \/ pc[u] \in Listable /\ pc'[u] \in Listable \cup {"unlist"}
          \/ pc[u] = "gone" /\ pc'[u] = "unlist"
          \/ pc[u] \in Free /\ pc'[u] \in Free

QuietStep(t) ==
  \/ \E b \in Box : SendNow(t, b) \/ SendToSelf(t, b)
  \/ Receive(t) \/ Return(t) \/ SliceOver(t) \/ PublishRead(t)
  \/ RingFound(t) \/ WalkRead(t) \/ WalkConfirm(t) \/ ConfirmAgain(t) \/ Mark(t)
  \/ GoneAnswer(t) \/ End(t) \/ SpawnInto(t)

LEMMA QuietSteps ==
  ASSUME TypeInv, NEW t \in Isolate, QuietStep(t)
  PROVE Quiet
<1> USE DEF TypeInv, Quiet, Listable, Free, Goto, At
<1>1. ASSUME UNCHANGED <<blocked, send_waits, pc, w>> PROVE Quiet BY <1>1
<1>2. ASSUME UNCHANGED <<blocked, send_waits, w>>, NEW l,
             pc' = [pc EXCEPT ![t] = l],
             \/ pc[t] \in Listable /\ l \in Listable \cup {"unlist"}
             \/ pc[t] = "gone" /\ l = "unlist"
             \/ pc[t] \in Free /\ l \in Free
      PROVE Quiet
  BY <1>2
<1>3. ASSUME NEW b \in Box, SendNow(t, b) PROVE Quiet BY <1>1, <1>3 DEF SendNow
<1>4. ASSUME NEW b \in Box, SendToSelf(t, b) PROVE Quiet BY <1>2, <1>4 DEF SendToSelf
<1>5. ASSUME Receive(t) PROVE Quiet BY <1>1, <1>5 DEF Receive
<1>6. ASSUME Return(t) PROVE Quiet BY <1>2, <1>6 DEF Return
<1>7. ASSUME SliceOver(t) PROVE Quiet BY <1>2, <1>7 DEF SliceOver
<1>8. ASSUME PublishRead(t) PROVE Quiet BY <1>8 DEF PublishRead, WaitRecord
<1>9. ASSUME RingFound(t) PROVE Quiet BY <1>2, <1>9 DEF RingFound
<1>10. ASSUME WalkRead(t) PROVE Quiet BY <1>2, <1>10 DEF WalkRead, Abandon
<1>11. ASSUME WalkConfirm(t) PROVE Quiet BY <1>2, <1>11 DEF WalkConfirm, Abandon
<1>12. ASSUME ConfirmAgain(t) PROVE Quiet
  <2>1. CASE UNCHANGED pc BY <1>1, <1>12, <2>1 DEF ConfirmAgain
  <2>2. CASE ~UNCHANGED pc BY <1>2, <1>12, <2>2 DEF ConfirmAgain, Abandon
  <2> QED BY <2>1, <2>2
<1>13. ASSUME Mark(t) PROVE Quiet BY <1>13 DEF Mark, WaitRecord
<1>14. ASSUME GoneAnswer(t) PROVE Quiet
  <2>1. \A u \in Isolate : w'[u].n = w[u].n /\ w'[u].obj = w[u].obj
    <3> DEFINE marked == t \in deadlocked
    <3>1. w' = [w EXCEPT ![t].fault = marked] BY <1>14 DEF GoneAnswer
    <3> HIDE DEF marked
    <3> QED BY <3>1 DEF WaitRecord
  <2> QED BY <1>14, <2>1 DEF GoneAnswer
<1>15. ASSUME End(t) PROVE Quiet BY <1>2, <1>15 DEF End
<1>16. ASSUME SpawnInto(t) PROVE Quiet BY <1>2, <1>16 DEF SpawnInto
<1> QED BY <1>3, <1>4, <1>5, <1>6, <1>7, <1>8, <1>9, <1>10, <1>11, <1>12, <1>13, <1>14,
           <1>15, <1>16 DEF QuietStep

LEMMA QuietKeepsWaits ==
  ASSUME LeakInv, Quiet
  PROVE WaitsHaveObjects' /\ ListedWait' /\ IndexedWait'
<1> USE DEF LeakInv
<1>1. WaitsHaveObjects' BY DEF WaitsHaveObjects, Quiet, Listable, Free
<1>2. ASSUME NEW o \in Object, NEW k \in blocked'[o]
      PROVE /\ k = MyTicket(k[1])' /\ o = w'[k[1]].obj
            /\ pc'[k[1]] \in Listable \cup {"unlist"}
  <2>1. k[1] \in Isolate /\ k \in blocked[o] BY <1>2 DEF TypeInv, Ticket, Quiet
  <2>2. /\ k = MyTicket(k[1]) /\ o = w[k[1]].obj
        /\ pc[k[1]] \in Listable \cup {"unlist"}
    BY <2>1 DEF ListedWait
  <2>3. k = <<k[1], w[k[1]].n>> BY <2>2 DEF MyTicket
  <2> QED BY <2>1, <2>2, <2>3 DEF Quiet, MyTicket, Listable, Free
<1>3. ListedWait' BY <1>2 DEF ListedWait, MyTicket
<1>4. IndexedWait' BY DEF IndexedWait, Quiet, TypeInv, Listable, Free
<1> QED BY <1>1, <1>3, <1>4

\* A wait begins: there is nothing of an earlier one.
LEMMA BeginKeepsWaits ==
  ASSUME LeakInv, NEW t \in Isolate, NEW o \in Object, BeginWait(t, o)
  PROVE WaitsHaveObjects' /\ ListedWait' /\ IndexedWait'
<1> USE DEF LeakInv, TypeInv
<1>1. /\ pc[t] = "run" /\ pc' = [pc EXCEPT ![t] = "offer"] /\ blocked' = blocked
      /\ send_waits' = send_waits
      /\ \A u \in Isolate \ {t} : w'[u] = w[u]
      /\ w'[t].obj = o
  BY DEF BeginWait, At, Goto, WaitRecord
<1>2. WaitsHaveObjects' BY <1>1 DEF WaitsHaveObjects
<1>3. ASSUME NEW x \in Object, NEW k \in blocked'[x]
      PROVE /\ k = MyTicket(k[1])' /\ x = w'[k[1]].obj
            /\ pc'[k[1]] \in Listable \cup {"unlist"}
  <2>1. k[1] \in Isolate /\ k \in blocked[x] BY <1>1, <1>3 DEF Ticket
  <2>2. /\ k = MyTicket(k[1]) /\ x = w[k[1]].obj
        /\ pc[k[1]] \in Listable \cup {"unlist"}
    BY <2>1 DEF ListedWait
  <2>3. k[1] # t BY <1>1, <2>2 DEF Listable
  <2> QED BY <1>1, <2>1, <2>2, <2>3 DEF MyTicket
<1>4. ListedWait' BY <1>3 DEF ListedWait, MyTicket
<1>5. IndexedWait' BY <1>1 DEF IndexedWait, Free
<1> QED BY <1>2, <1>4, <1>5

\* A thread lists its own ticket, or takes it from the list.
LEMMA ListingKeepsWaits ==
  ASSUME LeakInv, NEW t \in Isolate, Sleep(t) \/ Proceed(t) \/ Unlist(t)
  PROVE WaitsHaveObjects' /\ ListedWait' /\ IndexedWait'
<1> USE DEF LeakInv, TypeInv
<1>1. /\ w' = w /\ send_waits' = send_waits
      /\ pc[t] \in Listable \cup {"unlist"} /\ w[t].obj \in Object
      /\ pc[t] \notin Free /\ pc'[t] \notin Free
      /\ \A u \in Isolate \ {t} : pc'[u] = pc[u]
  BY DEF Sleep, Proceed, Unlist, At, Goto, WaitsHaveObjects, Listable, Free
<1>2. \/ pc'[t] = "asleep" /\ blocked' = [blocked EXCEPT ![w[t].obj] = @ \cup {MyTicket(t)}]
      \/ blocked' = [blocked EXCEPT ![w[t].obj] = @ \ {MyTicket(t)}]
  BY <1>1 DEF Sleep, Proceed, Unlist, At, Goto
<1>3. WaitsHaveObjects' BY <1>1 DEF WaitsHaveObjects
<1>4. ASSUME NEW x \in Object, NEW k \in blocked'[x]
      PROVE /\ k = MyTicket(k[1])' /\ x = w'[k[1]].obj
            /\ pc'[k[1]] \in Listable \cup {"unlist"}
  <2>1. CASE k = MyTicket(t) /\ x = w[t].obj
    <3>1. k[1] = t BY <2>1 DEF MyTicket
    <3>2. pc'[t] = "asleep" BY <1>1, <1>2, <1>4, <2>1
    <3> QED BY <1>1, <2>1, <3>1, <3>2 DEF MyTicket, Listable
  <2>2. CASE ~(k = MyTicket(t) /\ x = w[t].obj)
    <3>1. k \in blocked[x] BY <1>1, <1>2, <1>4, <2>2
    <3>2. /\ k[1] \in Isolate /\ k = MyTicket(k[1]) /\ x = w[k[1]].obj
          /\ pc[k[1]] \in Listable \cup {"unlist"}
      BY <3>1 DEF ListedWait, Ticket
    <3>3. k[1] # t BY <2>2, <3>2
    <3> QED BY <1>1, <3>2, <3>3 DEF MyTicket
  <2> QED BY <2>1, <2>2
<1>5. ListedWait' BY <1>4 DEF ListedWait, MyTicket
<1>6. IndexedWait' BY <1>1 DEF IndexedWait
<1> QED BY <1>3, <1>5, <1>6

LEMMA IndexKeepsWaits ==
  ASSUME LeakInv, NEW t \in Isolate, PublishPut(t) \/ Unindex(t)
  PROVE WaitsHaveObjects' /\ ListedWait' /\ IndexedWait'
<1> USE DEF LeakInv, TypeInv
<1>1. /\ blocked' = blocked /\ \A u \in Isolate : w'[u].n = w[u].n /\ w'[u].obj = w[u].obj
      /\ \A u \in Isolate \ {t} : pc'[u] = pc[u]
  BY DEF PublishPut, Unindex, Goto, WaitRecord
<1>2. \/ /\ pc[t] = "index" /\ pc'[t] = "walk" /\ DOMAIN send_waits' = DOMAIN send_waits \cup {t}
      \/ /\ pc[t] = "unindex" /\ pc'[t] \in Free /\ DOMAIN send_waits' = DOMAIN send_waits \ {t}
  <2>1. CASE PublishPut(t) BY <2>1 DEF PublishPut, Goto, At
  <2>2. CASE Unindex(t) BY <2>2 DEF Unindex, Goto, At, Free
  <2> QED BY <2>1, <2>2
<1>3. WaitsHaveObjects' BY <1>1, <1>2 DEF WaitsHaveObjects, Free
<1>4. ASSUME NEW x \in Object, NEW k \in blocked'[x]
      PROVE /\ k = MyTicket(k[1])' /\ x = w'[k[1]].obj
            /\ pc'[k[1]] \in Listable \cup {"unlist"}
  <2>1. /\ k[1] \in Isolate /\ k = MyTicket(k[1]) /\ x = w[k[1]].obj
        /\ pc[k[1]] \in Listable \cup {"unlist"}
    BY <1>1, <1>4 DEF ListedWait, Ticket
  <2> QED BY <1>1, <1>2, <2>1 DEF MyTicket, Listable
<1>5. ListedWait' BY <1>4 DEF ListedWait, MyTicket
<1>6. IndexedWait' BY <1>1, <1>2 DEF IndexedWait, Free
<1> QED BY <1>3, <1>5, <1>6

LEMMA HopsKept ==
  ASSUME LeakInv, NEW t \in Isolate,
         QuietStep(t) \/ Sleep(t) \/ Proceed(t) \/ Unlist(t) \/ PublishPut(t) \/ Unindex(t)
         \/ \E o \in Object : BeginWait(t, o)
  PROVE WalksHaveHops'
<1> USE DEF LeakInv, TypeInv, WalksHaveHops, At, Goto
<1>1. ASSUME WalkRead(t) PROVE WalksHaveHops'
  <2>1. CASE Abandon(t) BY <1>1, <2>1 DEF Abandon
  <2>2. CASE ~Abandon(t)
    <3>1. /\ walk'[t].hop = <<[sender |-> walk[t].at, e |-> send_waits[walk[t].at]]>>
          /\ \A u \in Isolate \ {t} : walk'[u] = walk[u] /\ pc'[u] = pc[u]
      BY <1>1, <2>2 DEF WalkRead, WalkRecord
    <3>2. walk'[t].hop # <<>> BY <3>1
    <3>3. \A u \in Isolate : pc'[u] = "confirm" => walk'[u].hop # <<>> BY <3>1, <3>2
    <3> QED BY <3>3
  <2> QED BY <2>1, <2>2
<1>2. ASSUME ~WalkRead(t)
      PROVE /\ \A u \in Isolate \ {t} : walk'[u] = walk[u] /\ pc'[u] = pc[u]
            /\ pc'[t] = "confirm" => pc[t] = "confirm" /\ walk' = walk
  BY <1>2 DEF QuietStep, SendNow, SendToSelf, Receive, Return, SliceOver, PublishRead, RingFound,
     WalkConfirm, ConfirmAgain, Mark, GoneAnswer, End, SpawnInto, Sleep, Proceed, Unlist,
     PublishPut, Unindex, BeginWait, Abandon
<1>3. ASSUME ~WalkRead(t) PROVE WalksHaveHops' BY <1>2, <1>3
<1> QED BY <1>1, <1>3

LEMMA NextSteps ==
  ASSUME [Next]_vars
  PROVE \/ \E t \in Isolate :
             \/ QuietStep(t) \/ Sleep(t) \/ Proceed(t) \/ Unlist(t) \/ PublishPut(t) \/ Unindex(t)
             \/ \E o \in Object : BeginWait(t, o)
        \/ EndWorld \/ UNCHANGED vars
BY DEF Next, Program, Runtime, Finished, QuietStep

LEMMA StepKeepsLeak ==
  ASSUME LeakInv, [Next]_vars
  PROVE LeakInv'
<1>1. TypeInv' BY StepTypes DEF LeakInv
<1>2. ASSUME NEW t \in Isolate, QuietStep(t) PROVE LeakInv'
  BY <1>1, <1>2, QuietSteps, QuietKeepsWaits, HopsKept DEF LeakInv
<1>3. ASSUME NEW t \in Isolate, NEW o \in Object, BeginWait(t, o) PROVE LeakInv'
  BY <1>1, <1>3, BeginKeepsWaits, HopsKept DEF LeakInv
<1>4. ASSUME NEW t \in Isolate, Sleep(t) \/ Proceed(t) \/ Unlist(t) PROVE LeakInv'
  BY <1>1, <1>4, ListingKeepsWaits, HopsKept DEF LeakInv
<1>5. ASSUME NEW t \in Isolate, PublishPut(t) \/ Unindex(t) PROVE LeakInv'
  BY <1>1, <1>5, IndexKeepsWaits, HopsKept DEF LeakInv
<1>6. ASSUME UNCHANGED <<blocked, send_waits, pc, w, walk>> PROVE LeakInv'
  <2>1. Quiet BY <1>6 DEF Quiet
  <2>2. WalksHaveHops' BY <1>6 DEF LeakInv, WalksHaveHops, At
  <2> QED BY <1>1, <2>1, <2>2, QuietKeepsWaits DEF LeakInv
<1>7. ASSUME EndWorld PROVE LeakInv' BY <1>6, <1>7 DEF EndWorld
<1>8. ASSUME UNCHANGED vars PROVE LeakInv' BY <1>6, <1>8 DEF vars
<1> QED BY <1>2, <1>3, <1>4, <1>5, <1>7, <1>8, NextSteps

LEMMA InitLeak == Init => LeakInv
<1> SUFFICES ASSUME Init PROVE LeakInv OBVIOUS
<1>1. TypeInv BY InitTypes
<1>2. WaitsHaveObjects /\ ListedWait /\ IndexedWait /\ WalksHaveHops
  BY DEF Init, WaitsHaveObjects, ListedWait, IndexedWait, WalksHaveHops, At, Free, Isolate
<1> QED BY <1>1, <1>2 DEF LeakInv

\* A wait leaves nothing behind, however it ends and whoever walks over it meanwhile: no
\* ticket of it is listed by any object, and no edge of its isolate is in the index.
THEOREM WaitsLeaveNothing == Spec => []NothingLeaks
<1>1. LeakInv => NothingLeaks
  <2> SUFFICES ASSUME LeakInv, NEW t \in Isolate, ~Waiting(t)
               PROVE /\ t \notin DOMAIN send_waits
                     /\ \A o \in Object : \A k \in blocked[o] : k[1] # t
    BY DEF NothingLeaks
  <2>1. pc[t] \in Free BY DEF Waiting, Free
  <2>2. t \notin DOMAIN send_waits BY <2>1 DEF LeakInv, IndexedWait
  <2>3. ASSUME NEW o \in Object, NEW k \in blocked[o] PROVE k[1] # t
    BY <2>1, <2>3 DEF LeakInv, ListedWait, Listable, Free
  <2> QED BY <2>2, <2>3
<1> QED BY <1>1, InitLeak, StepKeepsLeak, PTL DEF Spec

-----------------------------------------------------------------------------
(* One instant at which a ring is listed as a whole.                       *)

\* The wait of this ticket is over: it is in no list, and can not come into one any more.
Over(k) ==
  /\ \A o \in Object : k \notin blocked[o]
  /\ \/ k[2] < w[k[1]].n
     \/ k[2] = w[k[1]].n /\ pc[k[1]] \notin Listable

\* A hop that was found listed once.
Trusted(h) == h.e.ticket \in blocked[h.e.obj] \/ Over(h.e.ticket)

PathsAreTrusted == \A t \in Isolate : \A i \in 1 .. Len(walk[t].path) : Trusted(walk[t].path[i])

\* A ring that was not listed as a whole has a hop that pass 2 refuses, and has not come to.
TornRingsFail ==
  \A t \in Isolate : At(t, "again") /\ ~walk[t].together =>
    \E i \in 1 .. Len(walk[t].rest) : Over(walk[t].rest[i].e.ticket)

TogetherInv ==
  /\ PathsAreTrusted
  /\ TornRingsFail
  /\ ListedTogether

\* What a step does to the tickets of Ticket: a listed one stays or is over, and what is over
\* stays over.
TicketsAge ==
  \A k \in Ticket : /\ Over(k) => Over(k)'
                    /\ \A o \in Object : k \in blocked[o] => k \in blocked'[o] \/ Over(k)'

LEMMA StepAgesTickets ==
  ASSUME LeakInv, [Next]_vars
  PROVE TicketsAge
<1> USE DEF LeakInv, TypeInv
<1>n. \A u \in Isolate : w[u].n \in Nat BY DEF WaitRecord
<1>q. ASSUME Quiet PROVE TicketsAge
  <2>1. ASSUME NEW k \in Ticket, Over(k) PROVE Over(k)'
    <3>1. k[1] \in Isolate BY DEF Ticket
    <3>2. pc[k[1]] \notin Listable => pc'[k[1]] \notin Listable
      BY <1>q, <3>1 DEF Quiet, Listable, Free
    <3>3. blocked' = blocked /\ w'[k[1]].n = w[k[1]].n BY <1>q, <3>1 DEF Quiet
    <3> QED BY <2>1, <3>2, <3>3 DEF Over
  <2> QED BY <1>q, <2>1 DEF TicketsAge, Quiet
<1>1. ASSUME NEW t \in Isolate, QuietStep(t) PROVE TicketsAge BY <1>q, <1>1, QuietSteps
<1>2. ASSUME NEW t \in Isolate, NEW o \in Object, BeginWait(t, o) PROVE TicketsAge
  <2>1. /\ pc[t] = "run" /\ blocked' = blocked /\ w'[t].n = w[t].n + 1
        /\ \A u \in Isolate \ {t} : w'[u] = w[u] /\ pc'[u] = pc[u]
    BY <1>2 DEF BeginWait, At, Goto, WaitRecord
  <2>2. ASSUME NEW k \in Ticket, Over(k) PROVE Over(k)'
    <3>1. k[1] \in Isolate /\ k[2] \in Nat BY DEF Ticket
    <3>2. CASE k[1] = t
      <4>1. k[2] < w'[t].n BY <1>n, <2>1, <2>2, <3>1, <3>2 DEF Over
      <4> QED BY <2>1, <2>2, <3>2, <4>1 DEF Over
    <3>3. CASE k[1] # t BY <2>1, <2>2, <3>1, <3>3 DEF Over
    <3> QED BY <3>2, <3>3
  <2> QED BY <2>1, <2>2 DEF TicketsAge
<1>3. ASSUME NEW t \in Isolate, Sleep(t) \/ Proceed(t) \/ Unlist(t) PROVE TicketsAge
  <2>1. /\ w' = w /\ pc[t] \in Listable \cup {"unlist"} /\ w[t].obj \in Object
        /\ \A u \in Isolate \ {t} : pc'[u] = pc[u]
    BY <1>3 DEF Sleep, Proceed, Unlist, At, Goto, WaitsHaveObjects, Listable, Free
  <2>2. \/ /\ pc[t] \in Listable /\ pc'[t] \in Listable
           /\ blocked' = [blocked EXCEPT ![w[t].obj] = @ \cup {MyTicket(t)}]
        \/ /\ pc'[t] \notin Listable
           /\ blocked' = [blocked EXCEPT ![w[t].obj] = @ \ {MyTicket(t)}]
    BY <1>3, <2>1 DEF Sleep, Proceed, Unlist, At, Goto, Listable
  <2>3. ASSUME NEW k \in Ticket, Over(k) PROVE Over(k)'
    <3>1. k[1] \in Isolate /\ k[2] \in Nat BY DEF Ticket
    <3>2. CASE pc'[t] \notin Listable
      <4>1. \A o \in Object : k \notin blocked'[o] BY <2>1, <2>2, <2>3, <3>2 DEF Over
      <4> QED BY <2>1, <2>3, <3>1, <3>2, <4>1 DEF Over
    <3>3. CASE pc'[t] \in Listable
      <4>1. pc[t] \in Listable /\ blocked' = [blocked EXCEPT ![w[t].obj] = @ \cup {MyTicket(t)}]
        BY <2>2, <3>3
      <4>2. k # MyTicket(t) BY <1>n, <2>3, <4>1 DEF Over, MyTicket
      <4>3. \A o \in Object : k \notin blocked'[o] BY <2>1, <2>3, <4>1, <4>2 DEF Over
      <4>4. k[1] = t => k[2] < w[t].n BY <2>3, <4>1 DEF Over
      <4> QED BY <2>1, <2>3, <3>1, <4>3, <4>4 DEF Over
    <3> QED BY <3>2, <3>3
  <2>4. ASSUME NEW k \in Ticket, NEW o \in Object, k \in blocked[o], k \notin blocked'[o]
        PROVE Over(k)'
    <3>1. pc'[t] \notin Listable /\ k = MyTicket(t) /\ o = w[t].obj BY <2>1, <2>2, <2>4
    <3>2. k[1] = t /\ k[2] = w[t].n BY <3>1 DEF MyTicket
    <3>3. \A x \in Object : k \in blocked[x] => x = w[t].obj BY <3>2 DEF ListedWait
    <3>4. \A x \in Object : k \notin blocked'[x]
      BY <2>1, <2>2, <2>4, <3>1, <3>3
    <3> QED BY <2>1, <3>1, <3>2, <3>4 DEF Over
  <2> QED BY <2>3, <2>4 DEF TicketsAge
<1>4. ASSUME NEW t \in Isolate, PublishPut(t) \/ Unindex(t) PROVE TicketsAge
  <2>1. /\ blocked' = blocked /\ \A u \in Isolate : w'[u].n = w[u].n
        /\ \A u \in Isolate : pc[u] \notin Listable => pc'[u] \notin Listable
    BY <1>4 DEF PublishPut, Unindex, Goto, At, WaitRecord, Listable
  <2>2. ASSUME NEW k \in Ticket, Over(k) PROVE Over(k)'
    BY <2>1, <2>2 DEF Over, Ticket
  <2> QED BY <2>1, <2>2 DEF TicketsAge
<1>5. ASSUME EndWorld PROVE TicketsAge
  <2>1. Quiet BY <1>5 DEF EndWorld, Quiet
  <2> QED BY <1>q, <2>1
<1>6. ASSUME UNCHANGED vars PROVE TicketsAge
  <2>1. Quiet BY <1>6 DEF vars, Quiet
  <2> QED BY <1>q, <2>1
<1> QED BY <1>1, <1>2, <1>3, <1>4, <1>5, <1>6, NextSteps

LEMMA HopsHaveTickets == \A h \in Hop : h.e.ticket \in Ticket /\ h.e.obj \in Object
BY DEF Hop

\* A walk that stands still keeps what is known of its hops.
LEMMA WalkStays ==
  ASSUME LeakInv, TogetherInv, TicketsAge, NEW u \in Isolate, walk'[u] = walk[u],
         pc'[u] \in {"again", "mark"} => pc'[u] = pc[u]
  PROVE /\ \A i \in 1 .. Len(walk'[u].path) : Trusted(walk[u].path[i])'
        /\ At(u, "again")' /\ ~walk'[u].together =>
             \E i \in 1 .. Len(walk'[u].rest) : Over(walk[u].rest[i].e.ticket)'
        /\ At(u, "mark")' => walk'[u].together
<1>1. walk[u].path \in Seq(Hop) /\ walk[u].rest \in Seq(Hop)
  BY DEF LeakInv, TypeInv, WalkRecord
<1>2. ASSUME NEW h \in Hop, Trusted(h) PROVE Trusted(h)'
  BY <1>2, HopsHaveTickets DEF Trusted, TicketsAge
<1>3. \A i \in 1 .. Len(walk[u].path) : walk[u].path[i] \in Hop BY <1>1
<1>4. \A i \in 1 .. Len(walk[u].rest) : walk[u].rest[i] \in Hop BY <1>1
<1>5. \A i \in 1 .. Len(walk[u].path) : Trusted(walk[u].path[i])'
  BY <1>2, <1>3 DEF TogetherInv, PathsAreTrusted
<1>6. ASSUME At(u, "again"), ~walk[u].together
      PROVE \E i \in 1 .. Len(walk[u].rest) : Over(walk[u].rest[i].e.ticket)'
  <2>1. PICK i \in 1 .. Len(walk[u].rest) : Over(walk[u].rest[i].e.ticket)
    BY <1>6 DEF TogetherInv, TornRingsFail
  <2> QED BY <1>4, <2>1, HopsHaveTickets DEF TicketsAge
<1>7. At(u, "mark") => walk[u].together BY DEF TogetherInv, ListedTogether
<1> QED BY <1>5, <1>6, <1>7 DEF At

\* What the invariant says of one isolate's walk.
WalkIsSound(u) ==
  /\ \A i \in 1 .. Len(walk[u].path) : Trusted(walk[u].path[i])
  /\ At(u, "again") /\ ~walk[u].together =>
       \E i \in 1 .. Len(walk[u].rest) : Over(walk[u].rest[i].e.ticket)
  /\ At(u, "mark") => walk[u].together

LEMMA WalkStaysSound ==
  ASSUME LeakInv, TogetherInv, TicketsAge, NEW u \in Isolate, walk'[u] = walk[u],
         pc'[u] \in {"again", "mark"} => pc'[u] = pc[u]
  PROVE WalkIsSound(u)'
<1>1. /\ \A i \in 1 .. Len(walk'[u].path) : Trusted(walk[u].path[i])'
      /\ At(u, "again")' /\ ~walk'[u].together =>
           \E i \in 1 .. Len(walk'[u].rest) : Over(walk[u].rest[i].e.ticket)'
      /\ At(u, "mark")' => walk'[u].together
  BY WalkStays
<1> QED BY <1>1 DEF WalkIsSound

LEMMA WalkStepsSound ==
  ASSUME LeakInv, TogetherInv, TicketsAge, NEW t \in Isolate,
         RingFound(t) \/ WalkRead(t) \/ WalkConfirm(t) \/ ConfirmAgain(t) \/ Mark(t)
  PROVE WalkIsSound(t)'
<1> USE DEF LeakInv, TypeInv
<1>1. /\ walk[t].path \in Seq(Hop) /\ walk[t].rest \in Seq(Hop) /\ walk[t].hop \in Seq(Hop)
      /\ walk[t].together \in BOOLEAN /\ pc[t] \in Places
  BY DEF WalkRecord
<1>2. ASSUME NEW h \in Hop, Trusted(h) PROVE Trusted(h)'
  BY <1>2, HopsHaveTickets DEF Trusted, TicketsAge
<1>3. \A i \in 1 .. Len(walk[t].path) : walk[t].path[i] \in Hop /\ Trusted(walk[t].path[i])
  BY <1>1 DEF TogetherInv, PathsAreTrusted
<1>4. ASSUME walk'[t] = NoWalk(t), pc'[t] \notin {"again", "mark"} PROVE WalkIsSound(t)'
  BY <1>4 DEF WalkIsSound, NoWalk, At
<1>5. Abandon(t) => WalkIsSound(t)' BY <1>4 DEF Abandon, Goto
<1>6. CASE RingFound(t)
  <2> DEFINE i == CHOOSE j \in SeenAt(t) : TRUE
             ring == Rest(walk[t].path, i)
             hops == {ring[k] : k \in 1 .. Len(ring)}
             listed == \A h \in hops : h.e.ticket \in blocked[h.e.obj]
             stuck == \A h \in hops : ~Satisfied(h.e.obj)
  <2>1. i \in 1 .. Len(walk[t].path) BY <1>6 DEF RingFound, SeenAt
  <2>2. ring \in Seq(Hop)
        /\ \A j \in 1 .. Len(ring) : \E k \in 1 .. Len(walk[t].path) : ring[j] = walk[t].path[k]
    BY <1>1, <2>1, RestOf
  <2>6. /\ walk' = [walk EXCEPT ![t].rest = ring, ![t].ring = ring, ![t].together = listed,
                               ![t].stuck = stuck]
        /\ pc'[t] = "again" /\ blocked' = blocked
    BY <1>6 DEF RingFound, Goto
  <2> HIDE DEF i, ring, listed, stuck
  <2>3. /\ walk'[t].path = walk[t].path /\ walk'[t].rest = ring
        /\ walk'[t].together = listed
        /\ pc'[t] = "again" /\ blocked' = blocked
    BY <2>6 DEF WalkRecord
  <2>4. ASSUME ~walk'[t].together
        PROVE \E j \in 1 .. Len(walk'[t].rest) : Over(walk[t].rest[j].e.ticket)'
    <3>1. PICK j \in 1 .. Len(ring) : ring[j].e.ticket \notin blocked[ring[j].e.obj]
      BY <2>3, <2>4 DEF listed
    <3>2. PICK h \in Hop : h = ring[j] BY <2>2
    <3>3. Over(h.e.ticket) BY <1>3, <2>2, <3>1, <3>2 DEF Trusted
    <3>4. Over(h.e.ticket)' BY <3>3, HopsHaveTickets DEF TicketsAge
    <3> QED BY <2>3, <3>2, <3>4
  <2>5. \A k \in 1 .. Len(walk'[t].path) : Trusted(walk[t].path[k])'
    BY <1>2, <1>3, <2>3
  <2>7. At(t, "again")' /\ ~walk'[t].together =>
           \E j \in 1 .. Len(walk'[t].rest) : Over(walk[t].rest[j].e.ticket)'
    BY <2>4
  <2>8. ~At(t, "mark")' BY <2>3 DEF At
  <2> QED BY <2>5, <2>7, <2>8 DEF WalkIsSound
<1>7. CASE WalkRead(t)
  <2>1. CASE ~Abandon(t)
    <3>1. walk'[t].path = walk[t].path /\ pc'[t] = "confirm"
      BY <1>7, <2>1 DEF WalkRead, WalkRecord, Goto
    <3>2. \A k \in 1 .. Len(walk'[t].path) : Trusted(walk[t].path[k])' BY <1>2, <1>3, <3>1
    <3> QED BY <3>1, <3>2 DEF WalkIsSound, At
  <2> QED BY <1>5, <2>1
<1>8. CASE WalkConfirm(t)
  <2>1. CASE ~Abandon(t)
    <3> DEFINE h == Head(walk[t].hop)
    <3>7. /\ walk' = [walk EXCEPT ![t].path = Append(@, h), ![t].at = h.e.target, ![t].hop = <<>>]
          /\ pc'[t] = "walk" /\ StillWaiting(h) /\ pc[t] = "confirm"
      BY <1>8, <2>1 DEF WalkConfirm, Goto, At
    <3>2. h \in Hop BY <1>1, <3>7 DEF WalksHaveHops, At
    <3> HIDE DEF h
    <3>1. /\ walk'[t].path = Append(walk[t].path, h) /\ pc'[t] = "walk"
          /\ pc[t] = "confirm"
      BY <3>7 DEF WalkRecord
    <3>3. Trusted(h) BY <3>7 DEF StillWaiting, Trusted
    <3>4. \A k \in 1 .. Len(walk[t].path) + 1 :
            walk'[t].path[k] = IF k \in 1 .. Len(walk[t].path) THEN walk[t].path[k] ELSE h
      BY <1>1, <3>1, <3>2, AppendProperties
    <3>5. Len(walk'[t].path) = Len(walk[t].path) + 1 BY <1>1, <3>1, <3>2
    <3>6. \A k \in 1 .. Len(walk'[t].path) : Trusted(walk[t].path[k])'
      BY <1>2, <1>3, <3>2, <3>3, <3>4, <3>5
    <3> QED BY <3>1, <3>6 DEF WalkIsSound, At
  <2> QED BY <1>5, <2>1
<1>9. CASE ConfirmAgain(t)
  <2>1. CASE walk[t].rest = <<>>
    <3>1. pc[t] = "again" /\ pc'[t] = "mark" /\ walk' = walk
      BY <1>9, <2>1 DEF ConfirmAgain, Goto, At
    <3>2. walk[t].together BY <2>1, <3>1 DEF TogetherInv, TornRingsFail, At
    <3>3. \A k \in 1 .. Len(walk'[t].path) : Trusted(walk[t].path[k])' BY <1>2, <1>3, <3>1
    <3> QED BY <3>1, <3>2, <3>3 DEF WalkIsSound, At
  <2>2. CASE walk[t].rest # <<>> /\ ~Abandon(t)
    <3> DEFINE h == Head(walk[t].rest)
    <3>6. /\ pc[t] = "again" /\ pc' = pc /\ StillWaiting(h)
          /\ walk' = [walk EXCEPT ![t].rest = Tail(@)]
      BY <1>9, <2>2 DEF ConfirmAgain, At
    <3>1. /\ pc[t] = "again" /\ pc' = pc /\ StillWaiting(h)
          /\ walk'[t].path = walk[t].path /\ walk'[t].rest = Tail(walk[t].rest)
          /\ walk'[t].together = walk[t].together
      BY <3>6 DEF WalkRecord
    <3>2. h = walk[t].rest[1] /\ h \in Hop BY <1>1, <2>2
    <3>3. h.e.ticket \in blocked[h.e.obj] /\ h.e.obj \in Object
      <4> HIDE DEF h
      <4> QED BY <3>1, <3>2, HopsHaveTickets DEF StillWaiting
    <3>4. ASSUME ~walk[t].together
          PROVE \E j \in 1 .. Len(walk'[t].rest) : Over(walk[t].rest[j].e.ticket)'
      <4>1. PICK j \in 1 .. Len(walk[t].rest) : Over(walk[t].rest[j].e.ticket)
        BY <3>1, <3>4 DEF TogetherInv, TornRingsFail, At
      <4>2. j # 1 BY <3>2, <3>3, <4>1 DEF Over
      <4>3. /\ j - 1 \in 1 .. Len(Tail(walk[t].rest))
            /\ Tail(walk[t].rest)[j - 1] = walk[t].rest[j]
        BY <1>1, <2>2, <4>1, <4>2
      <4>4. PICK g \in Hop : g = walk[t].rest[j] BY <1>1, <4>1
      <4>5. Over(g.e.ticket)' BY <4>1, <4>4, HopsHaveTickets DEF TicketsAge
      <4> QED BY <3>1, <4>3, <4>4, <4>5
    <3>5. \A k \in 1 .. Len(walk'[t].path) : Trusted(walk[t].path[k])' BY <1>2, <1>3, <3>1
    <3> QED BY <3>1, <3>4, <3>5 DEF WalkIsSound, At
  <2> QED BY <1>5, <1>9, <2>1, <2>2 DEF ConfirmAgain
<1>10. CASE Mark(t)
  <2>1. walk'[t] = NoWalk(t) /\ pc'[t] = "unlist" BY <1>10 DEF Mark, Goto
  <2> QED BY <1>4, <2>1
<1> QED BY <1>6, <1>7, <1>8, <1>9, <1>10

LEMMA StepKeepsTogether ==
  ASSUME LeakInv, TogetherInv, [Next]_vars
  PROVE TogetherInv'
<1> USE DEF LeakInv, TypeInv
<1>1. TicketsAge BY StepAgesTickets
<1>2. SUFFICES ASSUME NEW u \in Isolate PROVE WalkIsSound(u)'
  BY DEF TogetherInv, PathsAreTrusted, TornRingsFail, ListedTogether, WalkIsSound
<1>3. ASSUME UNCHANGED <<walk, pc>> PROVE WalkIsSound(u)' BY <1>1, <1>3, WalkStaysSound
<1>4. ASSUME NEW t \in Isolate,
             \/ QuietStep(t) \/ Sleep(t) \/ Proceed(t) \/ Unlist(t) \/ PublishPut(t) \/ Unindex(t)
             \/ \E o \in Object : BeginWait(t, o)
      PROVE WalkIsSound(u)'
  <2> DEFINE walks == RingFound(t) \/ WalkRead(t) \/ WalkConfirm(t) \/ ConfirmAgain(t) \/ Mark(t)
  <2>1. CASE walks
    <3>1. CASE u = t BY <1>1, <2>1, <3>1, WalkStepsSound
    <3>2. CASE u # t
      <4>1. walk'[u] = walk[u] /\ pc'[u] = pc[u]
        BY <2>1, <3>2 DEF RingFound, WalkRead, WalkConfirm, ConfirmAgain, Mark, Abandon, Goto
      <4> QED BY <1>1, <4>1, WalkStaysSound
    <3> QED BY <3>1, <3>2
  <2>2. CASE ~walks
    <3>1. /\ walk' = walk
          /\ pc'[u] \in {"again", "mark"} => pc'[u] = pc[u]
      BY <1>4, <2>2 DEF QuietStep, SendNow, SendToSelf, Receive, Return, SliceOver, PublishRead,
        GoneAnswer, End, SpawnInto, Sleep, Proceed, Unlist, PublishPut, Unindex, BeginWait, Goto
    <3> QED BY <1>1, <3>1, WalkStaysSound
  <2> QED BY <2>1, <2>2
<1>5. CASE EndWorld BY <1>3, <1>5 DEF EndWorld
<1>6. CASE UNCHANGED vars BY <1>3, <1>6 DEF vars
<1> QED BY <1>4, <1>5, <1>6, NextSteps

\* The claim on which the verdict rests: when a walk is about to mark a ring, there was an
\* instant, the end of its first pass, at which every wait of the ring was listed.
THEOREM VerdictsAreOfOneInstant == Spec => []ListedTogether
<1>1. Init => TogetherInv
  BY DEF Init, TogetherInv, PathsAreTrusted, TornRingsFail, ListedTogether, NoWalk, At
<1>2. TogetherInv => ListedTogether BY DEF TogetherInv
<1> QED BY <1>1, <1>2, InitLeak, StepKeepsLeak, StepKeepsTogether, PTL DEF Spec
=============================================================================
