---------------------------- MODULE MailboxProofs ----------------------------
(***************************************************************************)
(* What the methods of an inbox keep, whoever calls them and in whatever   *)
(* order: each takes an inbox to an inbox.                                 *)
(***************************************************************************)
EXTENDS Mailbox, TLAPS

\* An inbox stays one when a single field is assigned: the step every method is made of.
LEMMA MailboxField ==
  ASSUME NEW Ids, NEW b \in MailboxOf(Ids)
  PROVE /\ \A x \in Ids \cup {NO_OWNER} : [b EXCEPT !.owner = x] \in MailboxOf(Ids)
        /\ \A x \in Seq(MailOf(Ids)) : [b EXCEPT !.q = x] \in MailboxOf(Ids)
        /\ \A x \in Int : [b EXCEPT !.messages = x] \in MailboxOf(Ids)
        /\ \A x \in BOOLEAN : /\ [b EXCEPT !.dead = x] \in MailboxOf(Ids)
                              /\ [b EXCEPT !.released = x] \in MailboxOf(Ids)
                              /\ [b EXCEPT !.stopped = x] \in MailboxOf(Ids)
                              /\ [b EXCEPT !.stop_seen = x] \in MailboxOf(Ids)
                              /\ [b EXCEPT !.io_paused = x] \in MailboxOf(Ids)
<1>1. \A x \in Ids \cup {NO_OWNER} : [b EXCEPT !.owner = x] \in MailboxOf(Ids)
  BY DEF MailboxOf
<1>2. \A x \in Seq(MailOf(Ids)) : [b EXCEPT !.q = x] \in MailboxOf(Ids)
  BY DEF MailboxOf
<1>3. \A x \in Int : [b EXCEPT !.messages = x] \in MailboxOf(Ids)
  BY DEF MailboxOf
<1>4. \A x \in BOOLEAN : [b EXCEPT !.dead = x] \in MailboxOf(Ids)
  BY DEF MailboxOf
<1>5. \A x \in BOOLEAN : [b EXCEPT !.released = x] \in MailboxOf(Ids)
  BY DEF MailboxOf
<1>6. \A x \in BOOLEAN : [b EXCEPT !.stopped = x] \in MailboxOf(Ids)
  BY DEF MailboxOf
<1>7. \A x \in BOOLEAN : [b EXCEPT !.stop_seen = x] \in MailboxOf(Ids)
  BY DEF MailboxOf
<1>8. \A x \in BOOLEAN : [b EXCEPT !.io_paused = x] \in MailboxOf(Ids)
  BY DEF MailboxOf
<1> QED BY <1>1, <1>2, <1>3, <1>4, <1>5, <1>6, <1>7, <1>8

\* The constructor.
LEMMA NewMailboxType ==
  ASSUME NEW Ids, NEW owner \in Ids \cup {NO_OWNER}
  PROVE NewMailbox(owner) \in MailboxOf(Ids)
BY DEF NewMailbox, MailboxOf

\* Mailbox::put.
LEMMA PutType ==
  ASSUME NEW Ids, NEW b \in MailboxOf(Ids), NEW mail \in MailOf(Ids)
  PROVE Put(b, mail) \in MailboxOf(Ids)
<1> DEFINE c == [b EXCEPT !.q = Append(b.q, mail)]
<1>1. b.q \in Seq(MailOf(Ids)) BY DEF MailboxOf
<1>2. Append(b.q, mail) \in Seq(MailOf(Ids)) BY <1>1
<1>3. c \in MailboxOf(Ids) BY <1>2, MailboxField
<1>4. (b.stopped \/ mail.kind = "stop") \in BOOLEAN OBVIOUS
<1>5. [c EXCEPT !.stopped = b.stopped \/ mail.kind = "stop"] \in MailboxOf(Ids)
  BY <1>3, <1>4, MailboxField
<1> QED BY <1>5 DEF Put

\* A message that is accepted, Mailbox::offer.
LEMMA PushType ==
  ASSUME NEW Ids, NEW b \in MailboxOf(Ids), NEW mail \in MailOf(Ids)
  PROVE Push(b, mail) \in MailboxOf(Ids)
<1> DEFINE c == [b EXCEPT !.q = Append(b.q, mail)]
<1>1. b.q \in Seq(MailOf(Ids)) /\ b.messages \in Int BY DEF MailboxOf
<1>2. Append(b.q, mail) \in Seq(MailOf(Ids)) BY <1>1
<1>3. c \in MailboxOf(Ids) BY <1>2, MailboxField
<1>4. b.messages + 1 \in Int BY <1>1
<1>5. [c EXCEPT !.messages = b.messages + 1] \in MailboxOf(Ids) BY <1>3, <1>4, MailboxField
<1> QED BY <1>5 DEF Push

\* Mailbox::offer, whatever it answers.
LEMMA OfferType ==
  ASSUME NEW Ids, NEW b \in MailboxOf(Ids), NEW mail \in MailOf(Ids), NEW capacity
  PROVE Offer(b, mail, capacity) \in MailboxOf(Ids)
BY PushType DEF Offer

\* The dequeue of rawReceive.
LEMMA TakeType ==
  ASSUME NEW Ids, NEW b \in MailboxOf(Ids)
  PROVE Take(b) \in MailboxOf(Ids)
<1> SUFFICES ASSUME b.q # <<>> PROVE Take(b) \in MailboxOf(Ids)
  BY DEF Take
<1> DEFINE c1 == [b EXCEPT !.q = Tail(b.q)]
           seen == b.stop_seen \/ Head(b.q).kind = "stop"
           c2 == [c1 EXCEPT !.stop_seen = seen]
           left == IF Head(b.q).kind = "msg" THEN b.messages - 1 ELSE b.messages
           c3 == [c2 EXCEPT !.messages = left]
           paused == b.io_paused /\ Head(b.q).kind # "msg"
<1>1. b.q \in Seq(MailOf(Ids)) /\ b.messages \in Int BY DEF MailboxOf
<1>2. Tail(b.q) \in Seq(MailOf(Ids)) BY <1>1
<1>3. c1 \in MailboxOf(Ids) BY <1>2, MailboxField
<1>4. seen \in BOOLEAN OBVIOUS
<1>5. c2 \in MailboxOf(Ids) BY <1>3, <1>4, MailboxField
<1>6. left \in Int BY <1>1
<1>7. c3 \in MailboxOf(Ids) BY <1>5, <1>6, MailboxField
<1>8. paused \in BOOLEAN OBVIOUS
<1>9. [c3 EXCEPT !.io_paused = paused] \in MailboxOf(Ids) BY <1>7, <1>8, MailboxField
<1> QED BY <1>9 DEF Take

\* Mailbox::close, release, vacate and retire.
LEMMA EndType ==
  ASSUME NEW Ids, NEW b \in MailboxOf(Ids)
  PROVE /\ Close(b) \in MailboxOf(Ids)
        /\ Release(b) \in MailboxOf(Ids)
        /\ Vacate(b) \in MailboxOf(Ids)
        /\ Retire(b) \in MailboxOf(Ids)
<1> DEFINE dead == [b EXCEPT !.dead = TRUE]
           free == [b EXCEPT !.owner = NO_OWNER]
           told == IF b.owner # NO_OWNER THEN <<Stop>> ELSE <<>>
           stopped == b.stopped \/ b.owner # NO_OWNER
<1>1. <<>> \in Seq(MailOf(Ids)) OBVIOUS
<1>2. Stop \in MailOf(Ids) BY DEF Stop, MailOf
<1>3. told \in Seq(MailOf(Ids)) BY <1>1, <1>2
<1>4. dead \in MailboxOf(Ids) /\ free \in MailboxOf(Ids) BY MailboxField
<1>5. 0 \in Int /\ TRUE \in BOOLEAN /\ NO_OWNER \in Ids \cup {NO_OWNER} OBVIOUS
<1>6. Close(b) \in MailboxOf(Ids)
  <2> DEFINE c == [dead EXCEPT !.q = <<>>]
  <2>1. c \in MailboxOf(Ids) BY <1>1, <1>4, MailboxField
  <2> HIDE DEF c
  <2>2. [c EXCEPT !.messages = 0] \in MailboxOf(Ids) BY <1>5, <2>1, MailboxField
  <2> QED BY <2>2 DEF Close, c
<1>7. Release(b) \in MailboxOf(Ids) BY MailboxField DEF Release
<1>8. Vacate(b) \in MailboxOf(Ids)
  <2> DEFINE c == [free EXCEPT !.q = <<>>]
  <2>1. c \in MailboxOf(Ids) BY <1>1, <1>4, MailboxField
  <2> HIDE DEF c
  <2>2. [c EXCEPT !.messages = 0] \in MailboxOf(Ids) BY <1>5, <2>1, MailboxField
  <2> QED BY <2>2 DEF Vacate, c
<1>9. Retire(b) \in MailboxOf(Ids)
  <2> DEFINE c == [dead EXCEPT !.messages = 0]
             d == [c EXCEPT !.q = told]
  <2>1. c \in MailboxOf(Ids) BY <1>4, <1>5, MailboxField
  <2>2. stopped \in BOOLEAN OBVIOUS
  <2> HIDE DEF c
  <2>3. d \in MailboxOf(Ids) BY <1>3, <2>1, MailboxField
  <2> HIDE DEF d
  <2>4. [d EXCEPT !.stopped = stopped] \in MailboxOf(Ids) BY <2>2, <2>3, MailboxField
  <2> QED BY <2>4 DEF Retire, c, d
<1> QED BY <1>6, <1>7, <1>8, <1>9
=============================================================================
