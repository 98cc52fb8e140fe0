------------------------------- MODULE Mailbox -------------------------------
(***************************************************************************)
(* One inbox of the runtime (struct Mailbox, src/vmcore/vmcore.cpp) as a   *)
(* record, and each of its methods as an operator from the record before   *)
(* the critical section to the record after it.  Every method of the code  *)
(* holds Mailbox::m from its first read to its last write, so a caller's   *)
(* action applies one operator.  The buffers a message carries are left    *)
(* out; "of" names what the properties want to know of a mail: the         *)
(* isolate a report is about, or the isolate a message was queued for.     *)
(***************************************************************************)
EXTENDS Integers, Sequences

NO_OWNER == -1                  \* a slot between two actors

Msg(of) == [kind |-> "msg", of |-> of, reason |-> "none"]
Exited(of, reason) == [kind |-> "exited", of |-> of, reason |-> reason]
Stop == [kind |-> "stop", of |-> NO_OWNER, reason |-> "none"]

MailOf(Ids) ==
  [kind: {"msg", "exited", "stop"}, of: Ids \cup {NO_OWNER},
   reason: {"none", "normal", "fault", "gone"}]

MailboxOf(Ids) ==
  [owner: Ids \cup {NO_OWNER}, q: Seq(MailOf(Ids)), messages: Int,
   dead: BOOLEAN, released: BOOLEAN, stopped: BOOLEAN, stop_seen: BOOLEAN,
   io_paused: BOOLEAN]

\* An inbox as its constructor leaves it, given to its owner.
NewMailbox(owner) ==
  [owner |-> owner, q |-> <<>>, messages |-> 0, dead |-> FALSE, released |-> FALSE,
   stopped |-> FALSE, stop_seen |-> FALSE, io_paused |-> FALSE]

\* What a receiver and a select wait for.
Ready(b) == b.q # <<>> \/ b.stop_seen

\* A bounded inbox (capacity # 0) that holds its fill of messages.
Full(b, capacity) == capacity # 0 /\ b.messages >= capacity

\* System mail: it ignores the capacity, and Stop is queued once.
Put(b, mail) ==
  IF b.dead \/ (mail.kind = "stop" /\ b.stopped) THEN b
  ELSE [b EXCEPT !.q = Append(@, mail),
                 !.stopped = @ \/ mail.kind = "stop"]

\* A message that found the inbox open and with room.
Push(b, mail) == [b EXCEPT !.q = Append(@, mail), !.messages = @ + 1]

\* What a send that does not wait answers, and the inbox it leaves.
OfferAnswer(b, capacity) ==
  IF b.dead THEN "GONE" ELSE IF Full(b, capacity) THEN "FULL" ELSE "SENT"

Offer(b, mail, capacity) ==
  IF OfferAnswer(b, capacity) = "SENT" THEN Push(b, mail) ELSE b

\* Mutant: the I/O thread sends like anybody who does not wait.
OfferNoPause(b, mail, capacity) == Offer(b, mail, capacity)

\* The I/O thread's send: a full inbox is marked in the same critical section.
OfferOrPause(b, mail, capacity) ==
  IF OfferAnswer(b, capacity) = "FULL" THEN [b EXCEPT !.io_paused = TRUE]
  ELSE Offer(b, mail, capacity)

\* The head of the queue taken out; on an empty queue only a Stop already seen answers.
Take(b) ==
  IF b.q = <<>> THEN b
  ELSE [b EXCEPT !.q = Tail(@),
                 !.stop_seen = @ \/ Head(b.q).kind = "stop",
                 !.messages = IF Head(b.q).kind = "msg" THEN @ - 1 ELSE @,
                 !.io_paused = @ /\ Head(b.q).kind # "msg"]

TakenKind(b) == IF b.q = <<>> THEN "stop" ELSE Head(b.q).kind

Close(b) == [b EXCEPT !.dead = TRUE, !.q = <<>>, !.messages = 0]

Release(b) == [b EXCEPT !.released = TRUE]

\* Mutant: the count of the dropped messages stays.
VacateKeepsCount(b) == [b EXCEPT !.owner = NO_OWNER, !.q = <<>>]

\* Mutant: the queue is left to the next actor.
VacateKeepsMail(b) == [b EXCEPT !.owner = NO_OWNER]

\* A slot whose actor ended.
Vacate(b) == [b EXCEPT !.owner = NO_OWNER, !.q = <<>>, !.messages = 0]

\* Mutant: Stop is queued once, also across the queue being dropped.
RetireOnce(b) ==
  [Put([b EXCEPT !.dead = FALSE, !.q = <<>>, !.messages = 0], Stop) EXCEPT !.dead = TRUE]

\* A slot ended for good: an actor still in it is told to stop, again if need be.
Retire(b) ==
  [b EXCEPT !.dead = TRUE, !.messages = 0,
            !.q = IF b.owner # NO_OWNER THEN <<Stop>> ELSE <<>>,
            !.stopped = @ \/ b.owner # NO_OWNER]

\* Stop is in the queue, or was read: the owner's next receive of it answers Stop in the end.
StopHeld(b) == b.stop_seen \/ \E i \in 1 .. Len(b.q) : b.q[i].kind = "stop"
=============================================================================
