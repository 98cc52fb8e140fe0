------------------------------ MODULE MCIoHub ------------------------------
(* A reader with a stream and a listener in one inbox, and a task.         *)
EXTENDS IoHub, TLC

CONSTANTS reader, worker, main, input, stream, listener, c1, d1, d2

Holders == (main :> reader) @@ (input :> reader)
Mains == (reader :> main)
Owners == [s \in {stream, listener} |-> reader]
Intos == [s \in {stream, listener} |-> input]

Read(events) == [events |-> events, last |-> FALSE]

\* A line and an overlong one, which ends the stream, come in one read.  A client connects.
Arrivals ==
  (stream :> <<[events |-> <<d1, d2>>, last |-> TRUE]>>)
    @@ (listener :> <<Read(<<c1>>)>>)
Left == (stream :> Read(<<>>)) @@ (listener :> Read(<<>>))

\* The reader has the sockets; both redeem the ticket, and the reader may hand it off again.
TheCalls ==
  (reader :> CallNames) @@ (worker :> {"take", "return"})
=============================================================================
