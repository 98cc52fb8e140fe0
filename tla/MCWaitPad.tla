----------------------------- MODULE MCWaitPad -----------------------------
(* Two inboxes, and two threads: a sender, and one that ends the isolate.  *)
EXTENDS WaitPad

CONSTANTS sender, ender

TheNotifiers == {sender, ender}

\* A message to the second inbox, against a Stop for the actor of the first, a slot, that
\* is released right after: an orderly shutdown.
StopAndRelease ==
  [i \in TheNotifiers |->
     IF i = sender THEN <<[op |-> "msg", box |-> 2]>>
     ELSE <<[op |-> "stop", box |-> 1], [op |-> "close", box |-> 1],
            [op |-> "retire", box |-> 1]>>]

\* A receive from the first inbox and either select over both.
TheWaits ==
  {[call |-> "receive", watch |-> {1}]} \cup [call: {"select", "selectIo"}, watch: {Box}]
=============================================================================
