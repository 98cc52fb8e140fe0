\* A stream and a listener share an inbox for one message.
SPECIFICATION Spec
CONSTANTS
  reader = reader
  worker = worker
  main = main
  input = input
  stream = stream
  listener = listener
  c1 = c1
  d1 = d1
  d2 = d2
  Actor = {reader, worker}
  Box = {main, input}
  Holder <- Holders
  Main <- Mains
  Sock = {stream, listener}
  Listener = {listener}
  Owner <- Owners
  Into <- Intos
  Conn = {c1}
  Data = {d1, d2}
  Arrives <- Arrivals
  Buffered <- Left
  Capacity = 1
  Batch = 1
  Calls <- TheCalls
INVARIANTS
  ClosedOnce
  EventsInOrder
  NoWakeIsMissed
  UndeliveredAreHeld
  ConnectionHasOneHolder
