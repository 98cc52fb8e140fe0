----------------------------- MODULE MCMachine ------------------------------
(* An instance of Machine small enough to run out of every room it has. *)
EXTENDS MachineRefines

(* The top level, a function with a smaller frame, one with a larger frame
   and no arguments, and a closure that captures itself and a value. *)
FourFns == << [frame |-> 2, arity |-> 0, captures |-> 0, self |-> 0],
              [frame |-> 1, arity |-> 1, captures |-> 0, self |-> 0],
              [frame |-> 3, arity |-> 0, captures |-> 0, self |-> 0],
              [frame |-> 1, arity |-> 0, captures |-> 2, self |-> 2] >>

SomePrograms == {
    [ops |-> {"vec", "call", "tail"},    texts |-> <<>>,             reserved |-> 6],
    [ops |-> {"closure", "tail", "send"}, texts |-> <<>>,             reserved |-> 8],
    [ops |-> {"vec", "send"},     texts |-> <<>>,             reserved |-> 10],
    [ops |-> {"map", "int", "string"},   texts |-> <<<<"a">>>>,      reserved |-> 24],
    [ops |-> {"map", "string", "concat", "keys"}, texts |-> <<<<"a">>>>, reserved |-> 13],
    [ops |-> {"string", "concat", "mov"}, texts |-> <<<<"a">>, <<>>, <<"b">>>>, reserved |-> 8] }

(* Every two keys collide. *)
Colliding(key) == 1
=============================================================================
