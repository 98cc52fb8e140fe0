---------------------------- MODULE DoubleEnded ----------------------------
(***************************************************************************)
(* What a double-ended queue promises (std/deque.skn): a sequence that     *)
(* grows and shrinks at both ends, is read at any index, and is walked by  *)
(* a cursor that asks for one element at a time.  `ret` is what the last   *)
(* call answered; NoElem is the library's Option without a value.          *)
(***************************************************************************)
EXTENDS Integers, Sequences

CONSTANTS Elem, NoElem

VARIABLES q, cursor, ret

(* The element at an index counted from 0, if there is one. *)
Get(i) == IF i \in 0..Len(q) - 1 THEN q[i + 1] ELSE NoElem

Init == q \in Seq(Elem) /\ cursor = 0 /\ ret = NoElem

PushFront(x) == q' = <<x>> \o q /\ ret' = NoElem /\ UNCHANGED cursor
PushBack(x)  == q' = Append(q, x) /\ ret' = NoElem /\ UNCHANGED cursor

PopFront == /\ q' = IF q = <<>> THEN q ELSE Tail(q)
            /\ ret' = Get(0)
            /\ UNCHANGED cursor

PopBack == /\ q' = IF q = <<>> THEN q ELSE [i \in 1..Len(q) - 1 |-> q[i]]
           /\ ret' = Get(Len(q) - 1)
           /\ UNCHANGED cursor

Clear == q' = <<>> /\ ret' = NoElem /\ UNCHANGED cursor

Read == /\ \E i \in -1..Len(q) : ret' = Get(i)
        /\ UNCHANGED <<q, cursor>>

CursorNext == /\ ret' = Get(cursor)
              /\ cursor' = IF Get(cursor) = NoElem THEN cursor ELSE cursor + 1
              /\ UNCHANGED q

Next == \/ \E x \in Elem : PushFront(x) \/ PushBack(x)
        \/ PopFront \/ PopBack \/ Clear \/ Read \/ CursorNext

Spec == Init /\ [][Next]_<<q, cursor, ret>>
=============================================================================
