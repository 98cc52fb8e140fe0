------------------------------- MODULE Deque -------------------------------
(***************************************************************************)
(* The double-ended queue of the library (std/deque.skn).  It keeps two    *)
(* vectors, which are cheap at their end only: `front` holds the leading   *)
(* elements in reverse, `back` the trailing ones in order.  A pop at the   *)
(* side that is empty first moves HALF of the other side over.             *)
(*                                                                         *)
(* `moved` counts the elements that were copied, `calls` the elements that *)
(* were pushed or popped: no program sees them, and they state what the    *)
(* module's comment says of its cost.                                      *)
(***************************************************************************)
EXTENDS Integers, Sequences

CONSTANTS Elem,       \* what the program keeps in it
          NoElem,
          Vecs,       \* the vectors that a deque is made of
          MaxCalls    \* the bound on `calls`

VARIABLES front, back, cursor, ret, moved, calls

dequeVars == <<front, back, cursor, ret, moved, calls>>

nf == Len(front)
nb == Len(back)

(* Deque::get: an index counted from 0. *)
Get(i) == IF i \in 0..nf - 1 THEN front[nf - i]
          ELSE IF i \in nf..nf + nb - 1 THEN back[i - nf + 1] ELSE NoElem

PeekFront == IF nf > 0 THEN front[nf] ELSE IF nb > 0 THEN back[1] ELSE NoElem
PeekBack  == IF nb > 0 THEN back[nb] ELSE IF nf > 0 THEN front[1] ELSE NoElem

(* What is left of a vector after `pop`, and what it answers. *)
Shortened(v) == [i \in 1..Len(v) - 1 |-> v[i]]
LastOf(v)    == IF v = <<>> THEN NoElem ELSE v[Len(v)]

(* Two faults: the whole side is moved, and half of it without a reversal. *)
All(v) == Len(v)
TakenInOrder(v) == [i \in 1..(Len(v) + 1) \div 2 |-> v[i]]

(* The two sides after half of v has moved to the side that was empty. *)
Half(v)  == (Len(v) + 1) \div 2
Taken(v) == [i \in 1..Half(v) |-> v[Half(v) + 1 - i]]
Kept(v)  == [i \in 1..Len(v) - Half(v) |-> v[Half(v) + i]]

(* `new`, or `fromVec` of a vector: each of its elements was pushed once. *)
DequeInit == /\ front = <<>> /\ back \in Vecs /\ back \in Seq(Elem)
             /\ cursor = 0 /\ ret = NoElem
             /\ moved = 0 /\ calls = Len(back)

Call == calls < MaxCalls /\ calls' = calls + 1 /\ UNCHANGED cursor

PushFront(x) == /\ Call
                /\ front' = Append(front, x)
                /\ ret' = NoElem
                /\ UNCHANGED <<back, moved>>

PushBack(x) == /\ Call
               /\ back' = Append(back, x)
               /\ ret' = NoElem
               /\ UNCHANGED <<front, moved>>

PopFront ==
    /\ Call
    /\ \/ /\ nf > 0
          /\ front' = Shortened(front) /\ ret' = LastOf(front)
          /\ UNCHANGED <<back, moved>>
       \/ /\ nf = 0 /\ nb <= 1
          /\ back' = Shortened(back) /\ ret' = LastOf(back)
          /\ UNCHANGED <<front, moved>>
       \/ /\ nf = 0 /\ nb > 1
          /\ front' = Shortened(Taken(back)) /\ ret' = LastOf(Taken(back))
          /\ back' = Kept(back)
          /\ moved' = moved + nb

PopBack ==
    /\ Call
    /\ \/ /\ nb > 0
          /\ back' = Shortened(back) /\ ret' = LastOf(back)
          /\ UNCHANGED <<front, moved>>
       \/ /\ nb = 0 /\ nf <= 1
          /\ front' = Shortened(front) /\ ret' = LastOf(front)
          /\ UNCHANGED <<back, moved>>
       \/ /\ nb = 0 /\ nf > 1
          /\ back' = Shortened(Taken(front)) /\ ret' = LastOf(Taken(front))
          /\ front' = Kept(front)
          /\ moved' = moved + nf

Clear == /\ front' = <<>> /\ back' = <<>> /\ ret' = NoElem
         /\ UNCHANGED <<cursor, moved, calls>>

(* `get` (all indexes out of range are answered alike), `peekFront` and
   `peekBack`; `at` answers as get does, or aborts. *)
Read == /\ \/ \E i \in -1..nf + nb : ret' = Get(i)
           \/ ret' = PeekFront
           \/ ret' = PeekBack
        /\ UNCHANGED <<front, back, cursor, moved, calls>>

(* DequeCursor::next, which asks the deque as it is now. *)
CursorNext == /\ ret' = Get(cursor)
              /\ cursor' = IF Get(cursor) = NoElem THEN cursor ELSE cursor + 1
              /\ UNCHANGED <<front, back, moved, calls>>

DequeNext == \/ \E x \in Elem : PushFront(x) \/ PushBack(x)
             \/ PopFront \/ PopBack \/ Clear \/ Read \/ CursorNext

DequeSpec == DequeInit /\ [][DequeNext]_dequeVars

-----------------------------------------------------------------------------
TypeOK == /\ front \in Seq(Elem) /\ back \in Seq(Elem)
          /\ cursor \in Nat /\ moved \in Nat /\ calls \in Nat
          /\ ret \in Elem \cup {NoElem}

(* How far the two sides are apart. *)
Apart == IF nf >= nb THEN nf - nb ELSE nb - nf

(* What the elements copied between the sides cost is paid by the calls made
   so far: every call leaves the sides at most one further apart, and a move
   costs what they were apart.  (Moving all of a side would break it: pops at
   alternate ends would copy the whole deque each time.) *)
CostIsPaid == moved + Apart <= calls

(* The deque as a sequence, first to last. *)
Joined(f, b) ==
    [i \in 1..Len(f) + Len(b) |-> IF i <= Len(f) THEN f[Len(f) + 1 - i] ELSE b[i - Len(f)]]

Contents == Joined(front, back)

Promise == INSTANCE DoubleEnded WITH q <- Contents

(* Whatever was pushed, popped and moved, the deque answers as a sequence. *)
ImplementsSequence == Promise!Spec
=============================================================================
