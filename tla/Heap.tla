-------------------------------- MODULE Heap --------------------------------
(***************************************************************************)
(* The copying collector's heap (vmcore/Heap.h) and what it calls a root.  *)
(*                                                                         *)
(* A machine's state is one record, vm, as the code passes it around in    *)
(* Context, VM and Heap.  Sizes count cells of eight bytes.  An address is *)
(* <<"ptr", s, i>>: the i-th object of semispace s.  The bytes between two *)
(* objects are not modelled, so an object's ordinal stands for its offset. *)
(* Only the active semispace has objects: the other one is abandoned at a  *)
(* collection, and an address left in it is stale.                         *)
(*                                                                         *)
(* A collection is one step: the world is stopped, and nothing else runs.  *)
(***************************************************************************)
EXTENDS Integers, Sequences, FiniteSets, SequencesExt

-----------------------------------------------------------------------------
(* Values. *)

Undefined == <<"undef", 0>>
Tombstone == <<"tomb", 0>>
Nil       == <<"nil", 0>>
Num(n)    == <<"int", n>>
Func(f)   == <<"fn", f>>
Ptr(s, i) == <<"ptr", s, i>>

IsPtr(v) == v[1] = "ptr"

(* An object.  data is what its header or raw payload carries and the
   collector only copies: a string's text, a closure's function.  id names
   the object for the properties and has no counterpart in the code. *)
Object(kind, slots, data, id) ==
    [kind |-> kind, slots |-> slots, data |-> data, id |-> id]

(* A loop over 1..n, as a function: the folds of the community modules choose
   the next index from a set, which is slow for a loop in every step. *)
Loop(n, first, Step(_, _)) ==
    LET after[i \in 0..n] == IF i = 0 THEN first ELSE Step(after[i - 1], i) IN after[n]

(* [i \in 1..n |-> F(i)], whose elements TLC has computed once and for all. *)
Sequence(n, F(_)) == [i \in 1..n |-> F(i)] \o <<>>

Slots(n) == Sequence(n, LAMBDA i : Undefined)

(* A header of one cell; then a cell per slot, or a string's bytes and its
   trailing NUL, padded to cells. *)
Cells(o) == 1 + (IF o.kind = "string" THEN Len(o.data) \div 8 + 1 ELSE Len(o.slots))

CellsOf(objs) == Loop(Len(objs), 0, LAMBDA n, i : n + Cells(objs[i]))

-----------------------------------------------------------------------------
(* Dereferencing. *)

Live(vm, v) == /\ IsPtr(v)
               /\ v[2] = vm.active
               /\ v[3] \in 1..Len(vm.objs)

At(vm, v)   == vm.objs[v[3]]

IsA(vm, v, kind) == Live(vm, v) /\ At(vm, v).kind = kind

SetSlot(vm, v, k, x) ==
    IF Live(vm, v) THEN [vm EXCEPT !.objs[v[3]].slots[k] = x] ELSE vm

SetSlots(vm, v, s) ==
    IF Live(vm, v) THEN [vm EXCEPT !.objs[v[3]].slots = s] ELSE vm

(* The least name no object of the semispace has. *)
FreshId(objs) == CHOOSE n \in 1..Len(objs) + 1 :
                     /\ \A i \in 1..Len(objs) : objs[i].id # n
                     /\ \A m \in 1..n - 1 : \E i \in 1..Len(objs) : objs[i].id = m

-----------------------------------------------------------------------------
(* Roots: the current frame, the saved frames from the innermost out, the
   registered slots, the interner's table, the current closure and the saved
   ones.  An activation is saved as [window, size, closure]. *)

FrameSlots(window, size) == window..window + size - 1

Scanned(vm) ==
    FrameSlots(vm.window, vm.cfs)
      \cup UNION {FrameSlots(vm.rets[d].window, vm.rets[d].size) : d \in 1..Len(vm.rets)}

FrameValues(vm, window, size) == [i \in 1..size |-> vm.regs[window + i - 1]]

RootValues(vm) ==
    LET saved == Reverse(vm.rets) IN
    FrameValues(vm, vm.window, vm.cfs)
      \o FlattenSeq([d \in DOMAIN saved |-> FrameValues(vm, saved[d].window, saved[d].size)])
      \o vm.roots
      \o vm.interned
      \o <<vm.closure>>
      \o [d \in 1..Len(vm.rets) |-> vm.rets[d].closure]

(* forward: copy the object unless it has been copied, and remember where. *)
Forward(st, v) ==
    IF ~(IsPtr(v) /\ v[2] = st.from /\ v[3] \in DOMAIN st.fwd) THEN st
    ELSE IF st.fwd[v[3]] # 0 THEN st
    ELSE [st EXCEPT !.to = Append(@, st.objs[v[3]]),
                    !.fwd[v[3]] = Len(st.to) + 1]

Moved(st, v) ==
    IF IsPtr(v) /\ v[2] = st.from /\ v[3] \in DOMAIN st.fwd /\ st.fwd[v[3]] # 0
    THEN Ptr(1 - st.from, st.fwd[v[3]])
    ELSE v

(* Cheney's scan: the copies are the work list. *)
ForwardAll(st, s) == Loop(Len(s), st, LAMBDA t, i : Forward(t, s[i]))

Scan(st, k) == IF k > Len(st.to) THEN st ELSE ForwardAll(st, st.to[k].slots)

Copied(vm) ==
    LET start == [from |-> vm.active, objs |-> vm.objs, to |-> <<>>,
                  fwd |-> [i \in 1..Len(vm.objs) |-> 0]]
    IN  Loop(Len(vm.objs), ForwardAll(start, RootValues(vm)), Scan)

(* The first of cap, 2 cap, 4 cap ... that is enough, up to what is reserved. *)
Doubled(vm, Enough(_)) ==
    LET wide == {c \in {vm.cap * 2^k : k \in 0..8} \cap 1..vm.reserved : Enough(c)}
    IN  IF wide = {} THEN vm.reserved ELSE CHOOSE c \in wide : \A d \in wide : c <= d

(* maybe_grow: at most three quarters of the space are live. *)
Grown(vm, live) == Doubled(vm, LAMBDA c : live * 4 <= c * 3)

Collect(vm) ==
    LET st  == Copied(vm)
        now(v) == Moved(st, v)
        all(s) == Sequence(Len(s), LAMBDA i : now(s[i]))
        to  == Sequence(Len(st.to), LAMBDA k : [st.to[k] EXCEPT !.slots = all(st.to[k].slots)])
    IN  [vm EXCEPT !.objs     = to,
                   !.active   = 1 - vm.active,
                   !.cap      = Grown(vm, CellsOf(to)),
                   !.regs     = [r \in DOMAIN vm.regs |->
                                    IF r \in Scanned(vm) THEN now(vm.regs[r]) ELSE vm.regs[r]],
                   !.roots    = all(vm.roots),
                   !.interned = all(vm.interned),
                   !.closure  = now(vm.closure),
                   !.rets     = [d \in DOMAIN vm.rets |->
                                    [vm.rets[d] EXCEPT !.closure = now(vm.rets[d].closure)]]]

-----------------------------------------------------------------------------
(* Allocation.  The result's at is the new object's address, or Nil. *)

Fits(vm, o) == CellsOf(vm.objs) + Cells(o) <= vm.cap

Put(vm, o) == [vm |-> [vm EXCEPT !.objs = Append(@, [o EXCEPT !.id = FreshId(vm.objs)])],
               at |-> Ptr(vm.active, Len(vm.objs) + 1)]

NoRoom(vm) == [vm |-> vm, at |-> Nil]

(* grow_to_fit, and the last retry. *)
AfterCollection(vm, o) ==
    LET need == CellsOf(vm.objs) + Cells(o)
        wide == [vm EXCEPT !.cap = Doubled(vm, LAMBDA c : need <= c)]
    IN  IF Fits(vm, o) THEN Put(vm, o)
        ELSE IF Fits(wide, o) THEN Put(wide, o)
        ELSE NoRoom(vm)

(* alloc_slots_gc and its siblings: try, collect and retry, grow and retry. *)
Alloc(vm, o) == IF Fits(vm, o) THEN Put(vm, o) ELSE AfterCollection(Collect(vm), o)

AllocSlots(vm, kind, n) == Alloc(vm, Object(kind, Slots(n), <<>>, 0))
AllocString(vm, text)   == Alloc(vm, Object("string", <<>>, text, 0))

-----------------------------------------------------------------------------
(* StringInterner::intern: the string already there; otherwise a new one, and
   since the allocation may have moved the table's strings, the table is
   searched again before it is retried. *)

InternedAt(vm, text) ==
    {i \in DOMAIN vm.interned : Live(vm, vm.interned[i]) /\ At(vm, vm.interned[i]).data = text}

Intern(vm, text) ==
    IF InternedAt(vm, text) # {}
    THEN [vm |-> vm, at |-> vm.interned[CHOOSE i \in InternedAt(vm, text) : TRUE]]
    ELSE LET a == AllocString(vm, text)
         IN  IF a.at = Nil THEN a
             ELSE [a EXCEPT !.vm.interned = Append(@, a.at)]

=============================================================================
