------------------------------ MODULE Machine -------------------------------
(***************************************************************************)
(* The register machine on its moving heap: activations and tail calls,    *)
(* closures, vectors, maps, strings and messages (vmcore/Interpreter.h,    *)
(* op_vec.h, op_map.h, op_string.h, ValueCodec.h, and execute's set-up).   *)
(*                                                                         *)
(* Any allocation may collect, and a collection moves every object.  A     *)
(* value in a C++ local is then stale, and so is one left in a register    *)
(* that no frame covers.  Each operation below is one instruction with     *)
(* the moves its code generator always emits with it; which instruction    *)
(* comes next is free, within the operations of the chosen program.        *)
(***************************************************************************)
EXTENDS Heap, MapTable

CONSTANTS Fns,            \* the function table: [frame, arity, captures, self]
          RegSpace,       \* registers the stack may commit
          VecInitialCap,  \* VEC_INITIAL_CAP
          Numbers,        \* the integers a program uses
          MaxText,        \* length of the longest string it makes
          MaxMaps,        \* maps in its heap, garbage included
          InitialSemi,    \* cells committed per semispace at the start
          Programs        \* [ops, texts, reserved]: what a program may use, its
                          \* string pool, cells reserved per semispace

ASSUME MachineAssumption ==
    /\ VecInitialCap \in Nat \ {0} /\ InitialSemi \in Nat \ {0} /\ RegSpace \in Nat
    /\ \A p \in Programs : /\ p.reserved \in Nat /\ InitialSemi <= p.reserved
                           /\ Len(p.texts) \in Nat /\ DOMAIN p.texts = 1..Len(p.texts)
    /\ Fns \in Seq([frame : Nat, arity : Nat, captures : Nat, self : Nat]) /\ Fns # <<>>
    /\ \A f \in DOMAIN Fns : Fns[f].arity <= Fns[f].frame /\ Fns[f].frame <= RegSpace

VARIABLES vm,      \* the machine
          program  \* its program

vars == <<vm, program>>

(* VM_REG_MARGIN: room for any frame beyond the check. *)
Margin == CHOOSE n \in {Fns[f].frame : f \in DOMAIN Fns} :
              \A f \in DOMAIN Fns : Fns[f].frame <= n

TopFrame == Fns[1].frame

Start(p) ==
         [objs |-> <<>>, active |-> 0, cap |-> InitialSemi, reserved |-> p.reserved,
          regs |-> [r \in 0..RegSpace - 1 |-> Undefined],
          window |-> 0, cfs |-> TopFrame, rets |-> <<>>, closure |-> Undefined,
          roots |-> Slots(Len(p.texts)), interned |-> <<>>,
          loaded |-> 0,       \* literals interned so far
          fault |-> "none"]

Init == \E p \in Programs : vm = Start(p) /\ program = p

-----------------------------------------------------------------------------
Reg(m, r)       == m.regs[m.window + r]
SetReg(m, r, v) == [m EXCEPT !.regs[m.window + r] = v]
Fault(m, why)   == [m EXCEPT !.fault = why]

Frame == 0..vm.cfs - 1

(* The program is between two instructions. *)
Ready(op) == /\ op \in program.ops
             /\ vm.fault = "none"
             /\ vm.loaded = Len(program.texts)

Do(m) == vm' = m /\ UNCHANGED program

(* What a failed allocation does everywhere, and a successful one otherwise. *)
Allocated(a, Use(_, _)) == IF a.at = Nil THEN Fault(a.vm, "heap exhausted")
                           ELSE Use(a.vm, a.at)

-----------------------------------------------------------------------------
(* execute(): the string pool is rooted, then filled. *)
LoadLiteral ==
    LET i == vm.loaded + 1
    IN  /\ vm.fault = "none" /\ i <= Len(program.texts)
        /\ Do(Allocated(Intern(vm, program.texts[i]),
                        LAMBDA m, at : [m EXCEPT !.roots[i] = at, !.loaded = i]))

LoadStr == \E rd \in Frame, i \in DOMAIN program.texts :
    Ready("string") /\ Do(SetReg(vm, rd, vm.roots[i]))

LoadInt == \E rd \in Frame, n \in Numbers : Ready("int") /\ Do(SetReg(vm, rd, Num(n)))

Mov == \E rd, ra \in Frame : Ready("mov") /\ rd # ra /\ Do(SetReg(vm, rd, Reg(vm, ra)))

(* ADD on two strings: their bytes are copied out before the allocation. *)
Concat(rd, ra, rb) ==
    LET text == At(vm, Reg(vm, ra)).data \o At(vm, Reg(vm, rb)).data
    IN  /\ Ready("concat")
        /\ IsA(vm, Reg(vm, ra), "string") /\ IsA(vm, Reg(vm, rb), "string")
        /\ Len(text) <= MaxText
        /\ Do(Allocated(AllocString(vm, text), LAMBDA m, at : SetReg(m, rd, at)))

-----------------------------------------------------------------------------
(* Vectors: header <<backing, count>>. *)

Backing(m, v) == At(m, v).slots[1]
Count(m, v)   == At(m, v).slots[2][2]

(* A fault: the header reaches its register only when it is complete. *)
NewVecLate(m, rd, cap) ==
    Allocated(AllocSlots(m, "vec", 2), LAMBDA m1, hdr :
        Allocated(AllocSlots(SetSlot(m1, hdr, 2, Num(0)), "array", cap), LAMBDA m2, b :
            SetReg(SetSlot(m2, hdr, 1, b), rd, hdr)))

(* vec_new_cap: the header is rooted in its register before the backing is
   allocated, and fetched from there afterwards. *)
NewVec(m, rd, cap) ==
    Allocated(AllocSlots(m, "vec", 2), LAMBDA m1, hdr :
        LET m2 == SetReg(SetSlot(m1, hdr, 2, Num(0)), rd, hdr)
        IN  Allocated(AllocSlots(m2, "array", cap), LAMBDA m3, b :
                SetSlot(m3, Reg(m3, rd), 1, b)))

VecNew == \E rd \in Frame : Ready("vec") /\ Do(NewVec(vm, rd, VecInitialCap))

(* vec_grow: header and old backing are fetched again after the allocation. *)
VecGrow(m, r) ==
    LET old == Len(At(m, Backing(m, Reg(m, r))).slots)
    IN  Allocated(AllocSlots(m, "array", IF old = 0 THEN VecInitialCap ELSE 2 * old),
            LAMBDA m1, b :
                LET v    == Reg(m1, r)
                    kept == At(m1, Backing(m1, v)).slots
                    new  == Sequence(Len(At(m1, b).slots), LAMBDA i :
                                IF i <= Count(m1, v) THEN kept[i] ELSE Undefined)
                IN  SetSlot(SetSlots(m1, b, new), v, 1, b))

(* vec_push: the vector is in register r and the value in register ra. *)
Pushed(m, r, ra) ==
    LET v == Reg(m, r)
        n == Count(m, v) + 1
    IN  SetSlot(SetSlot(m, Backing(m, v), n, Reg(m, ra)), v, 2, Num(n))

VecPush(rd, ra) ==
    LET v == Reg(vm, rd)
        g == VecGrow(vm, rd)
    IN  /\ Ready("vec") /\ IsA(vm, v, "vec")
        /\ IF Count(vm, v) < Len(At(vm, Backing(vm, v)).slots) THEN Do(Pushed(vm, rd, ra))
           ELSE Do(IF g.fault # "none" THEN g ELSE Pushed(g, rd, ra))

(* vec_pop: the slot is emptied, so that it keeps nothing alive. *)
VecPop(rd, ra) ==
    LET v == Reg(vm, ra)
        n == Count(vm, v)
        b == Backing(vm, v)
    IN  /\ Ready("vec") /\ IsA(vm, v, "vec")
        /\ Do(IF n = 0 THEN SetReg(vm, rd, Nil)
              ELSE SetReg(SetSlot(SetSlot(vm, b, n, Nil), v, 2, Num(n - 1)),
                          rd, At(vm, b).slots[n]))

(* ARRAY_GET of the first element. *)
VecFirst(rd, ra) ==
    LET v == Reg(vm, ra)
    IN  /\ Ready("vec") /\ IsA(vm, v, "vec")
        /\ Do(IF Count(vm, v) = 0 THEN Fault(vm, "array index out of bounds")
              ELSE SetReg(vm, rd, At(vm, Backing(vm, v)).slots[1]))

-----------------------------------------------------------------------------
(* Maps: header <<backing, count, used>>, backing <<k0, v0, k1, v1, ...>>. *)

IsKey(m, v) == v[1] \in {"int", "nil"} \/ IsA(m, v, "string")

KeyOf(m, v) == IF Live(m, v) THEN <<"str", At(m, v).data>> ELSE v

(* The map as a table, and back. *)
TableOf(m, v) ==
    LET s == At(m, Backing(m, v)).slots
    IN  [slots |-> [p \in 0..Len(s) \div 2 - 1 |->
                       [key |-> KeyOf(m, s[2 * p + 1]), raw |-> s[2 * p + 1], val |-> s[2 * p + 2]]],
         count |-> Count(m, v),
         used  |-> At(m, v).slots[3][2]]

Stored(m, v, b, tab) ==
    LET raw(i) == LET e == tab.slots[(i - 1) \div 2] IN IF i % 2 = 1 THEN e.raw ELSE e.val
    IN  SetSlots(SetSlots(m, b, Sequence(2 * Cap(tab.slots), raw)),
                 v, <<b, Num(tab.count), Num(tab.used)>>)

(* map_new, with the order of vec_new_cap. *)
MapNew(rd) ==
    /\ Ready("map")
    /\ Cardinality({i \in DOMAIN vm.objs : vm.objs[i].kind = "map"}) < MaxMaps
    /\ Do(Allocated(AllocSlots(vm, "map", 3), LAMBDA m1, hdr :
              LET m2 == SetReg(SetSlots(m1, hdr, <<Undefined, Num(0), Num(0)>>), rd, hdr)
              IN  Allocated(AllocSlots(m2, "array", 2 * MapInitialCap), LAMBDA m3, b :
                      SetSlot(m3, Reg(m3, rd), 1, b))))

(* map_grow: the map is fetched again after the allocation. *)
MapGrow(m, r) ==
    Allocated(AllocSlots(m, "array", 2 * RehashCap(TableOf(m, Reg(m, r)))), LAMBDA m1, b :
        Stored(m1, Reg(m1, r), b, Rehashed(TableOf(m1, Reg(m1, r)))))

(* The map, the key and the value are all read from their registers. *)
Entered(m, r, rk, rv) ==
    LET v == Reg(m, r)
        k == Reg(m, rk)
    IN  Stored(m, v, Backing(m, v), WithEntry(TableOf(m, v), KeyOf(m, k), k, Reg(m, rv)))

MapSet(ra, rb, rd) ==
    LET v == Reg(vm, ra)
        k == Reg(vm, rb)
        t == TableOf(vm, v)
        g == MapGrow(vm, ra)
    IN  /\ Ready("map") /\ IsA(vm, v, "map")
        /\ Do(IF ~IsKey(vm, k) THEN Fault(vm, "invalid map key type")
              ELSE IF Probe(t.slots, KeyOf(vm, k)) = Endless THEN Fault(vm, "endless probe")
              ELSE IF Holds(t.slots, KeyOf(vm, k)) \/ ~IsFull(t) THEN Entered(vm, ra, rb, rd)
              ELSE IF g.fault # "none" THEN g ELSE Entered(g, ra, rb, rd))

(* MAP_GET_OR_TRAP: map_has, then map_get. *)
MapGet(rd, ra, rb) ==
    LET v == Reg(vm, ra)
        k == Reg(vm, rb)
        t == TableOf(vm, v).slots
        p == Probe(t, KeyOf(vm, k))
    IN  /\ Ready("map") /\ IsA(vm, v, "map") /\ IsKey(vm, k)
        /\ Do(IF p = Endless THEN Fault(vm, "endless probe")
              ELSE IF ~Holds(t, KeyOf(vm, k)) THEN Fault(vm, "map key not found")
              ELSE SetReg(vm, rd, t[p].val))

MapDelete(ra, rb) ==
    LET v == Reg(vm, ra)
        k == Reg(vm, rb)
        t == TableOf(vm, v)
    IN  /\ Ready("map") /\ IsA(vm, v, "map") /\ IsKey(vm, k)
        /\ Do(IF Probe(t.slots, KeyOf(vm, k)) = Endless THEN Fault(vm, "endless probe")
              ELSE Stored(vm, v, Backing(vm, v), Without(t, KeyOf(vm, k))))

(* MAP_KEYS: one allocation, then the walk over the backing of now. *)
MapKeys(rd, ra) ==
    LET n == Count(vm, Reg(vm, ra))
    IN  /\ Ready("keys") /\ IsA(vm, Reg(vm, ra), "map")
        /\ Do(Allocated(AllocSlots(vm, "array", n), LAMBDA m, at :
                LET t     == TableOf(m, Reg(m, ra)).slots
                    found == Loop(Cap(t), <<>>, LAMBDA keys, i :
                                IF i - 1 \in LiveSlots(t) THEN Append(keys, t[i - 1].raw) ELSE keys)
                IN  SetReg(SetSlots(m, at, found), rd, at)))

-----------------------------------------------------------------------------
(* Activations. *)

(* The code generator's moves of the arguments above the caller's frame, and
   CALL: save the caller, slide by its size, scan the callee's. *)
Enter(m, f, closure, args) ==
    LET base  == m.window + m.cfs
        given == [r \in DOMAIN m.regs |-> IF r \in base..base + Len(args) - 1
                                          THEN Reg(m, args[r - base + 1]) ELSE m.regs[r]]
    IN  IF base + Margin > RegSpace THEN Fault(m, "stack overflow")
        ELSE [m EXCEPT !.regs    = given,
                       !.rets    = Append(@, [window |-> m.window, size |-> m.cfs,
                                              closure |-> m.closure]),
                       !.window  = base,
                       !.cfs     = Fns[f].frame,
                       !.closure = closure]

(* A tail call: the arguments go to the start of the frame, and what a
   smaller frame gives up is cleared. *)
Reenter(m, f, closure, args) ==
    LET n == Fns[f].frame
        reg(r) == LET i == r - m.window
                  IN  IF i \in 0..Len(args) - 1 THEN Reg(m, args[i + 1])
                      ELSE IF i \in n..m.cfs - 1 THEN Undefined
                      ELSE m.regs[r]
    IN  [m EXCEPT !.regs = [r \in DOMAIN m.regs |-> reg(r)], !.cfs = n, !.closure = closure]

Args(f) == [1..Fns[f].arity -> Frame]

Plain == {f \in DOMAIN Fns : Fns[f].captures = 0}

Call == \E f \in Plain \ {1} : \E args \in Args(f) :
    Ready("call") /\ Do(Enter(vm, f, Undefined, args))

TailCall == \E f \in Plain \ {1} : \E args \in Args(f) :
    Ready("tail") /\ vm.rets # <<>> /\ Fns[f].arity <= vm.cfs
    /\ Do(Reenter(vm, f, Undefined, args))

(* CALL_INDIRECT and TCO_CALL_INDIRECT of a closure. *)
CallClosure == \E ra \in Frame :
    LET v == Reg(vm, ra)
        f == At(vm, v).data[1]
    IN  /\ Ready("closure") /\ IsA(vm, v, "closure")
        /\ \E args \in Args(f) : Do(Enter(vm, f, v, args))

TailClosure == \E ra \in Frame :
    LET v == Reg(vm, ra)
        f == At(vm, v).data[1]
    IN  /\ Ready("closure") /\ "tail" \in program.ops /\ vm.rets # <<>> /\ IsA(vm, v, "closure")
        /\ Fns[f].arity <= vm.cfs
        /\ \E args \in Args(f) : Do(Reenter(vm, f, v, args))

(* MAKE_CLOSURE: the captures are read after the allocation, and a closure
   that names itself gets itself as a capture. *)
MakeClosure(rd, f, base) ==
    /\ Ready("closure") /\ f \in DOMAIN Fns \ Plain
    /\ base + Fns[f].captures <= vm.cfs
    /\ Do(Allocated(Alloc(vm, Object("closure", Slots(Fns[f].captures), <<f>>, 0)),
              LAMBDA m, at :
                  SetReg(SetSlots(m, at, Sequence(Fns[f].captures, LAMBDA i :
                             IF i = Fns[f].self THEN at ELSE Reg(m, base + i - 1))),
                         rd, at)))

LoadCapture == \E rd \in Frame :
    /\ Ready("closure") /\ Live(vm, vm.closure)
    /\ \E i \in DOMAIN At(vm, vm.closure).slots :
           Do(SetReg(vm, rd, At(vm, vm.closure).slots[i]))

(* RET with the result in the frame's first register: the rest of the dying
   frame is cleared, for no collection will see it again. *)
Left(m, ra) ==
    LET back == m.rets[Len(m.rets)]
        own(r) == r - m.window \in 1..m.cfs - 1
    IN  [m EXCEPT !.regs = [r \in DOMAIN m.regs |->
                               IF own(r) THEN Undefined
                               ELSE IF r = m.window THEN Reg(m, ra) ELSE m.regs[r]],
                  !.rets    = Front(@),
                  !.window  = back.window,
                  !.cfs     = back.size,
                  !.closure = back.closure]

(* A fault: MOV instead of MOV_TAKE. *)
TakenPlain(m, rd) == SetReg(m, rd, m.regs[m.window + m.cfs])

(* MOV_TAKE, which the code generator puts behind every call: the result
   lies above the caller's frame, and must not stay there. *)
Taken(m, rd) ==
    LET r == m.window + m.cfs
    IN  [m EXCEPT !.regs = [q \in DOMAIN m.regs |->
                               IF q = m.window + rd THEN m.regs[r]
                               ELSE IF q = r THEN Undefined ELSE m.regs[q]]]

Ret == \E ra \in Frame :
    /\ Ready("call") \/ Ready("closure")
    /\ vm.rets # <<>>
    /\ \E rd \in 0..vm.rets[Len(vm.rets)].size - 1 : Do(Taken(Left(vm, ra), rd))

-----------------------------------------------------------------------------
(* A message to oneself: encode, then decode. *)

(* encode's walk: each object once, in the order the references are met. *)
Nodes(m, root) ==
    LET add(seen, v)  == IF Live(m, v) /\ ~\E i \in DOMAIN seen : seen[i] = v
                         THEN Append(seen, v) ELSE seen
        walk(seen, i) == IF i > Len(seen) THEN seen
                         ELSE LET s == At(m, seen[i]).slots
                              IN  Loop(Len(s), seen, LAMBDA t, k : add(t, s[k]))
    IN  Loop(Len(m.objs), add(<<>>, root), walk)

Encode(m, root) ==
    LET nodes == Nodes(m, root)
        wire(v) == IF IsPtr(v) THEN <<"node", CHOOSE i \in DOMAIN nodes : nodes[i] = v>> ELSE v
        slots(o) == [k \in DOMAIN o.slots |-> wire(o.slots[k])]
    IN  [root  |-> wire(root),
         nodes |-> [i \in DOMAIN nodes |-> LET o == At(m, nodes[i])
                                           IN  Object(o.kind, slots(o), o.data, 0)]]

HasClosure(buf) == \E i \in DOMAIN buf.nodes : buf.nodes[i].kind = "closure"

(* decode: the pool's slots are rooted, then every node is allocated, then,
   with no allocation any more, every slot is written. *)
Rebuilt(m, buf) ==
    LET base == Len(m.roots)
        n    == Len(buf.nodes)
        pool == [m EXCEPT !.roots = @ \o Slots(n)]
        step(m1, i) ==
            IF m1.fault # "none" THEN m1
            ELSE Allocated(Alloc(m1, [buf.nodes[i] EXCEPT !.slots = Slots(Len(@))]),
                           LAMBDA m2, at : [m2 EXCEPT !.roots[base + i] = at])
        built == Loop(n, pool, step)
        here(m1, v)  == IF v[1] = "node" THEN m1.roots[base + v[2]] ELSE v
        patch(m1, i) == SetSlots(m1, m1.roots[base + i],
                                 [k \in DOMAIN buf.nodes[i].slots |->
                                     here(m1, buf.nodes[i].slots[k])])
        done == IF built.fault # "none" THEN built
                ELSE Loop(n, built, patch)
    IN  [vm |-> done, root |-> here(done, buf.root)]

(* decode's shape checks of the containers: a backing of the right size, used
   by its header only; a map that counts its keys and has an empty slot. *)
WellFormed(buf) ==
    LET slots(i) == buf.nodes[i].slots
        back(i)  == slots(i)[1][2]
        users(b) == {u \in (DOMAIN buf.nodes) \X (1..Len(buf.nodes) * 2 + 3) :
                        u[2] \in DOMAIN slots(u[1]) /\ slots(u[1])[u[2]] = <<"node", b>>}
        keys(i)  == [p \in 1..Len(slots(back(i))) \div 2 |-> slots(back(i))[2 * p - 1]]
        live(i)  == {p \in DOMAIN keys(i) : keys(i)[p] \notin {Undefined, Tombstone}}
        used(i)  == {p \in DOMAIN keys(i) : keys(i)[p] # Undefined}
    IN  \A i \in DOMAIN buf.nodes :
            buf.nodes[i].kind \in {"vec", "map"} =>
                /\ slots(i)[1][1] = "node"
                /\ buf.nodes[back(i)].kind = "array"
                /\ Cardinality(users(back(i))) + (IF buf.root = <<"node", back(i)>> THEN 1 ELSE 0) = 1
                /\ buf.nodes[i].kind = "vec" => slots(i)[2][2] <= Len(slots(back(i)))
                /\ buf.nodes[i].kind = "map" =>
                       /\ slots(i)[2][2] = Cardinality(live(i))
                       /\ slots(i)[3][2] = Cardinality(used(i))
                       /\ Cardinality(used(i)) < Len(keys(i))

(* rawSend to one's own inbox and rawReceive from it.  The pool is released
   once the result is in its register. *)
SendToSelf(rd, ra) ==
    LET buf == Encode(vm, Reg(vm, ra))
        r   == Rebuilt(vm, buf)
    IN  /\ Ready("send")
        /\ Do(IF HasClosure(buf) THEN Fault(vm, "a closure cannot be copied")
              ELSE IF r.vm.fault # "none" THEN r.vm
              ELSE IF ~WellFormed(buf) THEN Fault(vm, "malformed message")
              ELSE [SetReg(r.vm, rd, r.root) EXCEPT !.roots = SubSeq(@, 1, Len(vm.roots))])

-----------------------------------------------------------------------------
(* The program has run into a fault: execute() returns. *)
Over == vm.fault # "none" /\ UNCHANGED vars

Next ==
    \/ LoadLiteral \/ LoadStr \/ LoadInt \/ Mov \/ VecNew
    \/ Call \/ TailCall \/ CallClosure \/ TailClosure \/ LoadCapture \/ Ret
    \/ \E rd, ra \in Frame : \/ VecPush(rd, ra) \/ VecPop(rd, ra) \/ VecFirst(rd, ra)
                             \/ MapDelete(rd, ra) \/ MapKeys(rd, ra) \/ SendToSelf(rd, ra)
    \/ \E rd \in Frame : MapNew(rd)
    \/ \E rd, base \in Frame, f \in DOMAIN Fns : MakeClosure(rd, f, base)
    \/ \E rd, ra, rb \in Frame : \/ Concat(rd, ra, rb) \/ MapSet(ra, rb, rd) \/ MapGet(rd, ra, rb)
    \/ Over

Spec == Init /\ [][Next]_vars

-----------------------------------------------------------------------------
(* Every register of a frame, every registered slot and every slot of every
   object is an immediate or the address of an object of the active
   semispace: what a collection is about to read is never stale.  (Debug
   builds assert it of registers and roots in Heap::verify_frame.  The
   assertion of verify_heap on the slots of objects is stricter: it refuses a
   reference to an empty array at the very end of the space, which
   verify_frame calls live and legal, and which is fine here.) *)
RootsAreLive ==
    LET fine(v) == IsPtr(v) => Live(vm, v)
    IN  /\ \A r \in Scanned(vm) : fine(vm.regs[r])
        /\ \A i \in DOMAIN vm.roots : fine(vm.roots[i])
        /\ \A i \in DOMAIN vm.interned : fine(vm.interned[i])
        /\ fine(vm.closure) /\ \A d \in DOMAIN vm.rets : fine(vm.rets[d].closure)
        /\ \A i \in DOMAIN vm.objs : \A k \in DOMAIN vm.objs[i].slots :
               fine(vm.objs[i].slots[k])

(* The frame-size contract of the collector: above the running frame there
   is no pointer, which a later and larger frame would make a root. *)
NothingAboveTheFrame ==
    vm.fault = "none" => \A r \in DOMAIN vm.regs : r >= vm.window + vm.cfs => ~IsPtr(vm.regs[r])

(* No collection reads a stale address, now or when a frame has grown. *)
NothingIsStale == RootsAreLive /\ NothingAboveTheFrame
=============================================================================
