-------------------------- MODULE MachineRefines ----------------------------
(***************************************************************************)
(* Machine implements Store.  The variable seen is the machine as its      *)
(* program sees it, a function of vm that TLC would otherwise compute anew *)
(* for every mention of it.                                                *)
(***************************************************************************)
EXTENDS Machine

VARIABLES acts, obj, fault

Seen(m, v) == IF ~Live(m, v) THEN v
              ELSE IF At(m, v).kind = "string" THEN <<"str", At(m, v).data>>
              ELSE <<"ref", At(m, v).id>>

SeenAll(m, s) == [i \in DOMAIN s |-> Seen(m, s[i])]

SeenObject(m, v) ==
    LET o == At(m, v)
        content(n) == [i \in 1..n |-> Seen(m, At(m, o.slots[1]).slots[i])]
    IN  CASE o.kind = "vec" /\ Live(m, o.slots[1]) -> <<"vec", content(o.slots[2][2])>>
          [] o.kind = "map" /\ Live(m, o.slots[1]) ->
                 LET e == Entries(TableOf(m, v).slots)
                 IN  <<"map", [k \in DOMAIN e |-> Seen(m, e[k])]>>
          [] o.kind = "closure" -> <<"closure", o.data \o SeenAll(m, o.slots)>>
          [] OTHER -> <<"array", SeenAll(m, o.slots)>>

SeenAct(m, window, size, closure) ==
    [regs |-> SeenAll(m, FrameValues(m, window, size)), closure |-> Seen(m, closure)]

SeenActs(m) ==
    IF m.fault # "none" THEN <<>>
    ELSE [d \in 1..Len(m.rets) + 1 |->
             IF d > Len(m.rets) THEN SeenAct(m, m.window, m.cfs, m.closure)
             ELSE SeenAct(m, m.rets[d].window, m.rets[d].size, m.rets[d].closure)]

S == INSTANCE Store WITH Texts <- UNION {{p.texts[i] : i \in DOMAIN p.texts} : p \in Programs}

(* The objects within reach of the activations, by name. *)
SeenObjects(m, as) ==
    LET named == [n \in {m.objs[i].id : i \in DOMAIN m.objs} |->
                     SeenObject(m, Ptr(m.active, CHOOSE i \in DOMAIN m.objs : m.objs[i].id = n))]
    IN  [n \in S!Closed(S!Named(S!Values(as)), named) |-> named[n]]

SeenInit == /\ Init
            /\ acts = SeenActs(vm) /\ obj = SeenObjects(vm, acts) /\ fault = vm.fault
SeenNext == /\ Next
            /\ acts' = SeenActs(vm') /\ obj' = SeenObjects(vm', acts') /\ fault' = vm'.fault
SeenSpec == SeenInit /\ [][SeenNext]_<<vars, acts, obj, fault>>

(* Collections, growth of vectors and maps, rehashes, tombstones, frames that
   reuse registers and messages through a byte buffer cannot be told from a
   store in which objects have an identity and stay where they are.  In
   particular no probe of a map is endless, and no message made of what a
   program can build is refused by its receiver: Store has no such fault. *)
ImplementsStore == S!Spec

=============================================================================
