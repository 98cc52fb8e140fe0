------------------------------- MODULE Store --------------------------------
(***************************************************************************)
(* What a program may rely on: objects have an identity and never move,    *)
(* a map is a finite function, a vector a sequence, a string its text, a   *)
(* copy shares nothing with its original.  There are no addresses, no      *)
(* collections, no capacities: Machine implements this.                    *)
(*                                                                         *)
(* A reference is <<"ref", n>>.  Objects nothing refers to are gone at     *)
(* once.  Whatever a program does may also find no room for it.            *)
(***************************************************************************)
EXTENDS Integers, Sequences, FiniteSets, SequencesExt

CONSTANTS Texts, Numbers, Fns

VARIABLES acts,  \* the activations, the running one last: [regs, closure]
          obj,   \* the objects, by name
          fault  \* why the program has ended, or "none"

vars == <<acts, obj, fault>>

Undefined == <<"undef", 0>>
Nil       == <<"nil", 0>>
Ref(n)    == <<"ref", n>>
IsRef(v)  == v[1] = "ref"
IsKey(v)  == v[1] \in {"int", "nil", "str"}
Text(t)   == <<"str", t>>

Blank(n) == [i \in 1..n |-> Undefined]

Init == /\ acts = <<[regs |-> Blank(Fns[1].frame), closure |-> Undefined]>>
        /\ obj = <<>>
        /\ fault = "none"

-----------------------------------------------------------------------------
(* The names the values of a set refer to, through any number of objects. *)
Named(V) == {v[2] : v \in {w \in V : IsRef(w)}}

Inside(o) == CASE o[1] = "map"     -> DOMAIN o[2] \cup {o[2][k] : k \in DOMAIN o[2]}
               [] o[1] = "closure" -> {o[2][i] : i \in 2..Len(o[2])}
               [] OTHER            -> {o[2][i] : i \in DOMAIN o[2]}

Closed(N, objs) ==
    LET near[i \in Nat] ==
            IF i = 0 THEN N
            ELSE LET S == near[i - 1] IN S \cup UNION {Named(Inside(objs[n])) : n \in S}
    IN  near[Cardinality(DOMAIN objs)]

Values(as) == UNION {{as[d].regs[i] : i \in DOMAIN as[d].regs} \cup {as[d].closure}
                        : d \in DOMAIN as}

(* The state with these activations and objects, less what is out of reach. *)
Becomes(as, objs) ==
    /\ acts' = as
    /\ obj'  = [n \in Closed(Named(Values(as)), objs) |-> objs[n]]
    /\ UNCHANGED fault

Me   == Len(acts)
Regs == acts[Me].regs
Mine == DOMAIN Regs

Set(r, v)     == [acts EXCEPT ![Me].regs[r] = v]
Write(n, o)   == [k \in DOMAIN obj \cup {n} |-> IF k = n THEN o ELSE obj[k]]
New           == DOMAIN obj' \ DOMAIN obj
Is(r, kind)   == IsRef(Regs[r]) /\ obj[Regs[r][2]][1] = kind
Content(r)    == obj[Regs[r][2]][2]
Stores(r, o)  == Becomes(acts, Write(Regs[r][2], o))
Yields(r, v)  == Becomes(Set(r, v), obj)
Makes(r, o)   == \E n \in New : Becomes(Set(r, Ref(n)), Write(n, o))

-----------------------------------------------------------------------------
Load == \E r \in Mine : \/ \E q \in Mine : Yields(r, Regs[q])
                        \/ \E t \in Texts : Yields(r, Text(t))
                        \/ \E n \in Numbers : Yields(r, <<"int", n>>)

Concat == \E r, p, q \in Mine :
    /\ Regs[p][1] = "str" /\ Regs[q][1] = "str"
    /\ Yields(r, Text(Regs[p][2] \o Regs[q][2]))

NewVec == \E r \in Mine : Makes(r, <<"vec", <<>>>>)

Push == \E r, q \in Mine : Is(r, "vec") /\ Stores(r, <<"vec", Append(Content(r), Regs[q])>>)

Pop == \E r, q \in Mine :
    /\ Is(q, "vec")
    /\ IF Content(q) = <<>> THEN Yields(r, Nil)
       ELSE Becomes(Set(r, Last(Content(q))), Write(Regs[q][2], <<"vec", Front(Content(q))>>))

First == \E r, q \in Mine : Is(q, "vec") /\ Content(q) # <<>> /\ Yields(r, Content(q)[1])

NewMap == \E r \in Mine : Makes(r, <<"map", <<>>>>)

Put == \E r, k, v \in Mine :
    /\ Is(r, "map") /\ IsKey(Regs[k])
    /\ Stores(r, <<"map", [x \in DOMAIN Content(r) \cup {Regs[k]} |->
                              IF x = Regs[k] THEN Regs[v] ELSE Content(r)[x]]>>)

Get == \E r, m, k \in Mine :
    Is(m, "map") /\ Regs[k] \in DOMAIN Content(m) /\ Yields(r, Content(m)[Regs[k]])

Delete == \E m, k \in Mine :
    /\ Is(m, "map")
    /\ Stores(m, <<"map", [x \in DOMAIN Content(m) \ {Regs[k]} |-> Content(m)[x]]>>)

(* The keys in some order. *)
Keys == \E r, m \in Mine :
    /\ Is(m, "map")
    /\ \E s \in [1..Cardinality(DOMAIN Content(m)) -> DOMAIN Content(m)] :
           IsInjective(s) /\ Makes(r, <<"array", s>>)

(* A function starts with its arguments and a clean frame; a tail call takes
   over the caller's place. *)
Activation(f, closure, args, rest) ==
    [regs |-> [i \in 1..Fns[f].frame |-> IF i <= Len(args) THEN Regs[args[i]]
                                         ELSE IF i \in DOMAIN rest THEN rest[i] ELSE Undefined],
     closure |-> closure]

Calls(f, closure) == \E args \in [1..Fns[f].arity -> Mine] :
    \/ Becomes(Append(acts, Activation(f, closure, args, <<>>)), obj)
    \/ Becomes(Append(Front(acts), Activation(f, closure, args, Regs)), obj)

Call == \/ \E f \in DOMAIN Fns : Fns[f].captures = 0 /\ Calls(f, Undefined)
        \/ \E r \in Mine : Is(r, "closure") /\ Calls(Content(r)[1], Regs[r])

MakeClosure == \E f \in {g \in DOMAIN Fns : Fns[g].captures > 0} :
    \E r \in Mine, n \in New, base \in 0..Len(Regs) - Fns[f].captures :
        Becomes(Set(r, Ref(n)),
                Write(n, <<"closure", <<f>> \o [i \in 1..Fns[f].captures |->
                                    IF i = Fns[f].self THEN Ref(n) ELSE Regs[base + i]]>>))

Capture == \E r \in Mine :
    /\ IsRef(acts[Me].closure)
    /\ \E i \in 2..Len(obj[acts[Me].closure[2]][2]) :
           Yields(r, obj[acts[Me].closure[2]][2][i])

(* The caller takes the result in any of its registers. *)
Return == /\ Len(acts) > 1
          /\ \E r \in Mine, q \in DOMAIN acts[Me - 1].regs :
                 Becomes([Front(acts) EXCEPT ![Me - 1].regs[q] = Regs[r]], obj)

(* A message: everything within reach of a value again, under new names. *)
Copy == \E r, q \in Mine :
    LET old == Closed(Named({Regs[q]}), obj)
    IN  \E new \in [old -> New] :
            LET re(v) == IF IsRef(v) THEN Ref(new[v[2]]) ELSE v
                copy(o) == <<o[1], [i \in DOMAIN o[2] |-> re(o[2][i])]>>
            IN  /\ \A n, k \in old : new[n] = new[k] => n = k
                /\ \A n \in old : obj[n][1] # "closure"
                /\ Becomes(Set(r, re(Regs[q])),
                           [n \in DOMAIN obj \cup {new[k] : k \in old} |->
                               IF n \in DOMAIN obj THEN obj[n]
                               ELSE copy(obj[CHOOSE k \in old : new[k] = n])])

(* What ends a program: its own doing, at those states only, or at any time
   a want of room. *)
Ends(why) == acts' = <<>> /\ obj' = <<>> /\ fault' = why

Faults == \/ /\ \E q \in Mine : Is(q, "vec") /\ Content(q) = <<>>
             /\ Ends("array index out of bounds")
          \/ /\ \E m, k \in Mine : IsKey(Regs[k]) /\ Is(m, "map") /\ Regs[k] \notin DOMAIN Content(m)
             /\ Ends("map key not found")
          \/ /\ \E m, k \in Mine : Is(m, "map") /\ ~IsKey(Regs[k])
             /\ Ends("invalid map key type")
          \/ /\ \E q \in Mine : \E n \in Closed(Named({Regs[q]}), obj) : obj[n][1] = "closure"
             /\ Ends("a closure cannot be copied")
          \/ Ends("heap exhausted")
          \/ Ends("stack overflow")

Next == /\ fault = "none"
        /\ \/ Load \/ Concat \/ NewVec \/ Push \/ Pop \/ First
           \/ NewMap \/ Put \/ Get \/ Delete \/ Keys
           \/ Call \/ MakeClosure \/ Capture \/ Return \/ Faults \/ Copy

Spec == Init /\ [][Next]_vars

=============================================================================
