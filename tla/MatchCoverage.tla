---------------------------- MODULE MatchCoverage ----------------------------
(***************************************************************************)
(* What the checker says of a match (static_compiler/Check.cpp): whether   *)
(* its arms cover every value of the scrutinee's type, and which arms can  *)
(* never be reached.  An arm's pattern is lowered to rows of constructors, *)
(* nested alternatives are multiplied out, and a row is judged against the *)
(* rows before it by Maranget's usefulness.                                *)
(*                                                                         *)
(* Types are tuples: <<"bool">>, <<"int">>, <<"map">>, <<"tuple", ts>>,    *)
(* <<"enum", name>>, <<"struct", name>>, <<"list", t>>.  The other scalars *)
(* are as int: no finite space of constructors.  What a pattern matches is *)
(* the reference interpreter's match_pattern.                              *)
(***************************************************************************)
EXTENDS Integers, Sequences, FiniteSets, SequencesExt

CONSTANTS Variants(_),    \* an enum's variants, a struct's one: [name, names, fields]
          Scrutinees,     \* the types that are matched on
          PatternsOf(_),  \* the patterns of an arm over a type
          ValuesOf(_),    \* enough values of a type to tell its patterns apart
          MaxArms,
          OrCap           \* OR_EXPANSION_CAP

VARIABLES scrut,    \* the scrutinee's type
          arms,     \* the arms so far: [pat, guard]
          seen,     \* the rows of the unguarded ones
          dead,     \* the arms called unreachable
          idle,     \* the alternatives warned of: <<arm, alternative>>
          verdict   \* "open", then "total" or "missing"

vars == <<scrut, arms, seen, dead, idle, verdict>>

-----------------------------------------------------------------------------
(* A row's places are a constructor with arguments, or wild.               *)
Wild == [con |-> <<"_">>, args |-> <<>>]
Leaf(con) == [con |-> con, args |-> <<>>]
IsWild(u) == u.con = <<"_">>
Wilds(n) == [i \in 1..n |-> Wild]

OR_MARKER == <<"$or">>
OR_CAPPED == <<"$or!">>
MAP_LEAF  == <<"map">>

(* constructor_space; {} for a type that has none. *)
Space(ty) ==
    CASE ty[1] = "bool"  -> {[con |-> <<"true">>, fields |-> <<>>],
                             [con |-> <<"false">>, fields |-> <<>>]}
      [] ty[1] = "tuple" -> {[con |-> <<"T", Len(ty[2])>>, fields |-> ty[2]]}
      [] ty[1] \in {"enum", "struct"} ->
             {[con |-> <<"V", v.name>>, fields |-> v.fields] : v \in Variants(ty[2])}
      [] ty[1] = "list"  -> {[con |-> <<"nil">>, fields |-> <<>>],
                             [con |-> <<"cons">>, fields |-> <<ty[2], ty>>]}
      [] OTHER -> {}

(* ctor_fields: none for a leaf of an open type. *)
FieldsOf(ty, con) ==
    LET found == {c \in Space(ty) : c.con = con}
    IN  IF found = {} THEN <<>> ELSE (CHOOSE c \in found : TRUE).fields

(* literal_con: the space's own constructor for a Bool. *)
LiteralCon(v, ty) == IF ty # <<"bool">> THEN <<"i", v>> ELSE IF v THEN <<"true">> ELSE <<"false">>

(* The names of a constructor's fields, in their order. *)
NamesOf(ty, name) == (CHOOSE v \in Variants(ty[2]) : v.name = name).names

(* lower_pat. *)
RECURSIVE Lower(_, _)
Lower(p, ty) ==
    CASE p.k = "wild" -> Wild
      [] p.k = "bind" -> Lower(p.sub, ty)
      [] p.k = "lit"  -> Leaf(LiteralCon(p.v, ty))
      [] p.k = "range" -> Leaf(<<"range", p.lo, p.hi, p.exclusive>>)
      [] p.k = "map"   -> Leaf(MAP_LEAF)
      [] p.k = "tuple" -> [con  |-> <<"T", Len(p.ps)>>,
                           args |-> [i \in 1..Len(p.ps) |-> Lower(p.ps[i], ty[2][i])]]
      [] p.k = "ctor"  -> [con  |-> <<"V", p.name>>,
                           args |-> [i \in 1..Len(p.ps) |->
                                       Lower(p.ps[i], FieldsOf(ty, <<"V", p.name>>)[i])]]
      [] p.k = "struct" ->
             LET names  == NamesOf(ty, p.name)
                 fields == FieldsOf(ty, <<"V", p.name>>)
                 arg(i) == IF names[i] \in DOMAIN p.fs THEN Lower(p.fs[names[i]], fields[i])
                           ELSE Wild
             IN  [con |-> <<"V", p.name>>, args |-> [i \in 1..Len(fields) |-> arg(i)]]
      [] p.k = "list"  ->
             LET tail == IF p.rest = <<>> THEN Leaf(<<"nil">>) ELSE Lower(p.rest[1], ty)
                 cell(e, t) == [con |-> <<"cons">>, args |-> <<Lower(e, ty[2]), t>>]
             IN  FoldRight(cell, p.ps, tail)
      [] p.k = "or"    -> [con  |-> OR_MARKER,
                           args |-> [i \in 1..Len(p.ps) |-> Lower(p.ps[i], ty)]]

(* expand_ors: an alternative is a row of its own, and the choices of the
   arguments are multiplied, the last the fastest. *)
RECURSIVE Expand(_)
Expand(u) ==
    LET each == [i \in 1..Len(u.args) |-> Expand(u.args[i])]
        times(rows, choices) ==
            FlattenSeq([i \in 1..Len(rows) |->
                          [j \in 1..Len(choices) |-> Append(rows[i], choices[j])]])
        product == FoldLeft(times, << <<>> >>, each)
    IN  IF u.con = OR_MARKER THEN FlattenSeq(each)
        ELSE [i \in 1..Len(product) |-> [u EXCEPT !.args = product[i]]]

(* A fault: of nested alternatives only the first is taken. *)
FirstRowOnly(u) == <<Expand(u)[1]>>

(* rows_for: above the cap the whole alternative is one opaque leaf. *)
RowsFor(u) == IF Len(Expand(u)) > OrCap THEN <<Leaf(OR_CAPPED)>> ELSE Expand(u)

-----------------------------------------------------------------------------
(* specialize_row over a matrix P, a set of rows: those that a value with this
   constructor can still match, with its arguments in place of it. *)
Specialize(P, con, n) ==
    {IF IsWild(row[1]) THEN Wilds(n) \o Tail(row) ELSE SubSeq(row[1].args, 1, n) \o Tail(row) :
        row \in {r \in P : IsWild(r[1]) \/ r[1].con = con}}

(* A fault: a wildcard is taken for no constructor. *)
SpecializeExactly(P, con, n) ==
    {SubSeq(row[1].args, 1, n) \o Tail(row) : row \in {r \in P : r[1].con = con}}

(* useful: is there a value that the row q matches and no row of P does? *)
RECURSIVE Useful(_, _, _)
Useful(P, q, col) ==
    IF q = <<>> THEN P = {}
    ELSE LET u == q[1]
             space == Space(col[1])
             under(con, args, fields) ==
                 Useful(Specialize(P, con, Len(fields)),
                        args \o Tail(q), fields \o Tail(col))
             sigma == {row[1].con : row \in {r \in P : ~IsWild(r[1])}}
             complete == space # {} /\ \A c \in space : c.con \in sigma
         IN  IF ~IsWild(u)
             THEN LET fields == FieldsOf(col[1], u.con)
                  IN  under(u.con, SubSeq(u.args, 1, Len(fields)), fields)
             ELSE IF complete
             THEN \E c \in space : under(c.con, Wilds(Len(c.fields)), c.fields)
             ELSE Useful({Tail(row) : row \in {r \in P : IsWild(r[1])}}, Tail(q), Tail(col))

-----------------------------------------------------------------------------
(* match_pattern: a value of an enum or a struct is [name, items, names], a
   list a sequence, a map a function. *)
RECURSIVE Matches(_, _)
Matches(p, v) ==
    CASE p.k = "wild" -> TRUE
      [] p.k = "bind" -> Matches(p.sub, v)
      [] p.k = "lit"  -> v = p.v
      [] p.k = "range" -> p.lo <= v /\ IF p.exclusive THEN v < p.hi ELSE v <= p.hi
      [] p.k = "tuple" -> \A i \in 1..Len(p.ps) : Matches(p.ps[i], v[i])
      [] p.k = "ctor"  -> v.name = p.name /\ \A i \in 1..Len(p.ps) : Matches(p.ps[i], v.items[i])
      [] p.k = "struct" ->
             /\ v.name = p.name
             /\ \A i \in 1..Len(v.names) :
                    v.names[i] \in DOMAIN p.fs => Matches(p.fs[v.names[i]], v.items[i])
      [] p.k = "list"  ->
             LET n == Len(p.ps)
             IN  /\ IF p.rest = <<>> THEN Len(v) = n ELSE Len(v) >= n
                 /\ \A i \in 1..n : Matches(p.ps[i], v[i])
                 /\ p.rest # <<>> => Matches(p.rest[1], SubSeq(v, n + 1, Len(v)))
      [] p.k = "map"   -> \A e \in p.entries : e[1] \in DOMAIN v /\ Matches(e[2], v[e[1]])
      [] p.k = "or"    -> \E i \in 1..Len(p.ps) : Matches(p.ps[i], v)

-----------------------------------------------------------------------------
(* check_match_coverage.                                                   *)

Init == /\ scrut \in Scrutinees
        /\ arms = <<>> /\ seen = {} /\ dead = {} /\ idle = {}
        /\ verdict = "open"

(* An arm's own alternatives, looked for through a binding. *)
RECURSIVE Alternatives(_)
Alternatives(p) == CASE p.k = "bind" -> Alternatives(p.sub)
                     [] p.k = "or"   -> p.ps
                     [] OTHER        -> <<p>>

(* One arm.  Each row is judged against the unguarded arms before it and the
   rows before it of its own arm; a guarded arm is not judged and covers
   nothing. *)
Arm(p, guard) ==
    LET alts  == Alternatives(p)
        per   == [a \in 1..Len(alts) |-> RowsFor(Lower(alts[a], scrut))]
        rows  == FlattenSeq(per)
        altOf == FlattenSeq([a \in 1..Len(alts) |-> [i \in 1..Len(per[a]) |-> a]])
        before(i) == seen \cup {<<rows[j]>> : j \in 1..i - 1}
        live  == {i \in 1..Len(rows) : Useful(before(i), <<rows[i]>>, <<scrut>>)}
        n     == Len(arms) + 1
    IN  /\ verdict = "open" /\ Len(arms) < MaxArms
        /\ arms' = Append(arms, [pat |-> p, guard |-> guard])
        /\ \/ guard /\ UNCHANGED <<seen, dead, idle>>
           \/ /\ ~guard
              /\ seen' = before(Len(rows) + 1)
              /\ dead' = IF live = {} THEN dead \cup {n} ELSE dead
              /\ idle' = IF live = {} THEN idle
                         ELSE idle \cup ({n} \X (1..Len(alts) \ {altOf[i] : i \in live}))
        /\ UNCHANGED <<scrut, verdict>>

(* The end of the match: a wildcard that is still useful is a hole. *)
Close == /\ verdict = "open" /\ arms # <<>>
         /\ verdict' = IF Useful(seen, <<Wild>>, <<scrut>>) THEN "missing" ELSE "total"
         /\ UNCHANGED <<scrut, arms, seen, dead, idle>>

Next == Close \/ \E p \in PatternsOf(scrut), guard \in BOOLEAN : Arm(p, guard)

Spec == Init /\ [][Next]_vars

-----------------------------------------------------------------------------
(* One of the first i arms matches, whatever the guards say. *)
Caught(v, i) == \E j \in 1..i : ~arms[j].guard /\ Matches(arms[j].pat, v)

(* The alternatives with a leaf the checker does not look into. *)
RECURSIVE HasLeaf(_, _)
HasLeaf(u, tags) == u.con[1] \in tags \/ \E i \in 1..Len(u.args) : HasLeaf(u.args[i], tags)

WithLeaf(tags) ==
    LET unguarded == {i \in 1..Len(arms) : ~arms[i].guard}
        alts == UNION {ToSet(Alternatives(arms[i].pat)) : i \in unguarded}
    IN  {p \in alts : \E row \in ToSet(RowsFor(Lower(p, scrut))) : HasLeaf(row, tags)}

(* A match that is accepted answers for every value, whatever its guards say;
   one that is refused leaves a value out, unless it asks for the insides of
   a map or has too many alternatives. *)
CoverageIsRight ==
    /\ verdict = "total" => \A v \in ValuesOf(scrut) : Caught(v, Len(arms))
    /\ verdict = "missing" /\ WithLeaf({"map", "$or!"}) = {} =>
           \E v \in ValuesOf(scrut) : ~Caught(v, Len(arms))

(* An arm called unreachable and an alternative warned of never run; all the
   others do for some value, unless ranges or opaque leaves hide it.  (Of two
   opaque leaves the checker takes the second for the first: README, 6.) *)
UnreachableIsRight ==
    LET twins == Cardinality(WithLeaf({"map", "$or!"})) > 1
        open  == WithLeaf({"map", "$or!", "range"}) # {}
        runs(i, a) == LET alts == Alternatives(arms[i].pat)
                      IN  \E v \in ValuesOf(scrut) :
                              /\ Matches(alts[a], v)
                              /\ ~Caught(v, i - 1)
                              /\ \A b \in 1..a - 1 : ~Matches(alts[b], v)
        called(i, a) == i \in dead \/ <<i, a>> \in idle
    IN  \A i \in 1..Len(arms) : \A a \in 1..Len(Alternatives(arms[i].pat)) :
            ~arms[i].guard => /\ called(i, a) /\ ~twins => ~runs(i, a)
                              /\ ~called(i, a) /\ ~open => runs(i, a)

(* Both of the checker's answers about a match. *)
VerdictsAreRight == CoverageIsRight /\ UnreachableIsRight
=============================================================================
