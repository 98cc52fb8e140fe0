----------------------------- MODULE MatchCases -----------------------------
(***************************************************************************)
(* The matches on which TLC checks MatchCoverage: five types, the arms     *)
(* written over each and the values that tell them apart.                  *)
(***************************************************************************)
EXTENDS Integers, Sequences, TLC

LOCAL Wildcard == [k |-> "wild"]
LOCAL Lit(v) == [k |-> "lit", v |-> v]
LOCAL Between(lo, hi, x) == [k |-> "range", lo |-> lo, hi |-> hi, exclusive |-> x]
LOCAL Tup(ps) == [k |-> "tuple", ps |-> ps]
LOCAL Ctor(name, ps) == [k |-> "ctor", name |-> name, ps |-> ps]
LOCAL Fields(fs) == [k |-> "struct", name |-> "Entry", fs |-> fs]
LOCAL Items(ps) == [k |-> "list", ps |-> ps, rest |-> <<>>]
LOCAL ItemsThen(ps, rest) == [k |-> "list", ps |-> ps, rest |-> <<rest>>]
LOCAL MapOf(es) == [k |-> "map", entries |-> es]
LOCAL Or(ps) == [k |-> "or", ps |-> ps]
LOCAL Bind(p) == [k |-> "bind", sub |-> p]

LOCAL BoolTy == <<"bool">>
LOCAL IntTy  == <<"int">>
LOCAL Pair   == <<"tuple", <<BoolTy, <<"enum", "Opt">>>>>>
LOCAL Bools  == <<"list", BoolTy>>
LOCAL Entry  == <<"struct", "Entry">>
LOCAL Held   == <<"tuple", <<BoolTy, <<"map">>>>>>

MatchTypes == {Pair, IntTy, Bools, Entry, Held}

MatchVariants(name) ==
    IF name = "Opt" THEN {[name |-> "None", names |-> <<>>, fields |-> <<>>],
                          [name |-> "Some", names |-> <<"0">>, fields |-> <<BoolTy>>]}
    ELSE {[name |-> "Entry", names |-> <<"key", "on">>, fields |-> <<IntTy, BoolTy>>]}

LOCAL T == Lit(TRUE)
LOCAL F == Lit(FALSE)
LOCAL Either  == Or(<<T, F>>)
LOCAL NoneP   == Ctor("None", <<>>)
LOCAL SomeP(p) == Ctor("Some", <<p>>)

MatchPatterns(ty) ==
    CASE ty = Pair ->
             {Wildcard, Tup(<<T, Wildcard>>), Tup(<<Wildcard, NoneP>>), Tup(<<F, SomeP(T)>>), Tup(<<Wildcard, SomeP(F)>>),
              Tup(<<Either, SomeP(Wildcard)>>), Tup(<<Either, SomeP(Either)>>),
              Tup(<<Either, Or(<<SomeP(F), NoneP>>)>>),
              Or(<<Tup(<<T, NoneP>>), Tup(<<F, Or(<<NoneP, SomeP(F)>>)>>)>>),
              Bind(Or(<<Tup(<<T, SomeP(Either)>>), Tup(<<T, NoneP>>)>>))}
      [] ty = IntTy ->
             {Wildcard, Lit(1), Lit(2), Between(1, 3, FALSE), Between(1, 3, TRUE),
              Or(<<Lit(2), Lit(1), Lit(2)>>), Or(<<Lit(1), Wildcard>>), Bind(Wildcard)}
      [] ty = Bools ->
             {Wildcard, Items(<<>>), Items(<<F>>), Items(<<Either>>),
              ItemsThen(<<T>>, Wildcard), ItemsThen(<<F, Wildcard>>, Wildcard), ItemsThen(<<Wildcard, F>>, Wildcard),
              ItemsThen(<<Wildcard>>, ItemsThen(<<T>>, Wildcard)), ItemsThen(<<>>, Items(<<>>))}
      [] ty = Entry ->
             {Wildcard, Fields([on |-> T]), Fields([on |-> F]), Fields([key |-> Lit(1)]),
              Fields([key |-> Lit(2)]), Fields([on |-> F, key |-> Lit(1)]),
              Fields([on |-> Either, key |-> Or(<<Lit(1), Lit(2)>>)])}
      [] ty = Held ->
             {Wildcard, Tup(<<T, Wildcard>>), Tup(<<F, Wildcard>>), Tup(<<T, MapOf({})>>),
              Tup(<<Wildcard, MapOf({<<1, Lit(1)>>})>>)}

LOCAL Opts == {[name |-> "None", names |-> <<>>, items |-> <<>>]}
              \cup {[name |-> "Some", names |-> <<"0">>, items |-> <<b>>] : b \in BOOLEAN}

MatchValues(ty) ==
    CASE ty = Pair  -> BOOLEAN \X Opts
      [] ty = IntTy -> 0..4
      [] ty = Bools -> UNION {[1..len -> BOOLEAN] : len \in 0..3}
      [] ty = Entry -> {[name |-> "Entry", names |-> <<"key", "on">>, items |-> <<k, b>>] :
                            k \in 0..3, b \in BOOLEAN}
      [] ty = Held  -> BOOLEAN \X {<<>>, 1 :> 0, 1 :> 1, 2 :> 1}
=============================================================================
