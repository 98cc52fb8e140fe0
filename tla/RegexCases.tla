----------------------------- MODULE RegexCases -----------------------------
(***************************************************************************)
(* The patterns and texts on which TLC checks Regex: every pattern of one  *)
(* operator over two bytes, those grouped, and every operator over these.  *)
(***************************************************************************)
EXTENDS Integers

LineBreak == 2

LOCAL A == <<"byte", 1>>
LOCAL B == <<"byte", 2>>
LOCAL Nothing == <<"empty">>

LOCAL Repeated(S)  == {<<k, x, greedy>> : k \in {"star", "plus", "opt"}, x \in S, greedy \in BOOLEAN}
LOCAL Joined(S, T) == {<<k, x, y>> : k \in {"cat", "alt"}, x \in S, y \in T}
LOCAL Grouped(S)   == {<<"group", 1, x>> : x \in S}

LOCAL Single == {A, B, Nothing, <<"any">>, <<"start">>, <<"end">>}
LOCAL Small  == Single \cup Repeated({A, Nothing}) \cup Joined({A, B, Nothing}, {A, B})

RegexTrees == Repeated(Small \cup Grouped(Small)) \cup Joined(Grouped(Small), Single)
RegexTexts == UNION {[1..len -> {1, LineBreak}] : len \in 0..3}
=============================================================================
