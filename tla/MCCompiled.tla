------------------------------ MODULE MCCompiled ------------------------------
(***************************************************************************)
(* The programs CompiledCode is checked on.  Grid combines every shape of  *)
(* function body with every pair of operands; Loops, Patterns, TailCalls   *)
(* and Wide are single programs; Disagreeing are the programs the code     *)
(* treats otherwise than the reference interpreter.                        *)
(***************************************************************************)
EXTENDS CompiledCode

(* ------------------------------ the syntax ----------------------------- *)
N(v) == [k |-> "int", v |-> v]
V(n) == [k |-> "id", n |-> n]
B(b) == [k |-> "bool", is |-> b]
Bin(op, l, r) == [k |-> "bin", op |-> op, of |-> "Int", l |-> l, r |-> r]
BinB(op, l, r) == [k |-> "bin", op |-> op, of |-> "Bool", l |-> l, r |-> r]
Neg(e) == [k |-> "neg", e |-> e]
Not(e) == [k |-> "not", e |-> e]
Block(ss) == [k |-> "block", ss |-> ss]
Do(e) == [k |-> "do", e |-> e]
Let(n, e) == [k |-> "let", n |-> n, e |-> e]
Assign(n, op, e) == [k |-> "set", n |-> n, op |-> op, e |-> e]
If(c, t, f) == [k |-> "if", c |-> c, t |-> Block(t), f |-> Block(f)]
When(c, t) == [k |-> "if", c |-> c, t |-> Block(t), f |-> Absent]
While(c, ss) == [k |-> "while", c |-> c, b |-> Block(ss)]
Loop(ss) == [k |-> "loop", b |-> Block(ss)]
Break(e) == [k |-> "break", e |-> e]
Continue == [k |-> "continue"]
Ret(e) == [k |-> "return", e |-> e]
CallOf(id, f, args) == [k |-> "call", id |-> <<id, f>>, fn |-> f, args |-> args]
Match(e, arms) == [k |-> "match", e |-> e, arms |-> arms]
Arms(p, b) == [p |-> p, g |-> Absent, b |-> b]
Guarded(p, g, b) == [p |-> p, g |-> g, b |-> b]
Whatever == [k |-> "any"]
Name(n) == [k |-> "name", n |-> n]
At(n, p) == [k |-> "bind", n |-> n, sub |-> p]
Lit(v) == [k |-> "lit", v |-> IntV(v)]
To(lo, hi) == [k |-> "range", lo |-> lo, hi |-> hi, excl |-> FALSE]
Below(lo, hi) == [k |-> "range", lo |-> lo, hi |-> hi, excl |-> TRUE]
Or(ps) == [k |-> "or", alts |-> ps]
Fn(ps, e) == [params |-> ps, body |-> IF e.k = "block" THEN e ELSE Block(<<Do(e)>>)]

X == V("x")
ScriptOf(ss) == Fn(<<>>, Block(ss))

(* ------------------------- functions to be called ---------------------- *)
Inc  == Fn(<<"x">>, Bin("+", X, N(1)))
Pick == Fn(<<"a", "b">>, Block(<<Do(When(Bin("<", V("a"), V("b")), <<Do(Ret(V("a")))>>)), Do(V("b"))>>))
Deep == Fn(<<"x">>, Bin("*", CallOf(1, "inc", <<X>>), CallOf(2, "pick", <<Bin("+", X, N(1)), N(4)>>)))
Seek == Fn(<<"x">>, Block(<<
          Let("i", X),
          Do(While(Bin("<", V("i"), N(6)), <<
            Assign("i", "+", N(2)),
            Do(When(Bin("==", V("i"), N(5)), <<Do(Ret(N(50)))>>))>>)),
          Do(V("i"))>>))

(* ------------------------- operands and bodies ------------------------- *)
(* The id keeps the calls of two operands apart. *)
Operands(id) ==
  { X, N(2), Bin("+", N(1), X), Neg(X),
    If(Bin(">=", X, N(3)), <<Do(X)>>, <<Do(N(7))>>),
    Block(<<Let("x", Bin("+", X, N(1))), Assign("x", "*", X), Do(X)>>),
    Match(X, <<Guarded(Name("n"), Bin("<", V("n"), N(0)), N(0)),
               Arms(Or(<<Lit(2), Lit(3)>>), N(4)), Arms(Name("n"), V("n"))>>),
    CallOf(id, "inc", <<X>>), CallOf(id, "pick", <<N(4), Neg(X)>>),
    CallOf(id, "deep", <<X>>), CallOf(id, "seek", <<X>>) }

Bodies(a, b) ==
  { Block(<<Let("i", N(0)), Let("s", a),
            Do(While(Bin("<", V("i"), N(3)), <<
              Assign("i", "+", N(1)),
              Do(Match(V("i"), <<Guarded(Lit(1), Bin(">", b, N(5)), Block(<<Do(Continue)>>)),
                                 Arms(Lit(2), Block(<<Assign("s", "+", V("i")), Do(b)>>)),
                                 Arms(Lit(3), Ret(Bin("-", V("s"), b))),
                                 Arms(Whatever, Block(<<>>))>>)),
              Assign("s", "*", N(2))>>)),
            Do(V("s"))>>),
    Bin("-", a, b),
    If(BinB("==", Bin(">", a, b), Bin("!=", b, N(2))), <<Do(a)>>, <<Do(b)>>),
    If(Bin("||", Bin("&&", Bin("<=", a, b), Not(Bin("==", a, N(5)))), Bin(">", b, N(6))),
       <<Do(N(1))>>, <<Do(Ret(a)), Do(b)>>),
    Block(<<Let("y", a), Let("x", b), Assign("y", "-", N(1)), Do(Bin("-", X, V("y")))>>),
    Block(<<Let("_", a), Let("y", N(9)), Assign("y", "-", b), Do(CallOf(9, "pick", <<b, V("y")>>))>>),
    Match(a, <<Guarded(Name("n"), Bin(">", V("n"), b), V("n")),
               Guarded(At("k", Below(2, 4)), B(TRUE), Bin("+", V("k"), N(10))), Arms(Whatever, b)>>) }

Helpers == ("inc" :> Inc) @@ ("pick" :> Pick) @@ ("deep" :> Deep) @@ ("seek" :> Seek)
Grid ==
  { [fns |-> Helpers @@ ("f" :> Fn(<<"x">>, body))
             @@ ("main" :> ScriptOf(<<Do(Bin("-", CallOf(3, "f", <<N(2)>>), CallOf(4, "f", <<N(5)>>)))>>)),
     order |-> <<"inc", "f", "pick", "deep", "seek">>, flat |-> FALSE] :
    body \in UNION { Bodies(a, b) : a \in Operands(5), b \in Operands(6) } }

(* ------------------------------- scripts ------------------------------- *)
Alone(ss) == [fns |-> Helpers @@ ("main" :> ScriptOf(ss)),
              order |-> <<"seek", "deep", "inc", "pick">>, flat |-> FALSE]

Loops == { Alone(ss) : ss \in {
  <<Let("s", N(0)), Let("i", N(0)),
    Do(While(Bin("<", V("i"), N(5)), <<
      Assign("i", "+", N(1)),
      Do(When(Bin("==", V("i"), N(3)), <<Do(Continue)>>)),
      Do(When(Bin(">", V("s"), N(5)), <<Do(Break(Absent))>>)),
      Assign("s", "=", Bin("+", V("s"), V("i")))>>)),
    Do(V("s"))>>,
  <<Let("i", N(0)),
    Let("r", Loop(<<
      Assign("i", "=", Bin("+", N(1), V("i"))),
      Do(When(Bin("<=", V("i"), N(2)), <<Do(Continue)>>)),
      Let("t", Loop(<<Let("u", Bin("*", V("i"), V("i"))), Do(Break(V("u")))>>)),
      Do(When(Bin(">=", V("t"), N(16)), <<Do(Break(Bin("-", V("t"), V("i"))))>>))>>)),
    Do(Bin("+", V("r"), Loop(<<Do(Break(V("i")))>>)))>>,
  <<Let("i", N(3)),
    Let("b", Bin("&&", Bin("!=", V("i"), N(0)),
                 Block(<<Assign("i", "-", N(1)), Do(Bin("<", V("i"), N(2)))>>))),
    Do(If(Bin("||", V("b"), Not(V("b"))), <<Do(V("i"))>>, <<Do(N(0))>>))>>,
  <<Let("i", N(2)), Do(While(Bin("!=", V("i"), N(0)), <<Assign("i", "-", N(1))>>))>>,
  <<Do(When(B(FALSE), <<Do(N(1))>>))>>,
  <<Let("y", N(1)), Do(Loop(<<Assign("y", "+", CallOf(7, "seek", <<V("y")>>)),
                               Do(When(Bin(">", V("y"), N(60)), <<Do(Break(V("y")))>>))>>))>> } }

Patterns == { Alone(<<Let("v", N(n)), Do(Match(V("v"), arms))>>) : n \in 0 .. 4, arms \in {
  <<Arms(Or(<<At("a", At("c", Lit(1))), At("c", At("a", Lit(2)))>>),
         Bin("+", Bin("*", V("a"), N(10)), V("c"))),
    Guarded(At("b", To(3, 6)), Bin("==", V("b"), N(4)), N(44)),
    Arms(Name("z"), V("z"))>>,
  <<Guarded(Or(<<At("a", To(0, 1)), At("a", Below(1, 3))>>),
            Bin(">=", V("a"), Bin("-", N(2), V("a"))), CallOf(8, "deep", <<V("a")>>)),
    Arms(Lit(0), Match(V("v"), <<Arms(Lit(1), N(1)), Arms(At("w", Whatever), Bin("-", V("w"), N(3)))>>)),
    Arms(Whatever, Block(<<Let("v", Neg(V("v"))), Do(V("v"))>>))>> } }

(* -------------------------- tail calls, staging ------------------------ *)
Flat(fns, order, e) == [fns |-> fns @@ ("main" :> ScriptOf(<<Do(e)>>)), order |-> order, flat |-> TRUE]
Looping == {
  Flat("sum" :> Fn(<<"n", "acc">>,
         If(Bin("<=", V("n"), N(0)), <<Do(V("acc"))>>,
            <<Do(CallOf(1, "sum", <<Bin("-", V("n"), N(1)), Bin("+", V("acc"), V("n"))>>))>>)),
       <<"sum">>, CallOf(2, "sum", <<N(4), N(0)>>)),
  Flat("swap" :> Fn(<<"a", "b", "n">>,
         Match(V("n"), <<Arms(Lit(0), Bin("-", V("a"), V("b"))),
                         Arms(Name("k"), CallOf(1, "swap", <<V("b"), V("a"), Bin("-", V("k"), N(1))>>))>>)),
       <<"swap">>, CallOf(2, "swap", <<N(7), N(2), N(3)>>)),
  Flat(("even" :> Fn(<<"n">>,
          Block(<<Do(When(Bin("==", V("n"), N(0)), <<Do(Ret(N(1)))>>)),
                  Do(CallOf(1, "odd", <<Bin("-", V("n"), N(1)), N(9)>>))>>)))
       @@ ("odd" :> Fn(<<"n", "w">>,
          Block(<<Let("u", Bin("*", V("w"), N(2))), Let("t", Bin("-", V("u"), V("w"))),
                  Do(If(Bin("!=", V("n"), N(0)),
                        <<Do(Ret(CallOf(2, "even", <<Bin("-", V("n"), N(1))>>)))>>,
                        <<Do(Bin("-", V("t"), V("u")))>>))>>))),
       <<"odd", "even">>, Bin("+", CallOf(3, "even", <<N(4)>>), CallOf(4, "even", <<N(3)>>))) }

(* The script is too wide with f and two levels of l in it: it gives up    *)
(* every site it would have expanded, f's own ones included, though f was  *)
(* planned with them.  (swap, above, is too wide by itself.)               *)
Long == Fn(<<"x">>, Block(<<Let("a", X), Let("b", Bin("+", V("a"), X)), Let("c", Bin("+", V("b"), X)),
                            Let("d", V("c")), Let("e", V("d")), Do(Bin("-", V("e"), V("a")))>>))
Wide == {
  [fns |-> ("l" :> Long)
           @@ ("f" :> Fn(<<"x">>, Block(<<Let("p", CallOf(1, "l", <<X>>)), Let("q", X),
                             Do(Bin("+", CallOf(2, "l", <<CallOf(3, "l", <<V("p")>>)>>), V("q")))>>)))
           @@ ("main" :> ScriptOf(<<Do(CallOf(4, "f", <<N(1)>>))>>)),
   order |-> <<"l", "f">>, flat |-> FALSE] }

(* A recursive function is expanded into itself, and into the script. *)
Recursive == {
  [fns |-> ("fib" :> Fn(<<"n">>, If(Bin("<", V("n"), N(2)), <<Do(V("n"))>>,
              <<Do(Bin("+", CallOf(1, "fib", <<Bin("-", V("n"), N(1))>>),
                            CallOf(2, "fib", <<Bin("-", V("n"), N(2))>>)))>>)))
           @@ ("main" :> ScriptOf(<<Do(CallOf(3, "fib", <<N(4)>>))>>)),
   order |-> <<"fib">>, flat |-> FALSE] }

Agreeing == Recursive \cup Grid \cup Loops \cup Patterns \cup Looping \cup Wide

(* ----------------------------- disagreements --------------------------- *)
ReadLate == Alone(<<Let("x", N(1)),
              Do(Bin("+", X, Block(<<Assign("x", "=", N(3)), Do(X)>>)))>>)
BreakInCondition == Alone(<<Let("k", N(0)),
  Do(Loop(<<Do(While(If(Bin("==", V("k"), N(0)), <<Do(Break(Absent))>>, <<Do(B(FALSE))>>), <<>>)),
            Assign("k", "=", N(9)), Do(Break(Absent))>>)),
  Do(V("k"))>>)
ReturnedLocal ==
  [fns |-> ("f" :> Fn(<<"x">>, Block(<<Let("y", Match(X, <<Arms(Name("n"), Ret(V("n")))>>)), Do(V("y"))>>)))
           @@ ("main" :> ScriptOf(<<Do(CallOf(1, "f", <<N(1)>>))>>)),
   order |-> <<"f">>, flat |-> FALSE]
SitesGivenBack ==
  LET many(e) == Match(X, <<Arms(At("a", At("b", At("c", Whatever))), e)>>)
  IN [fns |-> ("h" :> Fn(<<"x">>, many(V("a"))))
              @@ ("g" :> Fn(<<"x">>, many(Bin("+", CallOf(1, "h", <<X>>), V("a")))))
              @@ ("f" :> Fn(<<"x">>, many(Bin("+", CallOf(2, "g", <<X>>), V("a")))))
              @@ ("main" :> ScriptOf(<<Do(CallOf(3, "f", <<N(1)>>))>>)),
      order |-> <<"h", "g", "f">>, flat |-> FALSE]
Disagreeing == {ReadLate, BreakInCondition, ReturnedLocal, SitesGivenBack}
=============================================================================
