----------------------------- MODULE SkarnOracle -----------------------------
(***************************************************************************)
(* What a Skarn program means: the tree-walking reference interpreter of   *)
(* static_compiler_tests/RefEval.cpp, over the Int and Bool core of the    *)
(* language (literals, names, operators, if, while, loop, break, continue, *)
(* return, match, blocks, let, assignment, calls of named functions).      *)
(*                                                                         *)
(* A node of the tree is a record whose field k is its kind; the static    *)
(* type of a comparison's operands, which the checker writes on the node,  *)
(* is its field of.  A value is <<"Int", n>>, <<"Bool", b>> or Unit.  No   *)
(* loop of the programs the runs choose reaches the 48 bits of an Int, so  *)
(* its wrap-around is left out.                                            *)
(***************************************************************************)
EXTENDS Integers, Sequences

Absent == [k |-> "absent"]
Unit   == <<"Unit">>
IntV(n) == <<"Int", n>>
BoolV(b) == <<"Bool", b>>

Comparisons == {"==", "!=", "<", "<=", ">", ">="}

Related(op, x, y) ==
  CASE op = "==" -> x = y  [] op = "!=" -> x # y
    [] op = "<"  -> x < y  [] op = "<=" -> x <= y
    [] op = ">"  -> x > y  [] OTHER     -> x >= y

Computed(op, x, y) == CASE op = "+" -> x + y [] op = "-" -> x - y [] OTHER -> x * y

Applied(op, x, y) ==
  IF op \in {"==", "!="} THEN BoolV(Related(op, x, y))
  ELSE IF op \in Comparisons THEN BoolV(Related(op, x[2], y[2]))
  ELSE IntV(Computed(op, x[2], y[2]))

(***************************************************************************)
(* The walker's state: env, the visible bindings, innermost last; sig, the *)
(* signal being thrown, "" for none; v, the value of the last evaluation   *)
(* (or of the signal).                                                     *)
(***************************************************************************)
Entry == [env |-> <<>>, sig |-> "", v |-> Unit]

Yield(s, v)    == [s EXCEPT !.v = v]
Throw(s, sig)  == [s EXCEPT !.sig = sig]
AndThen(s, F(_)) == IF s.sig = "" THEN F(s) ELSE s
Bound(s, n, v) == [s EXCEPT !.env = Append(@, [n |-> n, v |-> v])]
Left(s, outer) == [s EXCEPT !.env = SubSeq(@, 1, Len(outer.env))]

(* find: the innermost binding of a name *)
Slot(s, n) == CHOOSE i \in 1 .. Len(s.env) :
                /\ s.env[i].n = n
                /\ \A j \in i + 1 .. Len(s.env) : s.env[j].n # n

(* match_pattern: the state with the pattern's names bound, or sig "no" *)
RECURSIVE Matched(_, _, _)
Matched(p, v, s) ==
  CASE p.k = "any"   -> s
    [] p.k = "name"  -> Bound(s, p.n, v)
    [] p.k = "bind"  -> Matched(p.sub, v, Bound(s, p.n, v))
    [] p.k = "lit"   -> IF p.v = v THEN s ELSE Throw(s, "no")
    [] p.k = "range" -> IF p.lo <= v[2] /\ (IF p.excl THEN v[2] < p.hi ELSE v[2] <= p.hi)
                        THEN s ELSE Throw(s, "no")
    [] p.k = "or"    ->
         IF Matched(p.alts[1], v, s).sig = "" THEN Matched(p.alts[1], v, s)
         ELSE IF Len(p.alts) = 1 THEN Throw(s, "no")
         ELSE Matched([p EXCEPT !.alts = Tail(@)], v, s)

RECURSIVE Eval(_, _, _), Exec(_, _, _), ExecAll(_, _, _), Spin(_, _, _),
          Arm(_, _, _, _), ArgValues(_, _, _)

(* eval_binary: && and || look at the right side only when they need it *)
EvalBinary(fns, e, s) ==
  AndThen(Eval(fns, e.l, s), LAMBDA a :
    IF e.op = "&&" /\ ~a.v[2] THEN Yield(a, BoolV(FALSE))
    ELSE IF e.op = "||" /\ a.v[2] THEN Yield(a, BoolV(TRUE))
    ELSE AndThen(Eval(fns, e.r, a), LAMBDA b :
           IF e.op \in {"&&", "||"} THEN b ELSE Yield(b, Applied(e.op, a.v, b.v))))

(* The loops: a break or continue thrown by the BODY is this loop's. *)
Spin(fns, e, s) ==
  AndThen(IF e.k = "while" THEN Eval(fns, e.c, s) ELSE Yield(s, BoolV(TRUE)), LAMBDA c :
    IF ~c.v[2] THEN Yield(c, Unit)
    ELSE LET b == Eval(fns, e.b, c)
         IN CASE b.sig = "break"    -> Throw(IF e.k = "while" THEN Yield(b, Unit) ELSE b, "")
              [] b.sig = "continue" -> Spin(fns, e, Throw(b, ""))
              [] OTHER              -> AndThen(b, LAMBDA t : Spin(fns, e, t)))

(* eval_match *)
Arm(fns, arms, v, s) ==
  LET a == Matched(arms[1].p, v, s)
      g == IF arms[1].g = Absent THEN Yield(a, BoolV(TRUE)) ELSE Eval(fns, arms[1].g, a)
  IN IF arms = <<>> THEN Throw(s, "panic")
     ELSE IF a.sig = "no" THEN Arm(fns, Tail(arms), v, s)
     ELSE AndThen(g, LAMBDA t :
            IF t.v[2] THEN Left(Eval(fns, arms[1].b, t), s)
            ELSE Arm(fns, Tail(arms), v, Left(t, s)))

(* eval_args, left to right: the values are left in v as a sequence *)
ArgValues(fns, args, s) ==
  IF args = <<>> THEN Yield(s, <<>>)
  ELSE AndThen(Eval(fns, args[1], s), LAMBDA a :
         AndThen(ArgValues(fns, Tail(args), a), LAMBDA t : Yield(t, <<a.v>> \o t.v)))

(* call_fn: a scope of its own; a return ends it *)
CallFn(fns, f, s) ==
  LET env == [i \in 1 .. Len(s.v) |-> [n |-> fns[f].params[i], v |-> s.v[i]]]
      r   == Eval(fns, fns[f].body, [s EXCEPT !.env = env])
  IN [s EXCEPT !.v = r.v, !.sig = IF r.sig = "return" THEN "" ELSE r.sig]

Eval(fns, e, s) ==
  CASE e.k = "int"    -> Yield(s, IntV(e.v))
    [] e.k = "bool"   -> Yield(s, BoolV(e.is))
    [] e.k = "id"     -> Yield(s, s.env[Slot(s, e.n)].v)
    [] e.k = "neg"    -> AndThen(Eval(fns, e.e, s), LAMBDA a : Yield(a, IntV(-a.v[2])))
    [] e.k = "not"    -> AndThen(Eval(fns, e.e, s), LAMBDA a : Yield(a, BoolV(~a.v[2])))
    [] e.k = "bin"    -> EvalBinary(fns, e, s)
    [] e.k = "if"     -> AndThen(Eval(fns, e.c, s), LAMBDA c :
                           IF c.v[2] THEN Eval(fns, e.t, c)
                           ELSE IF e.f = Absent THEN Yield(c, Unit)
                           ELSE Eval(fns, e.f, c))
    [] e.k \in {"while", "loop"} -> Spin(fns, e, s)
    [] e.k = "block"  -> Left(ExecAll(fns, e.ss, Yield(s, Unit)), s)
    [] e.k = "call"   -> AndThen(ArgValues(fns, e.args, s), LAMBDA a : CallFn(fns, e.fn, a))
    [] e.k = "match"  -> AndThen(Eval(fns, e.e, s), LAMBDA a : Arm(fns, e.arms, a.v, a))
    [] e.k \in {"return", "break"} ->
         IF e.e = Absent THEN Throw(Yield(s, Unit), e.k)
         ELSE AndThen(Eval(fns, e.e, s), LAMBDA a : Throw(a, e.k))
    [] e.k = "continue" -> Throw(s, "continue")

(* exec_stmt; compound_assign reads the old value after the new one is known *)
Exec(fns, t, s) ==
  AndThen(Eval(fns, t.e, s), LAMBDA a :
    CASE t.k = "do"  -> a
      [] t.k = "let" -> Yield(IF t.n = "_" THEN a ELSE Bound(a, t.n, a.v), Unit)
      [] t.k = "set" ->
           LET i == Slot(a, t.n)
               v == IF t.op = "=" THEN a.v ELSE Applied(t.op, a.env[i].v, a.v)
           IN Yield([a EXCEPT !.env[i].v = v], Unit))

ExecAll(fns, ss, s) ==
  IF ss = <<>> THEN s
  ELSE AndThen(Exec(fns, ss[1], s), LAMBDA t : ExecAll(fns, Tail(ss), t))

(* The answer of a program: the value of its script, the entry "main". *)
Meaning(fns) == CallFn(fns, "main", Yield(Entry, <<>>))
=============================================================================
