------------------------------- MODULE Codegen -------------------------------
(***************************************************************************)
(* The emit pass of static_compiler/Codegen.cpp: a function's tree becomes *)
(* three-address code over the registers of one frame.  Locals take the    *)
(* registers from 0 up to the planned base, temporaries form a stack above *)
(* them, and a call's arguments go beyond the frame.                       *)
(*                                                                         *)
(* The emitter g is a record: code, the instructions so far; lab, the      *)
(* place of each label; locals, top, base, frame, the register allocator;  *)
(* scope, the names in sight; loops and inl, the stacks of enclosing loops *)
(* and expansions, depth how many of the latter; p, the program and its    *)
(* plans; bad, why the emitter gave up ("" while it goes on); r, l and     *)
(* args, the registers of the expression compiled last, of the operand     *)
(* before it and of a call's arguments.                                    *)
(***************************************************************************)
EXTENDS FramePlan, SequencesExt

NoHint == -1

ValueOf(e) == IF e.k = "int" THEN IntV(e.v) ELSE BoolV(e.is)

(* ---------------------------- the assembler ---------------------------- *)
Put(g, i) == [g EXCEPT !.code = Append(@, i)]
Op3(g, op, d, a, b) == Put(g, [op |-> op, d |-> d, a |-> a, b |-> b])
Mov(g, d, a) == IF d = a THEN g ELSE Op3(g, "MOV", d, a, 0)
Load(g, d, v) == Put(g, [op |-> "LOAD", d |-> d, v |-> v])
Branch(g, op, a, b, to) == Put(g, [op |-> op, a |-> a, b |-> b, to |-> to])
Jump(g, to) == Branch(g, "J", 0, 0, to)
NewLabels(g, n) == [g EXCEPT !.lab = @ \o [i \in 1 .. n |-> 0]]
Fresh(g, i) == Len(g.lab) + i                \* the i-th label NewLabels will make
Here(g, l) == [g EXCEPT !.lab[l] = Len(g.code) + 1]

(* ------------------------ the register allocator ----------------------- *)
Fail(g, why) == IF g.bad = "" THEN [g EXCEPT !.bad = why] ELSE g
IsTemp(g, r) == r >= g.base
AllocTemp(g) == IF g.top >= g.frame THEN Fail(g, "temporaries")
                ELSE [g EXCEPT !.top = @ + 1, !.r = g.top]
AllocLocal(g) == IF g.locals >= g.base THEN Fail(g, "locals")
                 ELSE [g EXCEPT !.locals = @ + 1, !.r = g.locals]
(* The next temporary will be top, the next local will be locals. *)
Value(g, v) == Load(AllocTemp(g), g.top, v)
InTemp(g) == IF IsTemp(g, g.r) THEN g ELSE Mov(AllocTemp(g), g.top, g.r)
FreeIfTemp(g, r) == IF IsTemp(g, r) /\ r = g.top - 1 THEN [g EXCEPT !.top = @ - 1] ELSE g
Result(g, r) == [g EXCEPT !.r = r]

(* local_reg: the innermost local of that name, -1 for none *)
LocalReg(g, n) ==
  LET at == {i \in 1 .. Len(g.scope) : g.scope[i].n = n}
  IN IF at = {} THEN -1 ELSE g.scope[Max(at)].r
Named(g, n, r) == [g EXCEPT !.scope = Append(@, [n |-> n, r |-> r])]
Unwound(g, outer) == [g EXCEPT !.scope = SubSeq(@, 1, Len(outer.scope)),
                               !.locals = outer.locals]

ReturnTarget(g) == IF g.inl = <<>> THEN 0 ELSE Last(g.inl).result
EmitReturnJump(g) == IF g.inl = <<>> THEN Put(g, [op |-> "RET"])
                     ELSE Jump(g, Last(g.inl).exit)

TailNil(g) == EmitReturnJump(Load(g, ReturnTarget(g), Unit))

(* The second operand's temporary, then the first's. *)
FreeBoth(g) == FreeIfTemp(FreeIfTemp(g, g.r), g.l)

(* Where a binary result goes: the hint, or the first operand's temporary, *)
(* or the second's, or a new one.                                          *)
Into(g, op, s1, s2, hint) ==
  CASE hint # NoHint    -> Result(FreeBoth(Op3(g, op, hint, s1, s2)), hint)
    [] IsTemp(g, g.l) /\ hint = NoHint -> Result(FreeIfTemp(Op3(g, op, g.l, s1, s2), g.r), g.l)
    [] IsTemp(g, g.r) /\ ~IsTemp(g, g.l) /\ hint = NoHint -> Op3(g, op, g.r, s1, s2)
    [] OTHER -> Op3(AllocTemp(g), op, g.top, s1, s2)

(* The order of a comparison's operands, and its opcode, per relation. *)
SwapSet == {">", ">="}
SetOp(op, int) ==
  CASE op = "==" -> IF int THEN "SET_EQ" ELSE "EQ"
    [] op = "!=" -> IF int THEN "SET_EQ" ELSE "NE"
    [] op \in {"<", ">"} -> "SET_LT"
    [] OTHER -> "SET_LE"
BranchFalse(op) ==
  CASE op = "==" -> "BNE" [] op = "!=" -> "BEQ"
    [] op \in {"<", ">"} -> "BGE" [] OTHER -> "BLT"
SwapFalse == {"<=", ">"}
BranchTrue(op) ==
  CASE op = "==" -> "BEQ" [] op = "!=" -> "BNE"
    [] op \in {"<", ">"} -> "BLT" [] OTHER -> "BGE"
SwapTrue == {"<=", ">"}
ArithOp(op) == CASE op = "+" -> "ADD" [] op = "-" -> "SUB" [] OTHER -> "MUL"

FusedOp(op, truth) == IF truth THEN BranchTrue(op) ELSE BranchFalse(op)

IsOne(e) == e.k = "int" /\ e.v = 1

(***************************************************************************)
(* One walk over the tree, several ways to leave a value: in any register  *)
(* (compile_expr), nowhere (compile_discard), out of the function          *)
(* (compile_tail), or in a given register (compile_into); Script is the    *)
(* top level, whose locals outlive its statements.                         *)
(***************************************************************************)
Anywhere == -1
Nowhere  == -2
Out      == -3
Script   == -4
RECURSIVE Compile(_, _, _), CompileStmts(_, _, _), CompileArms(_, _, _, _, _, _),
          CompilePattern(_, _, _, _), CompileArgs(_, _, _, _)
CompileExpr(g, e)      == Compile(g, e, Anywhere)
CompileDiscard(g, e)   == Compile(g, e, Nowhere)
CompileTail(g, e)      == Compile(g, e, Out)
CompileInto(g, e, dst) == Compile(g, e, dst)

(* -------------------------------- operators ---------------------------- *)
(* x + 1, 1 + x and x - 1 into x's own register *)
InPlace(g, e, hint) ==
  \E x \in {e.l, e.r} :
    /\ x.k = "id" /\ hint # NoHint /\ LocalReg(g, x.n) = hint
    /\ \/ e.op \in {"+", "-"} /\ x = e.l /\ IsOne(e.r)
       \/ e.op = "+" /\ x = e.r /\ IsOne(e.l)

(* Compile a value into the register that holds the result of an if, a     *)
(* match or an expansion; Unit when there is no value.                     *)
Moved(g, to) == Result(FreeIfTemp(Mov(g, to, g.r), g.r), to)
Arrive(g, e, result) == IF e = Absent THEN Load(g, result, Unit)
                        ELSE Moved(CompileExpr(g, e), result)

(* The operands one after the other: l and r are where they are. *)
Second(g, e) == [CompileExpr(g, e) EXCEPT !.l = g.r]
Sides(g, e) == Second(CompileExpr(g, e.l), e.r)
Combined(g, op, swap, hint) ==
  IF swap THEN Into(g, op, g.r, g.l, hint) ELSE Into(g, op, g.l, g.r, hint)

CompileArith(g, e, hint) ==
  IF InPlace(g, e, hint)
  THEN Result(Op3(g, IF e.op = "+" THEN "INCR" ELSE "DECR", hint, 0, 0), hint)
  ELSE Combined(Sides(g, e), ArithOp(e.op), FALSE, hint)

Negated(g) == Op3(g, "NOT", g.r, g.r, 0)
CompileComparison(g, e, hint) ==
  LET h == Combined(Sides(g, e), SetOp(e.op, e.of = "Int"), e.op \in SwapSet, hint)
  IN IF e.of = "Int" /\ e.op = "!=" THEN Negated(h) ELSE h

(* The value of the left side, in a temporary, is the result unless the    *)
(* right side decides.                                                     *)
RightSide(g, e, end) ==
  Arrive(Branch(g, IF e.op = "&&" THEN "BF" ELSE "BT", g.r, 0, end), e.r, g.r)
CompileShortCircuit(g, e) ==
  Here(RightSide(InTemp(CompileExpr(NewLabels(g, 1), e.l)), e, Fresh(g, 1)), Fresh(g, 1))

Unary(g, op, hint) ==
  IF hint # NoHint THEN Result(FreeIfTemp(Op3(g, op, hint, g.r, 0), g.r), hint)
  ELSE IF IsTemp(g, g.r) THEN Op3(g, op, g.r, g.r, 0)
  ELSE Op3(AllocTemp(g), op, g.top, g.r, 0)
CompileUnary(g, e, hint) ==
  Unary(CompileExpr(g, e.e), IF e.k = "neg" THEN "NEG" ELSE "NOT", hint)

(* branch_if_false, branch_if_true: one fused branch for an Int comparison *)
Fused(g, op, truth, to) ==
  FreeBoth(IF op \in (IF truth THEN SwapTrue ELSE SwapFalse)
           THEN Branch(g, FusedOp(op, truth), g.r, g.l, to)
           ELSE Branch(g, FusedOp(op, truth), g.l, g.r, to))
Tested(g, truth, to) == FreeIfTemp(Branch(g, IF truth THEN "BT" ELSE "BF", g.r, 0, to), g.r)
BranchIf(g, e, truth, to) ==
  IF e.k = "bin" /\ e.op \in Comparisons /\ e.of = "Int"
  THEN Fused(Sides(g, e), e.op, truth, to)
  ELSE Tested(CompileExpr(g, e), truth, to)

(* ------------------------------ control flow --------------------------- *)
CompileIf(g, e) ==
  LET els  == Fresh(g, 1)
      end  == Fresh(g, 2)
      then == Arrive(BranchIf(AllocTemp(NewLabels(g, 2)), e.c, FALSE, els), e.t, g.top)
  IN Result(Here(Arrive(Here(Jump(then, end), els), e.f, g.top), end), g.top)

CompileIfDiscard(g, e) ==
  LET els  == Fresh(g, 1)
      end  == Fresh(g, 2)
      then == CompileDiscard(BranchIf(NewLabels(g, 2), e.c, FALSE,
                                      IF e.f = Absent THEN end ELSE els), e.t)
  IN Here(IF e.f = Absent THEN then
          ELSE CompileDiscard(Here(Jump(then, end), els), e.f), end)

Within(g, brk, cont, result) ==
  [g EXCEPT !.loops = Append(@, [brk |-> brk, cont |-> cont, result |-> result])]
Outside(g) == [g EXCEPT !.loops = Front(@)]

(* compile_while: the test is at the bottom, the entry jumps to it *)
CompileWhile(g, e) ==
  LET top   == Fresh(g, 1)
      check == Fresh(g, 2)
      end   == Fresh(g, 3)
      entry == Jump(Within(NewLabels(g, 3), end, check, NoHint), check)
      body  == CompileDiscard(Here(entry, top), e.b)
      test  == BranchIf(Here(body, check), e.c, TRUE, top)
  IN Value(Outside(Here(test, end)), Unit)

CompileLoop(g, e) ==
  LET top   == Fresh(g, 1)
      end   == Fresh(g, 2)
      entry == Within(Value(NewLabels(g, 2), Unit), end, top, g.top)
      body  == Jump(CompileDiscard(Here(entry, top), e.b), top)
  IN Result(Outside(Here(body, end)), g.top)

Broken(g, into) == FreeIfTemp(IF into = NoHint THEN g ELSE Mov(g, into, g.r), g.r)
CompileBreak(g, e) ==
  AllocTemp(Jump(IF e.e = Absent THEN g ELSE Broken(CompileExpr(g, e.e), Last(g.loops).result),
                 Last(g.loops).brk))

CompileRetValue(g, e) == IF e = Absent THEN Load(g, ReturnTarget(g), Unit)
                         ELSE CompileInto(g, e, ReturnTarget(g))

(* compile_block_stmts: a value in a dying local is copied out first *)
\* Mutant: a value in a local of the block is left where it is.
NotRescued(g, outer) == g
Rescued(g, outer) == IF g.r >= outer.locals /\ g.r < outer.base
                     THEN Mov(AllocTemp(g), g.top, g.r) ELSE g
Closed(g, outer, want) ==
  IF ~want THEN Unwound(g, outer)
  ELSE IF g.r < 0 THEN Value(Unwound(g, outer), Unit)
  ELSE Unwound(Rescued(g, outer), outer)
CompileBlock(g, e, want) == Closed(CompileStmts(g, e.ss, want), g, want)

(* ------------------------------- patterns ------------------------------ *)
RECURSIVE AllocNames(_, _), CopyNames(_, _, _, _), CompileAlts(_, _, _, _, _, _, _)
AllocNames(g, names) ==
  IF names = <<>> THEN g ELSE AllocNames(AllocLocal(g), Tail(names))
(* the names of one alternative, put in scope after mark, into to, to + 1, ... *)
CopyNames(g, names, to, mark) ==
  IF names = <<>> THEN g
  ELSE CopyNames(Mov(g, to, LocalReg([g EXCEPT !.scope = SubSeq(@, mark + 1, Len(@))], names[1])),
                 Tail(names), to + 1, mark)
CompileAlts(g, alts, rs, names, canon, matched, fail) ==
  LET last == Len(alts) = 1
      next == IF last THEN fail ELSE Fresh(g, 1)
      test == CompilePattern(NewLabels(g, IF last THEN 0 ELSE 1), alts[1], rs, next)
      done == [CopyNames(test, names, canon, Len(g.scope))
                 EXCEPT !.locals = canon + Len(names), !.scope = g.scope]
  IN IF last THEN done
     ELSE CompileAlts(Here(Jump(done, matched), next), Tail(alts), rs, names, canon, matched, fail)

CompileOr(g, p, names, rs, fail) ==
  LET alts == CompileAlts(AllocNames(NewLabels(g, 1), names), p.alts, rs, names,
                          g.locals, Fresh(g, 1), fail)
  IN [Here(alts, Fresh(g, 1)) EXCEPT !.scope = @ \o
        [i \in 1 .. Len(names) |-> [n |-> names[i], r |-> g.locals + i - 1]]]

Test(g, v, op, rs, fail) ==
  FreeIfTemp(Branch(Value(g, v), op, rs, g.top, fail), g.top)

(* compile_pattern_test: falls through with the names bound, or to fail *)
CompilePattern(g, p, rs, fail) ==
  CASE p.k = "any"  -> g
    [] p.k = "name" -> Named(g, p.n, rs)
    [] p.k = "bind" ->
         CompilePattern(Named(Mov(AllocLocal(g), g.locals, rs), p.n, g.locals),
                        p.sub, g.locals, fail)
    [] p.k = "lit"  ->
         FreeIfTemp(Branch(Op3(Value(g, p.v), "EQ", g.top, rs, g.top), "BF", g.top, 0, fail), g.top)
    [] p.k = "range" ->
         Test(Test(g, IntV(p.lo), "BLT", rs, fail),
              IntV(p.hi), IF p.excl THEN "BGE" ELSE "BGT", rs, fail)
    [] p.k = "or"   -> CompileOr(g, p, SetToSeq(PatternNames(p)), rs, fail)

(***************************************************************************)
(* The arms of a match.  how is what becomes of a body: its value goes to  *)
(* the result register, is discarded, or leaves the function.              *)
(***************************************************************************)
ArmBody(g, a, how, result, end) ==
  CASE how = "tail"    -> CompileTail(g, a.b)
    [] how = "discard" -> Jump(CompileDiscard(g, a.b), end)
    [] OTHER           -> Jump(Arrive(g, a.b, result), end)
Guard(g, a, next) == IF a.g = Absent THEN g ELSE BranchIf(g, a.g, FALSE, next)
CompileArm(g, a, rs, how, result, end) ==
  LET next == Fresh(g, 1)
      test == CompilePattern(NewLabels(g, 1), a.p, rs, next)
  IN Unwound(Here(ArmBody(Guard(test, a, next), a, how, result, end), next), g)
CompileArms(g, arms, rs, how, result, end) ==
  IF arms = <<>> THEN g
  ELSE CompileArms(CompileArm(g, arms[1], rs, how, result, end), Tail(arms), rs, how, result, end)

CompileMatch(g, e, how) ==
  LET rs   == g.locals
      end  == Fresh(g, 1)
      from == CompileInto(NewLabels(AllocLocal(g), 1), e.e, rs)
      arms == CompileArms(IF how = "value" THEN AllocTemp(from) ELSE from,
                          e.arms, rs, how, g.top, end)
  IN Result([CASE how = "value"   -> Here(Load(arms, g.top, Unit), end)
               [] how = "discard" -> Here(arms, end)
               [] OTHER           -> TailNil(arms) EXCEPT !.locals = g.locals], g.top)

(* -------------------------------- calls -------------------------------- *)
(* Arguments one after another; copied asks for each in a temporary (the   *)
(* tail calls), regs collects where each one is.                           *)
NextArg(g, args, copied, regs) == CompileArgs(g, args, copied, Append(regs, g.r))
CompileArgs(g, args, copied, regs) ==
  IF args = <<>> THEN [g EXCEPT !.args = regs]
  ELSE NextArg(IF copied THEN InTemp(CompileExpr(g, args[1])) ELSE CompileExpr(g, args[1]),
               Tail(args), copied, regs)

RECURSIVE MoveArgs(_, _, _), FreeArgs(_, _)
MoveArgs(g, regs, to) ==
  IF regs = <<>> THEN g ELSE MoveArgs(Op3(g, "MOV", to, regs[1], 0), Tail(regs), to + 1)
FreeArgs(g, regs) == IF regs = <<>> THEN g ELSE FreeArgs(FreeIfTemp(g, Last(regs)), Front(regs))

Passed(g, to, i) == Put(FreeArgs(MoveArgs(g, g.args, to), g.args), i)
TakeResult(g) == Op3(AllocTemp(g), "MOV_TAKE", g.top, g.frame, 0)
CompileCall(g, e) ==
  LET call == Passed(CompileArgs(g, e.args, FALSE, <<>>), g.frame, [op |-> "CALL", fn |-> e.fn])
  IN IF g.frame + Len(e.args) > MaxFrame + 1 THEN Fail(g, "window")
     ELSE TakeResult(call)

\* Mutant: a tail call is a call and a return.
PlainTailCall(g, e) == EmitReturnJump(Moved(CompileCall(g, e), 0))
EmitTailCall(g, e) ==
  Passed(CompileArgs(g, e.args, TRUE, <<>>), 0, [op |-> "TCO_CALL", fn |-> e.fn])

RECURSIVE InlineArgs(_, _)
InlineArgs(g, args) ==
  IF args = <<>> THEN g
  ELSE InlineArgs(CompileInto(AllocLocal(g), args[1], g.locals), Tail(args))

(* compile_inline: result, arguments in locals, then the body in a scope   *)
(* of its own, as a value                                                  *)
Inside(g, f, outer) ==
  [g EXCEPT !.scope = [i \in 1 .. Len(f.params) |->
                         [n |-> f.params[i], r |-> outer.locals + i - 1]],
            !.loops = <<>>, !.depth = @ + 1,
            !.inl = Append(@, [result |-> outer.top, exit |-> Fresh(outer, 1)])]
Back(g, outer) == [g EXCEPT !.inl = outer.inl, !.depth = outer.depth, !.loops = outer.loops,
                            !.scope = outer.scope, !.locals = outer.locals]
CompileInline(g, e, f) ==
  LET args == InlineArgs(AllocTemp(NewLabels(g, 1)), e.args)
  IN Result(Back(Here(Arrive(Inside(args, f, g), f.body, g.top), Fresh(g, 1)), g), g.top)

(* try_inline_call: the measure permitted the site, and the depth allows it *)
Inlines(g, e) == /\ g.p.inlining /\ g.depth < MaxDepth
                 /\ e.id \in g.p.sites /\ Expandable(g.p.fns, e)

(* ----------------------------- the four walks -------------------------- *)
ExprWalk(g, e) ==
  CASE e.k \in {"int", "bool"} -> Value(g, ValueOf(e))
    [] e.k = "id"    -> Result(g, LocalReg(g, e.n))
    [] e.k \in {"neg", "not"} -> CompileUnary(g, e, NoHint)
    [] e.k = "bin"   -> IF e.op \in {"&&", "||"} THEN CompileShortCircuit(g, e)
                        ELSE IF e.op \in Comparisons THEN CompileComparison(g, e, NoHint)
                        ELSE CompileArith(g, e, NoHint)
    [] e.k = "if"    -> CompileIf(g, e)
    [] e.k = "while" -> CompileWhile(g, e)
    [] e.k = "loop"  -> CompileLoop(g, e)
    [] e.k = "block" -> CompileBlock(g, e, TRUE)
    [] e.k = "call"  -> IF Inlines(g, e) THEN CompileInline(g, e, g.p.fns[e.fn])
                        ELSE CompileCall(g, e)
    [] e.k = "match" -> CompileMatch(g, e, "value")
    [] e.k = "return" -> AllocTemp(EmitReturnJump(CompileRetValue(g, e.e)))
    [] e.k = "break" -> CompileBreak(g, e)
    [] e.k = "continue" -> AllocTemp(Jump(g, Last(g.loops).cont))

(* compile_into: an operator writes its destination without a temporary *)
IntoWalk(g, e, dst) ==
  CASE e.k \in {"neg", "not"} -> CompileUnary(g, e, dst)
    [] e.k = "bin" /\ e.op \in Comparisons -> CompileComparison(g, e, dst)
    [] e.k = "bin" /\ e.op \in {"+", "-", "*"} -> CompileArith(g, e, dst)
    [] OTHER -> Moved(CompileExpr(g, e), dst)

Dropped(g) == FreeIfTemp(g, g.r)
DiscardWalk(g, e) ==
  CASE e.k = "block" -> CompileBlock(g, e, FALSE)
    [] e.k = "if"    -> CompileIfDiscard(g, e)
    [] e.k = "match" -> CompileMatch(g, e, "discard")
    [] OTHER         -> Dropped(CompileExpr(g, e))

\* Mutant: a compound assignment leaves its result in the operand's temporary.
CompoundIntoTemp(g, op, reg) == FreeIfTemp(Op3(g, op, g.r, reg, g.r), g.r)
Compound(g, op, reg) == FreeIfTemp(Op3(g, op, reg, reg, g.r), g.r)
CompileStmt(g, s) ==
  CASE s.k = "do" -> CompileDiscard(g, s.e)
    [] s.k = "let" /\ s.n = "_" -> Dropped(CompileExpr(g, s.e))
    [] s.k = "let" -> Named(CompileInto(AllocLocal(g), s.e, g.locals), s.n, g.locals)
    [] s.k = "set" /\ s.op = "=" -> CompileInto(g, s.e, LocalReg(g, s.n))
    [] s.k = "set" /\ s.op \in {"+", "-"} /\ IsOne(s.e) ->
         Op3(g, IF s.op = "+" THEN "INCR" ELSE "DECR", LocalReg(g, s.n), 0, 0)
    [] OTHER -> Compound(CompileExpr(g, s.e), ArithOp(s.op), LocalReg(g, s.n))

(* The statements of a block; r ends as the value's register, -1 for none. *)
CompileStmts(g, ss, want) ==
  CASE ss = <<>> -> Result(g, -1)
    [] ss # <<>> /\ (Len(ss) > 1 \/ ss[1].k # "do") ->
         CompileStmts(CompileStmt(g, ss[1]), Tail(ss), want)
    [] OTHER -> IF want THEN CompileExpr(g, ss[1].e) ELSE Result(CompileDiscard(g, ss[1].e), -1)

RECURSIVE LeadingStmts(_, _)
LeadingStmts(g, ss) ==
  IF ss = <<>> THEN g ELSE LeadingStmts(CompileStmt(g, ss[1]), Tail(ss))

(* compile_tail: every path of it leaves the function *)
CompileTailBlock(g, ss) ==
  Unwound(IF ss # <<>> /\ Last(ss).k = "do"
          THEN CompileTail(LeadingStmts(g, Front(ss)), Last(ss).e)
          ELSE TailNil(LeadingStmts(g, ss)), g)

TailWalk(g, e) ==
  CASE e.k = "block"  -> CompileTailBlock(g, e.ss)
    [] e.k = "if"     ->
         LET then == Here(CompileTail(BranchIf(NewLabels(g, 1), e.c, FALSE, Fresh(g, 1)), e.t),
                          Fresh(g, 1))
         IN IF e.f = Absent THEN TailNil(then) ELSE CompileTail(then, e.f)
    [] e.k = "match"  -> CompileMatch(g, e, "tail")
    [] e.k = "return" -> IF e.e = Absent THEN TailNil(g) ELSE CompileTail(g, e.e)
    [] e.k = "call"   -> EmitTailCall(g, e)
    [] OTHER          -> EmitReturnJump(CompileRetValue(g, e))

Compile(g, e, to) ==
  CASE g.bad # ""    -> g
    [] to = Anywhere -> ExprWalk(g, e)
    [] to = Nowhere  -> DiscardWalk(g, e)
    [] to = Out      -> TailWalk(g, e)
    [] to = Script   -> CompileStmts(g, e.ss, TRUE)
    [] OTHER         -> IntoWalk(g, e, to)

(* ------------------------------- the module ---------------------------- *)
BeginFrame(g, f, plan, ps) ==
  IF plan.frame > MaxFrame THEN Fail(g, "too big")
  ELSE [g EXCEPT !.entry[f] = Len(g.code) + 1, !.base = plan.locals, !.top = plan.locals,
                 !.frame = plan.frame, !.locals = Len(ps),
                 !.scope = [i \in 1 .. Len(ps) |-> [n |-> ps[i], r |-> i - 1]]]

(* compile_function leaves by RET or TCO_CALL on every path; the script    *)
(* (compile_top_level) leaves its value in r0 and halts.                   *)
Halted(g) == Put(IF g.r < 0 THEN Load(g, 0, Unit) ELSE Mov(g, 0, g.r), [op |-> "HALT"])
RECURSIVE CompileAll(_, _)
CompileAll(g, order) ==
  LET f    == order[1]
      in   == BeginFrame(g, f, g.p.plans[f], g.p.fns[f].params)
      body == Compile(in, g.p.fns[f].body, IF f = "main" THEN Script ELSE Out)
  IN IF order = <<>> THEN g
     ELSE CompileAll(IF f = "main" THEN Halted(body) ELSE body, Tail(order))

(* generate: plan every function, then the script; emit the script first *)
NoPlan == [locals |-> 0, temps |-> 0, frame |-> 0, sites |-> {}, width |-> 0]
Planned(fns, order, inlining) ==
  PlanAll(fns, Append(order, "main"), inlining,
          [plans |-> [f \in DOMAIN fns |-> NoPlan], sites |-> {}])
Blank == [code |-> <<>>, lab |-> <<>>, locals |-> 0, top |-> 0, base |-> 0, frame |-> 0,
          scope |-> <<>>, loops |-> <<>>, inl |-> <<>>, depth |-> 0, args |-> <<>>,
          bad |-> "", l |-> -1, r |-> -1]
Emitter(fns, inlining, got) ==
  Blank @@ [entry |-> [f \in DOMAIN fns |-> 0],
            p |-> [fns |-> fns, plans |-> got.plans, sites |-> got.sites, inlining |-> inlining]]
Generate(fns, order, inlining) ==
  CompileAll(Emitter(fns, inlining, Planned(fns, order, inlining)), <<"main">> \o order)
=============================================================================
