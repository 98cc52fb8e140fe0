------------------------------ MODULE FramePlan ------------------------------
(***************************************************************************)
(* The measure pass of static_compiler/Codegen.cpp: how many registers the *)
(* frame of a function needs, computed before a single instruction is      *)
(* emitted.  A need has a temporary part (the most temporaries alive at    *)
(* once) and a local part (the highest local, counted from base), and      *)
(* carries what the walk writes down on its way: the call sites it permits *)
(* to be expanded inline and the widest call.  The memo of the walk is     *)
(* left out: it changes what the walk costs, never what it answers.        *)
(***************************************************************************)
EXTENDS SkarnOracle, FiniteSetsExt

CONSTANTS
  MaxFrame,      \* the widest frame an instruction can address (63)
  MaxNodes,      \* inline_max_nodes_: the largest body that is expanded
  MaxDepth       \* inline_max_depth_: expansions inside expansions

ASSUME FrameAssumption == MaxFrame \in Nat \ {0} /\ MaxNodes \in Nat /\ MaxDepth \in Nat

Larger(a, b) == IF a > b THEN a ELSE b

(* --------------------- which callees may be expanded ------------------- *)
RECURSIVE Nodes(_), SumNodes(_), StmtNodes(_), SumStmts(_), SumArms(_)
SumNodes(es) == IF es = <<>> THEN 0 ELSE Nodes(es[1]) + SumNodes(Tail(es))
SumStmts(ss) == IF ss = <<>> THEN 0 ELSE StmtNodes(ss[1]) + SumStmts(Tail(ss))
SumArms(arms) == IF arms = <<>> THEN 0
                 ELSE Nodes(arms[1].g) + Nodes(arms[1].b) + SumArms(Tail(arms))
StmtNodes(t) == 1 + Nodes(t.e) + (IF t.k = "set" THEN 1 ELSE 0)
Nodes(e) ==
  CASE e.k = "absent" -> 0
    [] e.k \in {"neg", "not", "return", "break"} -> 1 + Nodes(e.e)
    [] e.k = "bin"    -> 1 + Nodes(e.l) + Nodes(e.r)
    [] e.k = "if"     -> 1 + Nodes(e.c) + Nodes(e.t) + Nodes(e.f)
    [] e.k = "while"  -> 1 + Nodes(e.c) + Nodes(e.b)
    [] e.k = "loop"   -> 1 + Nodes(e.b)
    [] e.k = "block"  -> 1 + SumStmts(e.ss)
    [] e.k = "call"   -> 2 + SumNodes(e.args)
    [] e.k = "match"  -> 1 + Nodes(e.e) + SumArms(e.arms)
    [] OTHER          -> 1

Expandable(fns, e) ==
  /\ Len(fns[e.fn].params) = Len(e.args)
  /\ Nodes(fns[e.fn].body) <= MaxNodes

(* ------------------------------- needs --------------------------------- *)
Need(t, lp, parts) ==
  [t |-> t, lp |-> lp,
   sites |-> UNION {n.sites : n \in parts},
   width |-> Max({0} \cup {n.width : n \in parts})]

HighestT(parts)  == Max({0} \cup {n.t : n \in parts})
HighestLp(base, parts) == Max({base} \cup {n.lp : n \in parts})

(* measure_pattern: temporaries a test uses, locals its names take *)
RECURSIVE PatternNames(_), PatternNeed(_)
PatternNames(p) ==
  CASE p.k = "name" -> {p.n}
    [] p.k = "bind" -> {p.n} \cup PatternNames(p.sub)
    [] p.k = "or"   -> UNION {PatternNames(p.alts[i]) : i \in 1 .. Len(p.alts)}
    [] OTHER        -> {}
PatternNeed(p) ==
  CASE p.k \in {"lit", "range"} -> [t |-> 1, n |-> 0]
    [] p.k \in {"any", "name"}  -> [t |-> 0, n |-> 0]
    [] p.k = "bind" -> [t |-> PatternNeed(p.sub).t, n |-> 1 + PatternNeed(p.sub).n]
    [] p.k = "or"   ->
         LET alts == {PatternNeed(p.alts[i]) : i \in 1 .. Len(p.alts)}
         IN [t |-> Max({a.t : a \in alts}),
             n |-> Cardinality(PatternNames(p)) + Max({a.n : a \in alts})]

(* need_call: every argument is held while the later ones are computed;   *)
(* need_indirect_call, which measures every call, holds the callee as well *)
RECURSIVE Held(_, _)
Held(needs, held) ==
  IF needs = <<>> THEN Larger(held, 1)
  ELSE Larger(held + Larger(needs[1].t, 1), Held(Tail(needs), held + 1))

(***************************************************************************)
(* m: the program's functions, whether expansion is on, and depth, how     *)
(* many expansions the walk is inside of.                                  *)
(***************************************************************************)
RECURSIVE MeasureExpr(_, _, _), MeasureStmts(_, _, _, _), MeasureSite(_, _, _),
          MeasureArgs(_, _, _)

(* measure_inline_site: the result first, then one local per parameter *)
MeasureSite(m, e, base) ==
  LET n    == Len(e.args)
      args == [i \in 1 .. n |-> MeasureExpr(m, e.args[i], base + i)]
      body == MeasureExpr([m EXCEPT !.depth = @ + 1], m.fns[e.fn].body, base + n)
      all  == {args[i] : i \in 1 .. n} \cup {body}
  IN Need(1 + HighestT(all), HighestLp(base + n, all), all)

MeasureArgs(m, args, base) == [i \in 1 .. Len(args) |-> MeasureExpr(m, args[i], base)]

MeasureCall(m, e, base) ==
  LET args == MeasureArgs(m, e.args, base)
      all  == {args[i] : i \in 1 .. Len(args)}
      call == Need(1 + Held(args, 0), HighestLp(base, all), all)
      open == [call EXCEPT !.width = Larger(@, Len(e.args))]
      site == MeasureSite(m, e, base)
      both == Need(Larger(open.t, site.t), Larger(open.lp, site.lp), {open, site})
  IN IF m.inlining /\ m.depth < MaxDepth /\ Expandable(m.fns, e)
     THEN [both EXCEPT !.sites = @ \cup {e.id}]
     ELSE open

MeasureBinary(m, e, base) ==
  LET a == MeasureExpr(m, e.l, base)
      c == MeasureExpr(m, e.r, base)
      t == IF e.op \in {"&&", "||"} THEN Larger(Larger(a.t, 1), 1 + c.t)
           ELSE Larger(a.t, Larger((IF a.t > 0 THEN 1 ELSE 0) + c.t, 1))
  IN Need(t, HighestLp(base, {a, c}), {a, c})

MeasureMatch(m, e, base) ==
  LET scrut == MeasureExpr(m, e.e, base + 1)
      arm(i) ==
        LET p    == PatternNeed(e.arms[i].p)
            at   == base + 1 + p.n
            all  == {MeasureExpr(m, x, at) : x \in {e.arms[i].g, e.arms[i].b} \ {Absent}}
        IN Need(Larger(p.t, HighestT(all)), HighestLp(at, all), all)
      arms == {arm(i) : i \in 1 .. Len(e.arms)}
  IN Need(Larger(scrut.t, 1 + HighestT(arms)), HighestLp(base + 1, arms \cup {scrut}),
          arms \cup {scrut})

MeasureExpr(m, e, base) ==
  CASE e.k \in {"int", "bool", "continue"} -> Need(1, base, {})
    [] e.k = "id"    -> Need(0, base, {})
    [] e.k \in {"neg", "not"} ->
         LET o == MeasureExpr(m, e.e, base) IN Need(Larger(1, o.t), o.lp, {o})
    [] e.k = "bin"   -> MeasureBinary(m, e, base)
    [] e.k = "if"    ->
         LET all == {MeasureExpr(m, x, base) : x \in {e.c, e.t, e.f} \ {Absent}}
         IN Need(1 + HighestT(all), HighestLp(base, all), all)
    [] e.k = "while" ->
         LET all == {MeasureExpr(m, x, base) : x \in {e.c, e.b}}
         IN Need(Larger(HighestT(all), 1), HighestLp(base, all), all)
    [] e.k = "loop"  ->
         LET b == MeasureExpr(m, e.b, base) IN Need(1 + b.t, b.lp, {b})
    [] e.k = "block" -> MeasureStmts(m, e.ss, base, Need(1, base, {}))
    [] e.k = "call"  -> MeasureCall(m, e, base)
    [] e.k = "match" -> MeasureMatch(m, e, base)
    [] e.k \in {"return", "break"} ->
         IF e.e = Absent THEN Need(1, base, {})
         ELSE LET v == MeasureExpr(m, e.e, base)
              IN Need(IF e.k = "break" THEN Larger(1, v.t) ELSE v.t, v.lp, {v})

(* measure_stmts: a let's own local is below its initializer's *)
MeasureStmts(m, ss, base, sofar) ==
  IF ss = <<>> THEN sofar
  ELSE LET own == IF ss[1].k = "let" /\ ss[1].n # "_" THEN 1 ELSE 0
           n   == MeasureExpr(m, ss[1].e, base + own)
           all == {sofar, n}
       IN MeasureStmts(m, Tail(ss), base + own,
                       Need(HighestT(all), HighestLp(base + own, all), all))

(* ------------------------- tail calls and plans ------------------------ *)
RECURSIVE TailCalls(_)
TailCalls(e) ==
  CASE e.k = "block"  -> IF e.ss # <<>> /\ e.ss[Len(e.ss)].k = "do"
                         THEN TailCalls(e.ss[Len(e.ss)].e) ELSE {}
    [] e.k = "if"     -> TailCalls(e.t) \cup TailCalls(e.f)
    [] e.k = "match"  -> UNION {TailCalls(e.arms[i].b) : i \in 1 .. Len(e.arms)}
    [] e.k = "return" -> TailCalls(e.e)
    [] e.k = "call"   -> {e}
    [] OTHER          -> {}

(* plan_function: room to stage the arguments of a tail call; the script   *)
(* (plan_top_level) makes none.                                            *)
PlanOnce(fns, f, inlining) ==
  LET np    == Len(fns[f].params)
      n     == MeasureExpr([fns |-> fns, inlining |-> inlining, depth |-> 0], fns[f].body, np)
      calls == IF f = "main" THEN {} ELSE TailCalls(fns[f].body)
      self  == {c \in calls : c.fn = f /\ Len(c.args) = np}
      other == {Len(c.args) : c \in calls \ self}
      stage == {np : c \in self} \cup {x + 1 : x \in other \ {0}}
      peak  == Max({n.t} \cup stage)
  IN [locals |-> n.lp, temps |-> peak, frame |-> Larger(1, n.lp + peak),
      sites |-> n.sites, width |-> n.width]

PlanFits(p) == p.frame <= MaxFrame /\ p.frame + Larger(p.width, 1) <= MaxFrame + 1

(***************************************************************************)
(* plan_with_inline_retry over the functions in order, the script last:    *)
(* sites is inline_sites_, one set for the whole program.  A frame that    *)
(* does not fit gives up the sites of its own walk and is measured again.  *)
(***************************************************************************)
RECURSIVE PlanAll(_, _, _, _)
PlanAll(fns, order, inlining, got) ==
  IF order = <<>> THEN got
  ELSE LET f == order[1]
           p == PlanOnce(fns, f, inlining)
           q == PlanOnce(fns, f, FALSE)
           next == IF PlanFits(p) \/ ~inlining
                   THEN [got EXCEPT !.plans[f] = p, !.sites = @ \cup p.sites]
                   ELSE [got EXCEPT !.plans[f] = q, !.sites = @ \ p.sites]
       IN PlanAll(fns, Tail(order), inlining, next)
=============================================================================
