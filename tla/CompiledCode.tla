---------------------------- MODULE CompiledCode ----------------------------
(***************************************************************************)
(* A compiled program at work: the code Codegen made, executed by the      *)
(* loop of vmcore/Interpreter.h.  The register file is one array; a        *)
(* function sees the window of it that starts at win.  A call slides the   *)
(* window by the caller's frame, so that its outgoing arguments are the    *)
(* callee's first registers; a tail call stays where it is.                *)
(***************************************************************************)
EXTENDS Codegen

CONSTANTS
  Programs,      \* records [fns, order, flat]: the functions, and whether every call
                 \* outside the script is a tail call
  Registers      \* bound: the register file's size

VARIABLES
  prog, inlining,       \* the program, and whether the inliner is on
  m,                    \* its module: code, labels, entries, frames
  pc, win, cfs,         \* ip, window, current frame size
  regs, rets,           \* the register file; the return and frame-size stacks
  done                  \* "" while it runs

vars == <<prog, inlining, m, pc, win, cfs, regs, rets, done>>

Empty == <<"Undefined">>

Linked(g) == [code |-> g.code, lab |-> g.lab, entry |-> g.entry, bad |-> g.bad,
              frame |-> [f \in DOMAIN g.p.fns |-> g.p.plans[f].frame]]
Module(p, inl) == Linked(Generate(p.fns, p.order, inl))

Init == /\ prog \in Programs /\ inlining \in BOOLEAN
        /\ m = Module(prog, inlining)
        /\ pc = 1 /\ win = 0 /\ cfs = m.frame["main"]
        /\ regs = [i \in 0 .. Registers - 1 |-> Empty]
        /\ rets = <<>>
        /\ done = IF m.bad = "" THEN "" ELSE "refused"

Ip == m.code[pc]
Runs(ops) == done = "" /\ Ip.op \in ops
R(i) == regs[win + i]
Set(d, v) == regs' = [regs EXCEPT ![win + d] = v]
Onward == pc' = pc + 1
Still == UNCHANGED <<prog, inlining, m, done>>
SameFrame == UNCHANGED <<win, cfs, rets>>

(* Registers from lo to hi of the window are emptied. *)
Cleared(r, lo, hi) ==
  [i \in DOMAIN r |-> IF win + lo <= i /\ i <= win + hi THEN Empty ELSE r[i]]

Moves == /\ Runs({"LOAD", "MOV", "MOV_TAKE"})
         /\ CASE Ip.op = "LOAD" -> Set(Ip.d, Ip.v)
              [] Ip.op = "MOV"  -> Set(Ip.d, R(Ip.a))
              [] OTHER -> regs' = [regs EXCEPT ![win + Ip.d] = R(Ip.a), ![win + Ip.a] = Empty]
         /\ Onward /\ Still /\ SameFrame

Arithmetic ==
  /\ Runs({"ADD", "SUB", "MUL", "INCR", "DECR", "NEG", "NOT"})
  /\ LET a == R(Ip.a) b == R(Ip.b) d == R(Ip.d)
     IN Set(Ip.d, CASE Ip.op = "ADD"  -> Applied("+", a, b)
                    [] Ip.op = "SUB"  -> Applied("-", a, b)
                    [] Ip.op = "MUL"  -> Applied("*", a, b)
                    [] Ip.op = "INCR" -> IntV(d[2] + 1)
                    [] Ip.op = "DECR" -> IntV(d[2] - 1)
                    [] Ip.op = "NEG"  -> IntV(-a[2])
                    [] OTHER          -> BoolV(~a[2]))
  /\ Onward /\ Still /\ SameFrame

Comparison ==
  /\ Runs({"SET_EQ", "SET_LT", "SET_LE", "EQ", "NE"})
  /\ LET op == CASE Ip.op \in {"SET_EQ", "EQ"} -> "==" [] Ip.op = "NE" -> "!="
                 [] Ip.op = "SET_LT" -> "<" [] OTHER -> "<="
     IN Set(Ip.d, Applied(op, R(Ip.a), R(Ip.b)))
  /\ Onward /\ Still /\ SameFrame

Taken ==
  CASE Ip.op = "J"   -> TRUE
    [] Ip.op = "BT"  -> R(Ip.a)[2]
    [] Ip.op = "BF"  -> ~R(Ip.a)[2]
    [] Ip.op = "BEQ" -> Related("==", R(Ip.a), R(Ip.b))
    [] Ip.op = "BNE" -> Related("!=", R(Ip.a), R(Ip.b))
    [] Ip.op = "BLT" -> Related("<", R(Ip.a)[2], R(Ip.b)[2])
    [] Ip.op = "BGT" -> Related(">", R(Ip.a)[2], R(Ip.b)[2])
    [] OTHER         -> Related(">=", R(Ip.a)[2], R(Ip.b)[2])

Branches == /\ Runs({"J", "BT", "BF", "BEQ", "BNE", "BLT", "BGT", "BGE"})
            /\ pc' = IF Taken THEN m.lab[Ip.to] ELSE pc + 1
            /\ UNCHANGED regs /\ Still /\ SameFrame

Call == /\ Runs({"CALL"})
        /\ rets' = Append(rets, [pc |-> pc + 1, win |-> win, cfs |-> cfs])
        /\ win' = win + cfs
        /\ cfs' = m.frame[Ip.fn]
        /\ pc' = m.entry[Ip.fn]
        /\ UNCHANGED regs /\ Still

(* A reused frame that shrinks leaves nothing behind. *)
TailCall == /\ Runs({"TCO_CALL"})
            /\ regs' = Cleared(regs, m.frame[Ip.fn], cfs - 1)
            /\ cfs' = m.frame[Ip.fn]
            /\ pc' = m.entry[Ip.fn]
            /\ UNCHANGED <<win, rets>> /\ Still

\* Mutant: the dying frame is left as it is.
LeavesItsFrame ==
  /\ Runs({"RET"})
  /\ pc' = Last(rets).pc /\ win' = Last(rets).win /\ cfs' = Last(rets).cfs
  /\ rets' = Front(rets)
  /\ UNCHANGED regs /\ Still

(* The dying frame is cleared, but for r0, the value returned. *)
Return == /\ Runs({"RET"})
          /\ regs' = Cleared(regs, 1, cfs - 1)
          /\ pc' = Last(rets).pc /\ win' = Last(rets).win /\ cfs' = Last(rets).cfs
          /\ rets' = Front(rets)
          /\ Still

Halt == /\ Runs({"HALT"})
        /\ done' = "halt"
        /\ UNCHANGED <<prog, inlining, m, pc, win, cfs, regs, rets>>

Next == \/ Moves \/ Arithmetic \/ Comparison \/ Branches
        \/ Call \/ TailCall \/ Return \/ Halt

Spec == Init /\ [][Next]_vars /\ WF_vars(Next)

(* ------------------------------ properties ----------------------------- *)
(* A program ends with the value the reference interpreter gives it, with  *)
(* and without the inliner (RefEval.h: a codegen bug yields a wrong value  *)
(* on the VM path), and the compiler gives up on none: the frame measured  *)
(* is the frame used (Codegen.cpp, alloc_temp, alloc_local), and what the  *)
(* inliner makes too wide is compiled without it (plan_with_inline_retry). *)
SameAnswer == /\ m.bad = ""
              /\ done = "halt" => R(0) = Meaning(prog.fns).v

(* Above the running frame there is nothing but a call being made: the     *)
(* arguments on their way out, then the result until it is taken.  The     *)
(* collector looks no further than the frame (Interpreter.h, RET).         *)
AboveTheFrame ==
  (done = "" /\ \E i \in win + cfs .. Registers - 1 : regs[i] # Empty)
    => \/ Ip.op = "MOV" /\ Ip.d >= cfs
       \/ Ip.op \in {"CALL", "MOV_TAKE"}

(* Where every call of a function is a tail call, the stack of returns     *)
(* never holds more than the script's own call, however long it runs.      *)
TailCallsKeepTheStack == prog.flat => Len(rets) <= 1

(* The registers and the stack of returns hold what the running frames need,
   and no more. *)
FramesAreTight == AboveTheFrame /\ TailCallsKeepTheStack

(* Every program the reference interpreter finishes is finished: each loop *)
(* and each early exit of the code goes where the tree says.               *)
Finishes == <>(done # "")
=============================================================================
