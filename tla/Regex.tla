-------------------------------- MODULE Regex --------------------------------
(***************************************************************************)
(* The engine of regular expressions (std/regex.skn): a pattern's tree is  *)
(* compiled to a program of a Thompson machine, which is run over the      *)
(* subject with a list of threads in order of priority, one per place of   *)
(* the program, each with the positions it has saved.                      *)
(*                                                                         *)
(* Trees are tuples: <<"byte", c>>, <<"any">>, <<"start">>, <<"end">>,     *)
(* <<"empty">>, <<"cat", x, y>>, <<"alt", x, y>>, <<"star", x, greedy>>,   *)
(* <<"plus", x, greedy>>, <<"opt", x, greedy>>, <<"group", n, x>>.         *)
(* Positions and places of the program count from 0.                       *)
(***************************************************************************)
EXTENDS Integers, Sequences, FiniteSets, SequencesExt

CONSTANTS Patterns,   \* trees that the parser can make
          Subjects,   \* the texts that are searched: sequences of bytes
          NewLine     \* the byte that `.` does not match

VARIABLES prog,     \* the compiled pattern
          tree,     \* what it was compiled from
          text,
          multi,    \* the flag `m`
          from,     \* where this search began
          sp,       \* the next byte
          threads,  \* those at sp, the most wanted first: [pc, saves]
          best,     \* the saves of the best match so far, or <<>>
          found     \* the matches of the searches before this one

vars == <<prog, tree, text, multi, from, sp, threads, best, found>>

n == Len(text)

-----------------------------------------------------------------------------
(* The highest number of a group in a tree. *)
RECURSIVE Groups(_)
Groups(a) ==
    CASE a[1] \in {"cat", "alt"} -> LET l == Groups(a[2])
                                        r == Groups(a[3])
                                    IN  IF l > r THEN l ELSE r
      [] a[1] \in {"star", "plus", "opt"} -> Groups(a[2])
      [] a[1] = "group" -> IF Groups(a[3]) > a[2] THEN Groups(a[3]) ELSE a[2]
      [] OTHER -> 0

(* A fault: the non-greedy forms are compiled as the greedy ones. *)
SplitGreedy(greedy, into, past) == <<"split", into, past>>

(* A choice, the wanted way first. *)
Split(greedy, into, past) == IF greedy THEN <<"split", into, past>> ELSE <<"split", past, into>>

(* _rxCompile: the instructions of a tree from place pc on. *)
RECURSIVE Code(_, _)
Code(a, pc) ==
    CASE a[1] = "empty" -> <<>>
      [] a[1] \in {"byte", "any", "start", "end"} -> <<a>>
      [] a[1] = "cat" -> LET x == Code(a[2], pc) IN x \o Code(a[3], pc + Len(x))
      [] a[1] = "group" -> <<<<"save", 2 * a[2]>>>> \o Code(a[3], pc + 1)
                                                    \o <<<<"save", 2 * a[2] + 1>>>>
      [] a[1] = "alt" ->
             LET x  == Code(a[2], pc + 1)
                 bx == pc + Len(x) + 2
                 y  == Code(a[3], bx)
             IN  <<<<"split", pc + 1, bx>>>> \o x \o <<<<"jmp", bx + Len(y)>>>> \o y
      [] a[1] = "star" ->
             LET x == Code(a[2], pc + 1)
             IN  <<Split(a[3], pc + 1, pc + Len(x) + 2)>> \o x \o <<<<"jmp", pc>>>>
      [] a[1] = "plus" ->
             LET x == Code(a[2], pc)
             IN  x \o <<Split(a[3], pc, pc + Len(x) + 1)>>
      [] a[1] = "opt" ->
             LET x == Code(a[2], pc + 1)
             IN  <<Split(a[3], pc + 1, pc + Len(x) + 1)>> \o x

(* compileWith: the whole match is group 0. *)
Program(a) == LET body == Code(a, 1)
              IN  <<<<"save", 0>>>> \o body \o <<<<"save", 1>>, <<"accept">>>>

-----------------------------------------------------------------------------
(* The conditions on a position, and on a byte. *)
AtStart(pos) == pos = 0 \/ (multi /\ text[pos] = NewLine)
AtEnd(pos)   == pos = n \/ (multi /\ text[pos + 1] = NewLine)
Takes(inst, pos) == /\ pos < n
                    /\ \/ inst[1] = "byte" /\ text[pos + 1] = inst[2]
                       \/ inst[1] = "any" /\ text[pos + 1] # NewLine

Thread(pc, saves) == [pc |-> pc, saves |-> saves]

(* What a thread at a jump, a choice, a save or an anchor goes on to without
   a byte: the least wanted first, as it is pushed. *)
Onward(t, pos) ==
    LET i == prog[t.pc + 1]
        on == <<Thread(t.pc + 1, t.saves)>>
    IN  CASE i[1] = "jmp"   -> <<Thread(i[2], t.saves)>>
          [] i[1] = "split" -> <<Thread(i[3], t.saves), Thread(i[2], t.saves)>>
          [] i[1] = "save"  -> <<Thread(t.pc + 1, [t.saves EXCEPT ![i[2]] = pos])>>
          [] i[1] = "start" -> IF AtStart(pos) THEN on ELSE <<>>
          [] i[1] = "end"   -> IF AtEnd(pos) THEN on ELSE <<>>

Waits(t) == prog[t.pc + 1][1] \in {"byte", "any", "accept"}

(* A fault: the stack is a queue. *)
RECURSIVE AddQueued(_, _, _)
AddQueued(list, stack, pos) ==
    IF stack = <<>> THEN list
    ELSE LET t == Head(stack)
         IN  IF t.pc \in list.seen THEN AddQueued(list, Tail(stack), pos)
             ELSE LET l == [list EXCEPT !.seen = @ \cup {t.pc}]
                  IN  IF Waits(t) THEN AddQueued([l EXCEPT !.threads = Append(@, t)], Tail(stack), pos)
                      ELSE AddQueued(l, Tail(stack) \o Onward(t, pos), pos)

(* _rxAddThread: the threads that wait for a byte, or accept, behind those of
   a stack.  A place that was seen at this position is not visited again. *)
RECURSIVE Add(_, _, _)
Add(list, stack, pos) ==
    IF stack = <<>> THEN list
    ELSE LET t == Last(stack)
             rest == Front(stack)
         IN  IF t.pc \in list.seen THEN Add(list, rest, pos)
             ELSE LET l == [list EXCEPT !.seen = @ \cup {t.pc}]
                  IN  IF Waits(t) THEN Add([l EXCEPT !.threads = Append(@, t)], rest, pos)
                      ELSE Add(l, rest \o Onward(t, pos), pos)

Nobody == [threads |-> <<>>, seen |-> {}]
Fresh(saves) == <<Thread(0, saves)>>
Unset(a) == [slot \in 0..2 * Groups(a) + 1 |-> -1]

(* The accepting thread, with all that are less wanted, leaves the list. *)
Wanted == LET accepting == {i \in DOMAIN threads : prog[threads[i].pc + 1][1] = "accept"}
          IN  IF accepting = {} THEN Len(threads)
              ELSE (CHOOSE i \in accepting : \A j \in accepting : i <= j) - 1

-----------------------------------------------------------------------------
(* A search from `from`, before its first byte. *)
Begin(f) == /\ from' = f /\ sp' = f /\ best' = <<>>
            /\ threads' = Add(Nobody, Fresh(Unset(tree)), f).threads

Init == /\ tree \in Patterns /\ text \in Subjects /\ multi \in BOOLEAN
        /\ prog = Program(tree)
        /\ from = 0 /\ sp = 0 /\ best = <<>> /\ found = <<>>
        /\ threads = Add(Nobody, Fresh(Unset(tree)), 0).threads

(* The search is over: past the last byte, or nothing can improve its match. *)
Over == sp > n \/ (best # <<>> /\ threads = <<>>)

(* One round of _rxSearch: the threads take the byte, as far as the first that
   accepts; while nothing has matched, a new one starts behind them. *)
Step ==
    /\ ~Over
    /\ LET accepts == Wanted < Len(threads)
           m == IF accepts THEN threads[Wanted + 1].saves ELSE best
           take(list, t) == IF Takes(prog[t.pc + 1], sp)
                            THEN Add(list, <<Thread(t.pc + 1, t.saves)>>, sp + 1) ELSE list
           taken == FoldLeft(take, Nobody, SubSeq(threads, 1, Wanted))
       IN  /\ best' = m
           /\ threads' = (IF m = <<>> /\ sp < n THEN Add(taken, Fresh(Unset(tree)), sp + 1)
                          ELSE taken).threads
           /\ sp' = sp + 1
    /\ UNCHANGED <<prog, tree, text, multi, from, found>>

(* RxMatchIter::next: the next search begins at the end of the match, or one
   byte after an empty one. *)
NextMatch ==
    /\ Over /\ best # <<>>
    /\ LET next == IF best[1] > best[0] THEN best[1] ELSE best[1] + 1
       IN  next <= n /\ Begin(next)
    /\ found' = Append(found, <<best[0], best[1]>>)
    /\ UNCHANGED <<prog, tree, text, multi>>

Next == Step \/ NextMatch

Spec == Init /\ [][Next]_vars

-----------------------------------------------------------------------------
(* What a backtracking matcher would try, in order: the ways in which a tree
   matches from a position, as [pos, saves].  A repetition that takes nothing
   is not repeated. *)
RECURSIVE Ways(_, _), Again(_, _, _)
Ways(a, s) ==
    LET each(ways, f(_)) == FlattenSeq([i \in 1..Len(ways) |-> f(ways[i])])
        none == <<>>
    IN  CASE a[1] = "empty" -> <<s>>
          [] a[1] \in {"byte", "any"} ->
                 IF Takes(a, s.pos) THEN <<[s EXCEPT !.pos = @ + 1]>> ELSE none
          [] a[1] = "start" -> IF AtStart(s.pos) THEN <<s>> ELSE none
          [] a[1] = "end"   -> IF AtEnd(s.pos) THEN <<s>> ELSE none
          [] a[1] = "cat"   -> each(Ways(a[2], s), LAMBDA w : Ways(a[3], w))
          [] a[1] = "alt"   -> Ways(a[2], s) \o Ways(a[3], s)
          [] a[1] = "star"  -> Again(a[2], a[3], s)
          [] a[1] = "plus"  -> each(Ways(a[2], s), LAMBDA w : Again(a[2], a[3], w))
          [] a[1] = "opt"   -> IF a[3] THEN Ways(a[2], s) \o <<s>> ELSE <<s>> \o Ways(a[2], s)
          [] a[1] = "group" ->
                 each(Ways(a[3], [s EXCEPT !.saves[2 * a[2]] = s.pos]),
                      LAMBDA w : <<[w EXCEPT !.saves[2 * a[2] + 1] = w.pos]>>)
Again(x, greedy, s) ==
    LET once == SelectSeq(Ways(x, s), LAMBDA w : w.pos > s.pos)
        more == FlattenSeq([i \in 1..Len(once) |-> Again(x, greedy, once[i])])
    IN  IF greedy THEN more \o <<s>> ELSE <<s>> \o more

(* The ways of the leftmost position that has one. *)
Expected ==
    LET ways(p) == Ways(<<"group", 0, tree>>, [pos |-> p, saves |-> Unset(tree)])
        starts == {p \in from..n : ways(p) # <<>>}
    IN  IF starts = {} THEN <<>> ELSE ways(CHOOSE p \in starts : \A q \in starts : p <= q)

(* Some repetition in a tree has a body that can match nothing. *)
RECURSIVE Nullable(_), LoopsOnNothing(_)
Nullable(a) ==
    CASE a[1] \in {"empty", "start", "end", "star", "opt"} -> TRUE
      [] a[1] \in {"byte", "any"} -> FALSE
      [] a[1] = "cat"   -> Nullable(a[2]) /\ Nullable(a[3])
      [] a[1] = "alt"   -> Nullable(a[2]) \/ Nullable(a[3])
      [] a[1] = "plus"  -> Nullable(a[2])
      [] a[1] = "group" -> Nullable(a[3])
LoopsOnNothing(a) ==
    CASE a[1] \in {"cat", "alt"}   -> LoopsOnNothing(a[2]) \/ LoopsOnNothing(a[3])
      [] a[1] \in {"star", "plus"} -> Nullable(a[2]) \/ LoopsOnNothing(a[2])
      [] a[1] = "opt"   -> LoopsOnNothing(a[2])
      [] a[1] = "group" -> LoopsOnNothing(a[3])
      [] OTHER -> FALSE

(* In one pass, with at most one thread in each place of the program, the
   machine finds the match that backtracking would find, groups and all.
   Where a repeated part can match nothing, engines differ in which way comes
   first; it is then one of the ways from the leftmost position. *)
FindsTheFirstWay ==
    /\ Over => IF Expected = <<>> THEN best = <<>>
               ELSE IF LoopsOnNothing(tree)
               THEN \E w \in ToSet(Expected) : \A slot \in {0, 1} : w.saves[slot] = best[slot]
               ELSE best = Expected[1].saves
    /\ \A i, j \in DOMAIN threads : threads[i].pc = threads[j].pc => i = j
=============================================================================
