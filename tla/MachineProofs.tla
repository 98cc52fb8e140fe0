--------------------------- MODULE MachineProofs ----------------------------
(***************************************************************************)
(* No root of the machine is ever stale, for any function table, any stack *)
(* and heap, any program, and whatever sequence of its operations.         *)
(***************************************************************************)
EXTENDS Machine, SequenceTheorems, FiniteSetTheorems, WellFoundedInduction, TLAPS

IsSeq(s) == Len(s) \in Nat /\ s = [i \in 1..Len(s) |-> s[i]]

Fields == {"objs", "active", "cap", "reserved", "regs", "window", "cfs", "rets", "closure",
           "roots", "interned", "loaded", "fault"}

AnObject(o) == DOMAIN o = {"kind", "slots", "data", "id"} /\ IsSeq(o.slots)

\* A saved activation, whose frame lies within the registers.
Saved(e) == /\ DOMAIN e = {"window", "size", "closure"}
            /\ e.window \in Nat /\ e.size \in Nat /\ e.window + e.size <= RegSpace

\* Not an address, and not what stands for one in a message.
Bare(v) == v[1] \notin {"ptr", "node"}

Fine(m, v) == Bare(v) \/ \E i \in 1..Len(m.objs) : v = Ptr(m.active, i)

\* The frames lie one upon the other, and above the first there is a margin.
WindowOf(m, d) == IF d = Len(m.rets) + 1 THEN m.window ELSE m.rets[d].window
Stacked(m) ==
  \A d \in 1..Len(m.rets) : /\ WindowOf(m, d + 1) = m.rets[d].window + m.rets[d].size
                            /\ WindowOf(m, d + 1) + Margin <= RegSpace

AMachine(m) ==
  /\ DOMAIN m = Fields
  /\ IsSeq(m.objs) /\ \A i \in 1..Len(m.objs) : AnObject(m.objs[i])
  /\ m.active \in {0, 1}
  /\ m.regs = [r \in 0..RegSpace - 1 |-> m.regs[r]]
  /\ IsSeq(m.roots) /\ IsSeq(m.interned)
  /\ IsSeq(m.rets) /\ \A d \in 1..Len(m.rets) : Saved(m.rets[d])
  /\ m.window \in Nat /\ m.cfs \in Nat /\ m.window + m.cfs <= RegSpace
  /\ Stacked(m)

RootsFine(m) ==
  /\ \A r \in Scanned(m) : Fine(m, m.regs[r])
  /\ \A i \in 1..Len(m.roots) : Fine(m, m.roots[i])
  /\ \A i \in 1..Len(m.interned) : Fine(m, m.interned[i])
  /\ Fine(m, m.closure) /\ \A d \in 1..Len(m.rets) : Fine(m, m.rets[d].closure)

SlotsFine(m, o) == \A k \in 1..Len(o.slots) : Fine(m, o.slots[k])

Above(m) == \A r \in 0..RegSpace - 1 : r >= m.window + m.cfs => Bare(m.regs[r])

\* The header of a container is complete, and a closure names its function.
SizeAt(m, v) == Len(At(m, v).slots)
Backed(m, o) == /\ ~Bare(o.slots[1]) /\ Fine(m, o.slots[1]) /\ At(m, o.slots[1]).kind = "array"
                /\ Bare(o.slots[2]) /\ o.slots[2][2] \in Int
Whole(m, o) ==
  /\ o.kind = "vec" => /\ Len(o.slots) = 2 /\ Backed(m, o)
                       /\ o.slots[2][2] \in 0..SizeAt(m, o.slots[1])
  /\ o.kind = "map" => /\ Len(o.slots) = 3 /\ Backed(m, o) /\ Bare(o.slots[3])
                       /\ \E c \in 0..SizeAt(m, o.slots[1]) : SizeAt(m, o.slots[1]) = 2 * c
  /\ o.kind = "closure" => o.data[1] \in DOMAIN Fns

\* X are the headers that are not complete yet.
Good(m, X) ==
  /\ AMachine(m) /\ RootsFine(m) /\ Above(m)
  /\ \A i \in 1..Len(m.objs) : SlotsFine(m, m.objs[i]) /\ (i \in X \/ Whole(m, m.objs[i]))

MachineInv ==
  /\ program \in Programs
  /\ \E X \in SUBSET (1..Len(vm.objs)) : Good(vm, X)
  /\ vm.fault = "none" => Good(vm, {}) /\ Len(program.texts) <= Len(vm.roots)

-----------------------------------------------------------------------------
(* Sequences whose elements have no common type.                           *)

\* A function from 1..n is a sequence.
LEMMA MakeSeq ==
  ASSUME NEW n \in Nat, NEW f, f = [i \in 1..n |-> f[i]]
  PROVE  IsSeq(f) /\ Len(f) = n
<1> DEFINE S == {f[i] : i \in 1..n}
<1>1. f \in [1..n -> S]
  <2>1. \A i \in 1..n : f[i] \in S OBVIOUS
  <2> HIDE DEF S
  <2> QED BY <2>1
<1>2. f \in Seq(S) /\ Len(f) = n
  <2> HIDE DEF S
  <2> QED BY <1>1, SeqDef
<1> QED BY <1>2 DEF IsSeq

LEMMA SeqSet ==
  ASSUME NEW s, IsSeq(s), NEW T, \A i \in 1..Len(s) : s[i] \in T
  PROVE  s \in Seq(T)
<1>1. s \in [1..Len(s) -> T] BY DEF IsSeq
<1> QED BY <1>1 DEF IsSeq

LEMMA FromSeq == ASSUME NEW T, NEW s \in Seq(T) PROVE IsSeq(s)
<1>1. Len(s) \in Nat /\ s \in [1..Len(s) -> T] OBVIOUS
<1>2. s = [i \in 1..Len(s) |-> s[i]] BY <1>1
<1> QED BY <1>1, <1>2 DEF IsSeq

LEMMA AppendIs ==
  ASSUME NEW s, IsSeq(s), NEW x
  PROVE  /\ IsSeq(Append(s, x)) /\ Len(Append(s, x)) = Len(s) + 1
         /\ \A i \in 1..Len(s) : Append(s, x)[i] = s[i]
         /\ Append(s, x)[Len(s) + 1] = x
<1> DEFINE T == {s[i] : i \in 1..Len(s)} \cup {x}
<1>1. \A i \in 1..Len(s) : s[i] \in T OBVIOUS
<1>2. x \in T OBVIOUS
<1> HIDE DEF T
<1>3. s \in Seq(T) BY <1>1, SeqSet
<1>4. /\ Append(s, x) \in Seq(T) /\ Len(Append(s, x)) = Len(s) + 1
      /\ \A i \in 1..Len(s) : Append(s, x)[i] = s[i]
      /\ Append(s, x)[Len(s) + 1] = x
  BY <1>2, <1>3, AppendProperties
<1> QED BY <1>4, FromSeq

LEMMA ConcatIs ==
  ASSUME NEW s, IsSeq(s), NEW t, IsSeq(t)
  PROVE  /\ IsSeq(s \o t) /\ Len(s \o t) = Len(s) + Len(t)
         /\ \A i \in 1..Len(s) : (s \o t)[i] = s[i]
         /\ \A i \in 1..Len(t) : (s \o t)[Len(s) + i] = t[i]
<1> DEFINE T == {s[i] : i \in 1..Len(s)} \cup {t[i] : i \in 1..Len(t)}
<1>1. (\A i \in 1..Len(s) : s[i] \in T) /\ (\A i \in 1..Len(t) : t[i] \in T) OBVIOUS
<1> HIDE DEF T
<1>2. s \in Seq(T) /\ t \in Seq(T) BY <1>1, SeqSet
<1>3. /\ s \o t \in Seq(T) /\ Len(s \o t) = Len(s) + Len(t)
      /\ \A i \in 1..Len(s) + Len(t) : (s \o t)[i] = IF i <= Len(s) THEN s[i] ELSE t[i - Len(s)]
  BY <1>2, ConcatProperties
<1>4. Len(s) \in Nat /\ Len(t) \in Nat BY DEF IsSeq
<1>5. \A i \in 1..Len(t) : (s \o t)[Len(s) + i] = t[i]
  <2> TAKE i \in 1..Len(t)
  <2>1. Len(s) + i \in 1..Len(s) + Len(t) /\ ~(Len(s) + i <= Len(s)) /\ Len(s) + i - Len(s) = i BY <1>4
  <2> QED BY <1>3, <2>1
<1>6. \A i \in 1..Len(s) : (s \o t)[i] = s[i] BY <1>3, <1>4
<1>7. IsSeq(s \o t) BY <1>3, FromSeq, Zenon
<1> QED BY <1>3, <1>5, <1>6, <1>7

\* A sequence that is written out.
LEMMA WrittenOut == ASSUME NEW s, IsSeq(s) PROVE s \o <<>> = s
<1> DEFINE T == {s[i] : i \in 1..Len(s)}
<1>1. \A i \in 1..Len(s) : s[i] \in T OBVIOUS
<1> HIDE DEF T
<1>2. s \in Seq(T) BY <1>1, SeqSet
<1> QED BY <1>2, ConcatEmptySeq

LEMMA SlotsAre ==
  ASSUME NEW n \in Nat
  PROVE  IsSeq(Slots(n)) /\ Len(Slots(n)) = n /\ \A i \in 1..n : Slots(n)[i] = Undefined
<1> DEFINE f == [i \in 1..n |-> Undefined]
<1>1. Slots(n) = f \o <<>> BY DEF Slots, Sequence
<1>2. f = [i \in 1..n |-> f[i]] OBVIOUS
<1>3. \A i \in 1..n : f[i] = Undefined OBVIOUS
<1> HIDE DEF f
<1>4. IsSeq(f) /\ Len(f) = n BY <1>2, MakeSeq
<1> QED BY <1>1, <1>3, <1>4, WrittenOut

LEMMA LeastNumber ==
  ASSUME NEW T, T \subseteq Nat, T # {}
  PROVE  \E x \in T : \A y \in T : x <= y
<1>1. IsWellFoundedOn(OpToRel(<, Nat), Nat) BY NatLessThanWellFounded
<1>2. \A x, y \in Nat : x < y => <<x, y>> \in OpToRel(<, Nat) BY Zenon DEF OpToRel
<1>3. \E x \in T : \A y \in T : ~ (<<y, x>> \in OpToRel(<, Nat)) BY <1>1, WFMin, Zenon
<1>4. PICK x \in T : \A y \in T : ~ (<<y, x>> \in OpToRel(<, Nat)) BY <1>3, Zenon
<1>5. \A y \in T : ~ (y < x) BY <1>2, <1>4, Zenon
<1> QED BY <1>5

\* Induction up to n.
LEMMA AllUpTo ==
  ASSUME NEW n \in Nat, NEW T, 0 \in T, \A i \in 1..n : i - 1 \in T => i \in T
  PROVE  0..n \subseteq T
<1> DEFINE B == {i \in 0..n : i \notin T}
<1> SUFFICES ASSUME B # {} PROVE FALSE OBVIOUS
<1>1. B \subseteq Nat OBVIOUS
<1>2. PICK i \in B : \A y \in B : i <= y
  <2> HIDE DEF B
  <2> QED BY <1>1, LeastNumber
<1>3. i \in 1..n /\ i - 1 \in 0..n /\ ~(i <= i - 1) OBVIOUS
<1>4. i - 1 \in T BY <1>2, <1>3
<1> QED BY <1>3, <1>4

-----------------------------------------------------------------------------
(* The collector: forwarding, and the scan of the copies.                  *)

\* What a fine value is.
LEMMA FineIs ==
  ASSUME NEW m, NEW v, Fine(m, v)
  PROVE  /\ IsPtr(v) => v[3] \in 1..Len(m.objs) /\ v = Ptr(m.active, v[3]) /\ v[2] = m.active
         /\ ~IsPtr(v) => Bare(v)
<1>1. CASE Bare(v) BY <1>1 DEF Bare, IsPtr
<1>2. CASE ~Bare(v)
  <2>1. PICK i \in 1..Len(m.objs) : v = Ptr(m.active, i) BY <1>2 DEF Fine
  <2>2. v[1] = "ptr" /\ v[2] = m.active /\ v[3] = i BY <2>1 DEF Ptr
  <2> QED BY <2>1, <2>2 DEF IsPtr
<1> QED BY <1>1, <1>2

\* st is a state of a collection of m: fwd tells where an object has been copied to.
Copying(st, m) ==
  /\ DOMAIN st = {"from", "objs", "to", "fwd"} /\ st.from = m.active /\ st.objs = m.objs
  /\ IsSeq(st.to)
  /\ st.fwd \in [1..Len(m.objs) -> 0..Len(st.to)]
  /\ \A i, j \in 1..Len(m.objs) : st.fwd[i] = st.fwd[j] /\ st.fwd[i] # 0 => i = j
  /\ \A k \in 1..Len(st.to) : \E i \in 1..Len(m.objs) : st.fwd[i] = k
  /\ \A i \in 1..Len(m.objs) : st.fwd[i] # 0 => st.to[st.fwd[i]] = m.objs[i]

\* What is copied stays where it is.
Grows(st, st2) ==
  /\ Len(st.to) <= Len(st2.to)
  /\ \A j \in 1..Len(st.to) : st2.to[j] = st.to[j]
  /\ \A i \in DOMAIN st.fwd : st.fwd[i] # 0 => st2.fwd[i] = st.fwd[i]

\* What v refers to has been copied.
Copies(st, v) == IsPtr(v) => st.fwd[v[3]] # 0

LEMMA GrowsOn ==
  ASSUME NEW m, NEW a, NEW b, NEW c, Copying(a, m), Copying(b, m), Copying(c, m),
         Grows(a, b), Grows(b, c)
  PROVE  Grows(a, c)
<1>1. /\ Len(a.to) \in Nat /\ Len(b.to) \in Nat /\ Len(c.to) \in Nat
      /\ DOMAIN a.fwd = 1..Len(m.objs) /\ DOMAIN b.fwd = 1..Len(m.objs)
  BY DEF Copying, IsSeq
<1> QED BY <1>1 DEF Grows

LEMMA CopiesOn ==
  ASSUME NEW m, NEW a, NEW b, Copying(a, m), Grows(a, b), NEW v, Fine(m, v), Copies(a, v)
  PROVE  Copies(b, v)
<1> SUFFICES ASSUME IsPtr(v) PROVE b.fwd[v[3]] # 0 BY DEF Copies
<1>1. v[3] \in 1..Len(m.objs) BY FineIs
<1>2. DOMAIN a.fwd = 1..Len(m.objs) BY DEF Copying
<1> QED BY <1>1, <1>2 DEF Grows, Copies

LEMMA ForwardIs ==
  ASSUME NEW m, IsSeq(m.objs), NEW st, Copying(st, m), NEW v, Fine(m, v)
  PROVE  Copying(Forward(st, v), m) /\ Grows(st, Forward(st, v)) /\ Copies(Forward(st, v), v)
<1> DEFINE n == Len(m.objs)
<1>0. n \in Nat /\ IsSeq(st.to) /\ Len(st.to) \in Nat /\ st.objs = m.objs /\ st.from = m.active
      /\ st.fwd \in [1..n -> 0..Len(st.to)] /\ DOMAIN st.fwd = 1..n
  BY DEF IsSeq, Copying
<1>1. CASE ~IsPtr(v) \/ (IsPtr(v) /\ st.fwd[v[3]] # 0)
  <2>1. IsPtr(v) => v[3] \in 1..n BY FineIs
  <2>2. Forward(st, v) = st BY <1>1 DEF Forward
  <2>3. Grows(st, st) BY <1>0 DEF Grows
  <2> QED BY <1>1, <2>2, <2>3 DEF Copies
<1>2. CASE IsPtr(v) /\ st.fwd[v[3]] = 0
  <2> DEFINE i == v[3]
             x == m.objs[i]
             to2 == Append(st.to, x)
             fwd2 == [st.fwd EXCEPT ![i] = Len(st.to) + 1]
             st2 == Forward(st, v)
  <2>1. i \in 1..n /\ v = Ptr(m.active, i) BY <1>2, FineIs
  <2>2. v[2] = st.from /\ v[3] \in DOMAIN st.fwd BY <1>0, <2>1 DEF Ptr
  <2>3. /\ DOMAIN st2 = {"from", "objs", "to", "fwd"}
        /\ st2.from = st.from /\ st2.objs = st.objs /\ st2.to = to2 /\ st2.fwd = fwd2
    <3>1. st2 = [st EXCEPT !.to = Append(st.to, st.objs[v[3]]), !.fwd[v[3]] = Len(st.to) + 1]
      BY <1>2, <2>2 DEF Forward
    <3>2. st2 = [st EXCEPT !.to = to2, !.fwd[v[3]] = Len(st.to) + 1] BY <1>0, <3>1
    <3> HIDE DEF st2, to2
    <3> QED BY <3>2 DEF Copying
  <2>4. /\ IsSeq(to2) /\ Len(to2) = Len(st.to) + 1 /\ to2[Len(st.to) + 1] = x
        /\ \A j \in 1..Len(st.to) : to2[j] = st.to[j]
    BY <1>0, AppendIs
  <2> HIDE DEF to2, x, st2
  <2>5. fwd2 \in [1..n -> 0..Len(to2)] /\ fwd2[i] = Len(st.to) + 1
        /\ \A j \in 1..n : j # i => fwd2[j] = st.fwd[j]
    BY <1>0, <2>1, <2>4
  <2> HIDE DEF fwd2
  <2>6. \A j \in 1..n : j # i => fwd2[j] \in 0..Len(st.to) BY <1>0, <2>5
  <2>7. \A j, k \in 1..n : fwd2[j] = fwd2[k] /\ fwd2[j] # 0 => j = k
    <3> SUFFICES ASSUME NEW j \in 1..n, NEW k \in 1..n, fwd2[j] = fwd2[k], fwd2[j] # 0
                 PROVE  j = k
      OBVIOUS
    <3>1. CASE j # i /\ k # i BY <2>5, <3>1 DEF Copying
    <3>2. CASE j = i \/ k = i
      <4>1. Len(st.to) + 1 \notin 0..Len(st.to) BY <1>0
      <4> QED BY <2>5, <2>6, <3>2, <4>1
    <3> QED BY <3>1, <3>2
  <2>8. \A k \in 1..Len(to2) : \E j \in 1..n : fwd2[j] = k
    <3> TAKE k \in 1..Len(to2)
    <3>1. CASE k = Len(st.to) + 1 BY <2>1, <2>5, <3>1
    <3>2. CASE k # Len(st.to) + 1
      <4>1. k \in 1..Len(st.to) /\ k # 0 BY <1>0, <2>4, <3>2
      <4>2. PICK j \in 1..n : st.fwd[j] = k BY <4>1 DEF Copying
      <4>3. j # i BY <1>2, <4>1, <4>2
      <4> QED BY <2>5, <4>2, <4>3
    <3> QED BY <3>1, <3>2
  <2>9. \A j \in 1..n : fwd2[j] # 0 => to2[fwd2[j]] = m.objs[j]
    <3> SUFFICES ASSUME NEW j \in 1..n, fwd2[j] # 0 PROVE to2[fwd2[j]] = m.objs[j] OBVIOUS
    <3>1. CASE j = i BY <2>4, <2>5, <3>1 DEF x
    <3>2. CASE j # i
      <4>1. fwd2[j] = st.fwd[j] /\ st.fwd[j] \in 1..Len(st.to) BY <1>0, <2>5, <2>6, <3>2
      <4> QED BY <2>4, <4>1 DEF Copying
    <3> QED BY <3>1, <3>2
  <2>10. Copying(st2, m) BY <1>0, <2>3, <2>4, <2>5, <2>7, <2>8, <2>9 DEF Copying
  <2>11. Grows(st, st2)
    <3>1. \A j \in 1..n : st.fwd[j] # 0 => fwd2[j] = st.fwd[j] BY <1>2, <2>5
    <3> QED BY <1>0, <2>3, <2>4, <3>1 DEF Grows
  <2>12. Copies(st2, v) BY <1>0, <2>3, <2>5 DEF Copies
  <2> QED BY <2>10, <2>11, <2>12 DEF st2
<1> QED BY <1>1, <1>2

\* f[i] is the state after the first i values of s.
Forwards(f, n, st, s) == f = [i \in 0..n |-> IF i = 0 THEN st ELSE Forward(f[i - 1], s[i])]

LEMMA ForwardsExist == ASSUME NEW n \in Nat, NEW st, NEW s PROVE \E f : Forwards(f, n, st, s)
<1> DEFINE T == {k \in Nat : \E f : Forwards(f, k, st, s)}
<1>1. 0 \in T
  <2> DEFINE f == [i \in 0..0 |-> st]
  <2>1. f = [i \in 0..0 |-> IF i = 0 THEN st ELSE Forward(f[i - 1], s[i])] OBVIOUS
  <2> QED BY <2>1 DEF Forwards
<1>2. ASSUME NEW k \in 1..n, k - 1 \in T PROVE k \in T
  <2>1. PICK f : Forwards(f, k - 1, st, s) BY <1>2
  <2> DEFINE h == [i \in 0..k |-> IF i = k THEN Forward(f[k - 1], s[k]) ELSE f[i]]
  <2>2. \A i \in 0..k : h[i] = IF i = 0 THEN st ELSE Forward(h[i - 1], s[i])
    <3> TAKE i \in 0..k
    <3>1. CASE i = k
      <4>1. k # 0 /\ k - 1 \in 0..k /\ k - 1 # k /\ k \in 0..k OBVIOUS
      <4>2. h[k] = Forward(f[k - 1], s[k]) /\ h[k - 1] = f[k - 1] BY <4>1
      <4> QED BY <3>1, <4>1, <4>2
    <3>2. CASE i # k
      <4>1. i \in 0..k - 1 /\ h[i] = f[i] BY <3>2
      <4>2. f[i] = IF i = 0 THEN st ELSE Forward(f[i - 1], s[i]) BY <2>1, <4>1 DEF Forwards
      <4>3. i # 0 => i - 1 \in 0..k /\ i - 1 # k BY <4>1
      <4>4. i # 0 => h[i - 1] = f[i - 1] BY <4>3
      <4> HIDE DEF h
      <4> QED BY <4>1, <4>2, <4>4
    <3> QED BY <3>1, <3>2
  <2>3. h = [i \in 0..k |-> h[i]] OBVIOUS
  <2> HIDE DEF h
  <2>4. Forwards(h, k, st, s) BY <2>2, <2>3 DEF Forwards
  <2> QED BY <2>4
<1>3. 0..n \subseteq T
  <2> HIDE DEF T
  <2> QED BY <1>1, <1>2, AllUpTo
<1> QED BY <1>3

LEMMA ForwardAllIs ==
  ASSUME NEW m, IsSeq(m.objs), NEW st, Copying(st, m), NEW s, IsSeq(s),
         \A i \in 1..Len(s) : Fine(m, s[i])
  PROVE  LET st2 == ForwardAll(st, s)
         IN  /\ Copying(st2, m) /\ Grows(st, st2)
             /\ \A i \in 1..Len(s) : Copies(st2, s[i])
<1> DEFINE n == Len(s)
           F == CHOOSE f : f = [i \in 0..n |-> IF i = 0 THEN st ELSE Forward(f[i - 1], s[i])]
<1>0. n \in Nat BY DEF IsSeq
<1>1. ForwardAll(st, s) = F[n] BY Zenon DEF ForwardAll, Loop
<1>2. Forwards(F, n, st, s)
  <2>1. \E f : Forwards(f, n, st, s) BY <1>0, ForwardsExist
  <2>2. \E f : f = [i \in 0..n |-> IF i = 0 THEN st ELSE Forward(f[i - 1], s[i])]
    BY <2>1, Zenon DEF Forwards
  <2> QED BY <2>2, Zenon DEF Forwards
<1> HIDE DEF F
<1>3. \A i \in 0..n : F[i] = IF i = 0 THEN st ELSE Forward(F[i - 1], s[i]) BY <1>2 DEF Forwards
<1> DEFINE Sofar(i) == /\ Copying(F[i], m) /\ Grows(st, F[i])
                       /\ \A j \in 1..i : Copies(F[i], s[j])
           T == {i \in 0..n : Sofar(i)}
<1>4. 0 \in T
  <2>1. F[0] = st BY <1>0, <1>3
  <2>2. Grows(st, st) BY DEF Grows, Copying, IsSeq
  <2> QED BY <1>0, <2>1, <2>2
<1>5. ASSUME NEW i \in 1..n, i - 1 \in T PROVE i \in T
  <2>1. F[i] = Forward(F[i - 1], s[i]) BY <1>3
  <2>2. Copying(F[i - 1], m) /\ Grows(st, F[i - 1]) /\ \A j \in 1..i - 1 : Copies(F[i - 1], s[j])
    BY <1>5
  <2>3. Fine(m, s[i]) OBVIOUS
  <2>4. Copying(F[i], m) /\ Grows(F[i - 1], F[i]) /\ Copies(F[i], s[i])
    BY <2>1, <2>2, <2>3, ForwardIs
  <2>5. Grows(st, F[i]) BY <2>2, <2>4, GrowsOn
  <2>6. \A j \in 1..i : Copies(F[i], s[j])
    <3> TAKE j \in 1..i
    <3>1. CASE j = i BY <2>4, <3>1
    <3>2. CASE j # i
      <4>1. j \in 1..i - 1 /\ j \in 1..n BY <3>2, <1>0
      <4> QED BY <2>2, <2>4, <4>1, CopiesOn
    <3> QED BY <3>1, <3>2
  <2> QED BY <2>4, <2>5, <2>6
<1>6. 0..n \subseteq T
  <2> HIDE DEF T
  <2> QED BY <1>0, <1>4, <1>5, AllUpTo
<1>7. Sofar(n) BY <1>0, <1>6
<1> QED BY <1>1, <1>7

\* The slots of k have been copied.
SlotsCopied(st, k) == \A j \in 1..Len(st.to[k].slots) : Copies(st, st.to[k].slots[j])

HeapOf(m) == /\ IsSeq(m.objs)
             /\ \A i \in 1..Len(m.objs) : AnObject(m.objs[i]) /\ SlotsFine(m, m.objs[i])

LEMMA CopyIsFine ==
  ASSUME NEW m, HeapOf(m), NEW st, Copying(st, m), NEW k \in 1..Len(st.to)
  PROVE  IsSeq(st.to[k].slots) /\ \A j \in 1..Len(st.to[k].slots) : Fine(m, st.to[k].slots[j])
<1>1. PICK i \in 1..Len(m.objs) : st.fwd[i] = k BY DEF Copying
<1>2. k # 0 BY DEF Copying, IsSeq
<1>3. st.to[k] = m.objs[i] BY <1>1, <1>2 DEF Copying
<1> QED BY <1>3 DEF HeapOf, AnObject, SlotsFine

LEMMA SlotsCopiedOn ==
  ASSUME NEW m, HeapOf(m), NEW a, NEW b, Copying(a, m), Copying(b, m), Grows(a, b),
         NEW k \in 1..Len(a.to), SlotsCopied(a, k)
  PROVE  SlotsCopied(b, k)
<1>1. b.to[k] = a.to[k] BY DEF Grows
<1>2. \A j \in 1..Len(a.to[k].slots) : Fine(m, a.to[k].slots[j]) BY CopyIsFine
<1>3. \A j \in 1..Len(a.to[k].slots) : Copies(a, a.to[k].slots[j]) BY DEF SlotsCopied
<1>4. \A j \in 1..Len(a.to[k].slots) : Copies(b, a.to[k].slots[j]) BY <1>2, <1>3, CopiesOn
<1> QED BY <1>1, <1>4 DEF SlotsCopied

LEMMA ScanIs ==
  ASSUME NEW m, HeapOf(m), NEW st, Copying(st, m), NEW k \in Nat \ {0}
  PROVE  /\ Copying(Scan(st, k), m) /\ Grows(st, Scan(st, k))
         /\ k <= Len(st.to) => SlotsCopied(Scan(st, k), k)
         /\ k > Len(st.to) => Scan(st, k) = st
<1>0. Len(st.to) \in Nat BY DEF Copying, IsSeq
<1>1. CASE k > Len(st.to)
  <2>1. Scan(st, k) = st BY <1>1 DEF Scan
  <2>2. Grows(st, st) BY DEF Grows, Copying, IsSeq
  <2> QED BY <1>0, <1>1, <2>1, <2>2
<1>2. CASE ~(k > Len(st.to))
  <2> DEFINE s == st.to[k].slots
             st2 == ForwardAll(st, s)
  <2>1. Scan(st, k) = st2 BY <1>2 DEF Scan
  <2>2. k \in 1..Len(st.to) BY <1>0, <1>2
  <2>3. IsSeq(s) /\ \A j \in 1..Len(s) : Fine(m, s[j]) BY <2>2, CopyIsFine
  <2>4. IsSeq(m.objs) BY DEF HeapOf
  <2> HIDE DEF s
  <2>5. Copying(st2, m) /\ Grows(st, st2) /\ \A i \in 1..Len(s) : Copies(st2, s[i])
    BY <2>3, <2>4, ForwardAllIs
  <2> HIDE DEF st2
  <2>6. st2.to[k] = st.to[k] BY <2>2, <2>5 DEF Grows
  <2>7. SlotsCopied(st2, k) BY <2>5, <2>6 DEF SlotsCopied, s
  <2> QED BY <1>2, <2>1, <2>5, <2>7
<1> QED BY <1>1, <1>2

\* As many copies as objects at most.
LEMMA CopiesAreFew ==
  ASSUME NEW m, HeapOf(m), NEW st, Copying(st, m)
  PROVE  Len(st.to) <= Len(m.objs)
<1> DEFINE n == Len(m.objs)
           f == [k \in 1..Len(st.to) |-> CHOOSE i \in 1..n : st.fwd[i] = k]
<1>0. n \in Nat /\ Len(st.to) \in Nat BY DEF HeapOf, Copying, IsSeq
<1>1. \A k \in 1..Len(st.to) : f[k] \in 1..n /\ st.fwd[f[k]] = k
  <2> TAKE k \in 1..Len(st.to)
  <2>1. \E i \in 1..n : st.fwd[i] = k BY DEF Copying
  <2> QED BY <2>1
<1>2. f \in [1..Len(st.to) -> 1..n] BY <1>1
<1>3. \A j, k \in 1..Len(st.to) : f[j] = f[k] => j = k
  <2> HIDE DEF f
  <2> QED BY <1>1
<1> HIDE DEF f
<1>4. /\ IsFiniteSet(1..Len(st.to)) /\ IsFiniteSet(1..n)
      /\ Cardinality(1..Len(st.to)) = Len(st.to) /\ Cardinality(1..n) = n
  <2>1. 1 \in Int /\ Len(st.to) \in Int /\ n \in Int BY <1>0
  <2>2. IsFiniteSet(1..Len(st.to)) /\ IsFiniteSet(1..n) BY <2>1, FS_Interval
  <2>3. Cardinality(1..Len(st.to)) = Len(st.to)
    <3>1. Cardinality(1..Len(st.to)) = IF 1 > Len(st.to) THEN 0 ELSE Len(st.to) - 1 + 1
      BY <2>1, FS_Interval
    <3> QED BY <1>0, <3>1
  <2>4. Cardinality(1..n) = n
    <3>1. Cardinality(1..n) = IF 1 > n THEN 0 ELSE n - 1 + 1
      <4> HIDE DEF n
      <4> QED BY <2>1, FS_Interval
    <3> QED BY <1>0, <3>1
  <2> QED BY <2>2, <2>3, <2>4
<1> SUFFICES ASSUME ~(Len(st.to) <= n) PROVE FALSE OBVIOUS
<1>5. Cardinality(1..n) < Cardinality(1..Len(st.to)) BY <1>0, <1>4
<1>6. \E j, k \in 1..Len(st.to) : j # k /\ f[j] = f[k] BY <1>2, <1>4, <1>5, FS_PigeonHole
<1> QED BY <1>3, <1>6

\* f[k] is the state after the first k copies have been scanned.
Scans(f, n, st) == f = [k \in 0..n |-> IF k = 0 THEN st ELSE Scan(f[k - 1], k)]

LEMMA ScansExist == ASSUME NEW n \in Nat, NEW st PROVE \E f : Scans(f, n, st)
<1> DEFINE T == {k \in Nat : \E f : Scans(f, k, st)}
<1>1. 0 \in T
  <2> DEFINE f == [i \in 0..0 |-> st]
  <2>1. f = [i \in 0..0 |-> IF i = 0 THEN st ELSE Scan(f[i - 1], i)] OBVIOUS
  <2> QED BY <2>1 DEF Scans
<1>2. ASSUME NEW k \in 1..n, k - 1 \in T PROVE k \in T
  <2>1. PICK f : Scans(f, k - 1, st) BY <1>2
  <2> DEFINE h == [i \in 0..k |-> IF i = k THEN Scan(f[k - 1], k) ELSE f[i]]
  <2>2. \A i \in 0..k : h[i] = IF i = 0 THEN st ELSE Scan(h[i - 1], i)
    <3> TAKE i \in 0..k
    <3>1. CASE i = k
      <4>1. k # 0 /\ k - 1 \in 0..k /\ k - 1 # k /\ k \in 0..k OBVIOUS
      <4>2. h[k] = Scan(f[k - 1], k) /\ h[k - 1] = f[k - 1] BY <4>1
      <4> QED BY <3>1, <4>1, <4>2
    <3>2. CASE i # k
      <4>1. i \in 0..k - 1 /\ h[i] = f[i] BY <3>2
      <4>2. f[i] = IF i = 0 THEN st ELSE Scan(f[i - 1], i) BY <2>1, <4>1 DEF Scans
      <4>3. i # 0 => i - 1 \in 0..k /\ i - 1 # k BY <4>1
      <4>4. i # 0 => h[i - 1] = f[i - 1] BY <4>3
      <4> HIDE DEF h
      <4> QED BY <4>1, <4>2, <4>4
    <3> QED BY <3>1, <3>2
  <2>3. h = [i \in 0..k |-> h[i]] OBVIOUS
  <2> HIDE DEF h
  <2>4. Scans(h, k, st) BY <2>2, <2>3 DEF Scans
  <2> QED BY <2>4
<1>3. 0..n \subseteq T
  <2> HIDE DEF T
  <2> QED BY <1>1, <1>2, AllUpTo
<1> QED BY <1>3

\* After as many rounds as there are objects, every copy has been scanned.
LEMMA AllScanned ==
  ASSUME NEW m, HeapOf(m), NEW st, Copying(st, m)
  PROVE  LET st2 == Loop(Len(m.objs), st, Scan)
         IN  /\ Copying(st2, m) /\ Grows(st, st2)
             /\ \A k \in 1..Len(st2.to) : SlotsCopied(st2, k)
<1> DEFINE n == Len(m.objs)
           F == CHOOSE f : f = [k \in 0..n |-> IF k = 0 THEN st ELSE Scan(f[k - 1], k)]
<1>0. n \in Nat BY DEF IsSeq, HeapOf
<1>1. Loop(n, st, Scan) = F[n] BY Zenon DEF Loop
<1>2. Scans(F, n, st)
  <2>1. \E f : Scans(f, n, st) BY <1>0, ScansExist
  <2>2. \E f : f = [k \in 0..n |-> IF k = 0 THEN st ELSE Scan(f[k - 1], k)]
    BY <2>1, Zenon DEF Scans
  <2> QED BY <2>2, Zenon DEF Scans
<1> HIDE DEF F
<1>3. \A k \in 0..n : F[k] = IF k = 0 THEN st ELSE Scan(F[k - 1], k) BY <1>2 DEF Scans
<1> DEFINE Sofar(k) == /\ Copying(F[k], m) /\ Grows(st, F[k])
                       /\ \A j \in 1..k : j <= Len(F[k].to) => SlotsCopied(F[k], j)
           T == {k \in 0..n : Sofar(k)}
<1>4. 0 \in T
  <2>1. F[0] = st BY <1>0, <1>3
  <2>2. Grows(st, st) BY DEF Grows, Copying, IsSeq
  <2> QED BY <1>0, <2>1, <2>2
<1>5. ASSUME NEW k \in 1..n, k - 1 \in T PROVE k \in T
  <2> DEFINE a == F[k - 1]
             b == F[k]
  <2>1. b = Scan(a, k) BY <1>3
  <2>2. /\ Copying(a, m) /\ Grows(st, a)
        /\ \A j \in 1..k - 1 : j <= Len(a.to) => SlotsCopied(a, j)
    BY <1>5
  <2> HIDE DEF a, b
  <2>3. /\ Copying(b, m) /\ Grows(a, b) /\ (k <= Len(a.to) => SlotsCopied(b, k))
        /\ (k > Len(a.to) => b = a)
    BY <2>1, <2>2, ScanIs
  <2>4. Grows(st, b) BY <2>2, <2>3, GrowsOn
  <2>5. Len(a.to) \in Nat /\ Len(b.to) \in Nat BY <2>2, <2>3 DEF Copying, IsSeq
  <2>6. ASSUME NEW j \in 1..k, j <= Len(b.to) PROVE SlotsCopied(b, j)
    <3>1. CASE k > Len(a.to) BY <1>0, <2>2, <2>3, <2>5, <2>6, <3>1
    <3>2. CASE k <= Len(a.to) /\ j = k BY <2>3, <3>2
    <3>3. CASE k <= Len(a.to) /\ j # k
      <4>1. j \in 1..k - 1 /\ j \in 1..Len(a.to) /\ j <= Len(a.to) BY <1>0, <2>5, <3>3
      <4>2. SlotsCopied(a, j) BY <2>2, <4>1
      <4> QED BY <2>2, <2>3, <4>1, <4>2, SlotsCopiedOn
    <3> QED BY <2>5, <3>1, <3>2, <3>3
  <2> QED BY <2>3, <2>4, <2>6 DEF b
<1>6. 0..n \subseteq T
  <2> HIDE DEF T
  <2> QED BY <1>0, <1>4, <1>5, AllUpTo
<1>7. Sofar(n) BY <1>0, <1>6
<1>8. Len(F[n].to) <= n BY <1>7, CopiesAreFew
<1>9. \A k \in 1..Len(F[n].to) : SlotsCopied(F[n], k)
  <2>1. Len(F[n].to) \in Nat BY <1>7 DEF Copying, IsSeq
  <2> QED BY <1>0, <1>7, <1>8, <2>1
<1> QED BY <1>1, <1>7, <1>9

-----------------------------------------------------------------------------
(* What the collector starts from.                                         *)

In(x, s) == \E i \in 1..Len(s) : s[i] = x

LEMMA ConcatHas ==
  ASSUME NEW s, IsSeq(s), NEW t, IsSeq(t)
  PROVE  IsSeq(s \o t) /\ \A x : In(x, s \o t) <=> In(x, s) \/ In(x, t)
<1> DEFINE u == s \o t
<1>1. /\ IsSeq(u) /\ Len(u) = Len(s) + Len(t)
      /\ \A i \in 1..Len(s) : u[i] = s[i]
      /\ \A i \in 1..Len(t) : u[Len(s) + i] = t[i]
  BY ConcatIs
<1>2. Len(s) \in Nat /\ Len(t) \in Nat BY DEF IsSeq
<1> HIDE DEF u
<1>3. ASSUME NEW x, In(x, u) PROVE In(x, s) \/ In(x, t)
  <2>1. PICK i \in 1..Len(u) : u[i] = x BY <1>3 DEF In
  <2>2. CASE i <= Len(s)
    <3>1. i \in 1..Len(s) BY <1>2, <2>2
    <3> QED BY <1>1, <2>1, <3>1 DEF In
  <2>3. CASE ~(i <= Len(s))
    <3>1. i - Len(s) \in 1..Len(t) /\ Len(s) + (i - Len(s)) = i BY <1>1, <1>2, <2>3
    <3>2. t[i - Len(s)] = x BY <1>1, <2>1, <3>1
    <3> QED BY <3>1, <3>2 DEF In
  <2> QED BY <2>2, <2>3
<1>4. ASSUME NEW x, In(x, s) PROVE In(x, u)
  <2>1. PICK i \in 1..Len(s) : s[i] = x BY <1>4 DEF In
  <2>2. i \in 1..Len(u) BY <1>1, <1>2
  <2> QED BY <1>1, <2>1, <2>2 DEF In
<1>5. ASSUME NEW x, In(x, t) PROVE In(x, u)
  <2>1. PICK i \in 1..Len(t) : t[i] = x BY <1>5 DEF In
  <2>2. Len(s) + i \in 1..Len(u) BY <1>1, <1>2
  <2> QED BY <1>1, <2>1, <2>2 DEF In
<1> QED BY <1>1, <1>3, <1>4, <1>5 DEF u

\* f[d] is the first d sequences, one behind the other.
Joins(f, n, ss) == f = [d \in 1..n |-> IF d = 1 THEN ss[d] ELSE f[d - 1] \o ss[d]]

LEMMA JoinsExist == ASSUME NEW n \in Nat, NEW ss PROVE \E f : Joins(f, n, ss)
<1> DEFINE T == {k \in Nat : \E f : Joins(f, k, ss)}
<1>1. 0 \in T
  <2> DEFINE f == [d \in 1..0 |-> ss[d]]
  <2>1. f = [d \in 1..0 |-> IF d = 1 THEN ss[d] ELSE f[d - 1] \o ss[d]] OBVIOUS
  <2> QED BY <2>1 DEF Joins
<1>2. ASSUME NEW k \in 1..n, k - 1 \in T PROVE k \in T
  <2>1. PICK f : Joins(f, k - 1, ss) BY <1>2
  <2> DEFINE h == [d \in 1..k |-> IF d = k THEN (IF k = 1 THEN ss[k] ELSE f[k - 1] \o ss[k])
                                  ELSE f[d]]
  <2>2. \A d \in 1..k : h[d] = IF d = 1 THEN ss[d] ELSE h[d - 1] \o ss[d]
    <3> TAKE d \in 1..k
    <3>1. CASE d = k
      <4>1. k # 1 => k - 1 \in 1..k /\ k - 1 # k OBVIOUS
      <4>2. h[k] = (IF k = 1 THEN ss[k] ELSE f[k - 1] \o ss[k]) /\ (k # 1 => h[k - 1] = f[k - 1])
        BY <4>1
      <4> HIDE DEF h
      <4> QED BY <3>1, <4>1, <4>2
    <3>2. CASE d # k
      <4>1. d \in 1..k - 1 /\ h[d] = f[d] BY <3>2
      <4>2. f[d] = IF d = 1 THEN ss[d] ELSE f[d - 1] \o ss[d] BY <2>1, <4>1 DEF Joins
      <4>3. d # 1 => d - 1 \in 1..k /\ d - 1 # k BY <4>1
      <4>4. d # 1 => h[d - 1] = f[d - 1] BY <4>3
      <4> HIDE DEF h
      <4> QED BY <4>1, <4>2, <4>4
    <3> QED BY <3>1, <3>2
  <2>3. h = [d \in 1..k |-> h[d]] OBVIOUS
  <2> HIDE DEF h
  <2>4. Joins(h, k, ss) BY <2>2, <2>3 DEF Joins
  <2> QED BY <2>4
<1>3. 0..n \subseteq T
  <2> HIDE DEF T
  <2> QED BY <1>1, <1>2, AllUpTo
<1> QED BY <1>3

LEMMA FlattenHas ==
  ASSUME NEW ss, IsSeq(ss), \A d \in 1..Len(ss) : IsSeq(ss[d])
  PROVE  /\ IsSeq(FlattenSeq(ss))
         /\ \A x : In(x, FlattenSeq(ss)) <=> \E d \in 1..Len(ss) : In(x, ss[d])
<1> DEFINE n == Len(ss)
           F == CHOOSE f : f = [d \in 1..n |-> IF d = 1 THEN ss[d] ELSE f[d - 1] \o ss[d]]
<1>0. n \in Nat BY DEF IsSeq
<1>1. CASE n = 0
  <2>1. FlattenSeq(ss) = ss BY <1>1 DEF FlattenSeq
  <2>2. \A x : ~In(x, ss) BY <1>1 DEF In
  <2> QED BY <1>1, <2>1, <2>2
<1>2. CASE n # 0
  <2>1. FlattenSeq(ss) = F[n] BY <1>2, Zenon DEF FlattenSeq
  <2>2. Joins(F, n, ss)
    <3>1. \E f : Joins(f, n, ss) BY <1>0, JoinsExist
    <3>2. \E f : f = [d \in 1..n |-> IF d = 1 THEN ss[d] ELSE f[d - 1] \o ss[d]]
      BY <3>1, Zenon DEF Joins
    <3> QED BY <3>2, Zenon DEF Joins
  <2> HIDE DEF F
  <2>3. \A d \in 1..n : F[d] = IF d = 1 THEN ss[d] ELSE F[d - 1] \o ss[d] BY <2>2 DEF Joins
  <2> DEFINE Sofar(k) == /\ IsSeq(F[k])
                         /\ \A x : In(x, F[k]) <=> \E d \in 1..k : In(x, ss[d])
             T == {k \in 0..n : k = 0 \/ Sofar(k)}
  <2>4. 0 \in T BY <1>0
  <2>5. ASSUME NEW k \in 1..n, k - 1 \in T PROVE k \in T
    <3>1. CASE k = 1
      <4>1. F[1] = ss[1] BY <2>3, <3>1
      <4>2. \A x : In(x, F[1]) <=> \E d \in 1..1 : In(x, ss[d]) BY <4>1
      <4>3. IsSeq(F[1]) BY <3>1, <4>1
      <4> QED BY <3>1, <4>2, <4>3
    <3>2. CASE k # 1
      <4>1. F[k] = F[k - 1] \o ss[k] BY <2>3, <3>2
      <4>2. IsSeq(F[k - 1]) /\ \A x : In(x, F[k - 1]) <=> \E d \in 1..k - 1 : In(x, ss[d])
        BY <2>5, <3>2
      <4>3. IsSeq(F[k]) /\ \A x : In(x, F[k]) <=> In(x, F[k - 1]) \/ In(x, ss[k])
        <5>1. IsSeq(ss[k]) OBVIOUS
        <5> HIDE DEF F
        <5> QED BY <4>1, <4>2, <5>1, ConcatHas
      <4>4. \A x : (\E d \in 1..k : In(x, ss[d]))
                      <=> (\E d \in 1..k - 1 : In(x, ss[d])) \/ In(x, ss[k])
        <5>1. 1..k = (1..k - 1) \cup {k} OBVIOUS
        <5> QED BY <5>1, Zenon
      <4>5. Sofar(k) BY <4>2, <4>3, <4>4
      <4> QED BY <4>5
    <3> QED BY <3>1, <3>2
  <2>6. 0..n \subseteq T
    <3> HIDE DEF T
    <3> QED BY <1>0, <2>4, <2>5, AllUpTo
  <2>7. Sofar(n)
    <3> HIDE DEF Sofar
    <3>1. n \in 0..n BY <1>0
    <3>2. n \in T
      <4> HIDE DEF T
      <4> QED BY <2>6, <3>1
    <3> QED BY <1>2, <3>2
  <2> QED BY <2>1, <2>7
<1> QED BY <1>1, <1>2

LEMMA FrameValuesAre ==
  ASSUME NEW m, NEW w \in Nat, NEW size \in Nat
  PROVE  /\ IsSeq(FrameValues(m, w, size))
         /\ \A x : In(x, FrameValues(m, w, size)) <=> \E r \in FrameSlots(w, size) : m.regs[r] = x
<1> DEFINE f == FrameValues(m, w, size)
<1>1. f = [i \in 1..size |-> f[i]] /\ \A i \in 1..size : f[i] = m.regs[w + i - 1]
  BY DEF FrameValues
<1> HIDE DEF f
<1>2. IsSeq(f) /\ Len(f) = size BY <1>1, MakeSeq
<1>3. ASSUME NEW x, In(x, f) PROVE \E r \in FrameSlots(w, size) : m.regs[r] = x
  <2>1. PICK i \in 1..size : f[i] = x BY <1>2, <1>3 DEF In
  <2>2. w + i - 1 \in FrameSlots(w, size) BY DEF FrameSlots
  <2> QED BY <1>1, <2>1, <2>2
<1>4. ASSUME NEW r \in FrameSlots(w, size) PROVE In(m.regs[r], f)
  <2>1. r - w + 1 \in 1..size /\ w + (r - w + 1) - 1 = r BY DEF FrameSlots
  <2>2. f[r - w + 1] = m.regs[r] BY <1>1, <2>1
  <2> QED BY <1>2, <2>1, <2>2 DEF In
<1> QED BY <1>2, <1>3, <1>4 DEF f

IsRoot(m, x) == \/ \E r \in Scanned(m) : m.regs[r] = x
                \/ In(x, m.roots) \/ In(x, m.interned) \/ x = m.closure
                \/ \E d \in 1..Len(m.rets) : m.rets[d].closure = x

LEMMA RootValuesAre ==
  ASSUME NEW m, AMachine(m)
  PROVE  IsSeq(RootValues(m)) /\ \A x : In(x, RootValues(m)) <=> IsRoot(m, x)
<1> DEFINE n == Len(m.rets)
           saved == Reverse(m.rets)
           frames == [d \in DOMAIN saved |-> FrameValues(m, saved[d].window, saved[d].size)]
           above == FrameValues(m, m.window, m.cfs)
           closures == [d \in 1..n |-> m.rets[d].closure]
<1>0. n \in Nat BY DEF AMachine, IsSeq
<1>1. IsSeq(saved) /\ Len(saved) = n /\ \A d \in 1..n : saved[d] = m.rets[n - d + 1]
  <2>1. saved = [d \in 1..n |-> saved[d]] /\ \A d \in 1..n : saved[d] = m.rets[n - d + 1]
    BY DEF Reverse
  <2> HIDE DEF saved
  <2> QED BY <1>0, <2>1, MakeSeq
<1> HIDE DEF saved
<1>2. DOMAIN saved = 1..n BY <1>1 DEF IsSeq
<1>3. \A d \in 1..n : Saved(m.rets[d]) BY DEF AMachine
<1>4. /\ IsSeq(frames) /\ Len(frames) = n
      /\ \A d \in 1..n : frames[d] = FrameValues(m, m.rets[n - d + 1].window, m.rets[n - d + 1].size)
  <2>1. frames = [d \in 1..n |-> frames[d]] BY <1>2
  <2>2. \A d \in 1..n : frames[d] = FrameValues(m, m.rets[n - d + 1].window, m.rets[n - d + 1].size)
    BY <1>1, <1>2
  <2> HIDE DEF frames
  <2> QED BY <1>0, <2>1, <2>2, MakeSeq
<1>5. ASSUME NEW d \in 1..n
      PROVE  LET e == m.rets[n - d + 1]
             IN  /\ IsSeq(frames[d])
                 /\ \A x : In(x, frames[d]) <=> \E r \in FrameSlots(e.window, e.size) : m.regs[r] = x
  <2>1. n - d + 1 \in 1..n BY <1>0
  <2>2. m.rets[n - d + 1].window \in Nat /\ m.rets[n - d + 1].size \in Nat BY <1>3, <2>1 DEF Saved
  <2> DEFINE w == m.rets[n - d + 1].window
             size == m.rets[n - d + 1].size
  <2>3. frames[d] = FrameValues(m, w, size) BY <1>4
  <2>4. w \in Nat /\ size \in Nat BY <2>2
  <2> HIDE DEF frames, w, size
  <2>5. /\ IsSeq(frames[d])
        /\ \A x : In(x, frames[d]) <=> \E r \in FrameSlots(w, size) : m.regs[r] = x
    <3>1. /\ IsSeq(FrameValues(m, w, size))
          /\ \A x : In(x, FrameValues(m, w, size)) <=> \E r \in FrameSlots(w, size) : m.regs[r] = x
      BY <2>4, FrameValuesAre, Zenon
    <3> QED BY <2>3, <3>1, Zenon
  <2> QED BY <2>5 DEF w, size
<1> HIDE DEF frames
<1>6. IsSeq(FlattenSeq(frames))
      /\ \A x : In(x, FlattenSeq(frames)) <=> \E d \in 1..n : In(x, frames[d])
  BY <1>4, <1>5, FlattenHas
<1>7. \A x : In(x, FlattenSeq(frames))
        <=> \E d \in 1..n : \E r \in FrameSlots(m.rets[d].window, m.rets[d].size) : m.regs[r] = x
  <2>1. ASSUME NEW x, NEW d \in 1..n, In(x, frames[d])
        PROVE  \E e \in 1..n : \E r \in FrameSlots(m.rets[e].window, m.rets[e].size) : m.regs[r] = x
    <3>1. n - d + 1 \in 1..n BY <1>0
    <3> QED BY <1>5, <2>1, <3>1
  <2>2. ASSUME NEW x, NEW d \in 1..n, NEW r \in FrameSlots(m.rets[d].window, m.rets[d].size),
               m.regs[r] = x
        PROVE  \E e \in 1..n : In(x, frames[e])
    <3>1. n - d + 1 \in 1..n /\ n - (n - d + 1) + 1 = d BY <1>0
    <3>2. In(x, frames[n - d + 1]) BY <1>5, <2>2, <3>1
    <3> QED BY <3>1, <3>2
  <2> QED BY <1>6, <2>1, <2>2
<1>8. IsSeq(above) /\ \A x : In(x, above) <=> \E r \in FrameSlots(m.window, m.cfs) : m.regs[r] = x
  <2>1. m.window \in Nat /\ m.cfs \in Nat BY DEF AMachine
  <2> QED BY <2>1, FrameValuesAre
<1>9. IsSeq(closures) /\ \A x : In(x, closures) <=> \E d \in 1..n : m.rets[d].closure = x
  <2>1. closures = [d \in 1..n |-> closures[d]] /\ \A d \in 1..n : closures[d] = m.rets[d].closure
    OBVIOUS
  <2> HIDE DEF closures
  <2>2. IsSeq(closures) /\ Len(closures) = n BY <1>0, <2>1, MakeSeq
  <2> QED BY <2>1, <2>2 DEF In
<1>10. IsSeq(<<m.closure>>) /\ \A x : In(x, <<m.closure>>) <=> x = m.closure
  <2>1. Len(<<m.closure>>) = 1 /\ <<m.closure>>[1] = m.closure OBVIOUS
  <2>2. <<m.closure>> = [i \in 1..1 |-> <<m.closure>>[i]] OBVIOUS
  <2>3. \A x : In(x, <<m.closure>>) <=> x = m.closure BY <2>1 DEF In
  <2> QED BY <2>1, <2>2, <2>3 DEF IsSeq
<1> DEFINE a == above \o FlattenSeq(frames)
           b == a \o m.roots
           c == b \o m.interned
           e == c \o <<m.closure>>
<1>11. RootValues(m) = e \o closures BY DEF RootValues, saved, frames
<1> HIDE DEF above, closures
<1>12. IsSeq(a) /\ \A x : In(x, a) <=> In(x, above) \/ In(x, FlattenSeq(frames))
  BY <1>6, <1>8, ConcatHas
<1> HIDE DEF a
<1>13. IsSeq(b) /\ \A x : In(x, b) <=> In(x, a) \/ In(x, m.roots) BY <1>12, ConcatHas DEF AMachine
<1> HIDE DEF b
<1>14. IsSeq(c) /\ \A x : In(x, c) <=> In(x, b) \/ In(x, m.interned) BY <1>13, ConcatHas DEF AMachine
<1> HIDE DEF c
<1>15. IsSeq(e) /\ \A x : In(x, e) <=> In(x, c) \/ In(x, <<m.closure>>) BY <1>10, <1>14, ConcatHas
<1> HIDE DEF e
<1>16. IsSeq(RootValues(m)) /\ \A x : In(x, RootValues(m)) <=> In(x, e) \/ In(x, closures)
  BY <1>9, <1>11, <1>15, ConcatHas
<1>17. \A x : (\E r \in Scanned(m) : m.regs[r] = x) <=> In(x, above) \/ In(x, FlattenSeq(frames))
  BY <1>7, <1>8 DEF Scanned
<1> QED BY <1>9, <1>10, <1>12, <1>13, <1>14, <1>15, <1>16, <1>17 DEF IsRoot

-----------------------------------------------------------------------------
(* What a collection does to a machine.                                    *)

\* v1 is v after g has moved its object: i to g[i], or to nowhere if that is 0.
Becomes(m1, g, v, v1) ==
  IF IsPtr(v) THEN g[v[3]] # 0 /\ v1 = Ptr(m1.active, g[v[3]]) ELSE v1 = v

AllBecome(m1, g, s, s1) ==
  Len(s1) = Len(s) /\ \A k \in 1..Len(s) : Becomes(m1, g, s[k], s1[k])

ObjectBecomes(m1, g, o, o1) ==
  o1.kind = o.kind /\ o1.data = o.data /\ AllBecome(m1, g, o.slots, o1.slots)

\* m1 is m after g has moved its objects to the first n places.
Later(m, m1, g, n) ==
  /\ n \in 0..Len(m1.objs) /\ g \in [1..Len(m.objs) -> 0..n]
  /\ \A i, j \in 1..Len(m.objs) : g[i] = g[j] /\ g[i] # 0 => i = j
  /\ \A j \in 1..n : \E i \in 1..Len(m.objs) : g[i] = j
  /\ \A i \in 1..Len(m.objs) : g[i] # 0 => ObjectBecomes(m1, g, m.objs[i], m1.objs[g[i]])
  /\ \A r \in Scanned(m) : Becomes(m1, g, m.regs[r], m1.regs[r])
  /\ \A r \in 0..RegSpace - 1 : r \notin Scanned(m) => m1.regs[r] = m.regs[r]
  /\ AllBecome(m1, g, m.roots, m1.roots) /\ AllBecome(m1, g, m.interned, m1.interned)
  /\ Becomes(m1, g, m.closure, m1.closure)
  /\ Len(m1.rets) = Len(m.rets)
  /\ \A d \in 1..Len(m.rets) : /\ m1.rets[d].window = m.rets[d].window
                               /\ m1.rets[d].size = m.rets[d].size
                               /\ Becomes(m1, g, m.rets[d].closure, m1.rets[d].closure)
  /\ m1.window = m.window /\ m1.cfs = m.cfs
  /\ m1.loaded = m.loaded /\ m1.fault = m.fault

LEMMA BecomesFine ==
  ASSUME NEW m, NEW m1, NEW g, NEW n \in 0..Len(m1.objs), Len(m1.objs) \in Nat,
         g \in [1..Len(m.objs) -> 0..n], NEW v, NEW v1, Fine(m, v), Becomes(m1, g, v, v1)
  PROVE  Fine(m1, v1) /\ (Bare(v) => v1 = v) /\ (~Bare(v) => v1 = Ptr(m1.active, g[v[3]]))
<1>1. CASE IsPtr(v)
  <2>1. v[3] \in 1..Len(m.objs) BY <1>1, FineIs
  <2>2. g[v[3]] \in 1..Len(m1.objs) /\ v1 = Ptr(m1.active, g[v[3]]) BY <1>1, <2>1 DEF Becomes
  <2>3. ~Bare(v) BY <1>1 DEF Bare, IsPtr
  <2> QED BY <2>2, <2>3 DEF Fine
<1>2. CASE ~IsPtr(v)
  <2>1. Bare(v) /\ v1 = v BY <1>2, FineIs DEF Becomes
  <2> QED BY <2>1 DEF Fine
<1> QED BY <1>1, <1>2

LEMMA SameScanned ==
  ASSUME NEW m, NEW m1, m1.window = m.window, m1.cfs = m.cfs, Len(m1.rets) = Len(m.rets),
         \A d \in 1..Len(m.rets) : /\ m1.rets[d].window = m.rets[d].window
                                   /\ m1.rets[d].size = m.rets[d].size
  PROVE  Scanned(m1) = Scanned(m)
<1>1. \A d \in 1..Len(m.rets) : FrameSlots(m1.rets[d].window, m1.rets[d].size)
                                  = FrameSlots(m.rets[d].window, m.rets[d].size)
  OBVIOUS
<1>2. UNION {FrameSlots(m1.rets[d].window, m1.rets[d].size) : d \in 1..Len(m1.rets)}
        = UNION {FrameSlots(m.rets[d].window, m.rets[d].size) : d \in 1..Len(m.rets)}
  BY <1>1
<1> QED BY <1>2 DEF Scanned

\* Every frame lies within the registers.
LEMMA ScannedAre == ASSUME NEW m, AMachine(m) PROVE Scanned(m) \subseteq 0..RegSpace - 1
<1>0. RegSpace \in Nat BY MachineAssumption
<1>1. FrameSlots(m.window, m.cfs) \subseteq 0..RegSpace - 1 BY <1>0 DEF FrameSlots, AMachine
<1>2. \A d \in 1..Len(m.rets) : FrameSlots(m.rets[d].window, m.rets[d].size) \subseteq 0..RegSpace - 1
  BY <1>0 DEF FrameSlots, AMachine, Saved
<1> QED BY <1>1, <1>2 DEF Scanned

\* A container that is complete stays so.
LEMMA WholeLater ==
  ASSUME NEW m, AMachine(m), NEW m1, AMachine(m1), NEW g, NEW n, Later(m, m1, g, n),
         NEW o, NEW o1, SlotsFine(m, o), ObjectBecomes(m1, g, o, o1), Whole(m, o)
  PROVE  Whole(m1, o1)
<1>0. /\ n \in 0..Len(m1.objs) /\ Len(m1.objs) \in Nat /\ g \in [1..Len(m.objs) -> 0..n]
  BY DEF Later, AMachine, IsSeq
<1>1. /\ o1.kind = o.kind /\ o1.data = o.data /\ Len(o1.slots) = Len(o.slots)
      /\ \A k \in 1..Len(o.slots) : Becomes(m1, g, o.slots[k], o1.slots[k])
  BY DEF ObjectBecomes, AllBecome
<1>2. \A k \in 1..Len(o.slots) : Fine(m1, o1.slots[k]) /\ (Bare(o.slots[k]) => o1.slots[k] = o.slots[k])
  <2>1. \A v, v1 : Fine(m, v) /\ Becomes(m1, g, v, v1) => Fine(m1, v1) /\ (Bare(v) => v1 = v)
    BY <1>0, BecomesFine
  <2> QED BY <1>1, <2>1 DEF SlotsFine
<1>3. ASSUME 2 <= Len(o.slots), Len(o.slots) \in Nat, Backed(m, o)
      PROVE  Backed(m1, o1) /\ o1.slots[2] = o.slots[2]
             /\ SizeAt(m1, o1.slots[1]) = SizeAt(m, o.slots[1])
  <2> DEFINE v == o.slots[1]
             v1 == o1.slots[1]
  <2>1. 1 \in 1..Len(o.slots) /\ 2 \in 1..Len(o.slots) BY <1>3
  <2>2. o1.slots[2] = o.slots[2] BY <1>2, <1>3, <2>1 DEF Backed
  <2>3. ~Bare(v) /\ Fine(m, v) /\ At(m, v).kind = "array" BY <1>3 DEF Backed
  <2>4. v[3] \in 1..Len(m.objs) /\ IsPtr(v) BY <2>3, FineIs
  <2>5. Becomes(m1, g, v, v1) /\ Fine(m1, v1) BY <1>1, <1>2, <2>1
  <2> HIDE DEF v, v1
  <2>6. g[v[3]] # 0 /\ v1 = Ptr(m1.active, g[v[3]]) BY <2>4, <2>5 DEF Becomes
  <2>7. v1[1] = "ptr" /\ v1[3] = g[v[3]] BY <2>6 DEF Ptr
  <2>8. ObjectBecomes(m1, g, m.objs[v[3]], m1.objs[v1[3]]) BY <2>4, <2>6, <2>7 DEF Later
  <2>9. At(m1, v1).kind = "array" /\ SizeAt(m1, v1) = SizeAt(m, v)
    BY <2>3, <2>8 DEF ObjectBecomes, AllBecome, SizeAt, At
  <2>10. ~Bare(v1) BY <2>7 DEF Bare
  <2>11. Backed(m1, o1) BY <1>3, <2>2, <2>5, <2>9, <2>10 DEF Backed, v1
  <2> QED BY <2>2, <2>9, <2>11 DEF v, v1
<1>4. o.kind = "vec" => /\ Len(o1.slots) = 2 /\ Backed(m1, o1)
                        /\ o1.slots[2][2] \in 0..SizeAt(m1, o1.slots[1])
  <2> SUFFICES ASSUME o.kind = "vec"
               PROVE  /\ Len(o1.slots) = 2 /\ Backed(m1, o1)
                      /\ o1.slots[2][2] \in 0..SizeAt(m1, o1.slots[1])
    OBVIOUS
  <2>1. Len(o.slots) = 2 /\ Backed(m, o) /\ o.slots[2][2] \in 0..SizeAt(m, o.slots[1]) BY DEF Whole
  <2> QED BY <1>1, <1>3, <2>1
<1>5. o.kind = "map" => /\ Len(o1.slots) = 3 /\ Backed(m1, o1) /\ Bare(o1.slots[3])
                        /\ \E c \in 0..SizeAt(m1, o1.slots[1]) : SizeAt(m1, o1.slots[1]) = 2 * c
  <2> SUFFICES ASSUME o.kind = "map"
               PROVE  /\ Len(o1.slots) = 3 /\ Backed(m1, o1) /\ Bare(o1.slots[3])
                      /\ \E c \in 0..SizeAt(m1, o1.slots[1]) : SizeAt(m1, o1.slots[1]) = 2 * c
    OBVIOUS
  <2>1. /\ Len(o.slots) = 3 /\ Backed(m, o) /\ Bare(o.slots[3])
        /\ \E c \in 0..SizeAt(m, o.slots[1]) : SizeAt(m, o.slots[1]) = 2 * c
    BY DEF Whole
  <2>2. Backed(m1, o1) /\ SizeAt(m1, o1.slots[1]) = SizeAt(m, o.slots[1]) BY <1>3, <2>1
  <2>3. 3 \in 1..Len(o.slots) BY <2>1
  <2>4. o1.slots[3] = o.slots[3] BY <1>2, <2>1, <2>3
  <2> QED BY <1>1, <2>1, <2>2, <2>4
<1>6. o.kind = "closure" => o1.data[1] \in DOMAIN Fns BY <1>1 DEF Whole
<1> QED BY <1>1, <1>4, <1>5, <1>6 DEF Whole

LEMMA LaterGood ==
  ASSUME NEW m, NEW X, Good(m, X), NEW m1, AMachine(m1), NEW g, NEW n, Later(m, m1, g, n),
         \A i \in n + 1..Len(m1.objs) : SlotsFine(m1, m1.objs[i])
  PROVE  Good(m1, {g[i] : i \in X} \cup (n + 1..Len(m1.objs)))
<1> DEFINE Y == {g[i] : i \in X} \cup (n + 1..Len(m1.objs))
<1>0. /\ n \in 0..Len(m1.objs) /\ Len(m1.objs) \in Nat /\ g \in [1..Len(m.objs) -> 0..n]
      /\ AMachine(m) /\ RootsFine(m) /\ Above(m)
      /\ \A i \in 1..Len(m.objs) : SlotsFine(m, m.objs[i]) /\ (i \in X \/ Whole(m, m.objs[i]))
  BY DEF Later, AMachine, IsSeq, Good
<1>1. \A v, v1 : Fine(m, v) /\ Becomes(m1, g, v, v1) => Fine(m1, v1) BY <1>0, BecomesFine
<1>2. Scanned(m1) = Scanned(m) BY SameScanned DEF Later
<1>3. RootsFine(m1)
  <2>1. \A r \in Scanned(m1) : Fine(m1, m1.regs[r]) BY <1>0, <1>1, <1>2 DEF RootsFine, Later
  <2>2. \A i \in 1..Len(m1.roots) : Fine(m1, m1.roots[i])
    BY <1>0, <1>1 DEF RootsFine, Later, AllBecome
  <2>3. \A i \in 1..Len(m1.interned) : Fine(m1, m1.interned[i])
    BY <1>0, <1>1 DEF RootsFine, Later, AllBecome
  <2>4. Fine(m1, m1.closure) BY <1>0, <1>1 DEF RootsFine, Later
  <2>5. \A d \in 1..Len(m1.rets) : Fine(m1, m1.rets[d].closure) BY <1>0, <1>1 DEF RootsFine, Later
  <2> QED BY <2>1, <2>2, <2>3, <2>4, <2>5 DEF RootsFine
<1>4. Above(m1)
  <2> SUFFICES ASSUME NEW r \in 0..RegSpace - 1, r >= m1.window + m1.cfs PROVE Bare(m1.regs[r])
    BY DEF Above
  <2>1. m1.window = m.window /\ m1.cfs = m.cfs BY DEF Later
  <2>2. Bare(m.regs[r]) BY <1>0, <2>1 DEF Above
  <2>3. ~IsPtr(m.regs[r]) BY <2>2 DEF Bare, IsPtr
  <2>4. m1.regs[r] = m.regs[r] BY <2>3 DEF Later, Becomes
  <2> QED BY <2>2, <2>4
<1>5. ASSUME NEW j \in 1..Len(m1.objs)
      PROVE  SlotsFine(m1, m1.objs[j]) /\ (j \in Y \/ Whole(m1, m1.objs[j]))
  <2>1. CASE j > n BY <1>0, <2>1
  <2>2. CASE ~(j > n)
    <3>1. j \in 1..n /\ j # 0 BY <1>0, <2>2
    <3>2. PICK i \in 1..Len(m.objs) : g[i] = j BY <3>1 DEF Later
    <3>3. ObjectBecomes(m1, g, m.objs[i], m1.objs[j]) BY <3>1, <3>2 DEF Later
    <3>4. SlotsFine(m, m.objs[i]) /\ (i \in X \/ Whole(m, m.objs[i])) BY <1>0
    <3>5. SlotsFine(m1, m1.objs[j]) BY <1>1, <3>3, <3>4 DEF SlotsFine, ObjectBecomes, AllBecome
    <3>6. CASE i \in X BY <3>2, <3>5, <3>6
    <3>7. CASE i \notin X
      <4>1. Whole(m1, m1.objs[j]) BY <1>0, <3>3, <3>4, <3>7, WholeLater
      <4> QED BY <3>5, <4>1
    <3> QED BY <3>6, <3>7
  <2> QED BY <2>1, <2>2
<1> QED BY <1>3, <1>4, <1>5 DEF Good

\* A sequence all of whose values have been moved.
MovedAll(st, s) == Sequence(Len(s), LAMBDA i : Moved(st, s[i]))

LEMMA MovedAllIs ==
  ASSUME NEW st, NEW s, Len(s) \in Nat
  PROVE  /\ IsSeq(MovedAll(st, s)) /\ Len(MovedAll(st, s)) = Len(s)
         /\ \A i \in 1..Len(s) : MovedAll(st, s)[i] = Moved(st, s[i])
<1> DEFINE n == Len(s)
           f == [i \in 1..n |-> Moved(st, s[i])]
<1>1. MovedAll(st, s) = f \o <<>> BY DEF MovedAll, Sequence
<1>2. f = [i \in 1..n |-> f[i]] OBVIOUS
<1>3. \A i \in 1..n : f[i] = Moved(st, s[i]) OBVIOUS
<1> HIDE DEF f
<1>4. IsSeq(f) /\ Len(f) = n BY <1>2, MakeSeq
<1> QED BY <1>1, <1>3, <1>4, WrittenOut

MovedObjects(st) ==
  Sequence(Len(st.to), LAMBDA k : [st.to[k] EXCEPT !.slots = MovedAll(st, st.to[k].slots)])

LEMMA MovedObjectsAre ==
  ASSUME NEW st, Len(st.to) \in Nat, \A k \in 1..Len(st.to) : AnObject(st.to[k])
  PROVE  LET to == MovedObjects(st)
         IN  /\ IsSeq(to) /\ Len(to) = Len(st.to)
             /\ \A k \in 1..Len(to) :
                    /\ AnObject(to[k]) /\ to[k].kind = st.to[k].kind /\ to[k].data = st.to[k].data
                    /\ to[k].slots = MovedAll(st, st.to[k].slots)
<1> DEFINE n == Len(st.to)
           f == [k \in 1..n |-> [st.to[k] EXCEPT !.slots = MovedAll(st, st.to[k].slots)]]
<1>1. MovedObjects(st) = f \o <<>> BY DEF MovedObjects, Sequence
<1>2. f = [k \in 1..n |-> f[k]] OBVIOUS
<1>3. \A k \in 1..n : f[k] = [st.to[k] EXCEPT !.slots = MovedAll(st, st.to[k].slots)] OBVIOUS
<1> HIDE DEF f
<1>4. IsSeq(f) /\ Len(f) = n BY <1>2, MakeSeq
<1>5. MovedObjects(st) = f BY <1>1, <1>4, WrittenOut
<1>6. ASSUME NEW k \in 1..n
      PROVE  /\ AnObject(f[k]) /\ f[k].kind = st.to[k].kind /\ f[k].data = st.to[k].data
             /\ f[k].slots = MovedAll(st, st.to[k].slots)
  <2> DEFINE o == st.to[k]
             s == MovedAll(st, o.slots)
  <2>1. DOMAIN o = {"kind", "slots", "data", "id"} /\ Len(o.slots) \in Nat BY DEF AnObject, IsSeq
  <2>2. IsSeq(s) BY <2>1, MovedAllIs
  <2>3. f[k] = [o EXCEPT !.slots = s] BY <1>3
  <2> HIDE DEF o, s
  <2>4. /\ DOMAIN f[k] = {"kind", "slots", "data", "id"}
        /\ f[k].kind = o.kind /\ f[k].data = o.data /\ f[k].slots = s
    BY <2>1, <2>3
  <2> QED BY <2>2, <2>4 DEF AnObject, o, s
<1> QED BY <1>4, <1>5, <1>6

LEMMA MovedBecomes ==
  ASSUME NEW m, NEW st, Copying(st, m), NEW m1, m1.active = 1 - m.active,
         NEW v, Fine(m, v), Copies(st, v)
  PROVE  Becomes(m1, st.fwd, v, Moved(st, v))
<1>1. CASE IsPtr(v)
  <2>1. v[3] \in 1..Len(m.objs) /\ v[2] = m.active BY <1>1, FineIs
  <2>2. st.from = m.active /\ DOMAIN st.fwd = 1..Len(m.objs) BY DEF Copying
  <2>3. st.fwd[v[3]] # 0 BY <1>1 DEF Copies
  <2>4. Moved(st, v) = Ptr(1 - st.from, st.fwd[v[3]]) BY <1>1, <2>1, <2>2, <2>3 DEF Moved
  <2> QED BY <1>1, <2>2, <2>3, <2>4 DEF Becomes
<1>2. CASE ~IsPtr(v) BY <1>2 DEF Becomes, Moved
<1> QED BY <1>1, <1>2

LEMMA CopiedIs ==
  ASSUME NEW m, AMachine(m), RootsFine(m), HeapOf(m)
  PROVE  LET st == Copied(m)
         IN  /\ Copying(st, m)
             /\ \A x : IsRoot(m, x) => Copies(st, x)
             /\ \A k \in 1..Len(st.to) : SlotsCopied(st, k)
<1> DEFINE start == [from |-> m.active, objs |-> m.objs, to |-> <<>>,
                     fwd |-> [i \in 1..Len(m.objs) |-> 0]]
           st1 == ForwardAll(start, RootValues(m))
           st2 == Loop(Len(m.objs), st1, Scan)
<1>1. Copied(m) = st2 BY DEF Copied
<1>2. Copying(start, m)
  <2>1. IsSeq(<<>>) /\ Len(<<>>) = 0 BY DEF IsSeq
  <2> QED BY <2>1 DEF Copying
<1>3. IsSeq(RootValues(m)) /\ \A x : In(x, RootValues(m)) <=> IsRoot(m, x) BY RootValuesAre
<1>4. ASSUME NEW x, IsRoot(m, x) PROVE Fine(m, x)
  <2>1. CASE \E r \in Scanned(m) : m.regs[r] = x BY <2>1 DEF RootsFine
  <2>2. CASE In(x, m.roots) BY <2>2 DEF RootsFine, In
  <2>3. CASE In(x, m.interned) BY <2>3 DEF RootsFine, In
  <2>4. CASE x = m.closure BY <2>4 DEF RootsFine
  <2>5. CASE \E d \in 1..Len(m.rets) : m.rets[d].closure = x BY <2>5 DEF RootsFine
  <2> QED BY <1>4, <2>1, <2>2, <2>3, <2>4, <2>5 DEF IsRoot
<1>5. \A i \in 1..Len(RootValues(m)) : Fine(m, RootValues(m)[i]) BY <1>3, <1>4 DEF In
<1> HIDE DEF start
<1>6. IsSeq(m.objs) BY DEF HeapOf
<1>7. /\ Copying(st1, m) /\ Grows(start, st1)
      /\ \A i \in 1..Len(RootValues(m)) : Copies(st1, RootValues(m)[i])
  BY <1>2, <1>3, <1>5, <1>6, ForwardAllIs
<1> HIDE DEF st1
<1>8. Copying(st2, m) /\ Grows(st1, st2) /\ \A k \in 1..Len(st2.to) : SlotsCopied(st2, k)
  BY <1>7, AllScanned
<1> HIDE DEF st2
<1>9. ASSUME NEW x, IsRoot(m, x) PROVE Copies(st2, x)
  <2>1. Copies(st1, x) BY <1>3, <1>7, <1>9 DEF In
  <2> QED BY <1>4, <1>7, <1>8, <1>9, <2>1, CopiesOn
<1> QED BY <1>1, <1>8, <1>9

\* Every register, slot and saved closure that the collector knows of moves with its object.
LEMMA CollectFields ==
  ASSUME NEW m, AMachine(m), NEW st, st = Copied(m)
  PROVE  LET m1 == Collect(m)
         IN  /\ DOMAIN m1 = Fields
             /\ m1.objs = MovedObjects(st) /\ m1.active = 1 - m.active
             /\ m1.regs = [r \in DOMAIN m.regs |->
                              IF r \in Scanned(m) THEN Moved(st, m.regs[r]) ELSE m.regs[r]]
             /\ m1.roots = MovedAll(st, m.roots) /\ m1.interned = MovedAll(st, m.interned)
             /\ m1.closure = Moved(st, m.closure)
             /\ m1.rets = [d \in DOMAIN m.rets |->
                              [m.rets[d] EXCEPT !.closure = Moved(st, m.rets[d].closure)]]
             /\ m1.window = m.window /\ m1.cfs = m.cfs /\ m1.loaded = m.loaded
             /\ m1.fault = m.fault
<1> DEFINE to == MovedObjects(st)
           regs == [r \in DOMAIN m.regs |->
                       IF r \in Scanned(m) THEN Moved(st, m.regs[r]) ELSE m.regs[r]]
           rets == [d \in DOMAIN m.rets |->
                       [m.rets[d] EXCEPT !.closure = Moved(st, m.rets[d].closure)]]
           roots == MovedAll(st, m.roots)
           interned == MovedAll(st, m.interned)
           closure == Moved(st, m.closure)
           cap == Grown(m, CellsOf(to))
<1>1. Collect(m) = [m EXCEPT !.objs = to, !.active = 1 - m.active, !.cap = cap, !.regs = regs,
                             !.roots = roots, !.interned = interned, !.closure = closure,
                             !.rets = rets]
  BY DEF Collect, MovedObjects, MovedAll
<1>2. DOMAIN m = Fields BY DEF AMachine
<1> HIDE DEF to, regs, rets, roots, interned, closure, cap
<1>3. LET m1 == Collect(m)
      IN  /\ DOMAIN m1 = Fields
          /\ m1.objs = to /\ m1.active = 1 - m.active /\ m1.regs = regs
          /\ m1.roots = roots /\ m1.interned = interned
          /\ m1.closure = closure /\ m1.rets = rets
          /\ m1.window = m.window /\ m1.cfs = m.cfs /\ m1.loaded = m.loaded /\ m1.fault = m.fault
  BY <1>1, <1>2 DEF Fields
<1> QED BY <1>3 DEF to, regs, rets, roots, interned, closure

LEMMA CollectIs ==
  ASSUME NEW m, AMachine(m), RootsFine(m), HeapOf(m)
  PROVE  LET m1 == Collect(m)
         IN  AMachine(m1) /\ \E g : Later(m, m1, g, Len(m1.objs))
<1> DEFINE st == Copied(m)
           m1 == Collect(m)
           g == st.fwd
           n == Len(st.to)
<1>1. /\ Copying(st, m)
      /\ \A x : IsRoot(m, x) => Copies(st, x)
      /\ \A k \in 1..Len(st.to) : SlotsCopied(st, k)
  BY CopiedIs
<1>2. /\ DOMAIN m1 = Fields
      /\ m1.objs = MovedObjects(st) /\ m1.active = 1 - m.active
      /\ m1.regs = [r \in DOMAIN m.regs |->
                       IF r \in Scanned(m) THEN Moved(st, m.regs[r]) ELSE m.regs[r]]
      /\ m1.roots = MovedAll(st, m.roots) /\ m1.interned = MovedAll(st, m.interned)
      /\ m1.closure = Moved(st, m.closure)
      /\ m1.rets = [d \in DOMAIN m.rets |->
                       [m.rets[d] EXCEPT !.closure = Moved(st, m.rets[d].closure)]]
      /\ m1.window = m.window /\ m1.cfs = m.cfs /\ m1.loaded = m.loaded /\ m1.fault = m.fault
  BY CollectFields
<1> HIDE DEF st, m1
<1>3. /\ IsSeq(m.objs) /\ IsSeq(m.rets) /\ IsSeq(m.roots) /\ IsSeq(m.interned)
      /\ DOMAIN m.rets = 1..Len(m.rets)
      /\ Len(m.objs) \in Nat /\ Len(m.rets) \in Nat /\ Len(m.roots) \in Nat /\ Len(m.interned) \in Nat
      /\ m.regs = [r \in 0..RegSpace - 1 |-> m.regs[r]] /\ DOMAIN m.regs = 0..RegSpace - 1
  BY DEF AMachine, IsSeq
<1>4. n \in Nat /\ g \in [1..Len(m.objs) -> 0..n] BY <1>1 DEF Copying, IsSeq
<1>5. ASSUME NEW k \in 1..n
      PROVE  AnObject(st.to[k]) /\ \E i \in 1..Len(m.objs) : g[i] = k /\ st.to[k] = m.objs[i]
  <2>1. PICK i \in 1..Len(m.objs) : g[i] = k BY <1>1 DEF Copying
  <2>2. k # 0 BY <1>4
  <2>3. st.to[k] = m.objs[i] BY <1>1, <2>1, <2>2 DEF Copying
  <2> QED BY <2>1, <2>3 DEF AMachine
<1>6. /\ IsSeq(m1.objs) /\ Len(m1.objs) = n
      /\ \A k \in 1..n : /\ AnObject(m1.objs[k]) /\ m1.objs[k].kind = st.to[k].kind
                         /\ m1.objs[k].data = st.to[k].data
                         /\ m1.objs[k].slots = MovedAll(st, st.to[k].slots)
  <2>1. LET to == MovedObjects(st)
        IN  /\ IsSeq(to) /\ Len(to) = Len(st.to)
            /\ \A k \in 1..Len(to) :
                   /\ AnObject(to[k]) /\ to[k].kind = st.to[k].kind /\ to[k].data = st.to[k].data
                   /\ to[k].slots = MovedAll(st, st.to[k].slots)
    BY <1>4, <1>5, MovedObjectsAre
  <2> QED BY <1>2, <2>1
<1>7. \A v : Fine(m, v) /\ Copies(st, v) => Becomes(m1, g, v, Moved(st, v))
  BY <1>1, <1>2, MovedBecomes
<1>8. /\ \A r \in Scanned(m) : Fine(m, m.regs[r]) /\ Copies(st, m.regs[r])
      /\ \A i \in 1..Len(m.roots) : Fine(m, m.roots[i]) /\ Copies(st, m.roots[i])
      /\ \A i \in 1..Len(m.interned) : Fine(m, m.interned[i]) /\ Copies(st, m.interned[i])
      /\ Fine(m, m.closure) /\ Copies(st, m.closure)
      /\ \A d \in 1..Len(m.rets) : Fine(m, m.rets[d].closure) /\ Copies(st, m.rets[d].closure)
  BY <1>1 DEF RootsFine, IsRoot, In
<1>9. Len(m1.rets) = Len(m.rets) /\ IsSeq(m1.rets)
  <2>1. m1.rets = [d \in 1..Len(m.rets) |-> m1.rets[d]] BY <1>2, <1>3
  <2> QED BY <1>3, <2>1, MakeSeq
<1>10. ASSUME NEW d \in 1..Len(m.rets)
       PROVE  /\ DOMAIN m1.rets[d] = {"window", "size", "closure"}
              /\ m1.rets[d].window = m.rets[d].window /\ m1.rets[d].size = m.rets[d].size
              /\ m1.rets[d].closure = Moved(st, m.rets[d].closure)
  <2>1. m1.rets[d] = [m.rets[d] EXCEPT !.closure = Moved(st, m.rets[d].closure)] BY <1>2, <1>3
  <2>2. DOMAIN m.rets[d] = {"window", "size", "closure"} BY DEF AMachine, Saved
  <2> QED BY <2>1, <2>2
<1>11. /\ IsSeq(m1.roots) /\ Len(m1.roots) = Len(m.roots)
       /\ \A i \in 1..Len(m.roots) : m1.roots[i] = Moved(st, m.roots[i])
  BY <1>2, <1>3, MovedAllIs
<1>12. /\ IsSeq(m1.interned) /\ Len(m1.interned) = Len(m.interned)
       /\ \A i \in 1..Len(m.interned) : m1.interned[i] = Moved(st, m.interned[i])
  BY <1>2, <1>3, MovedAllIs
<1>13. AMachine(m1)
  <2>1. m1.active \in {0, 1} BY <1>2 DEF AMachine
  <2>2. m1.regs = [r \in 0..RegSpace - 1 |-> m1.regs[r]] BY <1>2, <1>3
  <2>3. \A d \in 1..Len(m1.rets) : Saved(m1.rets[d]) BY <1>9, <1>10 DEF AMachine, Saved
  <2>4. m1.window \in Nat /\ m1.cfs \in Nat /\ m1.window + m1.cfs <= RegSpace BY <1>2 DEF AMachine
  <2>5. Stacked(m1)
    <3> SUFFICES ASSUME NEW d \in 1..Len(m.rets)
                 PROVE  /\ WindowOf(m1, d + 1) = m1.rets[d].window + m1.rets[d].size
                        /\ WindowOf(m1, d + 1) + Margin <= RegSpace
      BY <1>9 DEF Stacked
    <3>1. WindowOf(m1, d + 1) = WindowOf(m, d + 1)
      <4>1. d + 1 # Len(m.rets) + 1 => d + 1 \in 1..Len(m.rets) BY <1>3
      <4> QED BY <1>2, <1>9, <1>10, <4>1 DEF WindowOf
    <3> QED BY <1>10, <3>1 DEF AMachine, Stacked
  <2> QED BY <1>2, <1>6, <1>9, <1>11, <1>12, <2>1, <2>2, <2>3, <2>4, <2>5 DEF AMachine
<1>14. Later(m, m1, g, n)
  <2>1. n \in 0..Len(m1.objs) BY <1>4, <1>6
  <2>2. \A i, j \in 1..Len(m.objs) : g[i] = g[j] /\ g[i] # 0 => i = j BY <1>1 DEF Copying
  <2>3. \A j \in 1..n : \E i \in 1..Len(m.objs) : g[i] = j BY <1>1 DEF Copying
  <2>4. ASSUME NEW i \in 1..Len(m.objs), g[i] # 0
        PROVE  ObjectBecomes(m1, g, m.objs[i], m1.objs[g[i]])
    <3> DEFINE k == g[i]
               s == m.objs[i].slots
               s1 == m1.objs[k].slots
    <3>1. k \in 1..n BY <1>4, <2>4
    <3>2. st.to[k] = m.objs[i] BY <1>1, <2>4 DEF Copying
    <3>3. SlotsCopied(st, k) BY <1>1, <3>1
    <3>4. SlotsFine(m, m.objs[i]) /\ Len(s) \in Nat BY DEF HeapOf, AnObject, IsSeq
    <3>5. /\ m1.objs[k].kind = m.objs[i].kind /\ m1.objs[k].data = m.objs[i].data
          /\ s1 = MovedAll(st, s)
      BY <1>6, <3>1, <3>2
    <3>6. Len(s1) = Len(s) /\ \A j \in 1..Len(s) : s1[j] = Moved(st, s[j]) BY <3>4, <3>5, MovedAllIs
    <3>7. \A j \in 1..Len(s) : Fine(m, s[j]) /\ Copies(st, s[j])
      BY <3>2, <3>3, <3>4 DEF SlotsCopied, SlotsFine
    <3> HIDE DEF s, s1, k
    <3>8. AllBecome(m1, g, s, s1) BY <1>7, <3>6, <3>7 DEF AllBecome
    <3> QED BY <3>5, <3>8 DEF ObjectBecomes, s, s1, k
  <2>5. \A r \in Scanned(m) : Becomes(m1, g, m.regs[r], m1.regs[r])
    <3>1. Scanned(m) \subseteq DOMAIN m.regs BY <1>3, ScannedAre
    <3>2. \A r \in Scanned(m) : m1.regs[r] = Moved(st, m.regs[r]) BY <1>2, <3>1
    <3> QED BY <1>7, <1>8, <3>2
  <2>6. \A r \in 0..RegSpace - 1 : r \notin Scanned(m) => m1.regs[r] = m.regs[r] BY <1>2, <1>3
  <2>7. AllBecome(m1, g, m.roots, m1.roots) BY <1>7, <1>8, <1>11 DEF AllBecome
  <2>8. AllBecome(m1, g, m.interned, m1.interned) BY <1>7, <1>8, <1>12 DEF AllBecome
  <2>9. Becomes(m1, g, m.closure, m1.closure) BY <1>2, <1>7, <1>8
  <2>10. \A d \in 1..Len(m.rets) : /\ m1.rets[d].window = m.rets[d].window
                                   /\ m1.rets[d].size = m.rets[d].size
                                   /\ Becomes(m1, g, m.rets[d].closure, m1.rets[d].closure)
    BY <1>7, <1>8, <1>10
  <2> HIDE DEF g, n
  <2> QED BY <1>2, <1>4, <1>9, <2>1, <2>2, <2>3, <2>4, <2>5, <2>6, <2>7, <2>8, <2>9, <2>10
      DEF Later
<1> QED BY <1>6, <1>13, <1>14 DEF m1

\* Nothing has been moved.
LEMMA LaterSelf ==
  ASSUME NEW m, AMachine(m), RootsFine(m), HeapOf(m)
  PROVE  Later(m, m, [i \in 1..Len(m.objs) |-> i], Len(m.objs))
<1> DEFINE n == Len(m.objs)
           g == [i \in 1..n |-> i]
<1>0. n \in Nat BY DEF HeapOf, IsSeq
<1>1. g \in [1..n -> 0..n] /\ \A i \in 1..n : g[i] = i BY <1>0
<1> HIDE DEF g
<1>2. ASSUME NEW v, Fine(m, v) PROVE Becomes(m, g, v, v)
  <2>1. CASE IsPtr(v)
    <3>1. v[3] \in 1..n /\ v = Ptr(m.active, v[3]) BY <1>2, <2>1, FineIs
    <3> QED BY <1>0, <1>1, <2>1, <3>1 DEF Becomes
  <2>2. CASE ~IsPtr(v) BY <2>2 DEF Becomes
  <2> QED BY <2>1, <2>2
<1>3. \A i \in 1..n : ObjectBecomes(m, g, m.objs[i], m.objs[i])
  BY <1>2 DEF ObjectBecomes, AllBecome, HeapOf, SlotsFine
<1>4. /\ AllBecome(m, g, m.roots, m.roots) /\ AllBecome(m, g, m.interned, m.interned)
      /\ Becomes(m, g, m.closure, m.closure)
      /\ \A d \in 1..Len(m.rets) : Becomes(m, g, m.rets[d].closure, m.rets[d].closure)
      /\ \A r \in Scanned(m) : Becomes(m, g, m.regs[r], m.regs[r])
  BY <1>2 DEF RootsFine, AllBecome
<1>5. Later(m, m, g, n) BY <1>0, <1>1, <1>3, <1>4 DEF Later
<1> QED BY <1>5 DEF g

-----------------------------------------------------------------------------
(* Allocation.                                                             *)

\* A machine whose frames are those of another.
LEMMA StillMachine ==
  ASSUME NEW m, AMachine(m), NEW m1, DOMAIN m1 = Fields,
         IsSeq(m1.objs), \A i \in 1..Len(m1.objs) : AnObject(m1.objs[i]),
         m1.active = m.active, m1.regs = [r \in 0..RegSpace - 1 |-> m1.regs[r]],
         IsSeq(m1.roots), IsSeq(m1.interned),
         m1.rets = m.rets, m1.window = m.window, m1.cfs = m.cfs
  PROVE  AMachine(m1) /\ Scanned(m1) = Scanned(m)
<1>1. Stacked(m1) BY DEF AMachine, Stacked, WindowOf
<1>2. Scanned(m1) = Scanned(m) BY SameScanned
<1> QED BY <1>1, <1>2 DEF AMachine

\* w is m but for the size of its heap, which nothing above speaks of.
SameButCap(m, w) ==
  /\ DOMAIN w = Fields
  /\ w.objs = m.objs /\ w.active = m.active /\ w.regs = m.regs /\ w.window = m.window
  /\ w.cfs = m.cfs /\ w.rets = m.rets /\ w.closure = m.closure /\ w.roots = m.roots
  /\ w.interned = m.interned /\ w.loaded = m.loaded /\ w.fault = m.fault

LEMMA PutIs ==
  ASSUME NEW mc, AMachine(mc), NEW w, SameButCap(mc, w), NEW o, AnObject(o)
  PROVE  LET m1 == Put(w, o).vm
             n  == Len(mc.objs) + 1
         IN  /\ Put(w, o).at = Ptr(mc.active, n) /\ Len(m1.objs) = n
             /\ DOMAIN m1 = Fields /\ AMachine(m1)
             /\ \A i \in 1..Len(mc.objs) : m1.objs[i] = mc.objs[i]
             /\ m1.objs[n].kind = o.kind /\ m1.objs[n].data = o.data /\ m1.objs[n].slots = o.slots
             /\ m1.active = mc.active /\ m1.regs = mc.regs /\ m1.window = mc.window
             /\ m1.cfs = mc.cfs /\ m1.rets = mc.rets /\ m1.closure = mc.closure
             /\ m1.roots = mc.roots /\ m1.interned = mc.interned /\ m1.loaded = mc.loaded
             /\ m1.fault = mc.fault
<1> DEFINE m1 == Put(w, o).vm
           id == FreshId(w.objs)
           x == [o EXCEPT !.id = id]
           objs == Append(w.objs, x)
           n == Len(mc.objs) + 1
<1>0. DOMAIN w = Fields /\ w.objs = mc.objs /\ IsSeq(mc.objs) BY DEF SameButCap, AMachine
<1>1. m1 = [w EXCEPT !.objs = objs] /\ Put(w, o).at = Ptr(w.active, Len(w.objs) + 1) BY DEF Put
<1>2. AnObject(x) /\ x.kind = o.kind /\ x.data = o.data /\ x.slots = o.slots
  <2> HIDE DEF id
  <2>1. DOMAIN o = {"kind", "slots", "data", "id"} BY DEF AnObject
  <2>2. DOMAIN x = DOMAIN o /\ x.kind = o.kind /\ x.data = o.data /\ x.slots = o.slots BY <2>1
  <2> HIDE DEF x
  <2> QED BY <2>2 DEF AnObject
<1> HIDE DEF x
<1>3. /\ IsSeq(objs) /\ Len(objs) = n /\ \A i \in 1..Len(mc.objs) : objs[i] = mc.objs[i]
      /\ objs[n] = x
  BY <1>0, AppendIs
<1> HIDE DEF objs
<1>4. /\ DOMAIN m1 = Fields /\ m1.objs = objs /\ m1.active = w.active /\ m1.regs = w.regs
      /\ m1.window = w.window /\ m1.cfs = w.cfs /\ m1.rets = w.rets /\ m1.closure = w.closure
      /\ m1.roots = w.roots /\ m1.interned = w.interned /\ m1.loaded = w.loaded
      /\ m1.fault = w.fault
  <2> HIDE DEF m1
  <2> QED BY <1>0, <1>1 DEF Fields
<1> HIDE DEF m1
<1>5. \A i \in 1..Len(m1.objs) : AnObject(m1.objs[i])
  <2> TAKE i \in 1..Len(m1.objs)
  <2>1. Len(mc.objs) \in Nat BY <1>0 DEF IsSeq
  <2>2. CASE i = n BY <1>2, <1>3, <1>4, <2>2
  <2>3. CASE i # n
    <3>1. i \in 1..Len(mc.objs) BY <1>3, <1>4, <2>1, <2>3
    <3> QED BY <1>3, <1>4, <3>1 DEF AMachine
  <2> QED BY <2>2, <2>3
<1>6. AMachine(m1)
  <2>1. m1.regs = [r \in 0..RegSpace - 1 |-> m1.regs[r]] /\ IsSeq(m1.roots) /\ IsSeq(m1.interned)
        /\ m1.active = mc.active /\ m1.rets = mc.rets /\ m1.window = mc.window /\ m1.cfs = mc.cfs
    BY <1>4 DEF SameButCap, AMachine
  <2> QED BY <1>3, <1>4, <1>5, <2>1, StillMachine
<1> QED BY <1>0, <1>1, <1>2, <1>3, <1>4, <1>6 DEF SameButCap, m1

\* The new object and what has become of the others.
Made(m, o, m1, at, g) ==
  LET n == Len(m1.objs)
  IN  /\ n \in Nat \ {0} /\ at = Ptr(m1.active, n)
      /\ AMachine(m1) /\ Later(m, m1, g, n - 1)
      /\ m1.objs[n].kind = o.kind /\ m1.objs[n].data = o.data /\ m1.objs[n].slots = o.slots

LEMMA PutMakes ==
  ASSUME NEW m, NEW mc, AMachine(mc), NEW g, Later(m, mc, g, Len(mc.objs)),
         NEW w, SameButCap(mc, w), NEW o, AnObject(o)
  PROVE  Made(m, o, Put(w, o).vm, Put(w, o).at, g)
<1> DEFINE m1 == Put(w, o).vm
           at == Put(w, o).at
           n == Len(mc.objs)
<1>1. /\ at = Ptr(mc.active, n + 1) /\ Len(m1.objs) = n + 1
      /\ AMachine(m1)
      /\ \A i \in 1..n : m1.objs[i] = mc.objs[i]
      /\ m1.objs[n + 1].kind = o.kind /\ m1.objs[n + 1].data = o.data
      /\ m1.objs[n + 1].slots = o.slots
      /\ m1.active = mc.active /\ m1.regs = mc.regs /\ m1.window = mc.window
      /\ m1.cfs = mc.cfs /\ m1.rets = mc.rets /\ m1.closure = mc.closure
      /\ m1.roots = mc.roots /\ m1.interned = mc.interned /\ m1.loaded = mc.loaded
      /\ m1.fault = mc.fault
  BY PutIs
<1> HIDE DEF m1, at
<1>2. n \in Nat BY DEF AMachine, IsSeq
<1>3. \A v, v1 : Becomes(mc, g, v, v1) => Becomes(m1, g, v, v1) BY <1>1 DEF Becomes
<1>4. \A s, s1 : AllBecome(mc, g, s, s1) => AllBecome(m1, g, s, s1) BY <1>3 DEF AllBecome
<1>5. \A x, x1 : ObjectBecomes(mc, g, x, x1) => ObjectBecomes(m1, g, x, x1)
  BY <1>4 DEF ObjectBecomes
<1>6. Later(m, m1, g, n)
  <2>1. n \in 0..Len(m1.objs) BY <1>1, <1>2
  <2>2. /\ g \in [1..Len(m.objs) -> 0..n]
        /\ \A i, j \in 1..Len(m.objs) : g[i] = g[j] /\ g[i] # 0 => i = j
        /\ \A j \in 1..n : \E i \in 1..Len(m.objs) : g[i] = j
    BY DEF Later
  <2>3. \A i \in 1..Len(m.objs) : g[i] # 0 => ObjectBecomes(m1, g, m.objs[i], m1.objs[g[i]])
    <3> SUFFICES ASSUME NEW i \in 1..Len(m.objs), g[i] # 0
                 PROVE  ObjectBecomes(m1, g, m.objs[i], m1.objs[g[i]])
      OBVIOUS
    <3>1. g[i] \in 1..n BY <1>2, <2>2
    <3>2. m1.objs[g[i]] = mc.objs[g[i]] BY <1>1, <3>1
    <3> QED BY <1>5, <3>2 DEF Later
  <2>4. /\ \A r \in Scanned(m) : Becomes(m1, g, m.regs[r], m1.regs[r])
        /\ \A r \in 0..RegSpace - 1 : r \notin Scanned(m) => m1.regs[r] = m.regs[r]
    BY <1>1, <1>3 DEF Later
  <2>5. /\ AllBecome(m1, g, m.roots, m1.roots) /\ AllBecome(m1, g, m.interned, m1.interned)
        /\ Becomes(m1, g, m.closure, m1.closure)
    BY <1>1, <1>3, <1>4 DEF Later
  <2>6. /\ Len(m1.rets) = Len(m.rets)
        /\ \A d \in 1..Len(m.rets) : /\ m1.rets[d].window = m.rets[d].window
                                     /\ m1.rets[d].size = m.rets[d].size
                                     /\ Becomes(m1, g, m.rets[d].closure, m1.rets[d].closure)
        /\ m1.window = m.window /\ m1.cfs = m.cfs
        /\ m1.loaded = m.loaded /\ m1.fault = m.fault
    BY <1>1, <1>3 DEF Later
  <2> HIDE DEF n
  <2> QED BY <2>1, <2>2, <2>3, <2>4, <2>5, <2>6 DEF Later
<1>7. n + 1 \in Nat \ {0} /\ n + 1 - 1 = n BY <1>2
<1> QED BY <1>1, <1>6, <1>7 DEF Made, m1, at

LEMMA AllocIs ==
  ASSUME NEW m, AMachine(m), RootsFine(m), HeapOf(m), NEW o, AnObject(o)
  PROVE  LET a == Alloc(m, o)
         IN  IF a.at = Nil
             THEN AMachine(a.vm) /\ \E g : Later(m, a.vm, g, Len(a.vm.objs))
             ELSE \E g : Made(m, o, a.vm, a.at, g)
<1> DEFINE a == Alloc(m, o)
           mc == Collect(m)
           need == CellsOf(mc.objs) + Cells(o)
           c == Doubled(mc, LAMBDA d : need <= d)
           wide == [mc EXCEPT !.cap = c]
<1>1. \A w : Put(w, o).at # Nil
  <2> TAKE w
  <2>1. Put(w, o).at = Ptr(w.active, Len(w.objs) + 1) BY DEF Put
  <2>2. Put(w, o).at[1] = "ptr" /\ Nil[1] = "nil" BY <2>1 DEF Ptr, Nil
  <2> QED BY <2>2
<1>2. CASE Fits(m, o)
  <2>1. a = Put(m, o) BY <1>2 DEF Alloc
  <2>2. SameButCap(m, m) BY DEF SameButCap, AMachine
  <2>3. Made(m, o, Put(m, o).vm, Put(m, o).at, [i \in 1..Len(m.objs) |-> i])
    BY <2>2, LaterSelf, PutMakes
  <2> QED BY <1>1, <2>1, <2>3
<1>3. CASE ~Fits(m, o)
  <2>1. AMachine(mc) /\ \E g : Later(m, mc, g, Len(mc.objs)) BY CollectIs
  <2>2. PICK g : Later(m, mc, g, Len(mc.objs)) BY <2>1
  <2>3. SameButCap(mc, mc) BY <2>1 DEF SameButCap, AMachine
  <2>4. DOMAIN mc = Fields BY <2>1 DEF AMachine
  <2>5. SameButCap(mc, wide)
    <3> HIDE DEF mc, c
    <3> QED BY <2>4 DEF SameButCap, Fields
  <2>6. a = Put(mc, o) \/ a = Put(wide, o) \/ a = NoRoom(mc)
    <3>1. a = AfterCollection(mc, o) BY <1>3 DEF Alloc
    <3> HIDE DEF mc
    <3> QED BY <3>1 DEF AfterCollection
  <2> HIDE DEF a, mc, c, wide
  <2>7. CASE a = Put(mc, o)
    <3>1. Made(m, o, Put(mc, o).vm, Put(mc, o).at, g) BY <2>1, <2>2, <2>3, PutMakes
    <3> QED BY <1>1, <2>7, <3>1 DEF a
  <2>8. CASE a = Put(wide, o)
    <3>1. Made(m, o, Put(wide, o).vm, Put(wide, o).at, g) BY <2>1, <2>2, <2>5, PutMakes
    <3> QED BY <1>1, <2>8, <3>1 DEF a
  <2>9. CASE a = NoRoom(mc)
    <3>1. a.at = Nil /\ a.vm = mc BY <2>9 DEF NoRoom
    <3> QED BY <2>1, <3>1 DEF a
  <2> QED BY <2>6, <2>7, <2>8, <2>9
<1> QED BY <1>2, <1>3

LEMMA GoodIs == ASSUME NEW m, NEW X, Good(m, X) PROVE AMachine(m) /\ RootsFine(m) /\ HeapOf(m)
BY DEF Good, HeapOf, AMachine

LEMMA AllocGood ==
  ASSUME NEW m, NEW X, Good(m, X), NEW o, AnObject(o), \A k \in 1..Len(o.slots) : Bare(o.slots[k])
  PROVE  LET a == Alloc(m, o)
         IN  IF a.at = Nil THEN \E Y : Good(a.vm, Y)
             ELSE \E g : /\ Made(m, o, a.vm, a.at, g)
                         /\ Good(a.vm, {g[i] : i \in X} \cup {Len(a.vm.objs)})
<1> DEFINE a == Alloc(m, o)
           m1 == a.vm
<1>1. IF a.at = Nil THEN AMachine(m1) /\ \E g : Later(m, m1, g, Len(m1.objs))
      ELSE \E g : Made(m, o, m1, a.at, g)
  BY GoodIs, AllocIs
<1> HIDE DEF a
<1>2. CASE a.at = Nil
  <2>1. PICK g : Later(m, m1, g, Len(m1.objs)) BY <1>1, <1>2
  <2>2. AMachine(m1) /\ Len(m1.objs) \in Nat BY <1>1, <1>2 DEF AMachine, IsSeq
  <2>3. \A i \in Len(m1.objs) + 1..Len(m1.objs) : SlotsFine(m1, m1.objs[i]) BY <2>2
  <2>4. Good(m1, {g[i] : i \in X} \cup (Len(m1.objs) + 1..Len(m1.objs))) BY <2>1, <2>2, <2>3, LaterGood
  <2> QED BY <1>2, <2>4 DEF a
<1>3. CASE a.at # Nil
  <2>1. PICK g : Made(m, o, m1, a.at, g) BY <1>1, <1>3
  <2> DEFINE n == Len(m1.objs)
  <2>2. n \in Nat \ {0} /\ AMachine(m1) /\ Later(m, m1, g, n - 1) /\ m1.objs[n].slots = o.slots
    BY <2>1 DEF Made
  <2>3. n - 1 + 1 = n /\ n..n = {n} BY <2>2
  <2>4. SlotsFine(m1, m1.objs[n]) BY <2>2 DEF SlotsFine, Fine
  <2>5. \A i \in n - 1 + 1..n : SlotsFine(m1, m1.objs[i]) BY <2>3, <2>4
  <2>6. Good(m1, {g[i] : i \in X} \cup (n - 1 + 1..n)) BY <2>2, <2>5, LaterGood
  <2>7. Good(m1, {g[i] : i \in X} \cup {n}) BY <2>3, <2>6
  <2> QED BY <1>3, <2>1, <2>7 DEF a
<1> QED BY <1>2, <1>3

-----------------------------------------------------------------------------
(* A register or an object is written.                                     *)

LEMMA FineSame ==
  ASSUME NEW m, NEW m1, Len(m1.objs) = Len(m.objs), m1.active = m.active
  PROVE  \A v : Fine(m1, v) <=> Fine(m, v)
BY DEF Fine

LEMMA SameHeap ==
  ASSUME NEW m, NEW m1, m1.objs = m.objs, m1.active = m.active
  PROVE  /\ \A o : SlotsFine(m, o) => SlotsFine(m1, o)
         /\ \A o : Whole(m, o) => Whole(m1, o)
<1>1. \A v : Fine(m1, v) <=> Fine(m, v) BY FineSame
<1>2. \A o : SlotsFine(m, o) => SlotsFine(m1, o) BY <1>1 DEF SlotsFine
<1>3. \A v : At(m1, v) = At(m, v) /\ SizeAt(m1, v) = SizeAt(m, v) BY DEF At, SizeAt
<1>4. \A o : Backed(m, o) => Backed(m1, o) BY <1>1, <1>3 DEF Backed
<1>5. \A o : Whole(m, o) => Whole(m1, o) BY <1>3, <1>4 DEF Whole
<1> QED BY <1>2, <1>5

LEMMA RegisterIs ==
  ASSUME NEW m, NEW X, Good(m, X), NEW r \in 0..m.cfs - 1
  PROVE  /\ m.window + r \in 0..RegSpace - 1 /\ m.window + r \in Scanned(m)
         /\ Fine(m, Reg(m, r))
<1>1. AMachine(m) /\ RootsFine(m) BY DEF Good
<1>2. m.window \in Nat /\ m.cfs \in Nat BY <1>1 DEF AMachine
<1>3. m.window + r \in FrameSlots(m.window, m.cfs) BY <1>2 DEF FrameSlots
<1>4. m.window + r \in Scanned(m) BY <1>3 DEF Scanned
<1>5. m.window + r \in 0..RegSpace - 1 BY <1>1, <1>4, ScannedAre
<1> QED BY <1>1, <1>4, <1>5 DEF RootsFine, Reg

\* m1 is m with other registers.
OtherRegs(m, m1) ==
  /\ DOMAIN m1 = Fields
  /\ m1.objs = m.objs /\ m1.active = m.active /\ m1.window = m.window
  /\ m1.cfs = m.cfs /\ m1.rets = m.rets /\ m1.closure = m.closure /\ m1.roots = m.roots
  /\ m1.interned = m.interned /\ m1.loaded = m.loaded /\ m1.fault = m.fault

LEMMA SetRegIs ==
  ASSUME NEW m, AMachine(m), NEW r \in 0..m.cfs - 1, NEW v
  PROVE  LET m1 == SetReg(m, r, v)
         IN  /\ OtherRegs(m, m1) /\ m1.regs = [m.regs EXCEPT ![m.window + r] = v]
<1>1. SetReg(m, r, v) = [m EXCEPT !.regs = [m.regs EXCEPT ![m.window + r] = v]] BY DEF SetReg
<1>2. DOMAIN m = Fields BY DEF AMachine
<1> QED BY <1>1, <1>2 DEF OtherRegs, Fields

LEMMA SetRegGood ==
  ASSUME NEW m, NEW X, Good(m, X), NEW r \in 0..m.cfs - 1, NEW v, Fine(m, v)
  PROVE  LET m1 == SetReg(m, r, v)
         IN  /\ Good(m1, X) /\ OtherRegs(m, m1) /\ Reg(m1, r) = v
             /\ \A q \in 0..m.cfs - 1 : q # r => Reg(m1, q) = Reg(m, q)
<1> DEFINE m1 == SetReg(m, r, v)
           p == m.window + r
<1>0. AMachine(m) /\ RootsFine(m) /\ Above(m) BY DEF Good
<1>1. p \in 0..RegSpace - 1 BY RegisterIs
<1>2. OtherRegs(m, m1) /\ m1.regs = [m.regs EXCEPT ![p] = v] BY <1>0, SetRegIs
<1> HIDE DEF m1
<1>3. DOMAIN m.regs = 0..RegSpace - 1 BY <1>0 DEF AMachine
<1>4. /\ m1.regs = [q \in 0..RegSpace - 1 |-> m1.regs[q]]
      /\ m1.regs[p] = v /\ \A q \in 0..RegSpace - 1 : q # p => m1.regs[q] = m.regs[q]
  BY <1>1, <1>2, <1>3
<1>5. AMachine(m1) /\ Scanned(m1) = Scanned(m) BY <1>0, <1>2, <1>4, StillMachine DEF AMachine, OtherRegs
<1>6. \A x : Fine(m1, x) <=> Fine(m, x) BY <1>2, FineSame DEF OtherRegs
<1>7. RootsFine(m1)
  <2>1. \A q \in Scanned(m) : Fine(m, m1.regs[q])
    <3>1. Scanned(m) \subseteq 0..RegSpace - 1 BY <1>0, ScannedAre
    <3> QED BY <1>0, <1>4, <3>1 DEF RootsFine
  <2> QED BY <1>0, <1>2, <1>5, <1>6, <2>1 DEF RootsFine, OtherRegs
<1>8. Above(m1)
  <2>1. m.window \in Nat /\ m.cfs \in Nat BY <1>0 DEF AMachine
  <2>2. ~(p >= m.window + m.cfs) BY <2>1
  <2> QED BY <1>0, <1>2, <1>4, <2>2 DEF Above, OtherRegs
<1>9. \A i \in 1..Len(m1.objs) : SlotsFine(m1, m1.objs[i]) /\ (i \in X \/ Whole(m1, m1.objs[i]))
  <2>1. m1.objs = m.objs BY <1>2 DEF OtherRegs
  <2> QED BY <1>6, <2>1 DEF Good, SlotsFine, Whole, Backed, At, SizeAt
<1>10. Reg(m1, r) = v /\ \A q \in 0..m.cfs - 1 : q # r => Reg(m1, q) = Reg(m, q)
  <2>1. m1.window = m.window BY <1>2 DEF OtherRegs
  <2>2. \A q \in 0..m.cfs - 1 : m.window + q \in 0..RegSpace - 1 BY RegisterIs
  <2>3. m.window \in Nat BY <1>0 DEF AMachine
  <2>4. \A q \in 0..m.cfs - 1 : q # r => m.window + q # p BY <2>3
  <2> QED BY <1>4, <2>1, <2>2, <2>4 DEF Reg
<1> QED BY <1>2, <1>5, <1>7, <1>8, <1>9, <1>10 DEF Good, m1

\* m1 is m with the slots of the object i rewritten to s.
Rewritten(m, m1, i, s) ==
  /\ DOMAIN m1 = Fields
  /\ m1.active = m.active /\ m1.regs = m.regs /\ m1.window = m.window
  /\ m1.cfs = m.cfs /\ m1.rets = m.rets /\ m1.closure = m.closure /\ m1.roots = m.roots
  /\ m1.interned = m.interned /\ m1.loaded = m.loaded /\ m1.fault = m.fault
  /\ IsSeq(m1.objs) /\ Len(m1.objs) = Len(m.objs)
  /\ \A j \in 1..Len(m.objs) : j # i => m1.objs[j] = m.objs[j]
  /\ DOMAIN m1.objs[i] = {"kind", "slots", "data", "id"}
  /\ m1.objs[i].kind = m.objs[i].kind /\ m1.objs[i].data = m.objs[i].data
  /\ m1.objs[i].slots = s

LEMMA LiveIs ==
  ASSUME NEW m, NEW i \in 1..Len(m.objs)
  PROVE  LET v == Ptr(m.active, i)
         IN  Live(m, v) /\ IsPtr(v) /\ ~Bare(v) /\ v[3] = i /\ Fine(m, v) /\ At(m, v) = m.objs[i]
<1> DEFINE v == Ptr(m.active, i)
<1>1. v[1] = "ptr" /\ v[2] = m.active /\ v[3] = i BY DEF Ptr
<1>2. Fine(m, v) BY DEF Fine
<1> HIDE DEF v
<1>3. Live(m, v) /\ IsPtr(v) /\ ~Bare(v) /\ At(m, v) = m.objs[i] BY <1>1 DEF Live, IsPtr, Bare, At
<1> QED BY <1>1, <1>2, <1>3 DEF v

\* The same, for an address that is known.
LEMMA LiveHere ==
  ASSUME NEW m, NEW i \in 1..Len(m.objs), NEW v, v = Ptr(m.active, i)
  PROVE  Live(m, v) /\ At(m, v) = m.objs[i]
BY LiveIs

LEMMA SetSlotsIs ==
  ASSUME NEW m, AMachine(m), NEW i \in 1..Len(m.objs), NEW s
  PROVE  Rewritten(m, SetSlots(m, Ptr(m.active, i), s), i, s)
<1> DEFINE v == Ptr(m.active, i)
           m1 == SetSlots(m, v, s)
           o == [m.objs[i] EXCEPT !.slots = s]
           objs == [m.objs EXCEPT ![i] = o]
<1>1. Live(m, v) /\ v[3] = i BY LiveIs
<1>2. m1 = [m EXCEPT !.objs[v[3]].slots = s] BY <1>1 DEF SetSlots
<1> HIDE DEF v
<1>3. m1 = [m EXCEPT !.objs = objs] BY <1>1, <1>2
<1>4. DOMAIN m = Fields /\ m.objs = [j \in 1..Len(m.objs) |-> m.objs[j]] /\ Len(m.objs) \in Nat
      /\ DOMAIN m.objs[i] = {"kind", "slots", "data", "id"}
  BY DEF AMachine, IsSeq, AnObject
<1>5. /\ DOMAIN o = {"kind", "slots", "data", "id"} /\ o.kind = m.objs[i].kind
      /\ o.data = m.objs[i].data /\ o.slots = s
  BY <1>4
<1> HIDE DEF o, m1
<1>6. objs = [j \in 1..Len(m.objs) |-> objs[j]] /\ objs[i] = o
      /\ \A j \in 1..Len(m.objs) : j # i => objs[j] = m.objs[j]
  BY <1>4
<1> HIDE DEF objs
<1>7. IsSeq(objs) /\ Len(objs) = Len(m.objs) BY <1>4, <1>6, MakeSeq
<1>8. /\ DOMAIN m1 = Fields /\ m1.objs = objs
      /\ m1.active = m.active /\ m1.regs = m.regs /\ m1.window = m.window
      /\ m1.cfs = m.cfs /\ m1.rets = m.rets /\ m1.closure = m.closure /\ m1.roots = m.roots
      /\ m1.interned = m.interned /\ m1.loaded = m.loaded /\ m1.fault = m.fault
  BY <1>3, <1>4 DEF Fields
<1>9. Rewritten(m, m1, i, s) BY <1>5, <1>6, <1>7, <1>8 DEF Rewritten
<1> QED BY <1>9 DEF m1, v

\* m1 is m with x in slot k of the object i.
Slotted(m, m1, i, k, x) ==
  LET s == m1.objs[i].slots
  IN  /\ Rewritten(m, m1, i, s) /\ IsSeq(s) /\ Len(s) = Len(m.objs[i].slots)
      /\ \A j \in 1..Len(s) : s[j] = IF j = k THEN x ELSE m.objs[i].slots[j]

LEMMA SlotWritten ==
  ASSUME NEW m, AMachine(m), NEW i \in 1..Len(m.objs), NEW k, NEW x
  PROVE  Slotted(m, SetSlot(m, Ptr(m.active, i), k, x), i, k, x)
<1> DEFINE v == Ptr(m.active, i)
           old == m.objs[i].slots
           s == [old EXCEPT ![k] = x]
           m1 == SetSlot(m, v, k, x)
<1>1. Live(m, v) /\ v[3] = i BY LiveIs
<1>2. SetSlot(m, v, k, x) = [m EXCEPT !.objs[v[3]].slots[k] = x] BY <1>1 DEF SetSlot
<1>3. SetSlots(m, v, s) = [m EXCEPT !.objs[v[3]].slots = s] BY <1>1 DEF SetSlots
<1>4. SetSlot(m, v, k, x) = SetSlots(m, v, s)
  <2> HIDE DEF v
  <2>1. [m EXCEPT !.objs[v[3]].slots[k] = x] = [m EXCEPT !.objs[v[3]].slots = s] BY <1>1
  <2> QED BY <1>2, <1>3, <2>1
<1>5. Rewritten(m, SetSlots(m, v, s), i, s) BY SetSlotsIs
<1>6. IsSeq(old) BY DEF AMachine, AnObject
<1> HIDE DEF old
<1>7. Len(old) \in Nat /\ old = [j \in 1..Len(old) |-> old[j]] BY <1>6 DEF IsSeq
<1>8. /\ s = [j \in 1..Len(old) |-> s[j]] /\ \A j \in 1..Len(old) : j # k => s[j] = old[j]
      /\ k \in 1..Len(old) => s[k] = x
  BY <1>7
<1> HIDE DEF s
<1>9. IsSeq(s) /\ Len(s) = Len(old) BY <1>7, <1>8, MakeSeq
<1>10. Rewritten(m, m1, i, s) BY <1>4, <1>5
<1> HIDE DEF m1
<1>11. m1.objs[i].slots = s BY <1>10 DEF Rewritten
<1>12. Slotted(m, m1, i, k, x) BY <1>7, <1>8, <1>9, <1>10, <1>11 DEF Slotted, old
<1> QED BY <1>12 DEF m1, v

\* No object refers to the object i.
Unshared(m, i) ==
  \A j \in 1..Len(m.objs) : \A k \in 1..Len(m.objs[j].slots) :
      m.objs[j].slots[k] # Ptr(m.active, i)

LEMMA RewrittenGood ==
  ASSUME NEW m, NEW X, Good(m, X), NEW i \in 1..Len(m.objs), NEW s, IsSeq(s),
         \A k \in 1..Len(s) : Fine(m, s[k]), NEW m1, Rewritten(m, m1, i, s),
         m.objs[i].kind = "array" => Len(s) = Len(m.objs[i].slots) \/ Unshared(m, i)
  PROVE  /\ Good(m1, X \cup {i})
         /\ m.objs[i].kind \notin {"vec", "map"} => Good(m1, X)
<1>0. /\ AMachine(m) /\ RootsFine(m) /\ Above(m) /\ Len(m1.objs) = Len(m.objs)
      /\ m1.active = m.active
  BY DEF Good, Rewritten
<1>1. \A j \in 1..Len(m1.objs) : AnObject(m1.objs[j]) BY <1>0 DEF Rewritten, AMachine, AnObject
<1>2. AMachine(m1) /\ Scanned(m1) = Scanned(m) BY <1>0, <1>1, StillMachine DEF Rewritten, AMachine
<1>3. \A x : Fine(m1, x) <=> Fine(m, x) BY <1>0, FineSame
<1>4. RootsFine(m1) BY <1>0, <1>2, <1>3 DEF RootsFine, Rewritten
<1>5. Above(m1) BY <1>0 DEF Above, Rewritten
<1>6. \A j \in 1..Len(m1.objs) : SlotsFine(m1, m1.objs[j])
  <2> TAKE j \in 1..Len(m1.objs)
  <2>1. CASE j = i BY <1>3, <2>1 DEF SlotsFine, Rewritten
  <2>2. CASE j # i
    <3>1. m1.objs[j] = m.objs[j] /\ j \in 1..Len(m.objs) BY <1>0, <2>2 DEF Rewritten
    <3> QED BY <1>3, <3>1 DEF SlotsFine, Good
  <2> QED BY <2>1, <2>2
<1>7. ASSUME NEW j \in 1..Len(m.objs), j # i, Whole(m, m.objs[j]) PROVE Whole(m1, m1.objs[j])
  <2> DEFINE o == m.objs[j]
             v == o.slots[1]
  <2>1. m1.objs[j] = o BY <1>7 DEF Rewritten
  <2>2. ASSUME o.kind \in {"vec", "map"} PROVE Backed(m1, o) /\ SizeAt(m1, v) = SizeAt(m, v)
    <3>1. Backed(m, o) /\ 1 \in 1..Len(o.slots) BY <1>7, <2>2 DEF Whole
    <3>2. ~Bare(v) /\ Fine(m, v) /\ At(m, v).kind = "array" BY <3>1 DEF Backed
    <3>3. v[3] \in 1..Len(m.objs) /\ v = Ptr(m.active, v[3]) BY <3>2, FineIs
    <3>4. CASE v[3] = i
      <4>1. m.objs[i].kind = "array" /\ ~Unshared(m, i) BY <3>1, <3>2, <3>3, <3>4 DEF At, Unshared
      <4>2. Len(s) = Len(m.objs[i].slots) BY <4>1
      <4>3. At(m1, v).kind = "array" /\ SizeAt(m1, v) = SizeAt(m, v)
        BY <3>4, <4>1, <4>2 DEF At, SizeAt, Rewritten
      <4> QED BY <1>3, <3>1, <4>3 DEF Backed
    <3>5. CASE v[3] # i
      <4>1. At(m1, v) = At(m, v) BY <3>3, <3>5 DEF At, Rewritten
      <4> QED BY <1>3, <3>1, <4>1 DEF Backed, SizeAt
    <3> QED BY <3>4, <3>5
  <2> QED BY <1>7, <2>1, <2>2 DEF Whole
<1>8. Good(m1, X \cup {i})
  <2>1. \A j \in 1..Len(m1.objs) : j \in X \cup {i} \/ Whole(m1, m1.objs[j]) BY <1>0, <1>7 DEF Good
  <2> QED BY <1>2, <1>4, <1>5, <1>6, <2>1 DEF Good
<1>9. m.objs[i].kind \notin {"vec", "map"} => Good(m1, X)
  <2> SUFFICES ASSUME m.objs[i].kind \notin {"vec", "map"} PROVE Good(m1, X) OBVIOUS
  <2>1. i \in X \/ Whole(m1, m1.objs[i]) BY DEF Good, Whole, Rewritten
  <2>2. \A j \in 1..Len(m1.objs) : j \in X \/ Whole(m1, m1.objs[j]) BY <1>8, <2>1 DEF Good
  <2> QED BY <1>2, <1>4, <1>5, <1>6, <2>2 DEF Good
<1> QED BY <1>8, <1>9

\* A header that has become complete.
LEMMA Completed ==
  ASSUME NEW m, NEW X, NEW i, Good(m, X \cup {i}), Whole(m, m.objs[i])
  PROVE  Good(m, X)
BY DEF Good

LEMMA MadeUnshared ==
  ASSUME NEW m, NEW X, Good(m, X), NEW o, \A k \in 1..Len(o.slots) : Bare(o.slots[k]),
         NEW m1, NEW at, NEW g, Made(m, o, m1, at, g)
  PROVE  Unshared(m1, Len(m1.objs))
<1> DEFINE n == Len(m1.objs)
<1>0. n \in Nat \ {0} /\ Later(m, m1, g, n - 1) /\ m1.objs[n].slots = o.slots BY DEF Made
<1> SUFFICES ASSUME NEW j \in 1..n, NEW k \in 1..Len(m1.objs[j].slots),
                    m1.objs[j].slots[k] = Ptr(m1.active, n)
             PROVE  FALSE
  BY DEF Unshared
<1>1. m1.objs[j].slots[k][1] = "ptr" /\ m1.objs[j].slots[k][3] = n BY DEF Ptr
<1>2. CASE j = n BY <1>0, <1>1, <1>2 DEF Bare
<1>3. CASE j # n
  <2>1. j \in 1..n - 1 /\ j # 0 BY <1>0, <1>3
  <2>2. PICK i \in 1..Len(m.objs) : g[i] = j BY <1>0, <2>1 DEF Later
  <2>3. ObjectBecomes(m1, g, m.objs[i], m1.objs[j]) BY <1>0, <2>1, <2>2 DEF Later
  <2> DEFINE v == m.objs[i].slots[k]
             v1 == m1.objs[j].slots[k]
  <2>4. k \in 1..Len(m.objs[i].slots) /\ Becomes(m1, g, v, v1) BY <2>3 DEF ObjectBecomes, AllBecome
  <2>5. Fine(m, v) BY <2>4 DEF Good, SlotsFine
  <2> HIDE DEF v, v1
  <2>6. IsPtr(v)
    <3> SUFFICES ASSUME ~IsPtr(v) PROVE FALSE OBVIOUS
    <3>1. v1 = v BY <2>4 DEF Becomes
    <3> QED BY <1>1, <3>1 DEF IsPtr, v1
  <2>7. v[3] \in 1..Len(m.objs) BY <2>5, <2>6, FineIs
  <2>8. v1 = Ptr(m1.active, g[v[3]]) BY <2>4, <2>6 DEF Becomes
  <2>9. g[v[3]] = n BY <1>1, <2>8 DEF Ptr, v1
  <2>10. g[v[3]] \in 0..n - 1 BY <1>0, <2>7 DEF Later
  <2> QED BY <1>0, <2>9, <2>10
<1> QED BY <1>2, <1>3

-----------------------------------------------------------------------------
(* The instructions.                                                       *)

\* What an instruction may leave: whatever has failed, no root is stale.
Outcome(m) ==
  /\ \E X : Good(m, X)
  /\ m.fault = "none" => Good(m, {}) /\ Len(program.texts) <= Len(m.roots)

LEMMA DoKeeps == ASSUME MachineInv, NEW m, Outcome(m), Do(m) PROVE MachineInv'
<1>1. PICK X : Good(m, X) BY DEF Outcome
<1>2. Good(m, X \cap 1..Len(m.objs)) BY <1>1 DEF Good
<1>3. vm' = m /\ program' = program BY DEF Do
<1>4. (m.fault = "none" => Good(m, {}) /\ Len(program.texts) <= Len(m.roots)) /\ program \in Programs
  BY DEF Outcome, MachineInv
<1>5. \E Y \in SUBSET (1..Len(vm'.objs)) : Good(vm', Y) BY <1>2, <1>3
<1> QED BY <1>3, <1>4, <1>5 DEF MachineInv

\* Between two instructions.
Steady == Good(vm, {}) /\ vm.fault = "none" /\ Len(program.texts) <= Len(vm.roots)

LEMMA ReadyIs == ASSUME MachineInv, NEW op, Ready(op) PROVE Steady
BY DEF MachineInv, Ready, Steady

LEMMA FaultIs ==
  ASSUME NEW m, NEW X, Good(m, X), NEW why, why # "none"
  PROVE  Outcome(Fault(m, why))
<1> DEFINE m1 == Fault(m, why)
<1>1. m1 = [m EXCEPT !.fault = why] /\ DOMAIN m = Fields BY DEF Fault, Good, AMachine
<1> HIDE DEF m1
<1>2. /\ DOMAIN m1 = Fields /\ m1.fault = why
      /\ m1.objs = m.objs /\ m1.active = m.active /\ m1.regs = m.regs /\ m1.window = m.window
      /\ m1.cfs = m.cfs /\ m1.rets = m.rets /\ m1.closure = m.closure /\ m1.roots = m.roots
      /\ m1.interned = m.interned
  BY <1>1 DEF Fields
<1>3. AMachine(m) /\ RootsFine(m) /\ Above(m) BY DEF Good
<1>4. AMachine(m1) /\ Scanned(m1) = Scanned(m) BY <1>2, <1>3, StillMachine DEF AMachine
<1>5. \A x : Fine(m1, x) <=> Fine(m, x) BY <1>2, FineSame
<1>6. RootsFine(m1) /\ Above(m1) BY <1>2, <1>3, <1>4, <1>5 DEF RootsFine, Above
<1>7. \A i \in 1..Len(m1.objs) : SlotsFine(m1, m1.objs[i]) /\ (i \in X \/ Whole(m1, m1.objs[i]))
  BY <1>2, SameHeap DEF Good
<1>8. Good(m1, X) BY <1>4, <1>6, <1>7 DEF Good
<1>9. Outcome(m1) BY <1>2, <1>8 DEF Outcome
<1> QED BY <1>9 DEF m1

\* A register is written with a value.
LEMMA RegWritten ==
  ASSUME NEW m, Good(m, {}), Len(program.texts) <= Len(m.roots),
         NEW r \in 0..m.cfs - 1, NEW v, Fine(m, v)
  PROVE  Outcome(SetReg(m, r, v))
<1> DEFINE m1 == SetReg(m, r, v)
<1>1. Good(m1, {}) /\ OtherRegs(m, m1) BY SetRegGood
<1> HIDE DEF m1
<1>2. m1.roots = m.roots BY <1>1 DEF OtherRegs
<1>3. Outcome(m1) BY <1>1, <1>2 DEF Outcome
<1> QED BY <1>3 DEF m1

LEMMA Immediates ==
  /\ Bare(Undefined) /\ Bare(Nil) /\ Bare(Tombstone) /\ \A n : Bare(Num(n)) /\ Num(n)[2] = n
  /\ \A m : Fine(m, Undefined) /\ Fine(m, Nil) /\ Fine(m, Tombstone) /\ \A n : Fine(m, Num(n))
<1>1. Bare(Undefined) /\ Bare(Nil) /\ Bare(Tombstone) BY DEF Bare, Undefined, Nil, Tombstone
<1>2. \A n : Bare(Num(n)) /\ Num(n)[2] = n BY DEF Bare, Num
<1> QED BY <1>1, <1>2 DEF Fine

LEMMA LoadStrKeeps == MachineInv /\ LoadStr => MachineInv'
<1> SUFFICES ASSUME MachineInv, LoadStr PROVE MachineInv' OBVIOUS
<1>1. PICK rd \in Frame, i \in DOMAIN program.texts :
        Ready("string") /\ Do(SetReg(vm, rd, vm.roots[i]))
  BY DEF LoadStr
<1>2. Steady BY <1>1, ReadyIs
<1>3. i \in 1..Len(program.texts) /\ Len(program.texts) \in Nat
  BY <1>1, MachineAssumption DEF MachineInv
<1>4. Len(vm.roots) \in Nat BY <1>2 DEF Steady, Good, AMachine, IsSeq
<1>5. Fine(vm, vm.roots[i]) BY <1>2, <1>3, <1>4 DEF Steady, Good, RootsFine
<1>6. Outcome(SetReg(vm, rd, vm.roots[i])) BY <1>2, <1>5, RegWritten DEF Steady, Frame
<1> QED BY <1>1, <1>6, DoKeeps

LEMMA LoadIntKeeps == MachineInv /\ LoadInt => MachineInv'
<1> SUFFICES ASSUME MachineInv, LoadInt PROVE MachineInv' OBVIOUS
<1>1. PICK rd \in Frame, n \in Numbers : Ready("int") /\ Do(SetReg(vm, rd, Num(n))) BY DEF LoadInt
<1>2. Steady BY <1>1, ReadyIs
<1>3. Outcome(SetReg(vm, rd, Num(n))) BY <1>2, Immediates, RegWritten DEF Steady, Frame
<1> QED BY <1>1, <1>3, DoKeeps

LEMMA MovKeeps == MachineInv /\ Mov => MachineInv'
<1> SUFFICES ASSUME MachineInv, Mov PROVE MachineInv' OBVIOUS
<1>1. PICK rd \in Frame, ra \in Frame : Ready("mov") /\ Do(SetReg(vm, rd, Reg(vm, ra))) BY DEF Mov
<1>2. Steady BY <1>1, ReadyIs
<1>3. Fine(vm, Reg(vm, ra)) BY <1>2, RegisterIs DEF Steady, Frame
<1>4. Outcome(SetReg(vm, rd, Reg(vm, ra))) BY <1>2, <1>3, RegWritten DEF Steady, Frame
<1> QED BY <1>1, <1>4, DoKeeps

-----------------------------------------------------------------------------
(* Objects that are complete as soon as they are made.                     *)

\* What a step after an allocation knows of the machine.
Kept(m, m1) == /\ m1.fault = m.fault /\ m1.cfs = m.cfs /\ m1.window = m.window
               /\ Len(m1.roots) = Len(m.roots)

LEMMA AllocWhole ==
  ASSUME NEW m, NEW X, Good(m, X), NEW o, AnObject(o), \A k \in 1..Len(o.slots) : Bare(o.slots[k]),
         o.kind \notin {"vec", "map"}, o.kind = "closure" => o.data[1] \in DOMAIN Fns
  PROVE  LET a == Alloc(m, o)
         IN  IF a.at = Nil THEN \E Y : Good(a.vm, Y)
             ELSE \E g : /\ Made(m, o, a.vm, a.at, g) /\ Good(a.vm, {g[i] : i \in X})
                         /\ Fine(a.vm, a.at) /\ Kept(m, a.vm)
<1> DEFINE a == Alloc(m, o)
           m1 == a.vm
           n == Len(m1.objs)
<1>1. IF a.at = Nil THEN \E Y : Good(m1, Y)
      ELSE \E g : Made(m, o, m1, a.at, g) /\ Good(m1, {g[i] : i \in X} \cup {n})
  BY AllocGood
<1> HIDE DEF a
<1>2. CASE a.at # Nil
  <2>1. PICK g : Made(m, o, m1, a.at, g) /\ Good(m1, {g[i] : i \in X} \cup {n}) BY <1>1, <1>2
  <2>2. /\ n \in Nat \ {0} /\ a.at = Ptr(m1.active, n) /\ Later(m, m1, g, n - 1)
        /\ m1.objs[n].kind = o.kind /\ m1.objs[n].data = o.data
    BY <2>1 DEF Made
  <2>3. Whole(m1, m1.objs[n]) BY <2>2 DEF Whole
  <2>4. Good(m1, {g[i] : i \in X}) BY <2>1, <2>3, Completed
  <2>5. Fine(m1, a.at) BY <2>2 DEF Fine
  <2>6. Kept(m, m1) BY <2>2 DEF Kept, Later, AllBecome
  <2> QED BY <1>2, <2>1, <2>4, <2>5, <2>6 DEF a
<1> QED BY <1>1, <1>2 DEF a

LEMMA StringIs ==
  ASSUME NEW text
  PROVE  LET o == Object("string", <<>>, text, 0)
         IN  /\ AnObject(o) /\ o.kind = "string" /\ o.data = text
             /\ \A k \in 1..Len(o.slots) : Bare(o.slots[k])
BY DEF Object, AnObject, IsSeq

LEMMA SlotsObjectIs ==
  ASSUME NEW kind, NEW n \in Nat, NEW data
  PROVE  LET o == Object(kind, Slots(n), data, 0)
         IN  /\ AnObject(o) /\ o.kind = kind /\ o.slots = Slots(n) /\ o.data = data
             /\ \A k \in 1..Len(o.slots) : Bare(o.slots[k])
<1> DEFINE o == Object(kind, Slots(n), data, 0)
<1>1. /\ DOMAIN o = {"kind", "slots", "data", "id"} /\ o.kind = kind /\ o.slots = Slots(n)
      /\ o.data = data
  BY DEF Object
<1> HIDE DEF o
<1>2. IsSeq(Slots(n)) /\ Len(Slots(n)) = n /\ \A i \in 1..n : Slots(n)[i] = Undefined BY SlotsAre
<1>3. AnObject(o) /\ \A k \in 1..Len(o.slots) : Bare(o.slots[k])
  BY <1>1, <1>2, Immediates DEF AnObject
<1> QED BY <1>1, <1>3 DEF o

LEMMA StringAllocated ==
  ASSUME NEW m, Good(m, {}), NEW text
  PROVE  LET a == AllocString(m, text)
         IN  IF a.at = Nil THEN \E Y : Good(a.vm, Y)
             ELSE Good(a.vm, {}) /\ Fine(a.vm, a.at) /\ Kept(m, a.vm)
<1> DEFINE o == Object("string", <<>>, text, 0)
           a == Alloc(m, o)
<1>1. AllocString(m, text) = a BY DEF AllocString
<1>2. AnObject(o) /\ o.kind = "string" /\ \A k \in 1..Len(o.slots) : Bare(o.slots[k]) BY StringIs
<1> HIDE DEF o
<1>3. IF a.at = Nil THEN \E Y : Good(a.vm, Y)
      ELSE \E g : /\ Made(m, o, a.vm, a.at, g) /\ Good(a.vm, {g[i] : i \in {}})
                  /\ Fine(a.vm, a.at) /\ Kept(m, a.vm)
  BY <1>2, AllocWhole
<1> HIDE DEF a
<1>4. \A g : {g[i] : i \in {}} = {} OBVIOUS
<1> QED BY <1>1, <1>3, <1>4

LEMMA ConcatKeeps ==
  ASSUME MachineInv, NEW rd \in Frame, NEW ra \in Frame, NEW rb \in Frame, Concat(rd, ra, rb)
  PROVE  MachineInv'
<1> DEFINE text == At(vm, Reg(vm, ra)).data \o At(vm, Reg(vm, rb)).data
           a == AllocString(vm, text)
           m1 == IF a.at = Nil THEN Fault(a.vm, "heap exhausted") ELSE SetReg(a.vm, rd, a.at)
<1>1. Ready("concat") /\ Do(m1) BY DEF Concat, Allocated
<1>2. Steady BY <1>1, ReadyIs
<1>3. IF a.at = Nil THEN \E Y : Good(a.vm, Y)
      ELSE Good(a.vm, {}) /\ Fine(a.vm, a.at) /\ Kept(vm, a.vm)
  BY <1>2, StringAllocated DEF Steady
<1> HIDE DEF a
<1>4. CASE a.at = Nil
  <2>1. Outcome(m1) BY <1>3, <1>4, FaultIs
  <2> QED BY <1>1, <2>1, DoKeeps
<1>5. CASE a.at # Nil
  <2>1. rd \in 0..a.vm.cfs - 1 /\ Len(program.texts) <= Len(a.vm.roots)
    BY <1>2, <1>3, <1>5 DEF Kept, Frame, Steady
  <2>2. Outcome(SetReg(a.vm, rd, a.at)) BY <1>3, <1>5, <2>1, RegWritten
  <2> QED BY <1>1, <1>5, <2>2, DoKeeps
<1> QED BY <1>4, <1>5

\* m1 is m with other roots and another table of the interner.
LEMMA RootsWritten ==
  ASSUME NEW m, NEW X, Good(m, X), NEW m1, DOMAIN m1 = Fields,
         m1.objs = m.objs, m1.active = m.active, m1.regs = m.regs, m1.window = m.window,
         m1.cfs = m.cfs, m1.rets = m.rets, m1.closure = m.closure,
         IsSeq(m1.roots), IsSeq(m1.interned),
         \A i \in 1..Len(m1.roots) : Fine(m, m1.roots[i]),
         \A i \in 1..Len(m1.interned) : Fine(m, m1.interned[i])
  PROVE  Good(m1, X)
<1>1. AMachine(m) /\ RootsFine(m) /\ Above(m) BY DEF Good
<1>2. AMachine(m1) /\ Scanned(m1) = Scanned(m) BY <1>1, StillMachine DEF AMachine
<1>3. \A x : Fine(m1, x) <=> Fine(m, x) BY FineSame
<1>4. RootsFine(m1) /\ Above(m1) BY <1>1, <1>2, <1>3 DEF RootsFine, Above
<1>5. \A i \in 1..Len(m1.objs) : SlotsFine(m1, m1.objs[i]) /\ (i \in X \/ Whole(m1, m1.objs[i]))
  BY SameHeap DEF Good
<1> QED BY <1>2, <1>4, <1>5 DEF Good

LEMMA AllocAnswer == ASSUME NEW m, NEW o PROVE DOMAIN Alloc(m, o) = {"vm", "at"}
<1>1. \A w : DOMAIN Put(w, o) = {"vm", "at"} /\ DOMAIN NoRoom(w) = {"vm", "at"} BY DEF Put, NoRoom
<1>2. \A w : DOMAIN AfterCollection(w, o) = {"vm", "at"} BY <1>1 DEF AfterCollection
<1> QED BY <1>1, <1>2 DEF Alloc

LEMMA InternIs ==
  ASSUME NEW m, Good(m, {}), NEW text
  PROVE  LET a == Intern(m, text)
         IN  IF a.at = Nil THEN \E Y : Good(a.vm, Y)
             ELSE Good(a.vm, {}) /\ Fine(a.vm, a.at) /\ Kept(m, a.vm)
<1>1. CASE InternedAt(m, text) # {}
  <2> DEFINE i == CHOOSE i \in InternedAt(m, text) : TRUE
  <2>1. i \in InternedAt(m, text) BY <1>1
  <2>2. i \in 1..Len(m.interned) BY <2>1 DEF InternedAt, Good, AMachine, IsSeq
  <2>3. Fine(m, m.interned[i]) BY <2>2 DEF Good, RootsFine
  <2>4. Intern(m, text) = [vm |-> m, at |-> m.interned[i]] BY <1>1 DEF Intern
  <2> HIDE DEF i
  <2> QED BY <2>3, <2>4 DEF Kept
<1>2. CASE ~(InternedAt(m, text) # {})
  <2> DEFINE a == AllocString(m, text)
             b == Intern(m, text)
  <2>1. IF a.at = Nil THEN \E Y : Good(a.vm, Y)
        ELSE Good(a.vm, {}) /\ Fine(a.vm, a.at) /\ Kept(m, a.vm)
    BY StringAllocated
  <2>2. b = IF a.at = Nil THEN a ELSE [a EXCEPT !.vm.interned = Append(a.vm.interned, a.at)]
    BY <1>2 DEF Intern
  <2>3. DOMAIN a = {"vm", "at"} BY AllocAnswer DEF AllocString
  <2> HIDE DEF a, b
  <2>4. CASE a.at = Nil BY <2>1, <2>2, <2>4 DEF b
  <2>5. CASE a.at # Nil
    <3> DEFINE s == Append(a.vm.interned, a.at)
               m1 == [a.vm EXCEPT !.interned = s]
    <3>1. b.at = a.at /\ b.vm = m1 BY <2>2, <2>3, <2>5
    <3>2. IsSeq(a.vm.interned) /\ DOMAIN a.vm = Fields BY <2>1, <2>5 DEF Good, AMachine
    <3>3. /\ IsSeq(s) /\ Len(s) = Len(a.vm.interned) + 1
          /\ \A i \in 1..Len(a.vm.interned) : s[i] = a.vm.interned[i]
          /\ s[Len(a.vm.interned) + 1] = a.at
      BY <3>2, AppendIs
    <3> HIDE DEF s
    <3>4. \A i \in 1..Len(s) : Fine(a.vm, s[i])
      <4> TAKE i \in 1..Len(s)
      <4>1. Len(a.vm.interned) \in Nat BY <3>2 DEF IsSeq
      <4>2. CASE i = Len(a.vm.interned) + 1 BY <2>1, <2>5, <3>3, <4>2
      <4>3. CASE i # Len(a.vm.interned) + 1
        <5>1. i \in 1..Len(a.vm.interned) BY <3>3, <4>1, <4>3
        <5> QED BY <2>1, <2>5, <3>3, <5>1 DEF Good, RootsFine
      <4> QED BY <4>2, <4>3
    <3>5. /\ DOMAIN m1 = Fields /\ m1.interned = s /\ m1.roots = a.vm.roots
          /\ m1.objs = a.vm.objs /\ m1.active = a.vm.active /\ m1.regs = a.vm.regs
          /\ m1.window = a.vm.window /\ m1.cfs = a.vm.cfs /\ m1.rets = a.vm.rets
          /\ m1.closure = a.vm.closure /\ m1.fault = a.vm.fault
      BY <3>2 DEF Fields
    <3> HIDE DEF m1
    <3>6. IsSeq(a.vm.roots) /\ \A i \in 1..Len(a.vm.roots) : Fine(a.vm, a.vm.roots[i])
      BY <2>1, <2>5 DEF Good, AMachine, RootsFine
    <3>7. Good(m1, {}) BY <2>1, <2>5, <3>3, <3>4, <3>5, <3>6, RootsWritten
    <3>8. Fine(m1, a.at) BY <2>1, <2>5, <3>5 DEF Fine
    <3>9. Kept(m, m1) BY <2>1, <2>5, <3>5 DEF Kept
    <3> QED BY <2>5, <3>1, <3>7, <3>8, <3>9 DEF b
  <2> QED BY <2>4, <2>5
<1> QED BY <1>1, <1>2

LEMMA LoadLiteralKeeps == MachineInv /\ LoadLiteral => MachineInv'
<1> SUFFICES ASSUME MachineInv, LoadLiteral PROVE MachineInv' OBVIOUS
<1> DEFINE i == vm.loaded + 1
           a == Intern(vm, program.texts[i])
           m == a.vm
           m2 == [m EXCEPT !.roots[i] = a.at, !.loaded = i]
           m1 == IF a.at = Nil THEN Fault(m, "heap exhausted") ELSE m2
<1>1. vm.fault = "none" /\ Do(m1) BY DEF LoadLiteral, Allocated
<1>2. Good(vm, {}) /\ Len(program.texts) <= Len(vm.roots) BY <1>1 DEF MachineInv
<1>3. IF a.at = Nil THEN \E Y : Good(m, Y)
      ELSE Good(m, {}) /\ Fine(m, a.at) /\ Kept(vm, m)
  BY <1>2, InternIs
<1> HIDE DEF a, i
<1>4. CASE a.at = Nil
  <2>1. Outcome(m1) BY <1>3, <1>4, FaultIs
  <2> QED BY <1>1, <2>1, DoKeeps
<1>5. CASE a.at # Nil
  <2> DEFINE s == [m.roots EXCEPT ![i] = a.at]
  <2>1. DOMAIN m = Fields /\ IsSeq(m.roots) /\ IsSeq(m.interned) BY <1>3, <1>5 DEF Good, AMachine
  <2>2. m.roots = [k \in 1..Len(m.roots) |-> m.roots[k]] /\ Len(m.roots) \in Nat BY <2>1 DEF IsSeq
  <2>3. s = [k \in 1..Len(m.roots) |-> s[k]]
        /\ \A k \in 1..Len(m.roots) : s[k] = m.roots[k] \/ s[k] = a.at
    BY <2>2
  <2> DEFINE y == [m EXCEPT !.roots = s, !.loaded = i]
  <2>4. m2 = y OBVIOUS
  <2> HIDE DEF s, m2
  <2>5. IsSeq(s) /\ Len(s) = Len(m.roots) BY <2>2, <2>3, MakeSeq
  <2>6. \A k \in 1..Len(s) : Fine(m, s[k]) BY <1>3, <1>5, <2>3, <2>5 DEF Good, RootsFine
  <2>7. /\ DOMAIN y = Fields /\ y.roots = s /\ y.interned = m.interned
        /\ y.objs = m.objs /\ y.active = m.active /\ y.regs = m.regs /\ y.window = m.window
        /\ y.cfs = m.cfs /\ y.rets = m.rets /\ y.closure = m.closure
    BY <2>1 DEF Fields
  <2> HIDE DEF y
  <2>8. \A k \in 1..Len(m.interned) : Fine(m, m.interned[k]) BY <1>3, <1>5 DEF Good, RootsFine
  <2>9. Good(y, {}) BY <1>3, <1>5, <2>1, <2>5, <2>6, <2>7, <2>8, RootsWritten
  <2>10. Len(program.texts) <= Len(y.roots) BY <1>2, <1>3, <1>5, <2>5, <2>7 DEF Kept
  <2>11. Outcome(m2) BY <2>4, <2>9, <2>10 DEF Outcome
  <2> QED BY <1>1, <1>5, <2>11, DoKeeps
<1> QED BY <1>4, <1>5

-----------------------------------------------------------------------------
(* Vectors, and what maps share with them.                                 *)

\* v is the header i of a container with the backing j.
Container(m, v, kind, i, j) ==
  /\ i \in 1..Len(m.objs) /\ j \in 1..Len(m.objs) /\ i # j
  /\ v = Ptr(m.active, i) /\ Backing(m, v) = Ptr(m.active, j)
  /\ At(m, v) = m.objs[i] /\ At(m, Backing(m, v)) = m.objs[j]
  /\ m.objs[i].kind = kind /\ m.objs[j].kind = "array"
  /\ IsSeq(m.objs[i].slots) /\ IsSeq(m.objs[j].slots)
  /\ m.objs[i].slots[1] = Ptr(m.active, j) /\ Bare(m.objs[i].slots[2])
  /\ Count(m, v) = m.objs[i].slots[2][2] /\ Count(m, v) \in Int
  /\ kind = "vec" => Len(m.objs[i].slots) = 2 /\ Count(m, v) \in 0..Len(m.objs[j].slots)
  /\ kind = "map" => /\ Len(m.objs[i].slots) = 3 /\ Bare(m.objs[i].slots[3])
                     /\ \E c \in Nat : Len(m.objs[j].slots) = 2 * c

LEMMA ContainerIs ==
  ASSUME NEW m, Good(m, {}), NEW v, Fine(m, v), NEW kind \in {"vec", "map"}, IsA(m, v, kind)
  PROVE  \E i, j \in 1..Len(m.objs) : Container(m, v, kind, i, j)
<1> DEFINE i == v[3]
           o == m.objs[i]
           b == Backing(m, v)
           j == b[3]
<1>1. IsPtr(v) /\ i \in 1..Len(m.objs) /\ o.kind = kind /\ At(m, v) = o BY DEF IsA, Live, At
<1>2. v = Ptr(m.active, i) BY <1>1, FineIs
<1>3. b = o.slots[1] BY <1>1 DEF Backing
<1>4. Whole(m, o) /\ AnObject(o) BY <1>1 DEF Good, AMachine
<1> HIDE DEF i, o, b
<1>5. Backed(m, o) BY <1>1, <1>4 DEF Whole
<1>6. ~Bare(b) /\ Fine(m, b) /\ At(m, b).kind = "array" /\ Bare(o.slots[2])
      /\ o.slots[2][2] \in Int
  BY <1>3, <1>5 DEF Backed
<1>7. j \in 1..Len(m.objs) /\ b = Ptr(m.active, j) /\ At(m, b) = m.objs[j] BY <1>6, FineIs DEF At
<1>8. i # j BY <1>1, <1>6, <1>7 DEF o
<1>9. Live(m, b) /\ IsSeq(m.objs[j].slots) /\ IsSeq(o.slots)
  <2>1. Live(m, b) BY <1>7, LiveHere
  <2>2. AnObject(m.objs[j]) BY <1>7 DEF Good, AMachine
  <2> QED BY <1>4, <2>1, <2>2 DEF AnObject
<1>10. SizeAt(m, b) = Len(m.objs[j].slots) BY <1>7 DEF SizeAt
<1>11. Count(m, v) = o.slots[2][2] BY <1>1 DEF Count
<1>12. kind = "vec" => Len(o.slots) = 2 /\ Count(m, v) \in 0..Len(m.objs[j].slots)
  BY <1>1, <1>3, <1>4, <1>10, <1>11 DEF Whole
<1>13. kind = "map" => /\ Len(o.slots) = 3 /\ Bare(o.slots[3])
                       /\ \E c \in Nat : Len(m.objs[j].slots) = 2 * c
  <2> SUFFICES ASSUME kind = "map"
               PROVE  /\ Len(o.slots) = 3 /\ Bare(o.slots[3])
                      /\ \E c \in Nat : Len(m.objs[j].slots) = 2 * c
    OBVIOUS
  <2>1. /\ Len(o.slots) = 3 /\ Bare(o.slots[3])
        /\ \E c \in 0..SizeAt(m, o.slots[1]) : SizeAt(m, o.slots[1]) = 2 * c
    BY <1>1, <1>4 DEF Whole
  <2>2. SizeAt(m, o.slots[1]) = Len(m.objs[j].slots) BY <1>3, <1>10
  <2>3. PICK c \in 0..SizeAt(m, o.slots[1]) : SizeAt(m, o.slots[1]) = 2 * c BY <2>1
  <2>4. c \in Nat BY <2>3
  <2> QED BY <2>1, <2>2, <2>3, <2>4
<1>14. Container(m, v, kind, v[3], b[3])
  BY <1>1, <1>2, <1>3, <1>6, <1>7, <1>8, <1>9, <1>11, <1>12, <1>13 DEF Container, i, o, b
<1> QED BY <1>1, <1>7, <1>14 DEF i

LEMMA Weaker == ASSUME NEW m, NEW X, NEW Y, Good(m, X), X \subseteq Y PROVE Good(m, Y)
BY DEF Good

\* A header gets its backing or another count.
LEMMA HeaderGood ==
  ASSUME NEW m, NEW X, NEW i \in 1..Len(m.objs), Good(m, X \cup {i}),
         NEW s, IsSeq(s), NEW j \in 1..Len(m.objs), m.objs[j].kind = "array",
         s[1] = Ptr(m.active, j), \A k \in 2..Len(s) : Bare(s[k]), s[2][2] \in Int,
         \/ m.objs[i].kind = "vec" /\ Len(s) = 2 /\ s[2][2] \in 0..Len(m.objs[j].slots)
         \/ m.objs[i].kind = "map" /\ Len(s) = 3 /\ \E c \in Nat : Len(m.objs[j].slots) = 2 * c,
         NEW m1, Rewritten(m, m1, i, s)
  PROVE  Good(m1, X)
<1>1. Fine(m, s[1]) BY DEF Fine
<1>2. Len(s) \in Nat BY DEF IsSeq
<1>3. \A k \in 1..Len(s) : Fine(m, s[k])
  <2> TAKE k \in 1..Len(s)
  <2>1. CASE k = 1 BY <1>1, <2>1
  <2>2. CASE k # 1
    <3>1. k \in 2..Len(s) BY <1>2, <2>2
    <3> QED BY <3>1 DEF Fine
  <2> QED BY <2>1, <2>2
<1>4. Good(m1, (X \cup {i}) \cup {i}) BY <1>3, RewrittenGood
<1>5. Good(m1, X \cup {i}) BY <1>4, Weaker
<1> DEFINE o == m1.objs[i]
           v == Ptr(m1.active, j)
<1>6. /\ o.kind = m.objs[i].kind /\ o.slots = s /\ m1.active = m.active
      /\ Len(m1.objs) = Len(m.objs) /\ m1.objs[j] = m.objs[j]
  BY DEF Rewritten
<1>7. ~Bare(v) /\ Fine(m1, v) /\ At(m1, v) = m1.objs[j]
  <2>1. j \in 1..Len(m1.objs) BY <1>6
  <2> QED BY <2>1, LiveIs
<1> HIDE DEF o, v
<1>8. SizeAt(m1, v) = Len(m.objs[j].slots) BY <1>6, <1>7 DEF SizeAt
<1>9. s[1] = v BY <1>6 DEF v
<1>10. Len(s) \in {2, 3} => Backed(m1, o) BY <1>6, <1>7, <1>9 DEF Backed
<1>11. IsSeq(m.objs[j].slots) BY DEF Good, AMachine, AnObject
<1>12. ASSUME m.objs[i].kind = "vec" PROVE Whole(m1, o)
  <2>1. o.kind = "vec" /\ Len(o.slots) = 2 /\ s[2][2] \in 0..Len(m.objs[j].slots) BY <1>6, <1>12
  <2> QED BY <1>6, <1>8, <1>9, <1>10, <2>1 DEF Whole
<1>13. ASSUME m.objs[i].kind = "map" PROVE Whole(m1, o)
  <2>1. /\ o.kind = "map" /\ Len(o.slots) = 3 /\ Bare(o.slots[3])
        /\ \E c \in Nat : Len(m.objs[j].slots) = 2 * c
    <3>1. Len(s) = 3 /\ \E c \in Nat : Len(m.objs[j].slots) = 2 * c BY <1>13
    <3>2. 3 \in 2..Len(s) BY <3>1
    <3>3. Bare(s[3]) BY <3>2
    <3> QED BY <1>6, <1>13, <3>1, <3>3
  <2>2. PICK c \in Nat : Len(m.objs[j].slots) = 2 * c BY <2>1
  <2>3. c \in 0..SizeAt(m1, o.slots[1]) /\ SizeAt(m1, o.slots[1]) = 2 * c
    BY <1>6, <1>8, <1>9, <2>2
  <2> QED BY <1>6, <1>10, <2>1, <2>3 DEF Whole
<1>14. Whole(m1, m1.objs[i]) BY <1>12, <1>13 DEF o
<1> QED BY <1>5, <1>14, Completed

\* The header has been rooted; now it gets its backing.
LEMMA BackingMade ==
  ASSUME NEW m, NEW h \in 1..Len(m.objs), Good(m, {h}), Len(program.texts) <= Len(m.roots),
         m.fault = "none", NEW rd \in 0..m.cfs - 1, Reg(m, rd) = Ptr(m.active, h),
         \A k \in 2..Len(m.objs[h].slots) : m.objs[h].slots[k] = Num(0),
         NEW cap \in Nat,
         \/ m.objs[h].kind = "vec" /\ Len(m.objs[h].slots) = 2
         \/ m.objs[h].kind = "map" /\ Len(m.objs[h].slots) = 3 /\ \E c \in Nat : cap = 2 * c
  PROVE  Outcome(LET a == AllocSlots(m, "array", cap)
                 IN  IF a.at = Nil THEN Fault(a.vm, "heap exhausted")
                     ELSE SetSlot(a.vm, Reg(a.vm, rd), 1, a.at))
<1> DEFINE o == Object("array", Slots(cap), <<>>, 0)
           a == Alloc(m, o)
           m1 == a.vm
           m2 == SetSlot(m1, Reg(m1, rd), 1, a.at)
<1>1. AllocSlots(m, "array", cap) = a BY DEF AllocSlots
<1>2. /\ AnObject(o) /\ o.kind = "array" /\ o.slots = Slots(cap)
      /\ \A k \in 1..Len(o.slots) : Bare(o.slots[k])
  BY SlotsObjectIs
<1>3. Len(Slots(cap)) = cap BY SlotsAre
<1> HIDE DEF o
<1>4. IF a.at = Nil THEN \E Y : Good(m1, Y)
      ELSE \E g : /\ Made(m, o, m1, a.at, g) /\ Good(m1, {g[i] : i \in {h}})
                  /\ Fine(m1, a.at) /\ Kept(m, m1)
  BY <1>2, AllocWhole
<1> HIDE DEF a
<1>5. CASE a.at = Nil BY <1>1, <1>4, <1>5, FaultIs
<1>6. CASE a.at # Nil
  <2> DEFINE n == Len(m1.objs)
  <2>1. PICK g : /\ Made(m, o, m1, a.at, g) /\ Good(m1, {g[i] : i \in {h}})
                 /\ Fine(m1, a.at) /\ Kept(m, m1)
    BY <1>4, <1>6
  <2>2. /\ n \in Nat \ {0} /\ a.at = Ptr(m1.active, n) /\ Later(m, m1, g, n - 1)
        /\ m1.objs[n].kind = "array" /\ m1.objs[n].slots = Slots(cap)
    BY <1>2, <2>1 DEF Made
  <2> DEFINE i == g[h]
             s0 == m.objs[h].slots
             s1 == m1.objs[i].slots
  <2>3. Good(m1, {} \cup {i}) BY <2>1
  <2>4. Becomes(m1, g, Reg(m, rd), Reg(m1, rd))
    <3>1. m.window + rd \in Scanned(m) BY RegisterIs
    <3>2. m1.window = m.window BY <2>2 DEF Later
    <3> QED BY <2>2, <3>1, <3>2 DEF Later, Reg
  <2>5. i # 0 /\ Reg(m1, rd) = Ptr(m1.active, i)
    <3>1. IsPtr(Reg(m, rd)) /\ Reg(m, rd)[3] = h BY LiveIs
    <3> QED BY <2>4, <3>1 DEF Becomes
  <2>6. i \in 0..n - 1 /\ ObjectBecomes(m1, g, m.objs[h], m1.objs[i]) BY <2>2, <2>5 DEF Later
  <2>7. i \in 1..n /\ i # n BY <2>2, <2>5, <2>6
  <2>8. /\ m1.objs[i].kind = m.objs[h].kind /\ Len(s1) = Len(s0)
        /\ \A k \in 1..Len(s0) : Becomes(m1, g, s0[k], s1[k])
    BY <2>6 DEF ObjectBecomes, AllBecome
  <2> HIDE DEF i, s0, s1
  <2>9. ASSUME NEW k \in 2..Len(s0) PROVE s1[k] = Num(0)
    <3>1. Len(s0) \in {2, 3} BY DEF s0
    <3>2. k \in 1..Len(s0) BY <3>1
    <3>3. s0[k] = Num(0) /\ ~IsPtr(Num(0)) BY Immediates DEF s0, IsPtr, Bare
    <3> QED BY <2>8, <3>2, <3>3 DEF Becomes
  <2>10. AMachine(m1) BY <2>1 DEF Good
  <2>11. Slotted(m1, m2, i, 1, a.at) BY <2>5, <2>7, <2>10, SlotWritten
  <2> DEFINE s == m2.objs[i].slots
  <2> HIDE DEF m2
  <2>12. /\ Rewritten(m1, m2, i, s) /\ IsSeq(s) /\ Len(s) = Len(s1)
         /\ \A k \in 1..Len(s) : s[k] = IF k = 1 THEN a.at ELSE s1[k]
    BY <2>11 DEF Slotted, s1
  <2> HIDE DEF s
  <2>20. Len(s) = 2 \/ Len(s) = 3
    <3>1. Len(s0) = 2 \/ Len(s0) = 3 BY DEF s0
    <3> QED BY <2>8, <2>12, <3>1
  <2>13. \A k \in 2..Len(s) : s[k] = Num(0) BY <2>8, <2>9, <2>12, <2>20
  <2>14. (\A k \in 2..Len(s) : Bare(s[k])) /\ s[2][2] = 0 /\ s[2][2] \in Int
    BY <2>13, <2>20, Immediates
  <2>15. \/ m1.objs[i].kind = "vec" /\ Len(s) = 2 /\ s[2][2] \in 0..Len(m1.objs[n].slots)
         \/ /\ m1.objs[i].kind = "map" /\ Len(s) = 3
            /\ \E c \in Nat : Len(m1.objs[n].slots) = 2 * c
    <3>1. Len(s) = Len(m.objs[h].slots) /\ m1.objs[i].kind = m.objs[h].kind BY <2>8, <2>12 DEF s0
    <3>2. Len(m1.objs[n].slots) = cap BY <1>3, <2>2
    <3>3. s[2][2] \in 0..Len(m1.objs[n].slots) BY <2>14, <3>2
    <3>4. CASE m.objs[h].kind = "vec" /\ Len(m.objs[h].slots) = 2 BY <3>1, <3>3, <3>4
    <3>5. CASE m.objs[h].kind = "map" /\ Len(m.objs[h].slots) = 3 /\ \E c \in Nat : cap = 2 * c
      BY <3>1, <3>2, <3>5
    <3> QED BY <3>4, <3>5
  <2>16. s[1] = Ptr(m1.active, n) /\ n \in 1..Len(m1.objs) BY <2>2, <2>12, <2>20
  <2>17. Good(m2, {}) BY <2>2, <2>3, <2>7, <2>12, <2>14, <2>15, <2>16, HeaderGood
  <2>18. m2.roots = m1.roots BY <2>12 DEF Rewritten
  <2>19. Outcome(m2) BY <2>1, <2>17, <2>18 DEF Outcome, Kept
  <2> QED BY <1>1, <1>6, <2>19 DEF m2
<1> QED BY <1>5, <1>6

\* A header has been allocated and filled, and is not rooted yet.
HeaderMade(m, a, kind, n) ==
  LET m1 == a.vm
      h  == Len(m1.objs)
  IN  IF a.at = Nil THEN \E Y : Good(m1, Y)
      ELSE /\ Good(m1, {h}) /\ a.at = Ptr(m1.active, h) /\ Kept(m, m1)
           /\ h \in 1..Len(m1.objs) /\ m1.objs[h].kind = kind /\ m1.objs[h].slots = Slots(n)

LEMMA HeaderAllocated ==
  ASSUME NEW m, Good(m, {}), NEW kind, NEW n \in Nat
  PROVE  HeaderMade(m, AllocSlots(m, kind, n), kind, n)
<1> DEFINE o == Object(kind, Slots(n), <<>>, 0)
           a == Alloc(m, o)
           m1 == a.vm
           h == Len(m1.objs)
<1>1. AllocSlots(m, kind, n) = a BY DEF AllocSlots
<1>2. /\ AnObject(o) /\ o.kind = kind /\ o.slots = Slots(n)
      /\ \A k \in 1..Len(o.slots) : Bare(o.slots[k])
  BY SlotsObjectIs
<1> HIDE DEF o
<1>3. IF a.at = Nil THEN \E Y : Good(m1, Y)
      ELSE \E g : Made(m, o, m1, a.at, g) /\ Good(m1, {g[i] : i \in {}} \cup {h})
  <2> DEFINE X == {}
  <2>1. Good(m, X) OBVIOUS
  <2> HIDE DEF X
  <2>2. IF a.at = Nil THEN \E Y : Good(m1, Y)
        ELSE \E g : Made(m, o, m1, a.at, g) /\ Good(m1, {g[i] : i \in X} \cup {h})
    BY <1>2, <2>1, AllocGood
  <2> QED BY <2>2, Zenon DEF X
<1> HIDE DEF a
<1>4. CASE a.at # Nil
  <2>1. PICK g : Made(m, o, m1, a.at, g) /\ Good(m1, {g[i] : i \in {}} \cup {h}) BY <1>3, <1>4
  <2>2. /\ h \in Nat \ {0} /\ a.at = Ptr(m1.active, h) /\ Later(m, m1, g, h - 1)
        /\ m1.objs[h].kind = kind /\ m1.objs[h].slots = Slots(n)
    BY <1>2, <2>1 DEF Made
  <2>3. Kept(m, m1) BY <2>2 DEF Kept, Later, AllBecome
  <2>4. {g[i] : i \in {}} \cup {h} = {h} OBVIOUS
  <2>5. Good(m1, {h}) BY <2>1, <2>4
  <2> QED BY <1>1, <1>4, <2>2, <2>3, <2>5 DEF HeaderMade
<1> QED BY <1>1, <1>3, <1>4 DEF HeaderMade

LEMMA VecNewKeeps == MachineInv /\ VecNew => MachineInv'
<1> SUFFICES ASSUME MachineInv, VecNew PROVE MachineInv' OBVIOUS
<1>1. PICK rd \in Frame : Ready("vec") /\ Do(NewVec(vm, rd, VecInitialCap)) BY DEF VecNew
<1> DEFINE a == AllocSlots(vm, "vec", 2)
           m1 == a.vm
           hdr == a.at
           m2 == SetSlot(m1, hdr, 2, Num(0))
           m3 == SetReg(m2, rd, hdr)
           b == AllocSlots(m3, "array", VecInitialCap)
           m4 == IF b.at = Nil THEN Fault(b.vm, "heap exhausted")
                 ELSE SetSlot(b.vm, Reg(b.vm, rd), 1, b.at)
           m5 == IF hdr = Nil THEN Fault(m1, "heap exhausted") ELSE m4
           h == Len(m1.objs)
<1>2. NewVec(vm, rd, VecInitialCap) = m5 BY Zenon DEF NewVec, Allocated
<1>3. Steady BY <1>1, ReadyIs
<1>4. IF hdr = Nil THEN \E Y : Good(m1, Y)
      ELSE /\ Good(m1, {h}) /\ hdr = Ptr(m1.active, h) /\ Kept(vm, m1)
           /\ h \in 1..Len(m1.objs) /\ m1.objs[h].kind = "vec" /\ m1.objs[h].slots = Slots(2)
  <2>1. Good(vm, {}) BY <1>3 DEF Steady
  <2>2. HeaderMade(vm, a, "vec", 2) BY <2>1, HeaderAllocated
  <2> HIDE DEF a
  <2> QED BY <2>2 DEF HeaderMade
<1> HIDE DEF a
<1>5. CASE hdr = Nil
  <2>1. Outcome(Fault(m1, "heap exhausted")) BY <1>4, <1>5, FaultIs
  <2> QED BY <1>1, <1>2, <1>5, <2>1, DoKeeps
<1>6. CASE hdr # Nil
  <2>1. AMachine(m1) BY <1>4, <1>6 DEF Good
  <2>2. Len(Slots(2)) = 2 /\ \A i \in 1..2 : Slots(2)[i] = Undefined BY SlotsAre
  <2>3. Slotted(m1, m2, h, 2, Num(0)) BY <1>4, <1>6, <2>1, SlotWritten
  <2> DEFINE s == m2.objs[h].slots
  <2> HIDE DEF m2
  <2>30. /\ Rewritten(m1, m2, h, s) /\ IsSeq(s) /\ Len(s) = 2
         /\ \A k \in 1..Len(s) : s[k] = IF k = 2 THEN Num(0) ELSE Slots(2)[k]
    BY <1>4, <1>6, <2>2, <2>3 DEF Slotted
  <2> HIDE DEF s
  <2>4. s[1] = Undefined /\ s[2] = Num(0) /\ 2 \in 1..2 BY <2>2, <2>30
  <2>5. \A k \in 1..Len(s) : Fine(m1, s[k])
    <3> TAKE k \in 1..Len(s)
    <3>1. k = 1 \/ k = 2 BY <2>30
    <3> QED BY <2>4, <3>1, Immediates
  <2>6. m1.objs[h].kind # "array" BY <1>4, <1>6
  <2>7. Good(m2, {h} \cup {h}) BY <1>4, <1>6, <2>30, <2>5, <2>6, RewrittenGood
  <2>8. Good(m2, {h}) BY <2>7
  <2>9. /\ Len(m2.objs) = Len(m1.objs) /\ m2.active = m1.active /\ m2.cfs = m1.cfs
        /\ m2.roots = m1.roots /\ m2.fault = m1.fault
        /\ m2.objs[h].kind = "vec" /\ m2.objs[h].slots = s
    BY <1>4, <1>6, <2>30 DEF Rewritten, s
  <2>10. rd \in 0..m2.cfs - 1 BY <1>4, <1>6, <2>9 DEF Kept, Frame
  <2>11. Fine(m2, hdr) BY <1>4, <1>6, <2>9 DEF Fine
  <2>12. Good(m3, {h}) /\ OtherRegs(m2, m3) /\ Reg(m3, rd) = hdr BY <2>8, <2>10, <2>11, SetRegGood
  <2> HIDE DEF m3
  <2>13. /\ h \in 1..Len(m3.objs) /\ Len(program.texts) <= Len(m3.roots) /\ m3.fault = "none"
         /\ rd \in 0..m3.cfs - 1 /\ Reg(m3, rd) = Ptr(m3.active, h)
         /\ m3.objs[h].kind = "vec" /\ m3.objs[h].slots = s
    BY <1>3, <1>4, <1>6, <2>9, <2>10, <2>12 DEF OtherRegs, Kept, Steady
  <2>14. \A k \in 2..Len(m3.objs[h].slots) : m3.objs[h].slots[k] = Num(0)
    <3>1. Len(m3.objs[h].slots) = 2 BY <2>30, <2>13
    <3>2. \A k \in 2..Len(m3.objs[h].slots) : k = 2 BY <3>1
    <3> QED BY <2>4, <2>13, <3>2
  <2>15. VecInitialCap \in Nat BY MachineAssumption
  <2>16. m3.objs[h].kind = "vec" /\ Len(m3.objs[h].slots) = 2 BY <2>30, <2>13
  <2>17. Outcome(m4) BY <2>12, <2>13, <2>14, <2>15, <2>16, BackingMade
  <2> QED BY <1>1, <1>2, <1>6, <2>17, DoKeeps DEF m3, m2
<1> QED BY <1>5, <1>6

LEMMA CountSlotted ==
  ASSUME NEW m, NEW X, NEW i \in 1..Len(m.objs), Good(m, X \cup {i}), m.objs[i].kind = "vec",
         Len(m.objs[i].slots) = 2, NEW x, NEW m1, Slotted(m, m1, i, 2, x),
         NEW j \in 1..Len(m.objs), m.objs[j].kind = "array",
         m.objs[i].slots[1] = Ptr(m.active, j), Bare(x), x[2] \in 0..Len(m.objs[j].slots)
  PROVE  Good(m1, X)
<1> DEFINE s == m1.objs[i].slots
<1>1. /\ Rewritten(m, m1, i, s) /\ IsSeq(s) /\ Len(s) = 2
      /\ \A l \in 1..2 : s[l] = IF l = 2 THEN x ELSE m.objs[i].slots[l]
  BY DEF Slotted
<1> HIDE DEF s
<1>2. s[1] = Ptr(m.active, j) /\ s[2] = x BY <1>1
<1>3. \A l \in 2..Len(s) : l = 2 BY <1>1
<1>4. \A l \in 2..Len(s) : Bare(s[l]) BY <1>2, <1>3
<1>5. s[2][2] \in Int BY <1>2
<1> QED BY <1>1, <1>2, <1>4, <1>5, HeaderGood

LEMMA BackingSlotted ==
  ASSUME NEW m, NEW X, NEW i \in 1..Len(m.objs), Good(m, X \cup {i}), m.objs[i].kind = "vec",
         Len(m.objs[i].slots) = 2, NEW j \in 1..Len(m.objs), m.objs[j].kind = "array",
         NEW m1, Slotted(m, m1, i, 1, Ptr(m.active, j)), Bare(m.objs[i].slots[2]),
         m.objs[i].slots[2][2] \in 0..Len(m.objs[j].slots)
  PROVE  Good(m1, X)
<1> DEFINE s == m1.objs[i].slots
           x == Ptr(m.active, j)
<1> HIDE DEF x
<1>1. /\ Rewritten(m, m1, i, s) /\ IsSeq(s) /\ Len(s) = 2
      /\ \A l \in 1..2 : s[l] = IF l = 1 THEN x ELSE m.objs[i].slots[l]
  BY DEF Slotted, x
<1> HIDE DEF s
<1>2. s[1] = x /\ s[2] = m.objs[i].slots[2] BY <1>1
<1>3. \A l \in 2..Len(s) : l = 2 BY <1>1
<1>4. \A l \in 2..Len(s) : Bare(s[l]) BY <1>2, <1>3
<1>5. s[2][2] \in Int BY <1>2
<1> QED BY <1>1, <1>2, <1>4, <1>5, HeaderGood DEF x

\* An object's slot gets another fine value.
LEMMA SlotGood ==
  ASSUME NEW m, NEW X, Good(m, X), NEW i \in 1..Len(m.objs), NEW k, NEW x, Fine(m, x),
         m.objs[i].kind \notin {"vec", "map"}, NEW m1, Slotted(m, m1, i, k, x)
  PROVE  Good(m1, X)
<1> DEFINE s == m1.objs[i].slots
<1>1. /\ Rewritten(m, m1, i, s) /\ IsSeq(s) /\ Len(s) = Len(m.objs[i].slots)
      /\ \A j \in 1..Len(s) : s[j] = IF j = k THEN x ELSE m.objs[i].slots[j]
  BY DEF Slotted
<1>2. SlotsFine(m, m.objs[i]) BY DEF Good
<1> HIDE DEF s
<1>3. \A j \in 1..Len(s) : Fine(m, s[j]) BY <1>1, <1>2 DEF SlotsFine
<1> QED BY <1>1, <1>3, RewrittenGood

LEMMA PushedKeeps ==
  ASSUME NEW m, Good(m, {}), Len(program.texts) <= Len(m.roots),
         NEW r \in 0..m.cfs - 1, NEW ra \in 0..m.cfs - 1, IsA(m, Reg(m, r), "vec"),
         Count(m, Reg(m, r)) < Len(At(m, Backing(m, Reg(m, r))).slots)
  PROVE  Outcome(Pushed(m, r, ra))
<1> DEFINE v == Reg(m, r)
           x == Reg(m, ra)
           b == Backing(m, v)
           n == Count(m, v) + 1
           m1 == SetSlot(m, b, n, x)
           m2 == SetSlot(m1, v, 2, Num(n))
<1>1. Pushed(m, r, ra) = m2 BY DEF Pushed
<1>2. Fine(m, v) /\ Fine(m, x) BY RegisterIs
<1> HIDE DEF v, x
<1>3. PICK i \in 1..Len(m.objs), j \in 1..Len(m.objs) : Container(m, v, "vec", i, j)
  BY <1>2, ContainerIs DEF v
<1>4. /\ v = Ptr(m.active, i) /\ b = Ptr(m.active, j) /\ i # j
      /\ m.objs[i].kind = "vec" /\ m.objs[j].kind = "array" /\ Len(m.objs[i].slots) = 2
      /\ m.objs[i].slots[1] = Ptr(m.active, j) /\ IsSeq(m.objs[j].slots)
      /\ n \in 0..Len(m.objs[j].slots)
  <2>1. /\ v = Ptr(m.active, i) /\ b = Ptr(m.active, j) /\ i # j
        /\ m.objs[i].kind = "vec" /\ m.objs[j].kind = "array" /\ Len(m.objs[i].slots) = 2
        /\ m.objs[i].slots[1] = Ptr(m.active, j) /\ IsSeq(m.objs[j].slots)
        /\ Count(m, v) \in 0..Len(m.objs[j].slots) /\ At(m, Backing(m, v)) = m.objs[j]
    BY <1>3 DEF Container
  <2>2. Count(m, v) < Len(At(m, Backing(m, v)).slots) BY DEF v
  <2>3. Count(m, v) < Len(m.objs[j].slots) /\ Len(m.objs[j].slots) \in Nat BY <2>1, <2>2 DEF IsSeq
  <2> QED BY <2>1, <2>3
<1> HIDE DEF b, n
<1>5. AMachine(m) BY DEF Good
<1>6. Slotted(m, m1, j, n, x) BY <1>4, <1>5, SlotWritten
<1> HIDE DEF m1
<1>7. Good(m1, {}) BY <1>2, <1>4, <1>6, SlotGood
<1>8. /\ m1.active = m.active /\ Len(m1.objs) = Len(m.objs) /\ m1.objs[i] = m.objs[i]
      /\ m1.objs[j].kind = "array" /\ Len(m1.objs[j].slots) = Len(m.objs[j].slots)
      /\ m1.roots = m.roots
  BY <1>4, <1>6 DEF Slotted, Rewritten
<1>9. AMachine(m1) BY <1>7 DEF Good
<1>10. Slotted(m1, m2, i, 2, Num(n)) BY <1>4, <1>8, <1>9, SlotWritten
<1> HIDE DEF m2
<1>11. Good(m1, {} \cup {i}) BY <1>7, Weaker
<1>12. Bare(Num(n)) /\ Num(n)[2] = n BY Immediates
<1>13. Good(m2, {})
  <2> DEFINE x2 == Num(n)
  <2>1. /\ i \in 1..Len(m1.objs) /\ m1.objs[i].kind = "vec" /\ Len(m1.objs[i].slots) = 2
        /\ j \in 1..Len(m1.objs) /\ m1.objs[j].kind = "array"
        /\ m1.objs[i].slots[1] = Ptr(m1.active, j) /\ n \in 0..Len(m1.objs[j].slots)
    BY <1>4, <1>8
  <2>2. Bare(x2) /\ x2[2] \in 0..Len(m1.objs[j].slots) BY <1>12, <2>1
  <2>3. Slotted(m1, m2, i, 2, x2) BY <1>10
  <2> HIDE DEF x2
  <2> QED BY <1>11, <2>1, <2>2, <2>3, CountSlotted
<1>14. m2.roots = m.roots BY <1>8, <1>10 DEF Slotted, Rewritten
<1> QED BY <1>1, <1>13, <1>14 DEF Outcome

\* Where a register's container is after an allocation.
LEMMA HeaderFollows ==
  ASSUME NEW m, NEW X, Good(m, X), NEW r \in 0..m.cfs - 1, NEW i \in 1..Len(m.objs),
         Reg(m, r) = Ptr(m.active, i), NEW o, NEW m1, NEW at, NEW g, Made(m, o, m1, at, g)
  PROVE  /\ g[i] \in 1..Len(m1.objs) - 1 /\ Reg(m1, r) = Ptr(m1.active, g[i])
         /\ ObjectBecomes(m1, g, m.objs[i], m1.objs[g[i]])
         /\ m1.cfs = m.cfs
<1>1. Len(m1.objs) \in Nat /\ Later(m, m1, g, Len(m1.objs) - 1) BY DEF Made
<1>2. m.window + r \in Scanned(m) BY RegisterIs
<1>3. Becomes(m1, g, Reg(m, r), Reg(m1, r)) BY <1>1, <1>2 DEF Later, Reg
<1>4. IsPtr(Reg(m, r)) /\ Reg(m, r)[3] = i BY LiveIs
<1>5. g[i] # 0 /\ Reg(m1, r) = Ptr(m1.active, g[i]) BY <1>3, <1>4 DEF Becomes
<1>6. g[i] \in 0..Len(m1.objs) - 1 BY <1>1 DEF Later
<1>7. g[i] \in 1..Len(m1.objs) - 1 BY <1>1, <1>5, <1>6
<1> QED BY <1>1, <1>5, <1>7 DEF Later

\* A container that a register names is the same one after an allocation.
LEMMA ContainerFollows ==
  ASSUME NEW m, Good(m, {}), NEW r \in 0..m.cfs - 1, NEW kind \in {"vec", "map"},
         NEW i, NEW j, Container(m, Reg(m, r), kind, i, j),
         NEW o, NEW m1, NEW at, NEW g, Made(m, o, m1, at, g), Good(m1, {})
  PROVE  /\ g[i] \in 1..Len(m1.objs) - 1 /\ g[j] \in 1..Len(m1.objs) - 1
         /\ Container(m1, Reg(m1, r), kind, g[i], g[j])
         /\ ObjectBecomes(m1, g, m.objs[i], m1.objs[g[i]])
         /\ ObjectBecomes(m1, g, m.objs[j], m1.objs[g[j]])
         /\ m1.cfs = m.cfs
<1> DEFINE v1 == Reg(m1, r)
           n == Len(m1.objs) - 1
<1>1. /\ i \in 1..Len(m.objs) /\ Reg(m, r) = Ptr(m.active, i) /\ m.objs[i].kind = kind
      /\ j \in 1..Len(m.objs) /\ m.objs[i].slots[1] = Ptr(m.active, j)
      /\ 1 \in 1..Len(m.objs[i].slots)
  BY DEF Container
<1>2. /\ g[i] \in 1..n /\ v1 = Ptr(m1.active, g[i])
      /\ ObjectBecomes(m1, g, m.objs[i], m1.objs[g[i]]) /\ m1.cfs = m.cfs
  BY <1>1, HeaderFollows
<1>3. Len(m1.objs) \in Nat /\ Later(m, m1, g, n) BY DEF Made
<1>4. g[i] \in 1..Len(m1.objs) /\ m1.objs[g[i]].kind = kind BY <1>1, <1>2, <1>3 DEF ObjectBecomes
<1> HIDE DEF v1
<1>5. Fine(m1, v1) /\ IsA(m1, v1, kind) BY <1>2, <1>4, LiveIs DEF IsA
<1>6. PICK k \in 1..Len(m1.objs), l \in 1..Len(m1.objs) : Container(m1, v1, kind, k, l)
  BY <1>5, ContainerIs
<1>7. k = g[i] /\ l = m1.objs[g[i]].slots[1][3]
  <2>1. v1 = Ptr(m1.active, k) /\ m1.objs[k].slots[1] = Ptr(m1.active, l) BY <1>6 DEF Container
  <2>2. k = g[i] BY <1>2, <2>1 DEF Ptr
  <2> QED BY <2>1, <2>2 DEF Ptr
<1>8. g[j] # 0 /\ m1.objs[g[i]].slots[1] = Ptr(m1.active, g[j])
  <2>1. Becomes(m1, g, Ptr(m.active, j), m1.objs[g[i]].slots[1])
    BY <1>1, <1>2 DEF ObjectBecomes, AllBecome
  <2>2. IsPtr(Ptr(m.active, j)) /\ Ptr(m.active, j)[3] = j BY <1>1, LiveIs
  <2> QED BY <2>1, <2>2 DEF Becomes
<1>9. l = g[j] BY <1>7, <1>8 DEF Ptr
<1>10. g[j] \in 0..n BY <1>1, <1>3 DEF Later
<1>11. g[j] \in 1..n BY <1>3, <1>8, <1>10
<1>12. ObjectBecomes(m1, g, m.objs[j], m1.objs[g[j]]) BY <1>1, <1>3, <1>8 DEF Later
<1> QED BY <1>2, <1>6, <1>7, <1>9, <1>11, <1>12 DEF v1

\* The vector's header has got the new backing.
LEMMA VecGrowIs ==
  ASSUME NEW m, Good(m, {}), m.fault = "none", NEW r \in 0..m.cfs - 1, IsA(m, Reg(m, r), "vec"),
         NEW g0, g0 = VecGrow(m, r)
  PROVE  IF g0.fault # "none" THEN Outcome(g0)
         ELSE /\ Good(g0, {}) /\ g0.cfs = m.cfs /\ Len(g0.roots) = Len(m.roots)
              /\ IsA(g0, Reg(g0, r), "vec")
              /\ Count(g0, Reg(g0, r)) < Len(At(g0, Backing(g0, Reg(g0, r))).slots)
<1> DEFINE v == Reg(m, r)
           old == Len(At(m, Backing(m, v)).slots)
           cap == IF old = 0 THEN VecInitialCap ELSE 2 * old
           o == Object("array", Slots(cap), <<>>, 0)
           a == Alloc(m, o)
           m1 == a.vm
           v1 == Reg(m1, r)
           kept == At(m1, Backing(m1, v1)).slots
           new == Sequence(Len(At(m1, a.at).slots), LAMBDA i :
                      IF i <= Count(m1, v1) THEN kept[i] ELSE Undefined)
           m2 == SetSlots(m1, a.at, new)
           m3 == SetSlot(m2, v1, 1, a.at)
<1>0. g0 = IF a.at = Nil THEN Fault(m1, "heap exhausted") ELSE m3
  BY Zenon DEF VecGrow, Allocated, AllocSlots
<1>1. Fine(m, v) BY RegisterIs
<1>2. PICK i \in 1..Len(m.objs), j \in 1..Len(m.objs) : Container(m, v, "vec", i, j)
  BY <1>1, ContainerIs
<1>3. cap \in Nat /\ Count(m, v) < cap
  <2>1. /\ At(m, Backing(m, v)) = m.objs[j] /\ IsSeq(m.objs[j].slots)
        /\ Count(m, v) \in 0..Len(m.objs[j].slots)
    BY <1>2 DEF Container
  <2>2. old \in Nat /\ Count(m, v) \in 0..old BY <2>1 DEF IsSeq
  <2>3. VecInitialCap \in Nat \ {0} BY MachineAssumption
  <2> HIDE DEF old
  <2> QED BY <2>2, <2>3
<1> HIDE DEF cap
<1>4. /\ AnObject(o) /\ o.kind = "array" /\ o.slots = Slots(cap)
      /\ \A k \in 1..Len(o.slots) : Bare(o.slots[k])
  BY <1>3, SlotsObjectIs
<1> HIDE DEF o
<1>5. IF a.at = Nil THEN \E Y : Good(m1, Y)
      ELSE \E g : /\ Made(m, o, m1, a.at, g) /\ Good(m1, {g[k] : k \in {}})
                  /\ Fine(m1, a.at) /\ Kept(m, m1)
  BY <1>4, AllocWhole
<1> HIDE DEF a
<1>6. CASE a.at = Nil
  <2>1. Outcome(Fault(m1, "heap exhausted")) BY <1>5, <1>6, FaultIs
  <2>2. g0 = Fault(m1, "heap exhausted") BY <1>0, <1>6
  <2>3. PICK Y : Good(m1, Y) BY <1>5, <1>6
  <2>4. g0.fault = "heap exhausted" BY <2>2, <2>3 DEF Fault, Good, AMachine, Fields
  <2> QED BY <2>1, <2>2, <2>4
<1>7. CASE a.at # Nil
  <2>1. PICK g : /\ Made(m, o, m1, a.at, g) /\ Good(m1, {g[k] : k \in {}})
                 /\ Fine(m1, a.at) /\ Kept(m, m1)
    BY <1>5, <1>7
  <2>2. {g[k] : k \in {}} = {} OBVIOUS
  <2>3. Good(m1, {}) BY <2>1, <2>2
  <2> DEFINE n == Len(m1.objs)
             p == g[i]
             q == g[j]
  <2>4. /\ p \in 1..n - 1 /\ q \in 1..n - 1 /\ Container(m1, v1, "vec", p, q)
        /\ ObjectBecomes(m1, g, m.objs[i], m1.objs[p])
        /\ m1.cfs = m.cfs
    BY <1>2, <2>1, <2>3, ContainerFollows
  <2> HIDE DEF p, q
  <2>5. /\ v1 = Ptr(m1.active, p) /\ At(m1, Backing(m1, v1)) = m1.objs[q] /\ p # q
        /\ m1.objs[p].kind = "vec" /\ Len(m1.objs[p].slots) = 2 /\ Bare(m1.objs[p].slots[2])
        /\ Count(m1, v1) = m1.objs[p].slots[2][2] /\ Count(m1, v1) \in 0..Len(m1.objs[q].slots)
        /\ IsSeq(m1.objs[q].slots)
    BY <2>4 DEF Container
  <2>6. Count(m1, v1) = Count(m, v)
    <3>1. /\ Len(m.objs[i].slots) = 2 /\ Count(m, v) = m.objs[i].slots[2][2]
          /\ Bare(m.objs[i].slots[2])
      BY <1>2 DEF Container
    <3>2. Becomes(m1, g, m.objs[i].slots[2], m1.objs[p].slots[2])
      BY <2>4, <3>1 DEF ObjectBecomes, AllBecome
    <3>3. ~IsPtr(m.objs[i].slots[2]) BY <3>1 DEF Bare, IsPtr
    <3> QED BY <2>5, <3>1, <3>2, <3>3 DEF Becomes
  <2>7. /\ n \in Nat \ {0} /\ a.at = Ptr(m1.active, n)
        /\ m1.objs[n].kind = "array" /\ m1.objs[n].slots = Slots(cap) /\ AMachine(m1)
    BY <1>4, <2>1 DEF Made
  <2>8. n \in 1..n /\ p \in 1..n /\ q \in 1..n /\ p # n BY <2>4, <2>7
  <2>9. At(m1, a.at) = m1.objs[n] /\ Len(m1.objs[n].slots) = cap
    <3>1. At(m1, Ptr(m1.active, n)) = m1.objs[n] BY <2>8, LiveIs
    <3>2. Len(Slots(cap)) = cap BY <1>3, SlotsAre
    <3> HIDE DEF n
    <3> QED BY <2>7, <3>1, <3>2
  <2> HIDE DEF v1, v
  <2>10. /\ IsSeq(new) /\ Len(new) = cap
         /\ \A k \in 1..cap : new[k] = IF k <= Count(m1, v1) THEN m1.objs[q].slots[k] ELSE Undefined
    <3> DEFINE f == [k \in 1..cap |-> IF k <= Count(m1, v1) THEN kept[k] ELSE Undefined]
    <3>1. new = f \o <<>> BY <2>9 DEF Sequence
    <3>2. f = [k \in 1..cap |-> f[k]] OBVIOUS
    <3>3. \A k \in 1..cap : f[k] = IF k <= Count(m1, v1) THEN m1.objs[q].slots[k] ELSE Undefined
      BY <2>5
    <3> HIDE DEF f, new
    <3>4. IsSeq(f) /\ Len(f) = cap BY <1>3, <3>2, MakeSeq
    <3> QED BY <3>1, <3>3, <3>4, WrittenOut
  <2> HIDE DEF new
  <2>11. \A k \in 1..Len(new) : Fine(m1, new[k])
    <3> TAKE k \in 1..Len(new)
    <3>1. CASE k <= Count(m1, v1)
      <4>1. k \in 1..Len(m1.objs[q].slots)
        <5>1. k \in Nat /\ 1 <= k BY <1>3, <2>10
        <5> QED BY <2>5, <3>1, <5>1
      <4>2. Fine(m1, m1.objs[q].slots[k]) BY <2>3, <2>8, <4>1 DEF Good, SlotsFine
      <4> QED BY <2>10, <3>1, <4>2
    <3>2. CASE ~(k <= Count(m1, v1)) BY <2>10, <3>2, Immediates
    <3> QED BY <3>1, <3>2
  <2>12. Rewritten(m1, m2, n, new) BY <2>7, <2>8, SetSlotsIs
  <2> HIDE DEF m2
  <2>13. Good(m2, {}) BY <2>3, <2>7, <2>8, <2>9, <2>10, <2>11, <2>12, RewrittenGood
  <2>14. /\ m2.active = m1.active /\ Len(m2.objs) = n /\ m2.objs[p] = m1.objs[p]
         /\ m2.objs[n].kind = "array" /\ m2.objs[n].slots = new
         /\ m2.cfs = m1.cfs /\ m2.regs = m1.regs /\ m2.window = m1.window
         /\ m2.roots = m1.roots /\ m2.fault = m1.fault
    BY <2>7, <2>8, <2>12 DEF Rewritten
  <2>15. AMachine(m2) BY <2>13 DEF Good
  <2>16. Slotted(m2, m3, p, 1, a.at) BY <2>5, <2>8, <2>14, <2>15, SlotWritten
  <2> HIDE DEF m3
  <2>17. Good(m3, {})
    <3>1. Good(m2, {} \cup {p}) BY <2>13, Weaker
    <3>2. /\ p \in 1..Len(m2.objs) /\ m2.objs[p].kind = "vec" /\ Len(m2.objs[p].slots) = 2
          /\ n \in 1..Len(m2.objs) /\ a.at = Ptr(m2.active, n) /\ Bare(m2.objs[p].slots[2])
      BY <2>5, <2>7, <2>8, <2>14
    <3>3. m2.objs[p].slots[2][2] \in 0..Len(m2.objs[n].slots)
      <4>1. m2.objs[p].slots[2][2] = Count(m, v) BY <2>5, <2>6, <2>14
      <4>2. Len(m2.objs[n].slots) = cap BY <2>10, <2>14
      <4>3. Count(m, v) \in Nat BY <2>5, <2>6
      <4> HIDE DEF n
      <4> QED BY <1>3, <4>1, <4>2, <4>3
    <3>4. Slotted(m2, m3, p, 1, Ptr(m2.active, n)) BY <2>16, <3>2
    <3> HIDE DEF n
    <3> QED BY <2>14, <3>1, <3>2, <3>3, <3>4, BackingSlotted
  <2>18. /\ m3.active = m1.active /\ Len(m3.objs) = n /\ m3.objs[n] = m2.objs[n]
         /\ m3.objs[p].kind = "vec" /\ m3.objs[p].slots[1] = a.at
         /\ m3.objs[p].slots[2] = m1.objs[p].slots[2]
         /\ m3.cfs = m.cfs /\ Reg(m3, r) = v1 /\ m3.roots = m1.roots /\ m3.fault = "none"
    <3>1. /\ m3.active = m2.active /\ Len(m3.objs) = Len(m2.objs)
          /\ n \in 1..Len(m2.objs) => m3.objs[n] = m2.objs[n]
          /\ m3.objs[p].kind = m2.objs[p].kind
          /\ m3.cfs = m2.cfs /\ m3.regs = m2.regs /\ m3.window = m2.window
          /\ m3.roots = m2.roots /\ m3.fault = m2.fault
      BY <2>8, <2>16 DEF Slotted, Rewritten
    <3>2. m3.objs[p].slots[1] = a.at /\ m3.objs[p].slots[2] = m2.objs[p].slots[2]
      BY <2>5, <2>14, <2>16 DEF Slotted
    <3>3. Reg(m3, r) = v1 BY <2>14, <3>1 DEF Reg, v1
    <3>4. m1.fault = "none" BY <2>1 DEF Kept
    <3> QED BY <2>4, <2>5, <2>8, <2>14, <3>1, <3>2, <3>3, <3>4
  <2>19. At(m3, v1) = m3.objs[p] /\ Live(m3, v1)
    <3>1. p \in 1..Len(m3.objs) BY <2>8, <2>18
    <3>2. v1 = Ptr(m3.active, p) BY <2>5, <2>18
    <3> QED BY <3>1, <3>2, LiveHere
  <2>20. At(m3, a.at) = m3.objs[n]
    <3>1. n \in 1..Len(m3.objs) BY <2>8, <2>18
    <3>2. a.at = Ptr(m3.active, n) BY <2>7, <2>18
    <3> QED BY <3>1, <3>2, LiveHere
  <2>21. IsA(m3, v1, "vec") /\ Count(m3, v1) = Count(m, v) /\ At(m3, Backing(m3, v1)) = m3.objs[n]
    BY <2>5, <2>6, <2>18, <2>19, <2>20 DEF IsA, Count, Backing
  <2>22. Count(m3, v1) < Len(At(m3, Backing(m3, v1)).slots) BY <1>3, <2>10, <2>14, <2>18, <2>21
  <2>23. g0 = m3 BY <1>0, <1>7
  <2>24. Len(m3.roots) = Len(m.roots) BY <2>1, <2>18 DEF Kept
  <2> QED BY <2>17, <2>18, <2>21, <2>22, <2>23, <2>24
<1> QED BY <1>6, <1>7

LEMMA VecPushKeeps ==
  ASSUME MachineInv, NEW rd \in Frame, NEW ra \in Frame, VecPush(rd, ra)
  PROVE  MachineInv'
<1> DEFINE v == Reg(vm, rd)
           g == VecGrow(vm, rd)
           m == IF Count(vm, v) < Len(At(vm, Backing(vm, v)).slots) THEN Pushed(vm, rd, ra)
                ELSE IF g.fault # "none" THEN g ELSE Pushed(g, rd, ra)
<1>1. Ready("vec") /\ IsA(vm, v, "vec") /\ Do(m) BY DEF VecPush
<1>2. Steady BY <1>1, ReadyIs
<1>3. Good(vm, {}) /\ vm.fault = "none" /\ Len(program.texts) <= Len(vm.roots) BY <1>2 DEF Steady
<1>4. rd \in 0..vm.cfs - 1 /\ ra \in 0..vm.cfs - 1 BY DEF Frame
<1>5. CASE Count(vm, v) < Len(At(vm, Backing(vm, v)).slots)
  <2>1. Outcome(Pushed(vm, rd, ra)) BY <1>1, <1>3, <1>4, <1>5, PushedKeeps
  <2> QED BY <1>1, <1>5, <2>1, DoKeeps
<1>6. CASE ~(Count(vm, v) < Len(At(vm, Backing(vm, v)).slots))
  <2>1. IF g.fault # "none" THEN Outcome(g)
        ELSE /\ Good(g, {}) /\ g.cfs = vm.cfs /\ Len(g.roots) = Len(vm.roots)
             /\ IsA(g, Reg(g, rd), "vec")
             /\ Count(g, Reg(g, rd)) < Len(At(g, Backing(g, Reg(g, rd))).slots)
    BY <1>1, <1>3, <1>4, VecGrowIs
  <2> HIDE DEF g
  <2>2. CASE g.fault # "none" BY <1>1, <1>6, <2>1, <2>2, DoKeeps
  <2>3. CASE ~(g.fault # "none")
    <3>1. Outcome(Pushed(g, rd, ra)) BY <1>3, <1>4, <2>1, <2>3, PushedKeeps
    <3> QED BY <1>1, <1>6, <2>3, <3>1, DoKeeps
  <2> QED BY <2>2, <2>3
<1> QED BY <1>5, <1>6

LEMMA VecPopKeeps ==
  ASSUME MachineInv, NEW rd \in Frame, NEW ra \in Frame, VecPop(rd, ra)
  PROVE  MachineInv'
<1> DEFINE v == Reg(vm, ra)
           n == Count(vm, v)
           b == Backing(vm, v)
           x == At(vm, b).slots[n]
           m1 == SetSlot(vm, b, n, Nil)
           m2 == SetSlot(m1, v, 2, Num(n - 1))
           m == IF n = 0 THEN SetReg(vm, rd, Nil) ELSE SetReg(m2, rd, x)
<1>1. Ready("vec") /\ IsA(vm, v, "vec") /\ Do(m) BY DEF VecPop
<1>2. Steady BY <1>1, ReadyIs
<1>3. Good(vm, {}) /\ Len(program.texts) <= Len(vm.roots) /\ AMachine(vm) BY <1>2 DEF Steady, Good
<1>4. rd \in 0..vm.cfs - 1 /\ ra \in 0..vm.cfs - 1 BY DEF Frame
<1>5. Fine(vm, v) BY <1>3, <1>4, RegisterIs
<1>6. CASE n = 0
  <2>1. Outcome(SetReg(vm, rd, Nil)) BY <1>3, <1>4, Immediates, RegWritten
  <2> QED BY <1>1, <1>6, <2>1, DoKeeps
<1>7. CASE n # 0
  <2>1. PICK i \in 1..Len(vm.objs), j \in 1..Len(vm.objs) : Container(vm, v, "vec", i, j)
    BY <1>1, <1>3, <1>5, ContainerIs
  <2>2. /\ v = Ptr(vm.active, i) /\ b = Ptr(vm.active, j) /\ i # j /\ At(vm, b) = vm.objs[j]
        /\ vm.objs[i].kind = "vec" /\ vm.objs[j].kind = "array" /\ Len(vm.objs[i].slots) = 2
        /\ vm.objs[i].slots[1] = Ptr(vm.active, j) /\ IsSeq(vm.objs[j].slots)
        /\ n \in 0..Len(vm.objs[j].slots)
    BY <2>1 DEF Container
  <2> HIDE DEF n, b, v
  <2>3. n \in 1..Len(vm.objs[j].slots) /\ n - 1 \in 0..Len(vm.objs[j].slots) BY <1>7, <2>2 DEF IsSeq
  <2>4. Fine(vm, x) BY <1>3, <2>2, <2>3 DEF Good, SlotsFine
  <2>5. Slotted(vm, m1, j, n, Nil) BY <1>3, <2>2, SlotWritten
  <2> HIDE DEF m1, x
  <2>6. Good(m1, {}) BY <1>3, <2>2, <2>5, Immediates, SlotGood
  <2>7. /\ m1.active = vm.active /\ Len(m1.objs) = Len(vm.objs) /\ m1.objs[i] = vm.objs[i]
        /\ m1.objs[j].kind = "array" /\ Len(m1.objs[j].slots) = Len(vm.objs[j].slots)
        /\ m1.roots = vm.roots /\ m1.cfs = vm.cfs
    BY <2>2, <2>5 DEF Slotted, Rewritten
  <2>8. AMachine(m1) BY <2>6 DEF Good
  <2> DEFINE y == Num(n - 1)
  <2>9. Slotted(m1, m2, i, 2, y) BY <2>2, <2>7, <2>8, SlotWritten
  <2>10. Bare(y) /\ y[2] = n - 1 BY Immediates
  <2> HIDE DEF m2, y
  <2>11. Good(m2, {})
    <3>1. Good(m1, {} \cup {i}) BY <2>6, Weaker
    <3>2. /\ i \in 1..Len(m1.objs) /\ m1.objs[i].kind = "vec" /\ Len(m1.objs[i].slots) = 2
          /\ j \in 1..Len(m1.objs) /\ m1.objs[j].kind = "array"
          /\ m1.objs[i].slots[1] = Ptr(m1.active, j) /\ y[2] \in 0..Len(m1.objs[j].slots)
      BY <2>2, <2>3, <2>7, <2>10
    <3> QED BY <2>9, <2>10, <3>1, <3>2, CountSlotted
  <2>12. /\ m2.cfs = vm.cfs /\ m2.roots = vm.roots /\ m2.active = vm.active
         /\ Len(m2.objs) = Len(vm.objs)
    BY <2>7, <2>9 DEF Slotted, Rewritten
  <2>13. Fine(m2, x) BY <2>4, <2>12, FineSame
  <2>14. Outcome(SetReg(m2, rd, x)) BY <1>3, <1>4, <2>11, <2>12, <2>13, RegWritten
  <2> QED BY <1>1, <1>7, <2>14, DoKeeps DEF n, b, v, x, m1, m2, y
<1> QED BY <1>6, <1>7

LEMMA VecFirstKeeps ==
  ASSUME MachineInv, NEW rd \in Frame, NEW ra \in Frame, VecFirst(rd, ra)
  PROVE  MachineInv'
<1> DEFINE v == Reg(vm, ra)
           x == At(vm, Backing(vm, v)).slots[1]
           m == IF Count(vm, v) = 0 THEN Fault(vm, "array index out of bounds")
                ELSE SetReg(vm, rd, x)
<1>1. Ready("vec") /\ IsA(vm, v, "vec") /\ Do(m) BY DEF VecFirst
<1>2. Steady BY <1>1, ReadyIs
<1>3. Good(vm, {}) /\ Len(program.texts) <= Len(vm.roots) BY <1>2 DEF Steady
<1>4. rd \in 0..vm.cfs - 1 /\ ra \in 0..vm.cfs - 1 BY DEF Frame
<1>5. Fine(vm, v) BY <1>3, <1>4, RegisterIs
<1>6. CASE Count(vm, v) = 0
  <2>1. Outcome(Fault(vm, "array index out of bounds")) BY <1>3, FaultIs
  <2> QED BY <1>1, <1>6, <2>1, DoKeeps
<1>7. CASE Count(vm, v) # 0
  <2>1. PICK i \in 1..Len(vm.objs), j \in 1..Len(vm.objs) : Container(vm, v, "vec", i, j)
    BY <1>1, <1>3, <1>5, ContainerIs
  <2>2. /\ At(vm, Backing(vm, v)) = vm.objs[j] /\ IsSeq(vm.objs[j].slots)
        /\ Count(vm, v) \in 0..Len(vm.objs[j].slots)
    BY <2>1 DEF Container
  <2>3. 1 \in 1..Len(vm.objs[j].slots) BY <1>7, <2>2 DEF IsSeq
  <2>4. Fine(vm, x) BY <1>3, <2>2, <2>3 DEF Good, SlotsFine
  <2>5. Outcome(SetReg(vm, rd, x)) BY <1>3, <1>4, <2>4, RegWritten
  <2> QED BY <1>1, <1>7, <2>5, DoKeeps
<1> QED BY <1>6, <1>7

-----------------------------------------------------------------------------
(* Maps: what a table holds is fine if what the map's backing holds is.     *)

\* What Min gives.
LEMMA LeastOf ==
  ASSUME NEW S, S \subseteq Nat, S # {}
  PROVE  Min(S) \in S /\ \A y \in S : Min(S) <= y
BY LeastNumber DEF Min

\* f[i] is the value after round i of a loop.
Rounds(f, m, S, a, step) ==
  f \in [0..m -> S] /\ f[0] = a /\ \A i \in 1..m : f[i] = step[i][f[i - 1]]

\* A loop of n rounds has a value after each of them.
LEMMA RoundsExist ==
  ASSUME NEW n \in Nat, NEW S, NEW a \in S, NEW step \in [1..n -> [S -> S]]
  PROVE  \E f : Rounds(f, n, S, a, step)
<1> DEFINE T == {m \in 0..n : \E f : Rounds(f, m, S, a, step)}
<1>1. 0 \in T
  <2>1. Rounds([i \in 0..0 |-> a], 0, S, a, step) BY DEF Rounds
  <2>2. 0 \in 0..n OBVIOUS
  <2> QED BY <2>1, <2>2
<1>2. ASSUME NEW m \in 1..n, m - 1 \in T PROVE m \in T
  <2>1. PICK f : Rounds(f, m - 1, S, a, step) BY <1>2
  <2>2. m - 1 \in 0..m - 1 /\ f[m - 1] \in S BY <2>1 DEF Rounds
  <2> DEFINE g == [i \in 0..m |-> IF i = m THEN step[m][f[m - 1]] ELSE f[i]]
  <2>3. step[m][f[m - 1]] \in S BY <2>2
  <2>4. \A i \in 0..m : i # m => i \in 0..m - 1 OBVIOUS
  <2>5. g \in [0..m -> S] BY <2>1, <2>3, <2>4 DEF Rounds
  <2>6. g[0] = a BY <2>1 DEF Rounds
  <2>7. \A i \in 1..m : g[i] = step[i][g[i - 1]]
    <3> TAKE i \in 1..m
    <3>1. i - 1 \in 0..m - 1 /\ i - 1 # m /\ i - 1 \in 0..m /\ i \in 0..m OBVIOUS
    <3>2. g[i - 1] = f[i - 1] BY <3>1
    <3>3. CASE i = m BY <3>1, <3>2, <3>3
    <3>4. CASE i # m
      <4>1. i \in 1..m - 1 /\ g[i] = f[i] BY <3>1, <3>4
      <4> QED BY <2>1, <3>2, <4>1 DEF Rounds
    <3> QED BY <3>3, <3>4
  <2> HIDE DEF g
  <2>8. Rounds(g, m, S, a, step) BY <2>5, <2>6, <2>7 DEF Rounds
  <2>9. m \in 0..n OBVIOUS
  <2> QED BY <2>8, <2>9
<1>3. 0..n \subseteq T
  <2> HIDE DEF T
  <2>1. \A i \in 1..n : i - 1 \in T => i \in T BY <1>2
  <2> QED BY <1>1, <2>1, AllUpTo
<1>4. n \in T
  <2> HIDE DEF T
  <2> QED BY <1>3
<1> QED BY <1>4

\* The sizes that map_rehash_cap tries.
Doubles(f, n) == f = [k \in 0..n |-> IF k = 0 THEN MapInitialCap ELSE f[k - 1] * 2]

\* They are what they are meant to be,
LEMMA DoublesExist == ASSUME NEW n \in Nat PROVE \E f : Doubles(f, n)
<1> DEFINE step == [i \in 1..n |-> [x \in Nat |-> x * 2]]
<1>1. step \in [1..n -> [Nat -> Nat]] OBVIOUS
<1>2. MapInitialCap \in Nat BY MapCapAssumption
<1>3. PICK f : Rounds(f, n, Nat, MapInitialCap, step)
  <2> HIDE DEF step
  <2> QED BY <1>1, <1>2, RoundsExist
<1>4. \A i \in 0..n : f[i] = IF i = 0 THEN MapInitialCap ELSE f[i - 1] * 2
  <2> TAKE i \in 0..n
  <2>1. CASE i = 0 BY <1>3, <2>1 DEF Rounds
  <2>2. CASE i # 0
    <3>1. i \in 1..n /\ i - 1 \in 0..n BY <2>2
    <3>2. f[i - 1] \in Nat BY <1>3, <3>1 DEF Rounds
    <3>3. step[i][f[i - 1]] = f[i - 1] * 2 BY <3>1, <3>2
    <3>4. f[i] = step[i][f[i - 1]] BY <1>3, <3>1 DEF Rounds
    <3> QED BY <2>2, <3>3, <3>4
  <2> QED BY <2>1, <2>2
<1>5. f = [i \in 0..n |-> f[i]] BY <1>3 DEF Rounds
<1> QED BY <1>4, <1>5 DEF Doubles

\* and the last is not less than the table's.
LEMMA DoublesGrow ==
  ASSUME NEW n \in Nat, NEW f, Doubles(f, n)
  PROVE  \A k \in 0..n : f[k] \in Nat /\ f[k] >= MapInitialCap + k
<1> DEFINE T == {k \in 0..n : f[k] \in Nat /\ f[k] >= MapInitialCap + k}
<1>0. MapInitialCap \in Nat /\ MapInitialCap >= 1 BY MapCapAssumption
<1>1. \A k \in 0..n : f[k] = IF k = 0 THEN MapInitialCap ELSE f[k - 1] * 2 BY DEF Doubles
<1>2. 0 \in T BY <1>0, <1>1
<1>3. \A k \in 1..n : k - 1 \in T => k \in T
  <2> SUFFICES ASSUME NEW k \in 1..n, k - 1 \in T PROVE k \in T OBVIOUS
  <2>1. f[k] = f[k - 1] * 2 BY <1>1
  <2> QED BY <1>0, <2>1
<1>4. 0..n \subseteq T
  <2> HIDE DEF T
  <2> QED BY <1>2, <1>3, AllUpTo
<1> QED BY <1>4

\* The table has n slots, and what they hold is fine.
Sized(m, t, n) ==
  /\ n \in Nat /\ t = [p \in 0..n - 1 |-> t[p]]
  /\ \A p \in 0..n - 1 : Fine(m, t[p].raw) /\ Fine(m, t[p].val)

LEMMA CapIs == ASSUME NEW m, NEW t, NEW n, Sized(m, t, n) PROVE Cap(t) = n /\ DOMAIN t = 0..n - 1
<1>1. n - 1 \in Int /\ DOMAIN t = 0..n - 1 BY DEF Sized
<1>2. Cardinality(0..n - 1) = n
  <2>1. CASE n = 0
    <3>1. 0..n - 1 = {} BY <2>1
    <3> QED BY <2>1, <3>1, FS_EmptySet
  <2>2. CASE n # 0
    <3>1. 0 <= n - 1 /\ (n - 1) - 0 + 1 = n BY <2>2 DEF Sized
    <3> QED BY <1>1, <3>1, FS_Interval
  <2> QED BY <2>1, <2>2
<1> QED BY <1>1, <1>2 DEF Cap

LEMMA HalfIs == ASSUME NEW n \in Nat PROVE (2 * n) \div 2 = n
OBVIOUS

LEMMA TableIs ==
  ASSUME NEW m, Good(m, {}), NEW v, NEW i, NEW j, Container(m, v, "map", i, j)
  PROVE  \E n \in Nat : Len(m.objs[j].slots) = 2 * n /\ Sized(m, TableOf(m, v).slots, n)
<1> DEFINE s == At(m, Backing(m, v)).slots
           t == TableOf(m, v).slots
<1>1. s = m.objs[j].slots /\ j \in 1..Len(m.objs) BY DEF Container
<1>2. PICK n \in Nat : Len(s) = 2 * n BY <1>1 DEF Container
<1>3. \A k \in 1..2 * n : Fine(m, s[k]) BY <1>1, <1>2 DEF Good, SlotsFine
<1>4. t = [p \in 0..Len(s) \div 2 - 1 |->
             [key |-> KeyOf(m, s[2 * p + 1]), raw |-> s[2 * p + 1], val |-> s[2 * p + 2]]]
  BY DEF TableOf
<1>5. Len(s) \div 2 = n BY <1>2, HalfIs
<1> HIDE DEF s, t
<1>6. /\ t = [p \in 0..n - 1 |-> t[p]]
      /\ \A p \in 0..n - 1 : t[p].raw = s[2 * p + 1] /\ t[p].val = s[2 * p + 2]
  BY <1>4, <1>5
<1>7. \A p \in 0..n - 1 : 2 * p + 1 \in 1..2 * n /\ 2 * p + 2 \in 1..2 * n OBVIOUS
<1>8. Sized(m, t, n) BY <1>3, <1>6, <1>7 DEF Sized
<1> QED BY <1>1, <1>2, <1>8 DEF t

LEMMA EntryWritten ==
  ASSUME NEW m, NEW t, NEW n, Sized(m, t, n), NEW p, NEW e, Fine(m, e.raw), Fine(m, e.val)
  PROVE  Sized(m, [t EXCEPT ![p] = e], n)
<1> DEFINE u == [t EXCEPT ![p] = e]
<1>1. DOMAIN t = 0..n - 1 BY DEF Sized
<1>2. /\ u = [q \in 0..n - 1 |-> u[q]]
      /\ \A q \in 0..n - 1 : u[q] = e \/ u[q] = t[q]
  BY <1>1
<1> HIDE DEF u
<1>3. Sized(m, u, n) BY <1>2 DEF Sized
<1> QED BY <1>3 DEF u

LEMMA WithEntrySized ==
  ASSUME NEW m, NEW tab, DOMAIN tab = {"slots", "count", "used"}, NEW n, Sized(m, tab.slots, n),
         NEW key, NEW raw, Fine(m, raw), NEW val, Fine(m, val)
  PROVE  Sized(m, WithEntry(tab, key, raw, val).slots, n)
<1> DEFINE p == Probe(tab.slots, key)
           w == WithEntry(tab, key, raw, val)
           old == tab.slots
<1>1. CASE Holds(tab.slots, key)
  <2> DEFINE e == [old[p] EXCEPT !.val = val]
             x == [tab EXCEPT !.slots[p].val = val]
             u == [old EXCEPT ![p].val = val]
  <2>1. w = x BY <1>1 DEF WithEntry
  <2> HIDE DEF w, p
  <2>2. x.slots = u OBVIOUS
  <2>3. CASE p \in 0..n - 1
    <3> DEFINE y == [old EXCEPT ![p] = e]
    <3>1. u = y OBVIOUS
    <3>2. DOMAIN old = 0..n - 1 BY DEF Sized
    <3>3. /\ y = [q \in 0..n - 1 |-> y[q]]
          /\ \A q \in 0..n - 1 : (q = p /\ y[q] = e) \/ (q # p /\ y[q] = old[q])
      BY <3>2
    <3>4. e.raw = old[p].raw BY DEF Sized
    <3>5. e.val = val \/ e.val = old[p].val BY DEF Sized
    <3>6. Fine(m, old[p].raw) /\ Fine(m, old[p].val) BY <2>3 DEF Sized
    <3> HIDE DEF y, e, u, old
    <3>7. \A q \in 0..n - 1 : Fine(m, y[q].raw) /\ Fine(m, y[q].val)
      BY <3>3, <3>4, <3>5, <3>6 DEF Sized, old
    <3>8. Sized(m, y, n) BY <3>3, <3>7 DEF Sized
    <3> QED BY <2>1, <2>2, <3>1, <3>8 DEF w
  <2>4. CASE p \notin 0..n - 1
    <3>1. u = old BY <2>4 DEF Sized
    <3> QED BY <2>1, <2>2, <3>1 DEF w
  <2> QED BY <2>3, <2>4
<1>2. CASE ~Holds(tab.slots, key)
  <2> DEFINE e == [key |-> key, raw |-> raw, val |-> val]
  <2>1. w.slots = [old EXCEPT ![p] = e] BY <1>2 DEF WithEntry
  <2>2. Fine(m, e.raw) /\ Fine(m, e.val) OBVIOUS
  <2> HIDE DEF e, p, w
  <2>3. Sized(m, [old EXCEPT ![p] = e], n) BY <2>2, EntryWritten
  <2> QED BY <2>1, <2>3 DEF w
<1> QED BY <1>1, <1>2

LEMMA WithoutSized ==
  ASSUME NEW m, NEW tab, DOMAIN tab = {"slots", "count", "used"}, NEW n, Sized(m, tab.slots, n),
         NEW key
  PROVE  Sized(m, Without(tab, key).slots, n)
<1> DEFINE p == Probe(tab.slots, key)
           w == Without(tab, key)
           old == tab.slots
           e == [key |-> Gone, raw |-> Gone, val |-> NilValue]
<1>1. CASE ~Holds(tab.slots, key)
  <2>1. w = tab BY <1>1 DEF Without
  <2> QED BY <2>1
<1>2. CASE Holds(tab.slots, key)
  <2>1. w = [tab EXCEPT !.slots[p] = e, !.count = tab.count - 1] BY <1>2 DEF Without
  <2>2. Fine(m, e.raw) /\ Fine(m, e.val) BY DEF Fine, Bare, Gone, NilValue
  <2> HIDE DEF e, p, w
  <2>3. w.slots = [old EXCEPT ![p] = e] BY <2>1
  <2>4. Sized(m, [old EXCEPT ![p] = e], n) BY <2>2, EntryWritten
  <2> QED BY <2>3, <2>4 DEF w
<1> QED BY <1>1, <1>2

LEMMA RehashCapIs ==
  ASSUME NEW m, NEW tab, NEW n, Sized(m, tab.slots, n)
  PROVE  RehashCap(tab) \in Nat
<1>0. Cap(tab.slots) = n /\ n \in Nat BY CapIs DEF Sized
<1>1. CASE tab.count * 2 >= tab.used
  <2>1. RehashCap(tab) = n * 2 BY <1>0, <1>1 DEF RehashCap
  <2> QED BY <1>0, <2>1
<1>2. CASE ~(tab.count * 2 >= tab.used)
  <2> DEFINE size == CHOOSE g : g = [k \in 0..n |-> IF k = 0 THEN MapInitialCap ELSE g[k - 1] * 2]
             R == {c \in {size[k] : k \in 0..n} : c >= n \/ (c * 7) \div 20 >= tab.count + 1}
  <2>1. RehashCap(tab) = Min(R) BY <1>0, <1>2, Zenon DEF RehashCap
  <2>2. Doubles(size, n)
    <3>1. \E g : g = [k \in 0..n |-> IF k = 0 THEN MapInitialCap ELSE g[k - 1] * 2]
      BY <1>0, DoublesExist DEF Doubles
    <3> QED BY <3>1, Zenon DEF Doubles
  <2> HIDE DEF size
  <2>3. \A k \in 0..n : size[k] \in Nat /\ size[k] >= MapInitialCap + k BY <1>0, <2>2, DoublesGrow
  <2>4. R \subseteq Nat BY <2>3
  <2>5. size[n] \in R
    <3>1. n \in 0..n /\ MapInitialCap \in Nat BY <1>0, MapCapAssumption
    <3>2. size[n] >= n BY <1>0, <2>3, <3>1
    <3> QED BY <3>1, <3>2
  <2>6. Min(R) \in R
    <3> HIDE DEF R
    <3> QED BY <2>4, <2>5, LeastOf
  <2> QED BY <2>1, <2>4, <2>6
<1> QED BY <1>1, <1>2

\* map_grow's loop over the table t, into one of m slots.
Moves(to, t, n, m) ==
  to = [i \in 0..n |-> IF i = 0 THEN EmptySlots(m)
                       ELSE IF i - 1 \in LiveSlots(t) THEN Reinserted(to[i - 1], t[i - 1])
                       ELSE to[i - 1]]

LEMMA MovesExist ==
  ASSUME NEW n \in Nat, NEW t, NEW m \in Nat
  PROVE  \E to : Moves(to, t, n, m)
<1> DEFINE E == {t[i - 1] : i \in 1..n} \cup {[key |-> Empty, raw |-> Empty, val |-> Empty]}
           S == [0..m - 1 -> E]
           step == [i \in 1..n |-> [x \in S |-> IF i - 1 \in LiveSlots(t)
                                                THEN Reinserted(x, t[i - 1]) ELSE x]]
<1>1. EmptySlots(m) \in S BY DEF EmptySlots
<1>2. \A x \in S, i \in 1..n : Reinserted(x, t[i - 1]) \in S
  <2> TAKE x \in S, i \in 1..n
  <2>1. t[i - 1] \in E OBVIOUS
  <2> HIDE DEF E
  <2>2. \A p : [x EXCEPT ![p] = t[i - 1]] \in S BY <2>1
  <2> QED BY <2>2 DEF Reinserted
<1>3. step \in [1..n -> [S -> S]]
  <2> HIDE DEF S
  <2> QED BY <1>2
<1>4. PICK to : Rounds(to, n, S, EmptySlots(m), step)
  <2> HIDE DEF step, S
  <2> QED BY <1>1, <1>3, RoundsExist
<1>5. \A i \in 0..n : to[i] = IF i = 0 THEN EmptySlots(m)
                              ELSE IF i - 1 \in LiveSlots(t) THEN Reinserted(to[i - 1], t[i - 1])
                              ELSE to[i - 1]
  <2> TAKE i \in 0..n
  <2>1. CASE i = 0 BY <1>4, <2>1 DEF Rounds
  <2>2. CASE i # 0
    <3>1. i \in 1..n /\ i - 1 \in 0..n BY <2>2
    <3>2. to[i - 1] \in S BY <1>4, <3>1 DEF Rounds
    <3>4. to[i] = step[i][to[i - 1]] BY <1>4, <3>1 DEF Rounds
    <3> HIDE DEF S
    <3>3. step[i][to[i - 1]] = IF i - 1 \in LiveSlots(t) THEN Reinserted(to[i - 1], t[i - 1])
                               ELSE to[i - 1]
      BY <3>1, <3>2
    <3> QED BY <2>2, <3>3, <3>4
  <2> QED BY <2>1, <2>2
<1>6. to = [i \in 0..n |-> to[i]] BY <1>4 DEF Rounds
<1>7. Moves(to, t, n, m) BY <1>5, <1>6 DEF Moves
<1> QED BY <1>7

LEMMA RehashedSized ==
  ASSUME NEW m, NEW tab, NEW n, Sized(m, tab.slots, n)
  PROVE  \E c \in Nat : Sized(m, Rehashed(tab).slots, c)
<1> DEFINE t == tab.slots
           c == RehashCap(tab)
           to == CHOOSE g : g = [i \in 0..n |->
                   IF i = 0 THEN EmptySlots(c)
                   ELSE IF i - 1 \in LiveSlots(t) THEN Reinserted(g[i - 1], t[i - 1])
                   ELSE g[i - 1]]
<1>0. Cap(t) = n /\ n \in Nat /\ DOMAIN t = 0..n - 1 BY CapIs DEF Sized
<1>1. c \in Nat BY RehashCapIs
<1>2. Rehashed(tab) = [slots |-> to[n], count |-> tab.count, used |-> tab.count]
  BY <1>0, Zenon DEF Rehashed
<1> HIDE DEF c
<1>3. Moves(to, t, n, c)
  <2>1. \E g : g = [i \in 0..n |->
                 IF i = 0 THEN EmptySlots(c)
                 ELSE IF i - 1 \in LiveSlots(t) THEN Reinserted(g[i - 1], t[i - 1])
                 ELSE g[i - 1]]
    <3>1. \E g : Moves(g, t, n, c) BY <1>0, <1>1, MovesExist
    <3> QED BY <3>1, Zenon DEF Moves
  <2> QED BY <2>1, Zenon DEF Moves
<1> HIDE DEF to, t
<1>4. \A i \in 0..n : to[i] = IF i = 0 THEN EmptySlots(c)
                              ELSE IF i - 1 \in LiveSlots(t) THEN Reinserted(to[i - 1], t[i - 1])
                              ELSE to[i - 1]
  BY <1>3 DEF Moves
<1> DEFINE T == {i \in 0..n : Sized(m, to[i], c)}
<1>5. 0 \in T
  <2>1. to[0] = EmptySlots(c) /\ 0 \in 0..n BY <1>0, <1>4
  <2>2. Fine(m, Empty) BY DEF Fine, Bare, Empty
  <2>3. Sized(m, EmptySlots(c), c) BY <1>1, <2>2 DEF Sized, EmptySlots
  <2> QED BY <2>1, <2>3
<1>6. \A i \in 1..n : i - 1 \in T => i \in T
  <2> SUFFICES ASSUME NEW i \in 1..n, i - 1 \in T PROVE i \in T OBVIOUS
  <2>1. i \in 0..n /\ i # 0 /\ i - 1 \in 0..n - 1 BY <1>0
  <2>2. Sized(m, to[i - 1], c) OBVIOUS
  <2>3. to[i] = IF i - 1 \in LiveSlots(t) THEN Reinserted(to[i - 1], t[i - 1]) ELSE to[i - 1]
    BY <1>4, <2>1
  <2>4. Fine(m, t[i - 1].raw) /\ Fine(m, t[i - 1].val) BY <2>1 DEF Sized, t
  <2> DEFINE e == t[i - 1]
             x == to[i - 1]
  <2> HIDE DEF e, x
  <2>5. \A p : Sized(m, [x EXCEPT ![p] = e], c) BY <2>2, <2>4, EntryWritten DEF e, x
  <2>6. Sized(m, Reinserted(x, e), c) BY <2>5 DEF Reinserted
  <2>7. Sized(m, to[i], c) BY <2>2, <2>3, <2>6 DEF e, x
  <2> QED BY <2>1, <2>7
<1>7. 0..n \subseteq T
  <2> HIDE DEF T
  <2> QED BY <1>0, <1>5, <1>6, AllUpTo
<1>8. Sized(m, to[n], c) BY <1>0, <1>7
<1> QED BY <1>1, <1>2, <1>8

LEMMA TripleIs ==
  ASSUME NEW a, NEW b, NEW c
  PROVE  LET s == <<a, b, c>> IN IsSeq(s) /\ Len(s) = 3 /\ s[1] = a /\ s[2] = b /\ s[3] = c
<1> DEFINE s == <<a, b, c>>
           T == {a, b, c}
<1>1. s \in Seq(T) /\ Len(s) = 3 /\ s[1] = a /\ s[2] = b /\ s[3] = c OBVIOUS
<1> HIDE DEF s, T
<1>2. IsSeq(s) BY <1>1, FromSeq
<1> QED BY <1>1, <1>2 DEF s

\* m1 is m with other slots in some objects.
SlotsOnly(m, m1) ==
  /\ DOMAIN m1 = Fields /\ m1.active = m.active /\ m1.regs = m.regs /\ m1.window = m.window
  /\ m1.cfs = m.cfs /\ m1.rets = m.rets /\ m1.closure = m.closure /\ m1.roots = m.roots
  /\ m1.interned = m.interned /\ m1.loaded = m.loaded /\ m1.fault = m.fault
  /\ IsSeq(m1.objs) /\ Len(m1.objs) = Len(m.objs)
  /\ \A i \in 1..Len(m.objs) : m1.objs[i].kind = m.objs[i].kind

LEMMA StoredGood ==
  ASSUME NEW m, NEW i \in 1..Len(m.objs), NEW j \in 1..Len(m.objs), i # j, Good(m, {}),
         m.objs[i].kind = "map", m.objs[j].kind = "array",
         NEW tab, NEW n, Sized(m, tab.slots, n), tab.count \in Int,
         Len(m.objs[j].slots) = 2 * n \/ Unshared(m, j), NEW v, v = Ptr(m.active, i),
         NEW b, b = Ptr(m.active, j), NEW m2, m2 = Stored(m, v, b, tab)
  PROVE  Good(m2, {}) /\ SlotsOnly(m, m2)
<1> DEFINE raw(k) == LET e == tab.slots[(k - 1) \div 2] IN IF k % 2 = 1 THEN e.raw ELSE e.val
           f == [k \in 1..2 * n |-> raw(k)]
           s == f \o <<>>
           h == <<b, Num(tab.count), Num(tab.used)>>
           m1 == SetSlots(m, b, s)
<1>0. Cap(tab.slots) = n /\ n \in Nat
  <2>1. Cap(tab.slots) = n BY CapIs
  <2> QED BY <2>1 DEF Sized
<1>1. m2 = SetSlots(m1, v, h) BY <1>0, Zenon DEF Stored, Sequence
<1>2. \A k \in 1..2 * n : Fine(m, f[k])
  <2> TAKE k \in 1..2 * n
  <2> DEFINE q == (k - 1) \div 2
  <2>1. q \in 0..n - 1 BY <1>0
  <2>2. Fine(m, tab.slots[q].raw) /\ Fine(m, tab.slots[q].val) BY <2>1 DEF Sized
  <2>3. f[k] = tab.slots[q].raw \/ f[k] = tab.slots[q].val OBVIOUS
  <2> QED BY <2>2, <2>3
<1>3. f = [k \in 1..2 * n |-> f[k]] OBVIOUS
<1> HIDE DEF f, h
<1>4. IsSeq(s) /\ Len(s) = 2 * n /\ s = f
  <2>1. IsSeq(f) /\ Len(f) = 2 * n BY <1>0, <1>3, MakeSeq
  <2> QED BY <2>1, WrittenOut
<1> HIDE DEF s
<1>5. AMachine(m) BY DEF Good
<1>6. Rewritten(m, m1, j, s) BY <1>5, SetSlotsIs
<1> HIDE DEF m1
<1>7. Good(m1, {}) BY <1>2, <1>4, <1>6, RewrittenGood
<1>8. /\ m1.active = m.active /\ Len(m1.objs) = Len(m.objs) /\ m1.objs[i] = m.objs[i]
      /\ m1.objs[j].kind = "array" /\ m1.objs[j].slots = s /\ SlotsOnly(m, m1)
  BY <1>6 DEF Rewritten, SlotsOnly
<1>9. AMachine(m1) /\ i \in 1..Len(m1.objs) /\ j \in 1..Len(m1.objs) BY <1>7, <1>8 DEF Good
<1>10. Rewritten(m1, m2, i, h) BY <1>1, <1>8, <1>9, SetSlotsIs
<1>11. IsSeq(h) /\ Len(h) = 3 /\ h[1] = b /\ h[2] = Num(tab.count) /\ h[3] = Num(tab.used)
  BY TripleIs DEF h
<1>12. (\A k \in 2..Len(h) : Bare(h[k])) /\ h[2][2] \in Int
  <2>1. \A k \in 2..Len(h) : k = 2 \/ k = 3 BY <1>11
  <2> QED BY <1>11, <2>1, Immediates
<1>13. Good(m1, {} \cup {i}) BY <1>7, Weaker
<1>14. \E c \in Nat : Len(m1.objs[j].slots) = 2 * c BY <1>0, <1>4, <1>8
<1>15. Good(m2, {})
  BY <1>8, <1>9, <1>10, <1>11, <1>12, <1>13, <1>14, HeaderGood
<1>16. SlotsOnly(m, m2) BY <1>8, <1>10 DEF SlotsOnly, Rewritten
<1> QED BY <1>15, <1>16

LEMMA TableFields == \A m, v : /\ DOMAIN TableOf(m, v) = {"slots", "count", "used"}
                               /\ TableOf(m, v).count = Count(m, v)
BY DEF TableOf

LEMMA CountStays ==
  ASSUME NEW tab, DOMAIN tab = {"slots", "count", "used"}, tab.count \in Int, NEW key, NEW raw, NEW val
  PROVE  /\ WithEntry(tab, key, raw, val).count \in Int
         /\ Without(tab, key).count \in Int
         /\ Rehashed(tab).count \in Int
<1>1. WithEntry(tab, key, raw, val).count \in Int
  <2>1. CASE Holds(tab.slots, key) BY <2>1 DEF WithEntry
  <2>2. CASE ~Holds(tab.slots, key) BY <2>2 DEF WithEntry
  <2> QED BY <2>1, <2>2
<1>2. Without(tab, key).count \in Int
  <2>1. CASE Holds(tab.slots, key) BY <2>1 DEF Without
  <2>2. CASE ~Holds(tab.slots, key) BY <2>2 DEF Without
  <2> QED BY <2>1, <2>2
<1>3. Rehashed(tab).count = tab.count BY DEF Rehashed
<1> QED BY <1>1, <1>2, <1>3

LEMMA EnteredKeeps ==
  ASSUME NEW m, Good(m, {}), Len(program.texts) <= Len(m.roots), NEW r \in 0..m.cfs - 1,
         NEW rk \in 0..m.cfs - 1, NEW rv \in 0..m.cfs - 1, IsA(m, Reg(m, r), "map")
  PROVE  Outcome(Entered(m, r, rk, rv))
<1> DEFINE v == Reg(m, r)
           k == Reg(m, rk)
           x == Reg(m, rv)
           b == Backing(m, v)
           tab == WithEntry(TableOf(m, v), KeyOf(m, k), k, x)
           m1 == Stored(m, v, b, tab)
<1>1. Entered(m, r, rk, rv) = m1 BY DEF Entered
<1>2. Fine(m, v) /\ Fine(m, k) /\ Fine(m, x) BY RegisterIs
<1> HIDE DEF k, x
<1>3. PICK i \in 1..Len(m.objs), j \in 1..Len(m.objs) : Container(m, v, "map", i, j)
  BY <1>2, ContainerIs
<1>4. PICK n \in Nat : Len(m.objs[j].slots) = 2 * n /\ Sized(m, TableOf(m, v).slots, n)
  BY <1>3, TableIs
<1>5. Sized(m, tab.slots, n) /\ tab.count \in Int
  <2> DEFINE t == TableOf(m, v)
             key == KeyOf(m, k)
  <2>1. DOMAIN t = {"slots", "count", "used"} /\ t.count \in Int BY <1>3, TableFields DEF Container
  <2>2. Sized(m, t.slots, n) BY <1>4
  <2> HIDE DEF t, key
  <2>3. Sized(m, WithEntry(t, key, k, x).slots, n) BY <1>2, <2>1, <2>2, WithEntrySized
  <2>4. WithEntry(t, key, k, x).count \in Int BY <2>1, CountStays
  <2> QED BY <2>3, <2>4 DEF t, key
<1>6. /\ v = Ptr(m.active, i) /\ b = Ptr(m.active, j) /\ i # j
      /\ m.objs[i].kind = "map" /\ m.objs[j].kind = "array"
  BY <1>3 DEF Container
<1> HIDE DEF tab, v, b, m1
<1>7. Good(m1, {}) /\ SlotsOnly(m, m1) BY <1>4, <1>5, <1>6, StoredGood DEF m1
<1>8. Outcome(m1) BY <1>7 DEF Outcome, SlotsOnly
<1> QED BY <1>1, <1>8

LEMMA MapDeleteKeeps ==
  ASSUME MachineInv, NEW ra \in Frame, NEW rb \in Frame, MapDelete(ra, rb)
  PROVE  MachineInv'
<1> DEFINE v == Reg(vm, ra)
           key == KeyOf(vm, Reg(vm, rb))
           b == Backing(vm, v)
           tab == Without(TableOf(vm, v), key)
           m1 == Stored(vm, v, b, tab)
           m == IF ~IsKey(vm, Reg(vm, rb)) THEN Fault(vm, "invalid map key type")
                ELSE IF Probe(TableOf(vm, v).slots, key) = Endless THEN Fault(vm, "endless probe")
                ELSE m1
<1>1. Ready("map") /\ IsA(vm, v, "map") /\ Do(m) BY DEF MapDelete
<1>2. Steady BY <1>1, ReadyIs
<1>3. Good(vm, {}) /\ Len(program.texts) <= Len(vm.roots) BY <1>2 DEF Steady
<1>4. Fine(vm, v) BY <1>3, RegisterIs DEF Frame
<1> HIDE DEF key
<1>5. PICK i \in 1..Len(vm.objs), j \in 1..Len(vm.objs) : Container(vm, v, "map", i, j)
  BY <1>1, <1>3, <1>4, ContainerIs
<1>6. PICK n \in Nat : Len(vm.objs[j].slots) = 2 * n /\ Sized(vm, TableOf(vm, v).slots, n)
  BY <1>3, <1>5, TableIs
<1>7. Sized(vm, tab.slots, n) /\ tab.count \in Int
  <2> DEFINE t == TableOf(vm, v)
  <2>1. DOMAIN t = {"slots", "count", "used"} /\ t.count \in Int BY <1>5, TableFields DEF Container
  <2>2. Sized(vm, t.slots, n) BY <1>6
  <2> HIDE DEF t
  <2>3. Sized(vm, Without(t, key).slots, n) BY <2>1, <2>2, WithoutSized
  <2>4. Without(t, key).count \in Int BY <2>1, CountStays
  <2> QED BY <2>3, <2>4 DEF t
<1>8. /\ v = Ptr(vm.active, i) /\ b = Ptr(vm.active, j) /\ i # j
      /\ vm.objs[i].kind = "map" /\ vm.objs[j].kind = "array"
  BY <1>5 DEF Container
<1> HIDE DEF tab, b, m1
<1>9. Good(m1, {}) /\ SlotsOnly(vm, m1) BY <1>3, <1>6, <1>7, <1>8, StoredGood DEF m1
<1>10. Outcome(m1) BY <1>3, <1>9 DEF Outcome, SlotsOnly
<1>11. \A why : why # "none" => Outcome(Fault(vm, why)) BY <1>3, FaultIs
<1>12. Outcome(m) BY <1>10, <1>11
<1> QED BY <1>1, <1>12, DoKeeps

LEMMA MapGetKeeps ==
  ASSUME \A x : Hash(x) \in Nat,
         MachineInv, NEW rd \in Frame, NEW ra \in Frame, NEW rb \in Frame, MapGet(rd, ra, rb)
  PROVE  MachineInv'
<1> DEFINE v == Reg(vm, ra)
           key == KeyOf(vm, Reg(vm, rb))
           t == TableOf(vm, v).slots
           p == Probe(t, key)
           m == IF p = Endless THEN Fault(vm, "endless probe")
                ELSE IF ~Holds(t, key) THEN Fault(vm, "map key not found")
                ELSE SetReg(vm, rd, t[p].val)
<1>1. Ready("map") /\ IsA(vm, v, "map") /\ Do(m) BY DEF MapGet
<1>2. Steady BY <1>1, ReadyIs
<1>3. Good(vm, {}) /\ Len(program.texts) <= Len(vm.roots) BY <1>2 DEF Steady
<1>4. Fine(vm, v) /\ rd \in 0..vm.cfs - 1 BY <1>3, RegisterIs DEF Frame
<1> HIDE DEF key
<1>5. PICK i \in 1..Len(vm.objs), j \in 1..Len(vm.objs) : Container(vm, v, "map", i, j)
  BY <1>1, <1>3, <1>4, ContainerIs
<1>6. PICK n \in Nat : Sized(vm, t, n) BY <1>3, <1>5, TableIs
<1> HIDE DEF t
<1>7. p # Endless => p \in 0..n - 1
  <2>0. Cap(t) = n /\ DOMAIN t = 0..n - 1 BY <1>6, CapIs
  <2> DEFINE at(d) == (Hash(key) + d) % n
             S == {d \in 0..n - 1 : t[at(d)].key \in {Empty, key}}
             Q == {d \in 0..Min(S) - 1 : t[at(d)].key = Gone}
  <2>1. p = IF S = {} THEN Endless
            ELSE IF t[at(Min(S))].key = key \/ Q = {} THEN at(Min(S)) ELSE at(Min(Q))
    BY <2>0, Zenon DEF Probe
  <2> SUFFICES ASSUME S # {} PROVE p \in 0..n - 1 BY <2>1
  <2>2. S \subseteq Nat OBVIOUS
  <2>3. Min(S) \in 0..n - 1
    <3> HIDE DEF S
    <3>1. Min(S) \in S BY <2>2, LeastOf
    <3> QED BY <3>1 DEF S
  <2>4. Q \subseteq Nat BY <2>3
  <2>5. Q # {} => Min(Q) \in Nat
    <3> HIDE DEF Q
    <3> QED BY <2>4, LeastOf
  <2>6. n \in Nat \ {0} BY <2>3
  <2>7. \A d \in Nat : at(d) \in 0..n - 1 BY <2>6
  <2>8. at(Min(S)) \in 0..n - 1
    <3>1. Min(S) \in Nat BY <2>3, <2>6
    <3> HIDE DEF S, at
    <3> QED BY <2>7, <3>1
  <2>9. Q # {} => at(Min(Q)) \in 0..n - 1
    <3> HIDE DEF Q, at
    <3> QED BY <2>5, <2>7
  <2>10. CASE t[at(Min(S))].key = key \/ Q = {} BY <2>1, <2>8, <2>10, Zenon
  <2>11. CASE ~(t[at(Min(S))].key = key \/ Q = {}) BY <2>1, <2>9, <2>11, Zenon
  <2> QED BY <2>10, <2>11
<1> HIDE DEF p
<1>8. \A why : why # "none" => Outcome(Fault(vm, why)) BY <1>3, FaultIs
<1>9. p # Endless => Outcome(SetReg(vm, rd, t[p].val))
  <2> SUFFICES ASSUME p # Endless PROVE Outcome(SetReg(vm, rd, t[p].val)) OBVIOUS
  <2>1. Fine(vm, t[p].val) BY <1>6, <1>7 DEF Sized
  <2> QED BY <1>3, <1>4, <2>1, RegWritten
<1>10. Outcome(m) BY <1>8, <1>9
<1> QED BY <1>1, <1>10, DoKeeps

LEMMA MapNewKeeps == ASSUME MachineInv, NEW rd \in Frame, MapNew(rd) PROVE MachineInv'
<1> DEFINE t == <<Undefined, Num(0), Num(0)>>
           a == AllocSlots(vm, "map", 3)
           m1 == a.vm
           hdr == a.at
           m2 == SetSlots(m1, hdr, t)
           m3 == SetReg(m2, rd, hdr)
           b == AllocSlots(m3, "array", 2 * MapInitialCap)
           m4 == IF b.at = Nil THEN Fault(b.vm, "heap exhausted")
                 ELSE SetSlot(b.vm, Reg(b.vm, rd), 1, b.at)
           m5 == IF hdr = Nil THEN Fault(m1, "heap exhausted") ELSE m4
           h == Len(m1.objs)
<1>1. Ready("map") /\ Do(m5) BY Zenon DEF MapNew, Allocated
<1>3. Steady BY <1>1, ReadyIs
<1>4. IF hdr = Nil THEN \E Y : Good(m1, Y)
      ELSE /\ Good(m1, {h}) /\ hdr = Ptr(m1.active, h) /\ Kept(vm, m1)
           /\ h \in 1..Len(m1.objs) /\ m1.objs[h].kind = "map" /\ m1.objs[h].slots = Slots(3)
  <2>1. Good(vm, {}) BY <1>3 DEF Steady
  <2>2. HeaderMade(vm, a, "map", 3) BY <2>1, HeaderAllocated
  <2> HIDE DEF a
  <2> QED BY <2>2 DEF HeaderMade
<1> HIDE DEF a
<1>5. CASE hdr = Nil
  <2>1. Outcome(Fault(m1, "heap exhausted")) BY <1>4, <1>5, FaultIs
  <2> QED BY <1>1, <1>5, <2>1, DoKeeps
<1>6. CASE hdr # Nil
  <2>1. AMachine(m1) BY <1>4, <1>6 DEF Good
  <2>2. IsSeq(t) /\ Len(t) = 3 /\ t[1] = Undefined /\ t[2] = Num(0) /\ t[3] = Num(0) BY TripleIs
  <2> HIDE DEF t
  <2>3. Rewritten(m1, m2, h, t) BY <1>4, <1>6, <2>1, SetSlotsIs
  <2> HIDE DEF m2
  <2>5. \A k \in 1..Len(t) : Fine(m1, t[k])
    <3> TAKE k \in 1..Len(t)
    <3>1. k = 1 \/ k = 2 \/ k = 3 BY <2>2
    <3> QED BY <2>2, <3>1, Immediates
  <2>6. m1.objs[h].kind # "array" BY <1>4, <1>6
  <2>7. Good(m2, {h} \cup {h}) BY <1>4, <1>6, <2>2, <2>3, <2>5, <2>6, RewrittenGood
  <2>8. Good(m2, {h}) BY <2>7
  <2>9. /\ Len(m2.objs) = Len(m1.objs) /\ m2.active = m1.active /\ m2.cfs = m1.cfs
        /\ m2.roots = m1.roots /\ m2.fault = m1.fault
        /\ m2.objs[h].kind = "map" /\ m2.objs[h].slots = t
    BY <1>4, <1>6, <2>3 DEF Rewritten
  <2>10. rd \in 0..m2.cfs - 1 BY <1>4, <1>6, <2>9 DEF Kept, Frame
  <2>11. Fine(m2, hdr) BY <1>4, <1>6, <2>9 DEF Fine
  <2>12. Good(m3, {h}) /\ OtherRegs(m2, m3) /\ Reg(m3, rd) = hdr BY <2>8, <2>10, <2>11, SetRegGood
  <2> HIDE DEF m3
  <2>13. /\ h \in 1..Len(m3.objs) /\ Len(program.texts) <= Len(m3.roots) /\ m3.fault = "none"
         /\ rd \in 0..m3.cfs - 1 /\ Reg(m3, rd) = Ptr(m3.active, h)
         /\ m3.objs[h].kind = "map" /\ m3.objs[h].slots = t
    BY <1>3, <1>4, <1>6, <2>9, <2>10, <2>12 DEF OtherRegs, Kept, Steady
  <2>14. \A k \in 2..Len(m3.objs[h].slots) : m3.objs[h].slots[k] = Num(0)
    <3>1. Len(m3.objs[h].slots) = 3 BY <2>2, <2>13
    <3>2. \A k \in 2..Len(m3.objs[h].slots) : k = 2 \/ k = 3 BY <3>1
    <3> QED BY <2>2, <2>13, <3>2
  <2> DEFINE cap == 2 * MapInitialCap
  <2>15. cap \in Nat /\ \E c \in Nat : cap = 2 * c BY MapCapAssumption
  <2>16. m3.objs[h].kind = "map" /\ Len(m3.objs[h].slots) = 3 BY <2>2, <2>13
  <2>17. Outcome(m4)
    <3> HIDE DEF cap
    <3> QED BY <2>12, <2>13, <2>14, <2>15, <2>16, BackingMade DEF cap
  <2> QED BY <1>1, <1>6, <2>17, DoKeeps DEF m3, m2, t
<1> QED BY <1>5, <1>6

\* The map has got a larger or a cleaned backing.
LEMMA MapGrowIs ==
  ASSUME NEW m, Good(m, {}), m.fault = "none", NEW r \in 0..m.cfs - 1, IsA(m, Reg(m, r), "map"),
         NEW g0, g0 = MapGrow(m, r)
  PROVE  IF g0.fault # "none" THEN Outcome(g0)
         ELSE /\ Good(g0, {}) /\ g0.cfs = m.cfs /\ Len(g0.roots) = Len(m.roots)
              /\ IsA(g0, Reg(g0, r), "map")
<1> DEFINE v == Reg(m, r)
           cap == 2 * RehashCap(TableOf(m, v))
           o == Object("array", Slots(cap), <<>>, 0)
           a == Alloc(m, o)
           m1 == a.vm
           v1 == Reg(m1, r)
           tab == Rehashed(TableOf(m1, v1))
           m2 == Stored(m1, v1, a.at, tab)
<1>0. g0 = IF a.at = Nil THEN Fault(m1, "heap exhausted") ELSE m2
  BY Zenon DEF MapGrow, Allocated, AllocSlots
<1>1. Fine(m, v) BY RegisterIs
<1>2. PICK i \in 1..Len(m.objs), j \in 1..Len(m.objs) : Container(m, v, "map", i, j)
  BY <1>1, ContainerIs
<1>3. cap \in Nat
  <2>1. PICK n \in Nat : Sized(m, TableOf(m, v).slots, n) BY <1>2, TableIs
  <2>2. RehashCap(TableOf(m, v)) \in Nat BY <2>1, RehashCapIs
  <2> QED BY <2>2
<1> HIDE DEF cap
<1>4. /\ AnObject(o) /\ o.kind = "array" /\ o.slots = Slots(cap)
      /\ \A k \in 1..Len(o.slots) : Bare(o.slots[k])
  BY <1>3, SlotsObjectIs
<1> HIDE DEF o
<1>5. IF a.at = Nil THEN \E Y : Good(m1, Y)
      ELSE \E g : /\ Made(m, o, m1, a.at, g) /\ Good(m1, {g[k] : k \in {}})
                  /\ Fine(m1, a.at) /\ Kept(m, m1)
  BY <1>4, AllocWhole
<1> HIDE DEF a
<1>6. CASE a.at = Nil
  <2>1. Outcome(Fault(m1, "heap exhausted")) BY <1>5, <1>6, FaultIs
  <2>2. g0 = Fault(m1, "heap exhausted") BY <1>0, <1>6
  <2>3. PICK Y : Good(m1, Y) BY <1>5, <1>6
  <2>4. g0.fault = "heap exhausted" BY <2>2, <2>3 DEF Fault, Good, AMachine, Fields
  <2> QED BY <2>1, <2>2, <2>4
<1>7. CASE a.at # Nil
  <2>1. PICK g : /\ Made(m, o, m1, a.at, g) /\ Good(m1, {g[k] : k \in {}})
                 /\ Fine(m1, a.at) /\ Kept(m, m1)
    BY <1>5, <1>7
  <2>2. {g[k] : k \in {}} = {} OBVIOUS
  <2>3. Good(m1, {}) BY <2>1, <2>2
  <2> DEFINE n == Len(m1.objs)
             p == g[i]
             q == g[j]
  <2>4. /\ p \in 1..n - 1 /\ Container(m1, v1, "map", p, q) /\ m1.cfs = m.cfs
    BY <1>2, <2>1, <2>3, ContainerFollows
  <2> HIDE DEF p, q
  <2>5. v1 = Ptr(m1.active, p) /\ m1.objs[p].kind = "map" BY <2>4 DEF Container
  <2>7. /\ n \in Nat \ {0} /\ a.at = Ptr(m1.active, n) /\ m1.objs[n].kind = "array"
    BY <1>4, <2>1 DEF Made
  <2>8. n \in 1..n /\ p \in 1..n /\ p # n BY <2>4, <2>7
  <2>9. Unshared(m1, n) BY <1>4, <2>1, MadeUnshared
  <2>10. PICK c \in Nat : Sized(m1, TableOf(m1, v1).slots, c) BY <2>3, <2>4, TableIs
  <2>11. PICK d \in Nat : Sized(m1, tab.slots, d) BY <2>10, RehashedSized
  <2>17. tab.count \in Int
    <3> DEFINE t == TableOf(m1, v1)
    <3>1. DOMAIN t = {"slots", "count", "used"} /\ t.count \in Int BY <2>4, TableFields DEF Container
    <3> HIDE DEF t
    <3>2. Rehashed(t).count \in Int BY <3>1, CountStays
    <3> QED BY <3>2 DEF t
  <2> HIDE DEF tab, v1, m2, n, v
  <2>12. Good(m2, {}) /\ SlotsOnly(m1, m2)
    BY <2>3, <2>5, <2>7, <2>8, <2>9, <2>11, <2>17, StoredGood DEF m2, n
  <2>13. IsA(m2, v1, "map")
    <3>1. /\ m2.active = m1.active /\ Len(m2.objs) = Len(m1.objs) /\ m2.objs[p].kind = "map"
          /\ p \in 1..Len(m2.objs)
      BY <2>5, <2>8, <2>12 DEF SlotsOnly, n
    <3>2. v1 = Ptr(m2.active, p) BY <2>5, <3>1
    <3> QED BY <3>1, <3>2, LiveIs DEF IsA
  <2>14. Reg(m2, r) = v1 /\ m2.roots = m1.roots /\ m2.cfs = m.cfs /\ m2.fault = "none"
    BY <2>1, <2>4, <2>12 DEF SlotsOnly, Reg, v1, Kept
  <2>15. Len(m2.roots) = Len(m.roots) BY <2>1, <2>14 DEF Kept
  <2>16. g0 = m2 BY <1>0, <1>7 DEF m2
  <2> QED BY <2>12, <2>13, <2>14, <2>15, <2>16
<1> QED BY <1>6, <1>7

LEMMA MapSetKeeps ==
  ASSUME MachineInv, NEW ra \in Frame, NEW rb \in Frame, NEW rd \in Frame, MapSet(ra, rb, rd)
  PROVE  MachineInv'
<1> DEFINE v == Reg(vm, ra)
           k == Reg(vm, rb)
           t == TableOf(vm, v)
           g == MapGrow(vm, ra)
           m == IF ~IsKey(vm, k) THEN Fault(vm, "invalid map key type")
                ELSE IF Probe(t.slots, KeyOf(vm, k)) = Endless THEN Fault(vm, "endless probe")
                ELSE IF Holds(t.slots, KeyOf(vm, k)) \/ ~IsFull(t) THEN Entered(vm, ra, rb, rd)
                ELSE IF g.fault # "none" THEN g ELSE Entered(g, ra, rb, rd)
<1>1. Ready("map") /\ IsA(vm, v, "map") /\ Do(m) BY DEF MapSet
<1>2. Steady BY <1>1, ReadyIs
<1>3. Good(vm, {}) /\ vm.fault = "none" /\ Len(program.texts) <= Len(vm.roots) BY <1>2 DEF Steady
<1>4. ra \in 0..vm.cfs - 1 /\ rb \in 0..vm.cfs - 1 /\ rd \in 0..vm.cfs - 1 BY DEF Frame
<1>5. \A why : why # "none" => Outcome(Fault(vm, why)) BY <1>3, FaultIs
<1>6. Outcome(Entered(vm, ra, rb, rd)) BY <1>1, <1>3, <1>4, EnteredKeeps
<1>7. IF g.fault # "none" THEN Outcome(g)
      ELSE /\ Good(g, {}) /\ g.cfs = vm.cfs /\ Len(g.roots) = Len(vm.roots)
           /\ IsA(g, Reg(g, ra), "map")
  BY <1>1, <1>3, <1>4, MapGrowIs
<1> HIDE DEF g
<1>8. IF g.fault # "none" THEN Outcome(g) ELSE Outcome(Entered(g, ra, rb, rd))
  <2>1. CASE g.fault # "none" BY <1>7, <2>1
  <2>2. CASE ~(g.fault # "none") BY <1>3, <1>4, <1>7, <2>2, EnteredKeeps
  <2> QED BY <2>1, <2>2
<1>9. Outcome(m) BY <1>5, <1>6, <1>8
<1> QED BY <1>1, <1>9, DoKeeps

\* The live keys of the slots before slot i.
Found(f, t, n) == f = [i \in 0..n |-> IF i = 0 THEN <<>>
                                      ELSE IF i - 1 \in LiveSlots(t) THEN Append(f[i - 1], t[i - 1].raw)
                                      ELSE f[i - 1]]

LEMMA FoundExist == ASSUME NEW n \in Nat, NEW t PROVE \E f : Found(f, t, n)
<1> DEFINE R == {t[i - 1].raw : i \in 1..n}
           S == Seq(R)
           step == [i \in 1..n |-> [x \in S |-> IF i - 1 \in LiveSlots(t)
                                                THEN Append(x, t[i - 1].raw) ELSE x]]
<1>1. \A x \in S, i \in 1..n : Append(x, t[i - 1].raw) \in S
  <2> TAKE x \in S, i \in 1..n
  <2>1. t[i - 1].raw \in R OBVIOUS
  <2> HIDE DEF R
  <2> QED BY <2>1
<1>2. <<>> \in S
  <2> HIDE DEF R
  <2> QED OBVIOUS
<1>3. step \in [1..n -> [S -> S]]
  <2> HIDE DEF S
  <2> QED BY <1>1
<1>4. PICK f : Rounds(f, n, S, <<>>, step)
  <2> HIDE DEF step, S
  <2> QED BY <1>2, <1>3, RoundsExist
<1>5. \A i \in 0..n : f[i] = IF i = 0 THEN <<>>
                             ELSE IF i - 1 \in LiveSlots(t) THEN Append(f[i - 1], t[i - 1].raw)
                             ELSE f[i - 1]
  <2> TAKE i \in 0..n
  <2>1. CASE i = 0 BY <1>4, <2>1 DEF Rounds
  <2>2. CASE i # 0
    <3>1. i \in 1..n /\ i - 1 \in 0..n BY <2>2
    <3>2. f[i - 1] \in S BY <1>4, <3>1 DEF Rounds
    <3>3. f[i] = step[i][f[i - 1]] BY <1>4, <3>1 DEF Rounds
    <3> HIDE DEF S
    <3>4. step[i][f[i - 1]] = IF i - 1 \in LiveSlots(t) THEN Append(f[i - 1], t[i - 1].raw)
                              ELSE f[i - 1]
      BY <3>1, <3>2
    <3> QED BY <2>2, <3>3, <3>4
  <2> QED BY <2>1, <2>2
<1>6. f = [i \in 0..n |-> f[i]] BY <1>4 DEF Rounds
<1>7. Found(f, t, n) BY <1>5, <1>6 DEF Found
<1> QED BY <1>7

FoundIn(t) == Loop(Cap(t), <<>>, LAMBDA keys, i :
                   IF i - 1 \in LiveSlots(t) THEN Append(keys, t[i - 1].raw) ELSE keys)

LEMMA FoundAre ==
  ASSUME NEW m, NEW t, NEW n, Sized(m, t, n)
  PROVE  IsSeq(FoundIn(t)) /\ \A k \in 1..Len(FoundIn(t)) : Fine(m, FoundIn(t)[k])
<1> DEFINE F == CHOOSE f : f = [i \in 0..n |->
                   IF i = 0 THEN <<>>
                   ELSE IF i - 1 \in LiveSlots(t) THEN Append(f[i - 1], t[i - 1].raw)
                   ELSE f[i - 1]]
           s == FoundIn(t)
<1>0. Cap(t) = n BY CapIs
<1>1. n \in Nat BY DEF Sized
<1>2. s = F[n] BY <1>0, Zenon DEF Loop, FoundIn
<1>3. Found(F, t, n)
  <2>1. \E f : Found(f, t, n) BY <1>1, FoundExist
  <2>2. \E f : f = [i \in 0..n |-> IF i = 0 THEN <<>>
                                   ELSE IF i - 1 \in LiveSlots(t) THEN Append(f[i - 1], t[i - 1].raw)
                                   ELSE f[i - 1]]
    BY <2>1, Zenon DEF Found
  <2> QED BY <2>2, Zenon DEF Found
<1> HIDE DEF F, s
<1>4. \A i \in 0..n : F[i] = IF i = 0 THEN <<>>
                             ELSE IF i - 1 \in LiveSlots(t) THEN Append(F[i - 1], t[i - 1].raw)
                             ELSE F[i - 1]
  BY <1>3 DEF Found
<1> DEFINE P(i) == IsSeq(F[i]) /\ \A k \in 1..Len(F[i]) : Fine(m, F[i][k])
           T == {i \in 0..n : P(i)}
<1>5. 0 \in T
  <2>1. F[0] = <<>> BY <1>1, <1>4
  <2> QED BY <1>1, <2>1 DEF IsSeq
<1>6. \A i \in 1..n : i - 1 \in T => i \in T
  <2> SUFFICES ASSUME NEW i \in 1..n, i - 1 \in T PROVE i \in T OBVIOUS
  <2>1. i \in 0..n /\ i # 0 /\ i - 1 \in 0..n - 1 BY <1>1
  <2>2. P(i - 1) OBVIOUS
  <2>3. F[i] = IF i - 1 \in LiveSlots(t) THEN Append(F[i - 1], t[i - 1].raw) ELSE F[i - 1]
    BY <1>4, <2>1
  <2> DEFINE x == t[i - 1].raw
             u == F[i - 1]
             w == Append(u, x)
  <2>4. Fine(m, x) BY <2>1 DEF Sized
  <2>5. IsSeq(u) /\ Len(u) \in Nat /\ \A k \in 1..Len(u) : Fine(m, u[k]) BY <2>2 DEF IsSeq
  <2> HIDE DEF x, u
  <2>6. /\ IsSeq(w) /\ Len(w) = Len(u) + 1 /\ w[Len(u) + 1] = x
        /\ \A k \in 1..Len(u) : w[k] = u[k]
    BY <2>5, AppendIs
  <2> HIDE DEF w
  <2>7. \A k \in 1..Len(w) : Fine(m, w[k])
    <3> TAKE k \in 1..Len(w)
    <3>1. k \in 1..Len(u) \/ k = Len(u) + 1 BY <2>5, <2>6
    <3> QED BY <2>4, <2>5, <2>6, <3>1
  <2>8. F[i] = w \/ F[i] = u BY <2>3 DEF w, u, x
  <2>9. P(i) BY <2>5, <2>6, <2>7, <2>8
  <2> QED BY <2>1, <2>9
<1>7. 0..n \subseteq T
  <2> HIDE DEF T
  <2> QED BY <1>1, <1>5, <1>6, AllUpTo
<1>8. P(n) BY <1>1, <1>7
<1> QED BY <1>2, <1>8 DEF s

\* Slots of any number: none if it is negative.
LEMMA SlotsAreBare ==
  ASSUME NEW n \in Int
  PROVE  IsSeq(Slots(n)) /\ \A k \in 1..Len(Slots(n)) : Bare(Slots(n)[k])
<1>1. CASE n \in Nat BY <1>1, SlotsAre, Immediates
<1>2. CASE n \notin Nat
  <2> DEFINE f == [i \in 1..n |-> Undefined]
  <2>1. 1..n = {} BY <1>2
  <2>2. Slots(n) = f \o <<>> BY DEF Slots, Sequence
  <2>3. f = <<>> BY <2>1
  <2>4. Slots(n) = <<>> BY <2>2, <2>3
  <2> QED BY <2>4 DEF IsSeq
<1> QED BY <1>1, <1>2

LEMMA MapKeysKeeps ==
  ASSUME MachineInv, NEW rd \in Frame, NEW ra \in Frame, MapKeys(rd, ra)
  PROVE  MachineInv'
<1> DEFINE v == Reg(vm, ra)
           n == Count(vm, v)
           o == Object("array", Slots(n), <<>>, 0)
           a == Alloc(vm, o)
           m1 == a.vm
           t == TableOf(m1, Reg(m1, ra)).slots
           s == FoundIn(t)
           m2 == SetSlots(m1, a.at, s)
           m3 == SetReg(m2, rd, a.at)
           m == IF a.at = Nil THEN Fault(m1, "heap exhausted") ELSE m3
<1>1. Ready("keys") /\ IsA(vm, v, "map") /\ Do(m) BY Zenon DEF MapKeys, Allocated, AllocSlots, FoundIn
<1>2. Steady BY <1>1, ReadyIs
<1>3. Good(vm, {}) /\ Len(program.texts) <= Len(vm.roots) BY <1>2 DEF Steady
<1>4. Fine(vm, v) /\ rd \in 0..vm.cfs - 1 /\ ra \in 0..vm.cfs - 1 BY <1>3, RegisterIs DEF Frame
<1>5. PICK i \in 1..Len(vm.objs), j \in 1..Len(vm.objs) : Container(vm, v, "map", i, j)
  BY <1>1, <1>3, <1>4, ContainerIs
<1>6. n \in Int BY <1>5 DEF Container
<1>7. /\ AnObject(o) /\ o.kind = "array" /\ \A k \in 1..Len(o.slots) : Bare(o.slots[k])
  <2> HIDE DEF n
  <2>1. IsSeq(Slots(n)) /\ \A k \in 1..Len(Slots(n)) : Bare(Slots(n)[k]) BY <1>6, SlotsAreBare
  <2>2. DOMAIN o = {"kind", "slots", "data", "id"} /\ o.kind = "array" /\ o.slots = Slots(n)
    BY DEF Object
  <2> HIDE DEF o
  <2> QED BY <2>1, <2>2 DEF AnObject
<1> HIDE DEF o
<1>8. IF a.at = Nil THEN \E Y : Good(m1, Y)
      ELSE \E g : /\ Made(vm, o, m1, a.at, g) /\ Good(m1, {g[k] : k \in {}})
                  /\ Fine(m1, a.at) /\ Kept(vm, m1)
  BY <1>3, <1>7, AllocWhole
<1> HIDE DEF a
<1>9. CASE a.at = Nil
  <2>1. Outcome(Fault(m1, "heap exhausted")) BY <1>8, <1>9, FaultIs
  <2> QED BY <1>1, <1>9, <2>1, DoKeeps
<1>10. CASE a.at # Nil
  <2>1. PICK g : /\ Made(vm, o, m1, a.at, g) /\ Good(m1, {g[k] : k \in {}})
                 /\ Fine(m1, a.at) /\ Kept(vm, m1)
    BY <1>8, <1>10
  <2>2. {g[k] : k \in {}} = {} OBVIOUS
  <2>3. Good(m1, {}) BY <2>1, <2>2
  <2> DEFINE l == Len(m1.objs)
             v1 == Reg(m1, ra)
  <2>4. Container(m1, v1, "map", g[i], g[j]) BY <1>3, <1>4, <1>5, <2>1, <2>3, ContainerFollows
  <2>5. PICK c \in Nat : Sized(m1, t, c) BY <2>3, <2>4, TableIs
  <2>6. l \in Nat \ {0} /\ a.at = Ptr(m1.active, l) /\ m1.objs[l].kind = "array"
    BY <1>7, <2>1 DEF Made
  <2>7. Unshared(m1, l) BY <1>3, <1>7, <2>1, MadeUnshared
  <2> HIDE DEF t
  <2>8. IsSeq(s) /\ \A k \in 1..Len(s) : Fine(m1, s[k]) BY <2>5, FoundAre
  <2> HIDE DEF s
  <2>9. AMachine(m1) /\ l \in 1..Len(m1.objs) BY <2>3, <2>6 DEF Good
  <2>10. Rewritten(m1, m2, l, s) BY <2>6, <2>9, SetSlotsIs
  <2> HIDE DEF m2
  <2>11. Good(m2, {}) BY <2>3, <2>6, <2>7, <2>8, <2>9, <2>10, RewrittenGood
  <2>12. /\ m2.cfs = m1.cfs /\ m2.roots = m1.roots /\ m2.active = m1.active
         /\ Len(m2.objs) = Len(m1.objs)
    BY <2>10 DEF Rewritten
  <2>13. Fine(m2, a.at) BY <2>1, <2>12, FineSame
  <2>14. rd \in 0..m2.cfs - 1 /\ Len(program.texts) <= Len(m2.roots)
    BY <1>3, <1>4, <2>1, <2>12 DEF Kept
  <2>15. Outcome(m3) BY <2>11, <2>13, <2>14, RegWritten
  <2> QED BY <1>1, <1>10, <2>15, DoKeeps DEF m2, s, t
<1> QED BY <1>9, <1>10

-----------------------------------------------------------------------------
(* Activations.                                                            *)

LEMMA FunctionIs ==
  ASSUME NEW f \in DOMAIN Fns
  PROVE  /\ Fns[f].frame \in Nat /\ Fns[f].arity \in Nat /\ Fns[f].captures \in Nat
         /\ Fns[f].arity <= Fns[f].frame /\ Fns[f].frame <= RegSpace
<1> DEFINE R == [frame : Nat, arity : Nat, captures : Nat, self : Nat]
<1>1. Fns \in Seq(R) BY MachineAssumption
<1>2. Fns[f] \in R
  <2> HIDE DEF R
  <2> QED BY <1>1
<1> QED BY <1>2, MachineAssumption

LEMMA MarginIs == Margin \in Nat /\ \A f \in DOMAIN Fns : Fns[f].frame <= Margin
<1> DEFINE S == {Fns[f].frame : f \in DOMAIN Fns}
           T == {RegSpace - x : x \in S}
<1>0. RegSpace \in Nat BY MachineAssumption
<1>1. \A x \in S : x \in Nat /\ x <= RegSpace BY FunctionIs
<1> HIDE DEF S
<1>2. \A t \in T : t \in Nat
  <2> TAKE t \in T
  <2>1. PICK x \in S : t = RegSpace - x OBVIOUS
  <2> QED BY <1>0, <1>1, <2>1
<1>3. S # {}
  <2>1. Fns \in Seq([frame : Nat, arity : Nat, captures : Nat, self : Nat]) /\ Fns # <<>>
    BY MachineAssumption
  <2>2. 1 \in DOMAIN Fns BY <2>1
  <2> QED BY <2>2 DEF S
<1>4. T # {} BY <1>3
<1>5. PICK t \in T : \A y \in T : t <= y
  <2> HIDE DEF T
  <2>1. T \subseteq Nat BY <1>2
  <2> QED BY <1>4, <2>1, LeastNumber
<1>6. PICK x \in S : t = RegSpace - x OBVIOUS
<1>7. \A y \in S : y <= x
  <2> TAKE y \in S
  <2>1. RegSpace - y \in T OBVIOUS
  <2>2. t <= RegSpace - y BY <1>5, <2>1
  <2>3. x \in Nat /\ y \in Nat BY <1>1
  <2> QED BY <1>0, <1>6, <2>2, <2>3
<1>8. \A f \in DOMAIN Fns : Fns[f].frame \in S BY DEF S
<1>9. Margin \in S /\ \A f \in DOMAIN Fns : Fns[f].frame <= Margin
  <2>1. \E n \in S : \A f \in DOMAIN Fns : Fns[f].frame <= n BY <1>7, <1>8
  <2>2. Margin = CHOOSE n \in S : \A f \in DOMAIN Fns : Fns[f].frame <= n BY DEF Margin, S
  <2> QED BY <2>1, <2>2
<1> QED BY <1>1, <1>9

\* m1 is m with other frames.
LEMMA Reframed ==
  ASSUME NEW m, NEW X, Good(m, X), NEW m1, AMachine(m1),
         m1.objs = m.objs, m1.active = m.active, m1.roots = m.roots, m1.interned = m.interned,
         \A r \in Scanned(m1) : Fine(m, m1.regs[r]), Above(m1),
         Fine(m, m1.closure), \A d \in 1..Len(m1.rets) : Fine(m, m1.rets[d].closure)
  PROVE  Good(m1, X)
<1>1. RootsFine(m) BY DEF Good
<1>2. \A x : Fine(m1, x) <=> Fine(m, x) BY FineSame
<1>3. RootsFine(m1) BY <1>1, <1>2 DEF RootsFine
<1>4. \A i \in 1..Len(m1.objs) : SlotsFine(m1, m1.objs[i]) /\ (i \in X \/ Whole(m1, m1.objs[i]))
  BY SameHeap DEF Good
<1> QED BY <1>3, <1>4 DEF Good

LEMMA EnterKeeps ==
  ASSUME NEW m, Good(m, {}), Len(program.texts) <= Len(m.roots), NEW f \in DOMAIN Fns,
         NEW c, Fine(m, c), NEW args \in [1..Fns[f].arity -> 0..m.cfs - 1]
  PROVE  Outcome(Enter(m, f, c, args))
<1> DEFINE n == Len(args)
           base == m.window + m.cfs
           given == [r \in DOMAIN m.regs |-> IF r \in base..base + n - 1
                                             THEN Reg(m, args[r - base + 1]) ELSE m.regs[r]]
           e == [window |-> m.window, size |-> m.cfs, closure |-> m.closure]
           rets == Append(m.rets, e)
           frame == Fns[f].frame
           m1 == [m EXCEPT !.regs = given, !.rets = rets, !.window = base, !.cfs = frame,
                           !.closure = c]
<1>1. Enter(m, f, c, args) = IF base + Margin > RegSpace THEN Fault(m, "stack overflow") ELSE m1
  BY DEF Enter
<1>2. CASE base + Margin > RegSpace
  <2>1. Outcome(Fault(m, "stack overflow")) BY FaultIs
  <2> QED BY <1>1, <1>2, <2>1
<1>3. CASE ~(base + Margin > RegSpace)
  <2>0. /\ AMachine(m) /\ RootsFine(m) /\ Above(m) /\ RegSpace \in Nat /\ Margin \in Nat
        /\ frame \in Nat /\ frame <= Margin /\ Fns[f].arity \in 0..frame
    BY FunctionIs, MarginIs, MachineAssumption DEF Good
  <2>1. n = Fns[f].arity
    <3>1. args = [k \in 1..Fns[f].arity |-> args[k]] OBVIOUS
    <3> QED BY <2>0, <3>1, MakeSeq
  <2>2. m.window \in Nat /\ m.cfs \in Nat /\ base \in Nat /\ base + frame <= RegSpace
        /\ base + Margin <= RegSpace /\ m.window + m.cfs <= RegSpace
    BY <1>3, <2>0 DEF AMachine
  <2>3. DOMAIN m = Fields /\ DOMAIN m.regs = 0..RegSpace - 1 BY <2>0 DEF AMachine
  <2> HIDE DEF given, rets, base, n, frame
  <2>4. /\ DOMAIN m1 = Fields /\ m1.regs = given /\ m1.rets = rets /\ m1.window = base
        /\ m1.cfs = frame /\ m1.closure = c
        /\ m1.objs = m.objs /\ m1.active = m.active /\ m1.roots = m.roots
        /\ m1.interned = m.interned /\ m1.fault = m.fault
    BY <2>3 DEF Fields
  <2> HIDE DEF m1
  <2>5. /\ given = [r \in 0..RegSpace - 1 |-> given[r]]
        /\ \A r \in 0..RegSpace - 1 :
             given[r] = IF r \in base..base + n - 1 THEN Reg(m, args[r - base + 1]) ELSE m.regs[r]
    BY <2>3 DEF given
  <2>6. /\ IsSeq(rets) /\ Len(rets) = Len(m.rets) + 1 /\ rets[Len(m.rets) + 1] = e
        /\ \A d \in 1..Len(m.rets) : rets[d] = m.rets[d]
    BY <2>0, AppendIs DEF AMachine, rets
  <2>7. Len(m.rets) \in Nat /\ \A d \in 1..Len(rets) : d \in 1..Len(m.rets) \/ d = Len(m.rets) + 1
    BY <2>0, <2>6 DEF AMachine, IsSeq
  <2>8. Saved(e) /\ e.window = m.window /\ e.size = m.cfs /\ e.closure = m.closure
    BY <2>2 DEF Saved
  <2> HIDE DEF e
  <2>9. \A d \in 1..Len(rets) : Saved(rets[d]) BY <2>0, <2>6, <2>7, <2>8 DEF AMachine
  <2>10. Stacked(m1)
    <3> SUFFICES ASSUME NEW d \in 1..Len(rets)
                 PROVE  /\ WindowOf(m1, d + 1) = rets[d].window + rets[d].size
                        /\ WindowOf(m1, d + 1) + Margin <= RegSpace
      BY <2>4 DEF Stacked
    <3>1. CASE d = Len(m.rets) + 1
      <4>1. WindowOf(m1, d + 1) = base BY <2>4, <2>6, <3>1 DEF WindowOf
      <4> QED BY <2>2, <2>6, <2>8, <3>1, <4>1 DEF base
    <3>2. CASE d # Len(m.rets) + 1
      <4>1. d \in 1..Len(m.rets) BY <2>7, <3>2
      <4>2. WindowOf(m1, d + 1) = rets[d + 1].window BY <2>4, <2>6, <2>7, <4>1 DEF WindowOf
      <4>3. rets[d + 1].window = WindowOf(m, d + 1)
        <5>1. CASE d = Len(m.rets) BY <2>6, <2>8, <5>1 DEF WindowOf
        <5>2. CASE d # Len(m.rets)
          <6>1. d + 1 \in 1..Len(m.rets) /\ d + 1 # Len(m.rets) + 1 BY <2>7, <4>1, <5>2
          <6> QED BY <2>6, <6>1 DEF WindowOf
        <5> QED BY <5>1, <5>2
      <4> QED BY <2>0, <2>6, <4>1, <4>2, <4>3 DEF AMachine, Stacked
    <3> QED BY <3>1, <3>2
  <2>11. AMachine(m1)
    BY <2>0, <2>2, <2>4, <2>5, <2>6, <2>9, <2>10 DEF AMachine
  <2>12. \A r \in base..base + n - 1 : Fine(m, Reg(m, args[r - base + 1]))
    <3> TAKE r \in base..base + n - 1
    <3>1. r - base + 1 \in 1..Fns[f].arity BY <2>0, <2>1, <2>2
    <3>2. args[r - base + 1] \in 0..m.cfs - 1 BY <3>1
    <3> QED BY <3>2, RegisterIs
  <2>13. \A r \in Scanned(m1) : Fine(m, m1.regs[r])
    <3> TAKE r \in Scanned(m1)
    <3>1. r \in 0..RegSpace - 1 BY <2>11, ScannedAre
    <3>2. CASE r \in base..base + n - 1 BY <2>4, <2>5, <2>12, <3>1, <3>2
    <3>3. CASE r \notin base..base + n - 1
      <4>1. m1.regs[r] = m.regs[r] BY <2>4, <2>5, <3>1, <3>3
      <4>2. r \in Scanned(m) \/ r >= base
        <5>1. r \in FrameSlots(base, frame)
              \/ \E d \in 1..Len(rets) : r \in FrameSlots(rets[d].window, rets[d].size)
          BY <2>4 DEF Scanned
        <5>2. r \in FrameSlots(base, frame) => r >= base BY DEF FrameSlots
        <5>3. r \in FrameSlots(m.window, m.cfs) => r \in Scanned(m) BY DEF Scanned
        <5>4. \A d \in 1..Len(m.rets) :
                r \in FrameSlots(m.rets[d].window, m.rets[d].size) => r \in Scanned(m)
          BY DEF Scanned
        <5> QED BY <2>6, <2>7, <2>8, <5>1, <5>2, <5>3, <5>4
      <4>3. CASE r \in Scanned(m) BY <2>0, <4>1, <4>3 DEF RootsFine
      <4>4. CASE r >= base BY <2>0, <3>1, <4>1, <4>4 DEF Above, Fine, base
      <4> QED BY <4>2, <4>3, <4>4
    <3> QED BY <3>2, <3>3
  <2>14. Above(m1)
    <3> SUFFICES ASSUME NEW r \in 0..RegSpace - 1, r >= base + frame PROVE Bare(given[r])
      BY <2>4 DEF Above
    <3>1. r \notin base..base + n - 1 /\ r >= m.window + m.cfs BY <2>0, <2>1, <2>2 DEF base
    <3> QED BY <2>0, <2>5, <3>1 DEF Above
  <2>15. \A d \in 1..Len(m1.rets) : Fine(m, m1.rets[d].closure)
    BY <2>0, <2>4, <2>6, <2>7, <2>8 DEF RootsFine
  <2>16. Good(m1, {}) BY <2>4, <2>11, <2>13, <2>14, <2>15, Reframed
  <2>17. Outcome(m1) BY <2>4, <2>16 DEF Outcome
  <2> QED BY <1>1, <1>3, <2>17 DEF m1, given, rets, base, n, frame, e
<1> QED BY <1>2, <1>3

LEMMA ReenterKeeps ==
  ASSUME NEW m, Good(m, {}), Len(program.texts) <= Len(m.roots), m.rets # <<>>,
         NEW f \in DOMAIN Fns, NEW c, Fine(m, c), NEW args \in [1..Fns[f].arity -> 0..m.cfs - 1]
  PROVE  Outcome(Reenter(m, f, c, args))
<1> DEFINE n == Fns[f].frame
           k == Len(args)
           reg(r) == LET i == r - m.window
                     IN  IF i \in 0..k - 1 THEN Reg(m, args[i + 1])
                         ELSE IF i \in n..m.cfs - 1 THEN Undefined
                         ELSE m.regs[r]
           regs == [r \in DOMAIN m.regs |-> reg(r)]
           m1 == [m EXCEPT !.regs = regs, !.cfs = n, !.closure = c]
<1>1. Reenter(m, f, c, args) = m1 BY DEF Reenter
<1>2. /\ AMachine(m) /\ RootsFine(m) /\ Above(m) /\ RegSpace \in Nat /\ Margin \in Nat
      /\ n \in Nat /\ n <= Margin /\ Fns[f].arity \in 0..n
  BY FunctionIs, MarginIs, MachineAssumption DEF Good
<1>3. k = Fns[f].arity
  <2>1. args = [j \in 1..Fns[f].arity |-> args[j]] OBVIOUS
  <2> QED BY <1>2, <2>1, MakeSeq
<1>4. DOMAIN m = Fields /\ DOMAIN m.regs = 0..RegSpace - 1 /\ m.window \in Nat /\ m.cfs \in Nat
  BY <1>2 DEF AMachine
<1>5. m.window + n <= RegSpace
  <2>1. Len(m.rets) \in 1..Len(m.rets) BY <1>2 DEF AMachine, IsSeq
  <2>2. WindowOf(m, Len(m.rets) + 1) + Margin <= RegSpace BY <1>2, <2>1 DEF AMachine, Stacked
  <2> QED BY <1>2, <1>4, <2>2 DEF WindowOf
<1>6. /\ regs = [r \in 0..RegSpace - 1 |-> regs[r]]
      /\ \A r \in 0..RegSpace - 1 : regs[r] = reg(r)
  BY <1>4
<1> HIDE DEF regs, n, k
<1>7. /\ DOMAIN m1 = Fields /\ m1.regs = regs /\ m1.cfs = n /\ m1.closure = c
      /\ m1.rets = m.rets /\ m1.window = m.window
      /\ m1.objs = m.objs /\ m1.active = m.active /\ m1.roots = m.roots
      /\ m1.interned = m.interned /\ m1.fault = m.fault
  BY <1>4 DEF Fields
<1> HIDE DEF m1
<1>8. Stacked(m1) BY <1>2, <1>7 DEF AMachine, Stacked, WindowOf
<1>9. AMachine(m1) BY <1>2, <1>4, <1>5, <1>6, <1>7, <1>8 DEF AMachine
<1>10. \A i \in 0..k - 1 : Fine(m, Reg(m, args[i + 1]))
  <2> TAKE i \in 0..k - 1
  <2>1. i + 1 \in 1..Fns[f].arity BY <1>2, <1>3
  <2>2. args[i + 1] \in 0..m.cfs - 1 BY <2>1
  <2> QED BY <2>2, RegisterIs
<1>11. \A r \in Scanned(m1) : Fine(m, m1.regs[r])
  <2> TAKE r \in Scanned(m1)
  <2>1. r \in 0..RegSpace - 1 BY <1>9, ScannedAre
  <2>2. m1.regs[r] = reg(r) BY <1>6, <1>7, <2>1
  <2>3. CASE r - m.window \in 0..k - 1 BY <1>10, <2>2, <2>3
  <2>4. CASE r - m.window \notin 0..k - 1 /\ r - m.window \in n..m.cfs - 1
    BY <2>2, <2>4, Immediates
  <2>5. CASE r - m.window \notin 0..k - 1 /\ r - m.window \notin n..m.cfs - 1
    <3>1. m1.regs[r] = m.regs[r] BY <2>2, <2>5
    <3>2. r \in Scanned(m) \/ r >= m.window + m.cfs
      <4>1. r \in FrameSlots(m.window, n)
            \/ \E d \in 1..Len(m.rets) : r \in FrameSlots(m.rets[d].window, m.rets[d].size)
        BY <1>7 DEF Scanned
      <4>2. r \in FrameSlots(m.window, n) => r \in FrameSlots(m.window, m.cfs) \/ r >= m.window + m.cfs
        BY <1>2, <1>4 DEF FrameSlots
      <4> QED BY <4>1, <4>2 DEF Scanned
    <3>3. CASE r \in Scanned(m) BY <1>2, <3>1, <3>3 DEF RootsFine
    <3>4. CASE r >= m.window + m.cfs BY <1>2, <2>1, <3>1, <3>4 DEF Above, Fine
    <3> QED BY <3>2, <3>3, <3>4
  <2> QED BY <2>3, <2>4, <2>5
<1>12. Above(m1)
  <2> SUFFICES ASSUME NEW r \in 0..RegSpace - 1, r >= m.window + n PROVE Bare(regs[r])
    BY <1>7 DEF Above
  <2>1. r - m.window \notin 0..k - 1 /\ r - m.window >= n BY <1>2, <1>3, <1>4
  <2>2. CASE r - m.window \in n..m.cfs - 1
    <3>1. regs[r] = Undefined BY <1>6, <2>1, <2>2
    <3> QED BY <3>1, Immediates
  <2>3. CASE r - m.window \notin n..m.cfs - 1
    <3>1. regs[r] = m.regs[r] BY <1>6, <2>1, <2>3
    <3>2. r >= m.window + m.cfs BY <1>2, <1>4, <2>1, <2>3
    <3> QED BY <1>2, <3>1, <3>2 DEF Above
  <2> QED BY <2>2, <2>3
<1>13. \A d \in 1..Len(m1.rets) : Fine(m, m1.rets[d].closure) BY <1>2, <1>7 DEF RootsFine
<1>14. Good(m1, {}) BY <1>7, <1>9, <1>11, <1>12, <1>13, Reframed
<1>15. Outcome(m1) BY <1>7, <1>14 DEF Outcome
<1> QED BY <1>1, <1>15

LEMMA CallKeeps == MachineInv /\ Call => MachineInv'
<1> SUFFICES ASSUME MachineInv, Call PROVE MachineInv' OBVIOUS
<1>0. PICK f \in Plain \ {1} :
        \E args \in Args(f) : Ready("call") /\ Do(Enter(vm, f, Undefined, args))
  BY DEF Call
<1>1. PICK args \in Args(f) : Ready("call") /\ Do(Enter(vm, f, Undefined, args)) BY <1>0
<1>2. Good(vm, {}) /\ Len(program.texts) <= Len(vm.roots) BY <1>1, ReadyIs DEF Steady
<1>3. f \in DOMAIN Fns /\ args \in [1..Fns[f].arity -> 0..vm.cfs - 1] BY DEF Plain, Args, Frame
<1>4. Outcome(Enter(vm, f, Undefined, args)) BY <1>2, <1>3, Immediates, EnterKeeps
<1> QED BY <1>1, <1>4, DoKeeps

LEMMA TailCallKeeps == MachineInv /\ TailCall => MachineInv'
<1> SUFFICES ASSUME MachineInv, TailCall PROVE MachineInv' OBVIOUS
<1>0. PICK f \in Plain \ {1} : \E args \in Args(f) :
        Ready("tail") /\ vm.rets # <<>> /\ Do(Reenter(vm, f, Undefined, args))
  BY DEF TailCall
<1>1. PICK args \in Args(f) :
        Ready("tail") /\ vm.rets # <<>> /\ Do(Reenter(vm, f, Undefined, args))
  BY <1>0
<1>2. Good(vm, {}) /\ Len(program.texts) <= Len(vm.roots) BY <1>1, ReadyIs DEF Steady
<1>3. f \in DOMAIN Fns /\ args \in [1..Fns[f].arity -> 0..vm.cfs - 1] BY DEF Plain, Args, Frame
<1>4. Outcome(Reenter(vm, f, Undefined, args)) BY <1>1, <1>2, <1>3, Immediates, ReenterKeeps
<1> QED BY <1>1, <1>4, DoKeeps

\* A closure in a register names a function of the table.
LEMMA ClosureIs ==
  ASSUME NEW m, Good(m, {}), NEW v, Fine(m, v), IsA(m, v, "closure")
  PROVE  At(m, v).data[1] \in DOMAIN Fns
<1>1. v[3] \in 1..Len(m.objs) /\ m.objs[v[3]].kind = "closure" BY DEF IsA, Live, At
<1>2. Whole(m, m.objs[v[3]]) BY <1>1 DEF Good
<1> QED BY <1>1, <1>2 DEF Whole, At

LEMMA CallClosureKeeps == MachineInv /\ CallClosure => MachineInv'
<1> SUFFICES ASSUME MachineInv, CallClosure PROVE MachineInv' OBVIOUS
<1>1. PICK ra \in Frame : LET v == Reg(vm, ra)
                              f == At(vm, v).data[1]
                          IN  /\ Ready("closure") /\ IsA(vm, v, "closure")
                              /\ \E args \in Args(f) : Do(Enter(vm, f, v, args))
  BY DEF CallClosure
<1> DEFINE v == Reg(vm, ra)
           f == At(vm, v).data[1]
<1>2. PICK args \in Args(f) : Do(Enter(vm, f, v, args)) BY <1>1
<1>3. Good(vm, {}) /\ Len(program.texts) <= Len(vm.roots) BY <1>1, ReadyIs DEF Steady
<1>4. Fine(vm, v) BY <1>3, RegisterIs DEF Frame
<1>5. f \in DOMAIN Fns BY <1>1, <1>3, <1>4, ClosureIs
<1>6. args \in [1..Fns[f].arity -> 0..vm.cfs - 1] BY <1>2 DEF Args, Frame
<1> HIDE DEF v, f
<1>7. Outcome(Enter(vm, f, v, args)) BY <1>3, <1>4, <1>5, <1>6, EnterKeeps
<1> QED BY <1>2, <1>7, DoKeeps

LEMMA TailClosureKeeps == MachineInv /\ TailClosure => MachineInv'
<1> SUFFICES ASSUME MachineInv, TailClosure PROVE MachineInv' OBVIOUS
<1>1. PICK ra \in Frame : LET v == Reg(vm, ra)
                              f == At(vm, v).data[1]
                          IN  /\ Ready("closure") /\ vm.rets # <<>> /\ IsA(vm, v, "closure")
                              /\ \E args \in Args(f) : Do(Reenter(vm, f, v, args))
  BY DEF TailClosure
<1> DEFINE v == Reg(vm, ra)
           f == At(vm, v).data[1]
<1>2. PICK args \in Args(f) : Do(Reenter(vm, f, v, args)) BY <1>1
<1>3. Good(vm, {}) /\ Len(program.texts) <= Len(vm.roots) BY <1>1, ReadyIs DEF Steady
<1>4. Fine(vm, v) BY <1>3, RegisterIs DEF Frame
<1>5. f \in DOMAIN Fns BY <1>1, <1>3, <1>4, ClosureIs
<1>6. args \in [1..Fns[f].arity -> 0..vm.cfs - 1] BY <1>2 DEF Args, Frame
<1>7. vm.rets # <<>> BY <1>1
<1> HIDE DEF v, f
<1>8. Outcome(Reenter(vm, f, v, args)) BY <1>3, <1>4, <1>5, <1>6, <1>7, ReenterKeeps
<1> QED BY <1>2, <1>8, DoKeeps

\* What a new closure holds: registers, or its own address.
Captured(m, f, base, at) ==
  Sequence(Fns[f].captures, LAMBDA i : IF i = Fns[f].self THEN at ELSE Reg(m, base + i - 1))

LEMMA MakeClosureKeeps ==
  ASSUME MachineInv, NEW rd \in Frame, NEW base \in Frame, NEW f \in DOMAIN Fns,
         MakeClosure(rd, f, base)
  PROVE  MachineInv'
<1> DEFINE n == Fns[f].captures
           o == Object("closure", Slots(n), <<f>>, 0)
           a == Alloc(vm, o)
           m1 == a.vm
           s == Captured(m1, f, base, a.at)
           m2 == SetSlots(m1, a.at, s)
           m3 == SetReg(m2, rd, a.at)
           m == IF a.at = Nil THEN Fault(m1, "heap exhausted") ELSE m3
<1>1. Do(m) BY Zenon DEF MakeClosure, Allocated, Captured
<1>0. Ready("closure") /\ base + n <= vm.cfs BY DEF MakeClosure
<1>9. Steady BY <1>0, ReadyIs
<1>2. Good(vm, {}) /\ Len(program.texts) <= Len(vm.roots) BY <1>9 DEF Steady
<1>3. rd \in 0..vm.cfs - 1 /\ base \in Nat /\ vm.cfs \in Nat BY <1>2 DEF Frame, Good, AMachine
<1>4. n \in Nat BY FunctionIs
<1>5. /\ AnObject(o) /\ o.kind = "closure" /\ o.data[1] = f
      /\ \A k \in 1..Len(o.slots) : Bare(o.slots[k])
  <2>1. o.data = <<f>> BY DEF Object
  <2> HIDE DEF n
  <2> QED BY <1>4, <2>1, SlotsObjectIs
<1> HIDE DEF o, n
<1>6. IF a.at = Nil THEN \E Y : Good(m1, Y)
      ELSE \E g : /\ Made(vm, o, m1, a.at, g) /\ Good(m1, {g[k] : k \in {}})
                  /\ Fine(m1, a.at) /\ Kept(vm, m1)
  BY <1>2, <1>5, AllocWhole
<1> HIDE DEF a
<1>7. CASE a.at = Nil
  <2>1. Outcome(Fault(m1, "heap exhausted")) BY <1>6, <1>7, FaultIs
  <2> QED BY <1>1, <1>7, <2>1, DoKeeps
<1>8. CASE a.at # Nil
  <2>1. PICK g : /\ Made(vm, o, m1, a.at, g) /\ Good(m1, {g[k] : k \in {}})
                 /\ Fine(m1, a.at) /\ Kept(vm, m1)
    BY <1>6, <1>8
  <2>2. {g[k] : k \in {}} = {} OBVIOUS
  <2>3. Good(m1, {}) BY <2>1, <2>2
  <2> DEFINE l == Len(m1.objs)
             val(i) == IF i = Fns[f].self THEN a.at ELSE Reg(m1, base + i - 1)
             seq == [i \in 1..n |-> val(i)]
  <2>4. l \in Nat \ {0} /\ a.at = Ptr(m1.active, l) /\ m1.objs[l].kind = "closure"
    BY <1>5, <2>1 DEF Made
  <2>5. \A i \in 1..n : Fine(m1, val(i))
    <3> TAKE i \in 1..n
    <3>0. m1.cfs = vm.cfs BY <2>1 DEF Kept
    <3>1. base + i - 1 \in 0..m1.cfs - 1 BY <1>0, <1>3, <1>4, <3>0
    <3>2. Fine(m1, Reg(m1, base + i - 1)) BY <2>3, <3>1, RegisterIs
    <3> QED BY <2>1, <3>2
  <2> HIDE DEF val
  <2>6. IsSeq(seq) /\ Len(seq) = n /\ \A i \in 1..n : seq[i] = val(i)
    <3>1. seq = [i \in 1..n |-> seq[i]] /\ \A i \in 1..n : seq[i] = val(i) OBVIOUS
    <3> HIDE DEF seq
    <3> QED BY <1>4, <3>1, MakeSeq
  <2>7. s = seq \o <<>> BY Zenon DEF Captured, Sequence, val, n
  <2>8. IsSeq(s) /\ \A k \in 1..Len(s) : Fine(m1, s[k])
    <3> HIDE DEF seq, s
    <3>1. s = seq BY <2>6, <2>7, WrittenOut
    <3> QED BY <2>5, <2>6, <3>1
  <2> HIDE DEF s
  <2>9. AMachine(m1) /\ l \in 1..Len(m1.objs) BY <2>3, <2>4 DEF Good
  <2>10. Rewritten(m1, m2, l, s) BY <2>4, <2>9, SetSlotsIs
  <2> HIDE DEF m2
  <2>11. Good(m2, {}) BY <2>3, <2>4, <2>8, <2>9, <2>10, RewrittenGood
  <2>12. /\ m2.cfs = m1.cfs /\ m2.roots = m1.roots /\ m2.active = m1.active
         /\ Len(m2.objs) = Len(m1.objs)
    BY <2>10 DEF Rewritten
  <2>13. Fine(m2, a.at) BY <2>1, <2>12, FineSame
  <2>14. rd \in 0..m2.cfs - 1 /\ Len(program.texts) <= Len(m2.roots)
    BY <1>2, <1>3, <2>1, <2>12 DEF Kept
  <2>15. Outcome(m3) BY <2>11, <2>13, <2>14, RegWritten
  <2> QED BY <1>1, <1>8, <2>15, DoKeeps DEF m2, s
<1> QED BY <1>7, <1>8

LEMMA LoadCaptureKeeps == MachineInv /\ LoadCapture => MachineInv'
<1> SUFFICES ASSUME MachineInv, LoadCapture PROVE MachineInv' OBVIOUS
<1> DEFINE o == At(vm, vm.closure)
<1>1. PICK rd \in Frame, i \in DOMAIN o.slots :
        /\ Ready("closure") /\ Live(vm, vm.closure) /\ Do(SetReg(vm, rd, o.slots[i]))
  BY DEF LoadCapture
<1>2. Good(vm, {}) /\ Len(program.texts) <= Len(vm.roots) BY <1>1, ReadyIs DEF Steady
<1>3. vm.closure[3] \in 1..Len(vm.objs) BY <1>1 DEF Live
<1>4. SlotsFine(vm, o) /\ AnObject(o) BY <1>2, <1>3 DEF Good, AMachine, At
<1>5. Fine(vm, o.slots[i]) BY <1>4 DEF SlotsFine, AnObject, IsSeq
<1> HIDE DEF o
<1>6. Outcome(SetReg(vm, rd, o.slots[i])) BY <1>2, <1>5, RegWritten DEF Frame
<1> QED BY <1>1, <1>6, DoKeeps

LEMMA StartOf ==
  ASSUME NEW s, IsSeq(s), NEW k \in 0..Len(s)
  PROVE  /\ IsSeq(SubSeq(s, 1, k)) /\ Len(SubSeq(s, 1, k)) = k
         /\ \A i \in 1..k : SubSeq(s, 1, k)[i] = s[i]
<1> DEFINE T == {s[i] : i \in 1..Len(s)}
           t == SubSeq(s, 1, k)
<1>1. \A i \in 1..Len(s) : s[i] \in T OBVIOUS
<1> HIDE DEF T
<1>2. s \in Seq(T) /\ Len(s) \in Nat BY <1>1, SeqSet DEF IsSeq
<1>3. 1 \in 1..Len(s) + 1 /\ k \in 1 - 1..Len(s) BY <1>2
<1>4. t \in Seq(T) /\ Len(t) = k - 1 + 1 /\ \A i \in 1..k - 1 + 1 : t[i] = s[1 + i - 1]
  BY <1>2, <1>3, SubSeqProperties
<1> HIDE DEF t
<1>5. \A i \in 1..k : t[i] = s[i] BY <1>2, <1>4
<1>6. Len(t) = k BY <1>2, <1>4
<1> QED BY <1>4, <1>5, <1>6, FromSeq DEF t

\* The machine after a return that takes its result.
LEMMA ReturnGood ==
  ASSUME NEW m, Good(m, {}), m.rets # <<>>, NEW ra \in 0..m.cfs - 1,
         NEW rd \in 0..m.rets[Len(m.rets)].size - 1
  PROVE  Good(Taken(Left(m, ra), rd), {}) /\ Taken(Left(m, ra), rd).roots = m.roots
<1> DEFINE n == Len(m.rets)
           back == m.rets[n]
           top == m.window
           left == [r \in DOMAIN m.regs |->
                      IF r - top \in 1..m.cfs - 1 THEN Undefined
                      ELSE IF r = top THEN Reg(m, ra) ELSE m.regs[r]]
           rets == SubSeq(m.rets, 1, n - 1)
           l == [m EXCEPT !.regs = left, !.rets = rets, !.window = back.window,
                          !.cfs = back.size, !.closure = back.closure]
           regs == [q \in DOMAIN l.regs |->
                      IF q = l.window + rd THEN l.regs[l.window + l.cfs]
                      ELSE IF q = l.window + l.cfs THEN Undefined ELSE l.regs[q]]
           m1 == [l EXCEPT !.regs = regs]
<1>1. Left(m, ra) = l BY DEF Left, Front
<1>2. Taken(l, rd) = m1 BY DEF Taken
<1>3. /\ AMachine(m) /\ RootsFine(m) /\ Above(m) /\ RegSpace \in Nat /\ Margin \in Nat
  BY MarginIs, MachineAssumption DEF Good
<1>4. DOMAIN m = Fields /\ DOMAIN m.regs = 0..RegSpace - 1 /\ top \in Nat /\ m.cfs \in Nat
      /\ top + m.cfs <= RegSpace /\ IsSeq(m.rets)
  BY <1>3 DEF AMachine
<1>5. n \in Nat /\ n # 0 BY <1>4 DEF IsSeq
<1>6. n \in 1..Len(m.rets) BY <1>5
<1>7. back.window \in Nat /\ back.size \in Nat BY <1>3, <1>6 DEF AMachine, Saved
<1>8. top = back.window + back.size BY <1>3, <1>6 DEF AMachine, Stacked, WindowOf
<1>9. /\ left = [r \in 0..RegSpace - 1 |-> left[r]]
      /\ \A r \in 0..RegSpace - 1 :
           left[r] = IF r - top \in 1..m.cfs - 1 THEN Undefined
                     ELSE IF r = top THEN Reg(m, ra) ELSE m.regs[r]
  BY <1>4
<1>10. /\ IsSeq(rets) /\ Len(rets) = n - 1 /\ \A d \in 1..n - 1 : rets[d] = m.rets[d]
  BY <1>4, <1>5, StartOf
<1> HIDE DEF left, rets
<1>11. /\ DOMAIN l = Fields /\ l.regs = left /\ l.rets = rets /\ l.window = back.window
       /\ l.cfs = back.size /\ l.closure = back.closure
       /\ l.objs = m.objs /\ l.active = m.active /\ l.roots = m.roots
       /\ l.interned = m.interned
  BY <1>4 DEF Fields
<1> HIDE DEF l
<1>12. top \in 0..RegSpace - 1 BY <1>3, <1>4
<1>13. left[top] = Reg(m, ra) BY <1>4, <1>9, <1>12
<1>14. /\ regs = [r \in 0..RegSpace - 1 |-> regs[r]]
       /\ \A r \in 0..RegSpace - 1 :
           regs[r] = IF r = back.window + rd THEN Reg(m, ra)
                     ELSE IF r = top THEN Undefined ELSE left[r]
  <2>1. DOMAIN l.regs = 0..RegSpace - 1 BY <1>9, <1>11
  <2> QED BY <1>8, <1>11, <1>13, <2>1
<1> HIDE DEF regs
<1>15. \A r \in 0..RegSpace - 1 :
         \/ regs[r] = Reg(m, ra) \/ regs[r] = Undefined
         \/ regs[r] = m.regs[r] /\ (r < top \/ r >= top + m.cfs)
  <2> TAKE r \in 0..RegSpace - 1
  <2>1. CASE r = back.window + rd BY <1>14, <2>1
  <2>2. CASE r # back.window + rd /\ r = top BY <1>14, <2>2
  <2>3. CASE r # back.window + rd /\ r # top
    <3>1. regs[r] = left[r] BY <1>14, <2>3
    <3>2. CASE r - top \in 1..m.cfs - 1 BY <1>9, <3>1, <3>2
    <3>3. CASE r - top \notin 1..m.cfs - 1
      <4>1. regs[r] = m.regs[r] BY <1>9, <2>3, <3>1, <3>3
      <4>2. r < top \/ r >= top + m.cfs BY <1>4, <2>3, <3>3
      <4> QED BY <4>1, <4>2
    <3> QED BY <3>2, <3>3
  <2> QED BY <2>1, <2>2, <2>3
<1>16. /\ DOMAIN m1 = Fields /\ m1.regs = regs /\ m1.rets = rets /\ m1.window = back.window
       /\ m1.cfs = back.size /\ m1.closure = back.closure
       /\ m1.objs = m.objs /\ m1.active = m.active /\ m1.roots = m.roots
       /\ m1.interned = m.interned
  BY <1>11 DEF Fields
<1> HIDE DEF m1
<1>17. Fine(m, Reg(m, ra)) BY RegisterIs
<1>18. Stacked(m1)
  <2> SUFFICES ASSUME NEW d \in 1..n - 1
               PROVE  /\ WindowOf(m1, d + 1) = rets[d].window + rets[d].size
                      /\ WindowOf(m1, d + 1) + Margin <= RegSpace
    BY <1>10, <1>16 DEF Stacked
  <2>1. WindowOf(m1, d + 1) = m.rets[d + 1].window
    <3>1. CASE d = n - 1 BY <1>5, <1>10, <1>16, <3>1 DEF WindowOf
    <3>2. CASE d # n - 1
      <4>1. d + 1 \in 1..n - 1 /\ d + 1 # n BY <1>5, <3>2
      <4> QED BY <1>5, <1>10, <1>16, <4>1 DEF WindowOf
    <3> QED BY <3>1, <3>2
  <2>2. d \in 1..n /\ d + 1 # n + 1 BY <1>5
  <2>3. WindowOf(m, d + 1) = m.rets[d + 1].window BY <2>2 DEF WindowOf
  <2>4. /\ WindowOf(m, d + 1) = m.rets[d].window + m.rets[d].size
        /\ WindowOf(m, d + 1) + Margin <= RegSpace
    BY <1>3, <2>2 DEF AMachine, Stacked
  <2> QED BY <1>10, <2>1, <2>3, <2>4
<1>19. \A d \in 1..n - 1 : Saved(rets[d]) /\ Fine(m, rets[d].closure)
  <2> TAKE d \in 1..n - 1
  <2>1. d \in 1..n BY <1>5
  <2> QED BY <1>3, <1>10, <2>1 DEF AMachine, RootsFine
<1>20. back.window + back.size <= RegSpace BY <1>3, <1>4, <1>7, <1>8
<1>21. AMachine(m1)
  BY <1>3, <1>7, <1>10, <1>14, <1>16, <1>18, <1>19, <1>20 DEF AMachine
<1>22. \A r \in Scanned(m1) : Fine(m, m1.regs[r])
  <2> TAKE r \in Scanned(m1)
  <2>1. r \in 0..RegSpace - 1 BY <1>21, ScannedAre
  <2>2. r \in Scanned(m)
    <3>1. r \in FrameSlots(back.window, back.size)
          \/ \E d \in 1..n - 1 : r \in FrameSlots(rets[d].window, rets[d].size)
      BY <1>10, <1>16 DEF Scanned
    <3>2. \E d \in 1..n : r \in FrameSlots(m.rets[d].window, m.rets[d].size)
      <4>1. CASE r \in FrameSlots(back.window, back.size) BY <1>6, <4>1
      <4>2. CASE \E d \in 1..n - 1 : r \in FrameSlots(rets[d].window, rets[d].size)
        <5>1. PICK d \in 1..n - 1 : r \in FrameSlots(rets[d].window, rets[d].size) BY <4>2
        <5>2. d \in 1..n BY <1>5
        <5> QED BY <1>10, <5>1, <5>2
      <4> QED BY <3>1, <4>1, <4>2
    <3> QED BY <3>2 DEF Scanned
  <2>3. Fine(m, m.regs[r]) BY <1>3, <2>2 DEF RootsFine
  <2> QED BY <1>15, <1>16, <1>17, <2>1, <2>3, Immediates
<1>23. Above(m1)
  <2> SUFFICES ASSUME NEW r \in 0..RegSpace - 1, r >= top PROVE Bare(regs[r])
    BY <1>8, <1>16 DEF Above
  <2>1. r # back.window + rd BY <1>7, <1>8
  <2>2. CASE r = top BY <1>14, <2>1, <2>2, Immediates
  <2>3. CASE r # top
    <3>1. regs[r] = left[r] BY <1>14, <2>1, <2>3
    <3>2. CASE r - top \in 1..m.cfs - 1 BY <1>9, <3>1, <3>2, Immediates
    <3>3. CASE r - top \notin 1..m.cfs - 1
      <4>1. regs[r] = m.regs[r] BY <1>9, <2>3, <3>1, <3>3
      <4>2. r >= m.window + m.cfs BY <1>4, <2>3, <3>3
      <4> QED BY <1>3, <4>1, <4>2 DEF Above
    <3> QED BY <3>2, <3>3
  <2> QED BY <2>2, <2>3
<1>24. Fine(m, m1.closure) BY <1>3, <1>6, <1>16 DEF RootsFine
<1>25. \A d \in 1..Len(m1.rets) : Fine(m, m1.rets[d].closure) BY <1>10, <1>16, <1>19
<1>26. Good(m1, {}) BY <1>16, <1>21, <1>22, <1>23, <1>24, <1>25, Reframed
<1> QED BY <1>1, <1>2, <1>16, <1>26

LEMMA RetKeeps == MachineInv /\ Ret => MachineInv'
<1> SUFFICES ASSUME MachineInv, Ret PROVE MachineInv' OBVIOUS
<1>1. PICK ra \in Frame :
        /\ Ready("call") \/ Ready("closure")
        /\ vm.rets # <<>>
        /\ \E rd \in 0..vm.rets[Len(vm.rets)].size - 1 : Do(Taken(Left(vm, ra), rd))
  BY DEF Ret
<1>2. PICK rd \in 0..vm.rets[Len(vm.rets)].size - 1 : Do(Taken(Left(vm, ra), rd)) BY <1>1
<1>3. Steady BY <1>1, ReadyIs
<1>4. Good(vm, {}) /\ Len(program.texts) <= Len(vm.roots) BY <1>3 DEF Steady
<1> DEFINE m1 == Taken(Left(vm, ra), rd)
<1>5. Good(m1, {}) /\ m1.roots = vm.roots BY <1>1, <1>4, ReturnGood DEF Frame
<1> HIDE DEF m1
<1>6. Outcome(m1) BY <1>4, <1>5 DEF Outcome
<1> QED BY <1>2, <1>6, DoKeeps DEF m1

-----------------------------------------------------------------------------
(* A message: the nodes of the graph that encode walks.                    *)

AddNode(m, seen, v) ==
  IF Live(m, v) /\ ~\E i \in DOMAIN seen : seen[i] = v THEN Append(seen, v) ELSE seen

AddAll(m, seen, s) == Loop(Len(s), seen, LAMBDA t, k : AddNode(m, t, s[k]))

WalkNode(m, seen, i) == IF i > Len(seen) THEN seen ELSE AddAll(m, seen, At(m, seen[i]).slots)

\* Addresses, each of them once.
Listed(m, t) == /\ IsSeq(t)
                /\ \A i \in 1..Len(t) : \E a \in 1..Len(m.objs) : t[i] = Ptr(m.active, a)
                /\ \A i, j \in 1..Len(t) : t[i] = t[j] => i = j

Prolongs(t, u) == Len(t) <= Len(u) /\ \A i \in 1..Len(t) : u[i] = t[i]

Has(t, v) == IsPtr(v) => \E i \in 1..Len(t) : t[i] = v

LEMMA ProlongsOn ==
  ASSUME NEW m, NEW t, NEW u, NEW w, Listed(m, t), Listed(m, u), Listed(m, w),
         Prolongs(t, u), Prolongs(u, w)
  PROVE  Prolongs(t, w)
<1>1. Len(t) \in Nat /\ Len(u) \in Nat /\ Len(w) \in Nat BY DEF Listed, IsSeq
<1> QED BY <1>1 DEF Prolongs

LEMMA HasOn ==
  ASSUME NEW m, NEW t, NEW u, Listed(m, t), Listed(m, u), Prolongs(t, u), NEW v, Has(t, v)
  PROVE  Has(u, v)
<1>1. Len(t) \in Nat /\ Len(u) \in Nat BY DEF Listed, IsSeq
<1> QED BY <1>1 DEF Prolongs, Has

LEMMA AddNodeIs ==
  ASSUME NEW m, NEW t, Listed(m, t), NEW v, Fine(m, v)
  PROVE  /\ Listed(m, AddNode(m, t, v)) /\ Prolongs(t, AddNode(m, t, v))
         /\ Has(AddNode(m, t, v), v)
<1>0. IsSeq(t) /\ Len(t) \in Nat /\ DOMAIN t = 1..Len(t) BY DEF Listed, IsSeq
<1>1. CASE ~Live(m, v) \/ \E i \in DOMAIN t : t[i] = v
  <2>1. AddNode(m, t, v) = t BY <1>1 DEF AddNode
  <2>2. Prolongs(t, t) BY <1>0 DEF Prolongs
  <2>3. Has(t, v)
    <3>1. CASE \E i \in DOMAIN t : t[i] = v BY <1>0, <3>1 DEF Has
    <3>2. CASE ~Live(m, v)
      <4>1. ~IsPtr(v) BY <3>2, FineIs DEF Live
      <4> QED BY <4>1 DEF Has
    <3> QED BY <1>1, <3>1, <3>2
  <2> QED BY <2>1, <2>2, <2>3
<1>2. CASE Live(m, v) /\ ~\E i \in DOMAIN t : t[i] = v
  <2> DEFINE u == Append(t, v)
             n == Len(t)
  <2>1. AddNode(m, t, v) = u BY <1>2 DEF AddNode
  <2>2. /\ IsSeq(u) /\ Len(u) = n + 1 /\ u[n + 1] = v /\ \A i \in 1..n : u[i] = t[i]
    BY <1>0, AppendIs
  <2> HIDE DEF u
  <2>3. IsPtr(v) /\ v[3] \in 1..Len(m.objs) /\ v = Ptr(m.active, v[3]) BY <1>2, FineIs DEF Live
  <2>4. \A i \in 1..Len(u) : i \in 1..n \/ i = n + 1 BY <1>0, <2>2
  <2>5. \A i \in 1..Len(u) : \E a \in 1..Len(m.objs) : u[i] = Ptr(m.active, a)
    BY <2>2, <2>3, <2>4 DEF Listed
  <2>6. \A i, j \in 1..Len(u) : u[i] = u[j] => i = j
    <3> SUFFICES ASSUME NEW i \in 1..Len(u), NEW j \in 1..Len(u), u[i] = u[j] PROVE i = j
      OBVIOUS
    <3>1. CASE i \in 1..n /\ j \in 1..n BY <2>2, <3>1 DEF Listed
    <3>2. CASE i = n + 1 /\ j \in 1..n BY <1>0, <1>2, <2>2, <3>2
    <3>3. CASE j = n + 1 /\ i \in 1..n BY <1>0, <1>2, <2>2, <3>3
    <3> QED BY <2>4, <3>1, <3>2, <3>3
  <2>7. Listed(m, u) BY <2>2, <2>5, <2>6 DEF Listed
  <2>8. Prolongs(t, u) BY <1>0, <2>2 DEF Prolongs
  <2>9. n + 1 \in 1..Len(u) BY <1>0, <2>2
  <2>10. Has(u, v) BY <2>2, <2>9 DEF Has
  <2> QED BY <2>1, <2>7, <2>8, <2>10
<1> QED BY <1>1, <1>2

\* f[i] is what has been seen after the first i values of s.
Adds(f, n, m, t, s) == f = [i \in 0..n |-> IF i = 0 THEN t ELSE AddNode(m, f[i - 1], s[i])]

LEMMA AddsExist == ASSUME NEW n \in Nat, NEW m, NEW t, NEW s PROVE \E f : Adds(f, n, m, t, s)
<1> DEFINE T == {k \in Nat : \E f : Adds(f, k, m, t, s)}
<1>1. 0 \in T
  <2> DEFINE f == [i \in 0..0 |-> t]
  <2>1. f = [i \in 0..0 |-> IF i = 0 THEN t ELSE AddNode(m, f[i - 1], s[i])] OBVIOUS
  <2> QED BY <2>1 DEF Adds
<1>2. ASSUME NEW k \in 1..n, k - 1 \in T PROVE k \in T
  <2>1. PICK f : Adds(f, k - 1, m, t, s) BY <1>2
  <2> DEFINE h == [i \in 0..k |-> IF i = k THEN AddNode(m, f[k - 1], s[k]) ELSE f[i]]
  <2>2. \A i \in 0..k : h[i] = IF i = 0 THEN t ELSE AddNode(m, h[i - 1], s[i])
    <3> TAKE i \in 0..k
    <3>1. CASE i = k
      <4>1. k # 0 /\ k - 1 \in 0..k /\ k - 1 # k /\ k \in 0..k OBVIOUS
      <4>2. h[k] = AddNode(m, f[k - 1], s[k]) /\ h[k - 1] = f[k - 1] BY <4>1
      <4> HIDE DEF h
      <4> QED BY <3>1, <4>1, <4>2
    <3>2. CASE i # k
      <4>1. i \in 0..k - 1 /\ h[i] = f[i] BY <3>2
      <4>2. f[i] = IF i = 0 THEN t ELSE AddNode(m, f[i - 1], s[i]) BY <2>1, <4>1 DEF Adds
      <4>3. i # 0 => i - 1 \in 0..k /\ i - 1 # k BY <4>1
      <4>4. i # 0 => h[i - 1] = f[i - 1] BY <4>3
      <4> HIDE DEF h
      <4> QED BY <4>1, <4>2, <4>4
    <3> QED BY <3>1, <3>2
  <2>3. h = [i \in 0..k |-> h[i]] OBVIOUS
  <2> HIDE DEF h
  <2>4. Adds(h, k, m, t, s) BY <2>2, <2>3 DEF Adds
  <2> QED BY <2>4
<1>3. 0..n \subseteq T
  <2> HIDE DEF T
  <2> QED BY <1>1, <1>2, AllUpTo
<1> QED BY <1>3

LEMMA AddAllIs ==
  ASSUME NEW m, NEW t, Listed(m, t), NEW s, IsSeq(s), \A i \in 1..Len(s) : Fine(m, s[i])
  PROVE  LET u == AddAll(m, t, s)
         IN  Listed(m, u) /\ Prolongs(t, u) /\ \A i \in 1..Len(s) : Has(u, s[i])
<1> DEFINE n == Len(s)
           F == CHOOSE f : f = [i \in 0..n |-> IF i = 0 THEN t ELSE AddNode(m, f[i - 1], s[i])]
<1>0. n \in Nat BY DEF IsSeq
<1>1. AddAll(m, t, s) = F[n] BY Zenon DEF AddAll, Loop
<1>2. Adds(F, n, m, t, s)
  <2>1. \E f : Adds(f, n, m, t, s) BY <1>0, AddsExist
  <2>2. \E f : f = [i \in 0..n |-> IF i = 0 THEN t ELSE AddNode(m, f[i - 1], s[i])]
    BY <2>1, Zenon DEF Adds
  <2> QED BY <2>2, Zenon DEF Adds
<1> HIDE DEF F
<1>3. \A i \in 0..n : F[i] = IF i = 0 THEN t ELSE AddNode(m, F[i - 1], s[i]) BY <1>2 DEF Adds
<1> DEFINE Sofar(i) == /\ Listed(m, F[i]) /\ Prolongs(t, F[i])
                       /\ \A j \in 1..i : Has(F[i], s[j])
           T == {i \in 0..n : Sofar(i)}
<1>4. 0 \in T
  <2>1. F[0] = t BY <1>0, <1>3
  <2>2. Prolongs(t, t) BY DEF Prolongs, Listed, IsSeq
  <2> QED BY <1>0, <2>1, <2>2
<1>5. ASSUME NEW i \in 1..n, i - 1 \in T PROVE i \in T
  <2>1. F[i] = AddNode(m, F[i - 1], s[i]) BY <1>3
  <2>2. Listed(m, F[i - 1]) /\ Prolongs(t, F[i - 1]) /\ \A j \in 1..i - 1 : Has(F[i - 1], s[j])
    BY <1>5
  <2>3. Fine(m, s[i]) OBVIOUS
  <2>4. Listed(m, F[i]) /\ Prolongs(F[i - 1], F[i]) /\ Has(F[i], s[i])
    BY <2>1, <2>2, <2>3, AddNodeIs
  <2>5. Prolongs(t, F[i]) BY <2>2, <2>4, ProlongsOn
  <2>6. \A j \in 1..i : Has(F[i], s[j])
    <3> TAKE j \in 1..i
    <3>1. CASE j = i BY <2>4, <3>1
    <3>2. CASE j # i
      <4>1. j \in 1..i - 1 BY <3>2, <1>0
      <4> QED BY <2>2, <2>4, <4>1, HasOn
    <3> QED BY <3>1, <3>2
  <2> QED BY <2>4, <2>5, <2>6
<1>6. 0..n \subseteq T
  <2> HIDE DEF T
  <2> QED BY <1>0, <1>4, <1>5, AllUpTo
<1>7. Sofar(n) BY <1>0, <1>6
<1> QED BY <1>1, <1>7

\* What the k-th node refers to has been seen.
SlotsSeen(m, t, k) == \A j \in 1..Len(At(m, t[k]).slots) : Has(t, At(m, t[k]).slots[j])

LEMMA NodeIsFine ==
  ASSUME NEW m, HeapOf(m), NEW t, Listed(m, t), NEW k \in 1..Len(t)
  PROVE  LET s == At(m, t[k]).slots IN IsSeq(s) /\ \A j \in 1..Len(s) : Fine(m, s[j])
<1>1. PICK a \in 1..Len(m.objs) : t[k] = Ptr(m.active, a) BY DEF Listed
<1>2. At(m, t[k]) = m.objs[a] BY <1>1, LiveIs
<1> QED BY <1>2 DEF HeapOf, AnObject, SlotsFine

LEMMA WalkNodeIs ==
  ASSUME NEW m, HeapOf(m), NEW t, Listed(m, t), NEW k \in Nat \ {0}
  PROVE  LET u == WalkNode(m, t, k)
         IN  /\ Listed(m, u) /\ Prolongs(t, u)
             /\ k <= Len(t) => SlotsSeen(m, u, k)
             /\ k > Len(t) => u = t
<1>0. Len(t) \in Nat BY DEF Listed, IsSeq
<1>1. CASE k > Len(t)
  <2>1. WalkNode(m, t, k) = t BY <1>1 DEF WalkNode
  <2>2. Prolongs(t, t) BY <1>0 DEF Prolongs
  <2> QED BY <1>0, <1>1, <2>1, <2>2
<1>2. CASE ~(k > Len(t))
  <2> DEFINE s == At(m, t[k]).slots
             u == AddAll(m, t, s)
  <2>1. WalkNode(m, t, k) = u BY <1>2 DEF WalkNode
  <2>2. k \in 1..Len(t) BY <1>0, <1>2
  <2>3. IsSeq(s) /\ \A j \in 1..Len(s) : Fine(m, s[j]) BY <2>2, NodeIsFine
  <2> HIDE DEF s
  <2>4. Listed(m, u) /\ Prolongs(t, u) /\ \A i \in 1..Len(s) : Has(u, s[i]) BY <2>3, AddAllIs
  <2> HIDE DEF u
  <2>5. u[k] = t[k] BY <2>2, <2>4 DEF Prolongs
  <2>6. SlotsSeen(m, u, k) BY <2>4, <2>5 DEF SlotsSeen, s
  <2> QED BY <1>2, <2>1, <2>4, <2>6
<1> QED BY <1>1, <1>2

LEMMA NodesAreFew ==
  ASSUME NEW m, HeapOf(m), NEW t, Listed(m, t)
  PROVE  Len(t) <= Len(m.objs)
<1> DEFINE n == Len(m.objs)
           l == Len(t)
           f == [k \in 1..l |-> CHOOSE a \in 1..n : t[k] = Ptr(m.active, a)]
<1>0. n \in Nat /\ l \in Nat BY DEF HeapOf, Listed, IsSeq
<1>1. \A k \in 1..l : f[k] \in 1..n /\ t[k] = Ptr(m.active, f[k])
  <2> TAKE k \in 1..l
  <2>1. \E a \in 1..n : t[k] = Ptr(m.active, a) BY DEF Listed
  <2> QED BY <2>1
<1>2. f \in [1..l -> 1..n] BY <1>1
<1>3. \A j, k \in 1..l : f[j] = f[k] => j = k
  <2> HIDE DEF f
  <2> QED BY <1>1 DEF Listed
<1> HIDE DEF f, n, l
<1>4. /\ IsFiniteSet(1..l) /\ IsFiniteSet(1..n) /\ Cardinality(1..l) = l /\ Cardinality(1..n) = n
  <2>1. 1 \in Int /\ l \in Int /\ n \in Int BY <1>0
  <2>2. IsFiniteSet(1..l) /\ IsFiniteSet(1..n) BY <2>1, FS_Interval
  <2>3. Cardinality(1..l) = IF 1 > l THEN 0 ELSE l - 1 + 1 BY <2>1, FS_Interval
  <2>4. Cardinality(1..n) = IF 1 > n THEN 0 ELSE n - 1 + 1 BY <2>1, FS_Interval
  <2> QED BY <1>0, <2>2, <2>3, <2>4
<1> SUFFICES ASSUME ~(l <= n) PROVE FALSE BY DEF l, n
<1>5. Cardinality(1..n) < Cardinality(1..l) BY <1>0, <1>4
<1>6. \E j, k \in 1..l : j # k /\ f[j] = f[k] BY <1>2, <1>4, <1>5, FS_PigeonHole
<1> QED BY <1>3, <1>6

\* f[k] is what has been seen after the first k nodes have been walked.
Walks(f, n, m, t) == f = [k \in 0..n |-> IF k = 0 THEN t ELSE WalkNode(m, f[k - 1], k)]

LEMMA WalksExist == ASSUME NEW n \in Nat, NEW m, NEW t PROVE \E f : Walks(f, n, m, t)
<1> DEFINE T == {k \in Nat : \E f : Walks(f, k, m, t)}
<1>1. 0 \in T
  <2> DEFINE f == [i \in 0..0 |-> t]
  <2>1. f = [i \in 0..0 |-> IF i = 0 THEN t ELSE WalkNode(m, f[i - 1], i)] OBVIOUS
  <2> QED BY <2>1 DEF Walks
<1>2. ASSUME NEW k \in 1..n, k - 1 \in T PROVE k \in T
  <2>1. PICK f : Walks(f, k - 1, m, t) BY <1>2
  <2> DEFINE h == [i \in 0..k |-> IF i = k THEN WalkNode(m, f[k - 1], k) ELSE f[i]]
  <2>2. \A i \in 0..k : h[i] = IF i = 0 THEN t ELSE WalkNode(m, h[i - 1], i)
    <3> TAKE i \in 0..k
    <3>1. CASE i = k
      <4>1. k # 0 /\ k - 1 \in 0..k /\ k - 1 # k /\ k \in 0..k OBVIOUS
      <4>2. h[k] = WalkNode(m, f[k - 1], k) /\ h[k - 1] = f[k - 1] BY <4>1
      <4> HIDE DEF h
      <4> QED BY <3>1, <4>1, <4>2
    <3>2. CASE i # k
      <4>1. i \in 0..k - 1 /\ h[i] = f[i] BY <3>2
      <4>2. f[i] = IF i = 0 THEN t ELSE WalkNode(m, f[i - 1], i) BY <2>1, <4>1 DEF Walks
      <4>3. i # 0 => i - 1 \in 0..k /\ i - 1 # k BY <4>1
      <4>4. i # 0 => h[i - 1] = f[i - 1] BY <4>3
      <4> HIDE DEF h
      <4> QED BY <4>1, <4>2, <4>4
    <3> QED BY <3>1, <3>2
  <2>3. h = [i \in 0..k |-> h[i]] OBVIOUS
  <2> HIDE DEF h
  <2>4. Walks(h, k, m, t) BY <2>2, <2>3 DEF Walks
  <2> QED BY <2>4
<1>3. 0..n \subseteq T
  <2> HIDE DEF T
  <2> QED BY <1>1, <1>2, AllUpTo
<1> QED BY <1>3

\* Every reference in a message is to one of its nodes.
LEMMA NodesAre ==
  ASSUME NEW m, HeapOf(m), NEW root, Fine(m, root)
  PROVE  LET t == Nodes(m, root)
         IN  Listed(m, t) /\ Has(t, root) /\ \A k \in 1..Len(t) : SlotsSeen(m, t, k)
<1> DEFINE n == Len(m.objs)
           t == AddNode(m, <<>>, root)
           F == CHOOSE f : f = [k \in 0..n |-> IF k = 0 THEN t ELSE WalkNode(m, f[k - 1], k)]
<1>0. n \in Nat BY DEF HeapOf, IsSeq
<1>1. Nodes(m, root) = F[n] BY Zenon DEF Nodes, Loop, WalkNode, AddAll, AddNode
<1>2. Listed(m, t) /\ Has(t, root)
  <2>1. Listed(m, <<>>) BY DEF Listed, IsSeq
  <2> QED BY <2>1, AddNodeIs
<1> HIDE DEF t
<1>3. Walks(F, n, m, t)
  <2>1. \E f : Walks(f, n, m, t) BY <1>0, WalksExist
  <2>2. \E f : f = [k \in 0..n |-> IF k = 0 THEN t ELSE WalkNode(m, f[k - 1], k)]
    BY <2>1, Zenon DEF Walks
  <2> QED BY <2>2, Zenon DEF Walks
<1> HIDE DEF F
<1>4. \A k \in 0..n : F[k] = IF k = 0 THEN t ELSE WalkNode(m, F[k - 1], k) BY <1>3 DEF Walks
<1> DEFINE Sofar(k) == /\ Listed(m, F[k]) /\ Prolongs(t, F[k])
                       /\ \A j \in 1..k : j <= Len(F[k]) => SlotsSeen(m, F[k], j)
           T == {k \in 0..n : Sofar(k)}
<1>5. 0 \in T
  <2>1. F[0] = t BY <1>0, <1>4
  <2>2. Prolongs(t, t) BY <1>2 DEF Prolongs, Listed, IsSeq
  <2> QED BY <1>0, <1>2, <2>1, <2>2
<1>6. ASSUME NEW k \in 1..n, k - 1 \in T PROVE k \in T
  <2> DEFINE a == F[k - 1]
             b == F[k]
  <2>1. b = WalkNode(m, a, k) BY <1>4
  <2>2. Listed(m, a) /\ Prolongs(t, a) /\ \A j \in 1..k - 1 : j <= Len(a) => SlotsSeen(m, a, j)
    BY <1>6
  <2> HIDE DEF a, b
  <2>3. /\ Listed(m, b) /\ Prolongs(a, b) /\ (k <= Len(a) => SlotsSeen(m, b, k))
        /\ (k > Len(a) => b = a)
    BY <2>1, <2>2, WalkNodeIs
  <2>4. Prolongs(t, b) BY <1>2, <2>2, <2>3, ProlongsOn
  <2>5. Len(a) \in Nat /\ Len(b) \in Nat BY <2>2, <2>3 DEF Listed, IsSeq
  <2>6. ASSUME NEW j \in 1..k, j <= Len(b) PROVE SlotsSeen(m, b, j)
    <3>1. CASE k > Len(a) BY <1>0, <2>2, <2>3, <2>5, <2>6, <3>1
    <3>2. CASE k <= Len(a) /\ j = k BY <2>3, <3>2
    <3>3. CASE k <= Len(a) /\ j # k
      <4>1. j \in 1..k - 1 /\ j \in 1..Len(a) /\ j <= Len(a) BY <1>0, <2>5, <3>3
      <4>2. SlotsSeen(m, a, j) /\ b[j] = a[j] BY <2>2, <2>3, <4>1 DEF Prolongs
      <4>3. \A v : Has(a, v) => Has(b, v) BY <2>2, <2>3, HasOn
      <4> QED BY <4>2, <4>3 DEF SlotsSeen
    <3> QED BY <2>5, <3>1, <3>2, <3>3
  <2> QED BY <2>3, <2>4, <2>6 DEF b
<1>7. 0..n \subseteq T
  <2> HIDE DEF T
  <2> QED BY <1>0, <1>5, <1>6, AllUpTo
<1>8. Sofar(n) BY <1>0, <1>7
<1>9. Len(F[n]) <= n /\ Len(F[n]) \in Nat BY <1>8, NodesAreFew DEF Listed, IsSeq
<1>10. \A k \in 1..Len(F[n]) : SlotsSeen(m, F[n], k) BY <1>0, <1>8, <1>9
<1>11. Has(F[n], root) BY <1>2, <1>8, HasOn
<1> QED BY <1>1, <1>8, <1>10, <1>11

\* A value of a message: an immediate, or a reference to one of n nodes.
Sent(n, w) == Bare(w) \/ \E i \in 1..n : w = <<"node", i>>

\* What Backed and Whole are in a message.
SentSize(buf, w) == Len(buf.nodes[w[2]].slots)
SentBacked(buf, o) ==
  /\ \E i \in 1..Len(buf.nodes) : o.slots[1] = <<"node", i>> /\ buf.nodes[i].kind = "array"
  /\ Bare(o.slots[2]) /\ o.slots[2][2] \in Int
SentWhole(buf, o) ==
  /\ o.kind = "vec" => /\ Len(o.slots) = 2 /\ SentBacked(buf, o)
                       /\ o.slots[2][2] \in 0..SentSize(buf, o.slots[1])
  /\ o.kind = "map" => /\ Len(o.slots) = 3 /\ SentBacked(buf, o) /\ Bare(o.slots[3])
                       /\ \E c \in 0..SentSize(buf, o.slots[1]) : SentSize(buf, o.slots[1]) = 2 * c
  /\ o.kind = "closure" => o.data[1] \in DOMAIN Fns

Message(buf) ==
  /\ IsSeq(buf.nodes) /\ Sent(Len(buf.nodes), buf.root)
  /\ \A i \in 1..Len(buf.nodes) :
       LET o == buf.nodes[i]
       IN  /\ AnObject(o) /\ \A k \in 1..Len(o.slots) : Sent(Len(buf.nodes), o.slots[k])
           /\ SentWhole(buf, o)

Wire(nodes, v) ==
  IF IsPtr(v) THEN <<"node", CHOOSE i \in DOMAIN nodes : nodes[i] = v>> ELSE v

LEMMA WireIs ==
  ASSUME NEW m, NEW t, Listed(m, t), NEW v, Fine(m, v), Has(t, v)
  PROVE  /\ Sent(Len(t), Wire(t, v))
         /\ Bare(v) => Wire(t, v) = v
         /\ ~Bare(v) => \E i \in 1..Len(t) : Wire(t, v) = <<"node", i>> /\ t[i] = v
<1>1. CASE IsPtr(v)
  <2> DEFINE j == CHOOSE i \in DOMAIN t : t[i] = v
  <2>1. DOMAIN t = 1..Len(t) BY DEF Listed, IsSeq
  <2>2. \E i \in DOMAIN t : t[i] = v BY <1>1, <2>1 DEF Has
  <2>3. j \in 1..Len(t) /\ t[j] = v BY <2>1, <2>2
  <2>4. Wire(t, v) = <<"node", j>> BY <1>1 DEF Wire
  <2>5. ~Bare(v) BY <1>1 DEF Bare, IsPtr
  <2> HIDE DEF j
  <2> QED BY <2>3, <2>4, <2>5 DEF Sent
<1>2. CASE ~IsPtr(v)
  <2>1. Wire(t, v) = v BY <1>2 DEF Wire
  <2>2. Bare(v) BY <1>2, FineIs
  <2> QED BY <2>1, <2>2 DEF Sent
<1> QED BY <1>1, <1>2

\* One node, encoded.
Encoded(m, t, i) ==
  LET o == At(m, t[i])
  IN  Object(o.kind, [k \in DOMAIN o.slots |-> Wire(t, o.slots[k])], o.data, 0)

LEMMA EncodedIs ==
  ASSUME NEW m, HeapOf(m), NEW t, Listed(m, t), NEW i \in 1..Len(t)
  PROVE  LET o == At(m, t[i])
             e == Encoded(m, t, i)
         IN  /\ AnObject(e) /\ e.kind = o.kind /\ e.data = o.data
             /\ Len(e.slots) = Len(o.slots) /\ Len(o.slots) \in Nat
             /\ \A k \in 1..Len(o.slots) : e.slots[k] = Wire(t, o.slots[k])
<1> DEFINE o == At(m, t[i])
           e == Encoded(m, t, i)
           n == Len(o.slots)
           s == [k \in DOMAIN o.slots |-> Wire(t, o.slots[k])]
<1>1. IsSeq(o.slots) BY NodeIsFine
<1>2. n \in Nat /\ DOMAIN o.slots = 1..n BY <1>1 DEF IsSeq
<1>3. /\ DOMAIN e = {"kind", "slots", "data", "id"} /\ e.kind = o.kind /\ e.slots = s
      /\ e.data = o.data
  BY DEF Encoded, Object
<1> HIDE DEF o, n, e
<1>4. s = [k \in 1..n |-> s[k]] /\ \A k \in 1..n : s[k] = Wire(t, o.slots[k]) BY <1>2
<1> HIDE DEF s
<1>5. IsSeq(s) /\ Len(s) = n BY <1>2, <1>4, MakeSeq
<1>6. AnObject(e) BY <1>3, <1>5 DEF AnObject
<1> QED BY <1>2, <1>3, <1>4, <1>5, <1>6 DEF o, n, e

LEMMA EncodeIs ==
  ASSUME NEW m, Good(m, {}), NEW root, Fine(m, root)
  PROVE  Message(Encode(m, root))
<1> DEFINE t == Nodes(m, root)
           l == Len(t)
           buf == Encode(m, root)
<1>1. buf = [root |-> Wire(t, root), nodes |-> [i \in DOMAIN t |-> Encoded(m, t, i)]]
  BY Zenon DEF Encode, Wire, Encoded
<1>2. AMachine(m) /\ RootsFine(m) /\ HeapOf(m) BY GoodIs
<1>3. Listed(m, t) /\ Has(t, root) /\ \A k \in 1..Len(t) : SlotsSeen(m, t, k) BY <1>2, NodesAre
<1> HIDE DEF t
<1>4. l \in Nat /\ DOMAIN t = 1..l BY <1>3 DEF Listed, IsSeq
<1>5. buf.root = Wire(t, root) /\ buf.nodes = [i \in 1..l |-> Encoded(m, t, i)] BY <1>1, <1>4
<1> HIDE DEF buf, l
<1>6. buf.nodes = [i \in 1..l |-> buf.nodes[i]] /\ \A i \in 1..l : buf.nodes[i] = Encoded(m, t, i)
  BY <1>5
<1>7. IsSeq(buf.nodes) /\ Len(buf.nodes) = l BY <1>4, <1>6, MakeSeq
<1>8. Sent(l, buf.root) BY <1>3, <1>5, WireIs DEF l
<1>9. ASSUME NEW i \in 1..l
      PROVE  /\ At(m, t[i]) \in {m.objs[a] : a \in 1..Len(m.objs)}
             /\ AnObject(buf.nodes[i]) /\ buf.nodes[i].kind = At(m, t[i]).kind
             /\ buf.nodes[i].data = At(m, t[i]).data
             /\ Len(buf.nodes[i].slots) = Len(At(m, t[i]).slots) /\ Len(At(m, t[i]).slots) \in Nat
             /\ \A k \in 1..Len(At(m, t[i]).slots) :
                  LET v == At(m, t[i]).slots[k]
                      w == buf.nodes[i].slots[k]
                  IN  /\ Sent(l, w) /\ (Bare(v) => w = v)
                      /\ ~Bare(v) => \E j \in 1..l : w = <<"node", j>> /\ t[j] = v
  <2>1. i \in 1..Len(t) BY DEF l
  <2>2. PICK a \in 1..Len(m.objs) : t[i] = Ptr(m.active, a) BY <1>3, <2>1 DEF Listed
  <2>3. At(m, t[i]) = m.objs[a] BY <2>2, LiveIs
  <2> DEFINE o == At(m, t[i])
             e == buf.nodes[i]
  <2>4. /\ AnObject(e) /\ e.kind = o.kind /\ e.data = o.data
        /\ Len(e.slots) = Len(o.slots) /\ Len(o.slots) \in Nat
        /\ \A k \in 1..Len(o.slots) : e.slots[k] = Wire(t, o.slots[k])
    BY <1>2, <1>3, <1>6, <2>1, EncodedIs
  <2>5. \A k \in 1..Len(o.slots) : Fine(m, o.slots[k]) BY <1>2, <1>3, <2>1, NodeIsFine
  <2>6. \A k \in 1..Len(o.slots) : Has(t, o.slots[k]) BY <1>3, <2>1 DEF SlotsSeen
  <2> HIDE DEF o, e
  <2>7. \A k \in 1..Len(o.slots) :
          /\ Sent(l, e.slots[k]) /\ (Bare(o.slots[k]) => e.slots[k] = o.slots[k])
          /\ ~Bare(o.slots[k]) => \E j \in 1..l : e.slots[k] = <<"node", j>> /\ t[j] = o.slots[k]
    <3> TAKE k \in 1..Len(o.slots)
    <3> QED BY <1>3, <2>4, <2>5, <2>6, WireIs DEF l
  <2> QED BY <2>3, <2>4, <2>7 DEF o, e
<1>10. ASSUME NEW i \in 1..l
       PROVE  /\ AnObject(buf.nodes[i]) /\ SentWhole(buf, buf.nodes[i])
              /\ \A k \in 1..Len(buf.nodes[i].slots) : Sent(l, buf.nodes[i].slots[k])
  <2> DEFINE o == At(m, t[i])
             e == buf.nodes[i]
  <2>1. Whole(m, o)
    <3>1. PICK a \in 1..Len(m.objs) : o = m.objs[a] BY <1>9
    <3> QED BY <3>1 DEF Good
  <2>2. /\ AnObject(e) /\ e.kind = o.kind /\ e.data = o.data
        /\ Len(e.slots) = Len(o.slots) /\ Len(o.slots) \in Nat
    BY <1>9
  <2>3. \A k \in 1..Len(o.slots) :
          /\ Sent(l, e.slots[k]) /\ (Bare(o.slots[k]) => e.slots[k] = o.slots[k])
          /\ ~Bare(o.slots[k]) => \E j \in 1..l : e.slots[k] = <<"node", j>> /\ t[j] = o.slots[k]
    BY <1>9
  <2> HIDE DEF e
  <2>4. ASSUME Backed(m, o), Len(o.slots) >= 2
        PROVE  SentBacked(buf, e) /\ SentSize(buf, e.slots[1]) = SizeAt(m, o.slots[1])
    <3> DEFINE v == o.slots[1]
    <3> HIDE DEF o
    <3>1. 1 \in 1..Len(o.slots) /\ 2 \in 1..Len(o.slots) BY <2>2, <2>4
    <3>2. ~Bare(v) /\ At(m, v).kind = "array" /\ Bare(o.slots[2]) /\ o.slots[2][2] \in Int
      BY <2>4 DEF Backed
    <3>3. e.slots[2] = o.slots[2] BY <2>3, <3>1, <3>2
    <3>4. PICK j \in 1..l : e.slots[1] = <<"node", j>> /\ t[j] = v BY <2>3, <3>1, <3>2
    <3>5. buf.nodes[j].kind = "array" /\ Len(buf.nodes[j].slots) = SizeAt(m, v)
      BY <1>9, <3>2, <3>4 DEF SizeAt
    <3>6. e.slots[1][2] = j BY <3>4
    <3> QED BY <1>7, <3>2, <3>3, <3>4, <3>5, <3>6 DEF SentBacked, SentSize
  <2> HIDE DEF o
  <2>5. ASSUME e.kind = "vec"
        PROVE  /\ Len(e.slots) = 2 /\ SentBacked(buf, e)
               /\ e.slots[2][2] \in 0..SentSize(buf, e.slots[1])
    <3>1. Len(o.slots) = 2 /\ Backed(m, o) /\ o.slots[2][2] \in 0..SizeAt(m, o.slots[1])
      BY <2>1, <2>2, <2>5 DEF Whole
    <3>2. e.slots[2] = o.slots[2]
      <4>1. 2 \in 1..Len(o.slots) /\ Bare(o.slots[2]) BY <3>1 DEF Backed
      <4> QED BY <2>3, <4>1
    <3>3. SentBacked(buf, e) /\ SentSize(buf, e.slots[1]) = SizeAt(m, o.slots[1]) BY <2>4, <3>1
    <3> QED BY <2>2, <3>1, <3>2, <3>3
  <2>6. ASSUME e.kind = "map"
        PROVE  /\ Len(e.slots) = 3 /\ SentBacked(buf, e) /\ Bare(e.slots[3])
               /\ \E c \in 0..SentSize(buf, e.slots[1]) : SentSize(buf, e.slots[1]) = 2 * c
    <3>1. /\ Len(o.slots) = 3 /\ Backed(m, o) /\ Bare(o.slots[3])
          /\ \E c \in 0..SizeAt(m, o.slots[1]) : SizeAt(m, o.slots[1]) = 2 * c
      BY <2>1, <2>2, <2>6 DEF Whole
    <3>2. e.slots[3] = o.slots[3]
      <4>1. 3 \in 1..Len(o.slots) BY <3>1
      <4> QED BY <2>3, <3>1, <4>1
    <3>3. SentBacked(buf, e) /\ SentSize(buf, e.slots[1]) = SizeAt(m, o.slots[1]) BY <2>4, <3>1
    <3> QED BY <2>2, <3>1, <3>2, <3>3
  <2>7. e.kind = "closure" => e.data[1] \in DOMAIN Fns BY <2>1, <2>2 DEF Whole
  <2>8. SentWhole(buf, e) BY <2>5, <2>6, <2>7 DEF SentWhole
  <2> QED BY <2>2, <2>3, <2>8 DEF e
<1>11. Message(buf) BY <1>7, <1>8, <1>10 DEF Message
<1> QED BY <1>11 DEF buf

-----------------------------------------------------------------------------
(* Decoding: every node is allocated, and then every slot is written.      *)

LEMMA GoodMore == ASSUME NEW m, NEW X, NEW Y, Good(m, X), X \subseteq Y PROVE Good(m, Y)
BY DEF Good

LEMMA PlaceIs ==
  ASSUME NEW b \in Nat, NEW n \in Nat, NEW i \in 1..n, NEW j \in 1..i
  PROVE  b + j \in 1..b + n /\ (j # i => b + j # b + i)
OBVIOUS

LEMMA PtrIs == \A a, i, j : Ptr(a, i) = Ptr(a, j) => i = j
<1> TAKE a, i, j
<1>1. Ptr(a, i)[3] = i /\ Ptr(a, j)[3] = j BY DEF Ptr
<1> QED BY <1>1

LEMMA FaultSet == ASSUME NEW m, DOMAIN m = Fields, NEW why PROVE Fault(m, why).fault = why
BY DEF Fault, Fields

\* v is the address of an object made for node o.
IsCopy(m1, v, o) ==
  \E x \in 1..Len(m1.objs) :
    /\ v = Ptr(m1.active, x) /\ m1.objs[x].kind = o.kind /\ m1.objs[x].data = o.data
    /\ Len(m1.objs[x].slots) = Len(o.slots)

\* The objects made for the first i nodes.
Pooled(m1, base, i) ==
  {x \in 1..Len(m1.objs) : \E j \in 1..i : m1.roots[base + j] = Ptr(m1.active, x)}

Building(m, buf, m1, i) ==
  LET base == Len(m.roots)
  IN  /\ Good(m1, Pooled(m1, base, i))
      /\ m1.cfs = m.cfs /\ Len(m1.roots) = base + Len(buf.nodes)
      /\ \A j \in 1..i : IsCopy(m1, m1.roots[base + j], buf.nodes[j])
      /\ \A j, k \in 1..i : m1.roots[base + j] = m1.roots[base + k] => j = k

\* After i nodes have been allocated, or one of them could not be.
Built(m, buf, m1, i) ==
  IF m1.fault # "none" THEN \E X : Good(m1, X) ELSE Building(m, buf, m1, i)

Blank(o) == [o EXCEPT !.slots = Slots(Len(@))]

BuildStep(base, buf, m1, i) ==
  IF m1.fault # "none" THEN m1
  ELSE LET a == Alloc(m1, Blank(buf.nodes[i]))
       IN  IF a.at = Nil THEN Fault(a.vm, "heap exhausted")
           ELSE [a.vm EXCEPT !.roots[base + i] = a.at]

LEMMA EmptyIs ==
  ASSUME NEW o, AnObject(o)
  PROVE  /\ AnObject(Blank(o)) /\ Blank(o).kind = o.kind /\ Blank(o).data = o.data
         /\ Len(Blank(o).slots) = Len(o.slots)
         /\ \A k \in 1..Len(Blank(o).slots) : Bare(Blank(o).slots[k])
<1> DEFINE n == Len(o.slots)
           e == Blank(o)
<1>1. n \in Nat BY DEF AnObject, IsSeq
<1>2. IsSeq(Slots(n)) /\ Len(Slots(n)) = n /\ \A k \in 1..n : Slots(n)[k] = Undefined
  BY <1>1, SlotsAre
<1>3. e = [o EXCEPT !.slots = Slots(n)] BY DEF Blank
<1>4. /\ DOMAIN e = {"kind", "slots", "data", "id"} /\ e.slots = Slots(n) /\ e.kind = o.kind
      /\ e.data = o.data
  BY <1>3 DEF AnObject
<1> HIDE DEF n, e
<1> QED BY <1>2, <1>4, Immediates DEF AnObject, e, n

\* m3 is m2 with at in its r-th root.
RootSet(m2, m3, r, at) ==
  /\ DOMAIN m3 = Fields /\ IsSeq(m3.roots) /\ Len(m3.roots) = Len(m2.roots)
  /\ \A q \in 1..Len(m2.roots) : m3.roots[q] = IF q = r THEN at ELSE m2.roots[q]
  /\ m3.objs = m2.objs /\ m3.active = m2.active /\ m3.regs = m2.regs /\ m3.window = m2.window
  /\ m3.cfs = m2.cfs /\ m3.rets = m2.rets /\ m3.closure = m2.closure
  /\ m3.interned = m2.interned /\ m3.fault = m2.fault

LEMMA RootSetIs ==
  ASSUME NEW m, AMachine(m), NEW r, NEW at
  PROVE  RootSet(m, [m EXCEPT !.roots[r] = at], r, at)
<1> DEFINE s == [m.roots EXCEPT ![r] = at]
           m1 == [m EXCEPT !.roots = s]
<1>1. [m EXCEPT !.roots[r] = at] = m1 OBVIOUS
<1>2. DOMAIN m = Fields /\ m.roots = [k \in 1..Len(m.roots) |-> m.roots[k]] /\ Len(m.roots) \in Nat
  BY DEF AMachine, IsSeq
<1>3. s = [k \in 1..Len(m.roots) |-> s[k]]
      /\ \A k \in 1..Len(m.roots) : s[k] = IF k = r THEN at ELSE m.roots[k]
  BY <1>2
<1> HIDE DEF s
<1>4. IsSeq(s) /\ Len(s) = Len(m.roots) BY <1>2, <1>3, MakeSeq
<1>5. /\ DOMAIN m1 = Fields /\ m1.roots = s /\ m1.interned = m.interned
      /\ m1.objs = m.objs /\ m1.active = m.active /\ m1.regs = m.regs /\ m1.window = m.window
      /\ m1.cfs = m.cfs /\ m1.rets = m.rets /\ m1.closure = m.closure /\ m1.fault = m.fault
  BY <1>2 DEF Fields
<1> HIDE DEF m1
<1>6. RootSet(m, m1, r, at) BY <1>3, <1>4, <1>5 DEF RootSet
<1> QED BY <1>1, <1>6

LEMMA RootSetGood ==
  ASSUME NEW m, NEW X, Good(m, X), NEW m1, NEW r, NEW at, Fine(m, at), RootSet(m, m1, r, at)
  PROVE  Good(m1, X)
<1>1. AMachine(m) /\ RootsFine(m) BY DEF Good
<1>2. IsSeq(m1.interned) BY <1>1 DEF AMachine, RootSet
<1>3. \A q \in 1..Len(m1.roots) : Fine(m, m1.roots[q]) BY <1>1 DEF RootSet, RootsFine
<1>4. \A q \in 1..Len(m1.interned) : Fine(m, m1.interned[q]) BY <1>1 DEF RootSet, RootsFine
<1>5. /\ DOMAIN m1 = Fields /\ IsSeq(m1.roots)
      /\ m1.objs = m.objs /\ m1.active = m.active /\ m1.regs = m.regs /\ m1.window = m.window
      /\ m1.cfs = m.cfs /\ m1.rets = m.rets /\ m1.closure = m.closure
  BY DEF RootSet
<1> QED BY <1>2, <1>3, <1>4, <1>5, RootsWritten

LEMMA BuildStepIs ==
  ASSUME NEW m, Len(m.roots) \in Nat, NEW buf, Message(buf), NEW i \in 1..Len(buf.nodes), NEW m1,
         Built(m, buf, m1, i - 1)
  PROVE  Built(m, buf, BuildStep(Len(m.roots), buf, m1, i), i)
<1> DEFINE base == Len(m.roots)
           n == Len(buf.nodes)
           o == Blank(buf.nodes[i])
           a == Alloc(m1, o)
           m2 == a.vm
           m3 == [m2 EXCEPT !.roots[base + i] = a.at]
           l == Len(m2.objs)
           X == Pooled(m1, base, i - 1)
<1>0. n \in Nat /\ AnObject(buf.nodes[i]) BY DEF Message, IsSeq
<1>1. CASE m1.fault # "none" BY <1>1 DEF BuildStep, Built
<1>2. CASE m1.fault = "none"
  <2>1. BuildStep(base, buf, m1, i) = IF a.at = Nil THEN Fault(m2, "heap exhausted") ELSE m3
    BY <1>2 DEF BuildStep
  <2>2. /\ Good(m1, X) /\ m1.cfs = m.cfs /\ Len(m1.roots) = base + n
        /\ \A j \in 1..i - 1 : IsCopy(m1, m1.roots[base + j], buf.nodes[j])
        /\ \A j, k \in 1..i - 1 : m1.roots[base + j] = m1.roots[base + k] => j = k
    BY <1>2 DEF Built, Building
  <2>3. /\ AnObject(o) /\ o.kind = buf.nodes[i].kind /\ o.data = buf.nodes[i].data
        /\ Len(o.slots) = Len(buf.nodes[i].slots) /\ \A k \in 1..Len(o.slots) : Bare(o.slots[k])
    BY <1>0, EmptyIs
  <2> HIDE DEF o, X
  <2>4. IF a.at = Nil THEN \E Y : Good(m2, Y)
        ELSE \E g : Made(m1, o, m2, a.at, g) /\ Good(m2, {g[x] : x \in X} \cup {l})
    BY <2>2, <2>3, AllocGood
  <2> HIDE DEF a
  <2>5. CASE a.at = Nil
    <3> DEFINE f == Fault(m2, "heap exhausted")
    <3>1. PICK Y : Good(m2, Y) BY <2>4, <2>5
    <3>2. DOMAIN m2 = Fields BY <3>1 DEF Good, AMachine
    <3>3. f.fault = "heap exhausted" BY <3>2, FaultSet
    <3>4. Outcome(f) BY <3>1, FaultIs
    <3> HIDE DEF f
    <3>5. Built(m, buf, f, i) BY <3>3, <3>4 DEF Built, Outcome
    <3> QED BY <2>1, <2>5, <3>5 DEF f
  <2>6. CASE a.at # Nil
    <3>1. PICK g : Made(m1, o, m2, a.at, g) /\ Good(m2, {g[x] : x \in X} \cup {l}) BY <2>4, <2>6
    <3> DEFINE Y == {g[x] : x \in X} \cup {l}
    <3>2. /\ l \in Nat \ {0} /\ a.at = Ptr(m2.active, l) /\ AMachine(m2) /\ Later(m1, m2, g, l - 1)
          /\ m2.objs[l].kind = o.kind /\ m2.objs[l].data = o.data /\ m2.objs[l].slots = o.slots
      BY <3>1 DEF Made
    <3>3. RootSet(m2, m3, base + i, a.at) BY <3>2, RootSetIs
    <3> HIDE DEF m3
    <3>4. l \in 1..Len(m2.objs) BY <3>2
    <3>5. Fine(m2, a.at) BY <3>2, <3>4 DEF Fine
    <3>6. Good(m3, Y)
      <4> HIDE DEF Y
      <4> QED BY <3>1, <3>3, <3>5, RootSetGood DEF Y
    <3>7. /\ m3.active = m2.active /\ m3.objs = m2.objs /\ m3.cfs = m2.cfs /\ m3.fault = m2.fault
          /\ Len(m3.roots) = Len(m2.roots)
      BY <3>3 DEF RootSet
    <3>8. /\ Len(m2.roots) = base + n /\ m2.cfs = m.cfs /\ m2.fault = "none"
          /\ g \in [1..Len(m1.objs) -> 0..l - 1]
      BY <1>2, <2>2, <3>2 DEF Later, AllBecome
    <3>9. ASSUME NEW j \in 1..i - 1
          PROVE  \E x \in 1..Len(m1.objs) :
                   /\ m1.roots[base + j] = Ptr(m1.active, x)
                   /\ m3.roots[base + j] = Ptr(m3.active, g[x]) /\ g[x] \in 1..l - 1
                   /\ m3.objs[g[x]].kind = buf.nodes[j].kind
                   /\ m3.objs[g[x]].data = buf.nodes[j].data
                   /\ Len(m3.objs[g[x]].slots) = Len(buf.nodes[j].slots)
      <4> DEFINE r == base + j
      <4>0. j \in 1..i /\ j # i OBVIOUS
      <4>9. r \in 1..base + n /\ r # base + i BY <1>0, <4>0, PlaceIs
      <4>1. r \in 1..Len(m1.roots) /\ r \in 1..Len(m2.roots) /\ r # base + i
        BY <2>2, <3>8, <4>9
      <4>2. PICK x \in 1..Len(m1.objs) :
              /\ m1.roots[r] = Ptr(m1.active, x) /\ m1.objs[x].kind = buf.nodes[j].kind
              /\ m1.objs[x].data = buf.nodes[j].data
              /\ Len(m1.objs[x].slots) = Len(buf.nodes[j].slots)
        BY <2>2 DEF IsCopy
      <4>3. IsPtr(m1.roots[r]) /\ m1.roots[r][3] = x BY <4>2 DEF Ptr, IsPtr
      <4>4. Becomes(m2, g, m1.roots[r], m2.roots[r]) BY <3>2, <4>1 DEF Later, AllBecome
      <4>5. g[x] # 0 /\ m2.roots[r] = Ptr(m2.active, g[x]) BY <4>3, <4>4 DEF Becomes
      <4>6. g[x] \in 1..l - 1 BY <3>2, <3>8, <4>5
      <4>7. ObjectBecomes(m2, g, m1.objs[x], m2.objs[g[x]]) BY <3>2, <4>5 DEF Later
      <4>8. m3.roots[r] = m2.roots[r] BY <3>3, <4>1 DEF RootSet
      <4> QED BY <3>7, <4>2, <4>5, <4>6, <4>7, <4>8 DEF ObjectBecomes, AllBecome
    <3>10. m3.roots[base + i] = Ptr(m3.active, l)
      <4>0. i \in 1..i OBVIOUS
      <4>9. base + i \in 1..base + n BY <1>0, <4>0, PlaceIs
      <4>1. base + i \in 1..Len(m2.roots) BY <3>8, <4>9
      <4> QED BY <3>2, <3>3, <3>7, <4>1 DEF RootSet
    <3>11. \A j \in 1..i : j \in 1..i - 1 \/ j = i OBVIOUS
    <3>12. \A j \in 1..i : IsCopy(m3, m3.roots[base + j], buf.nodes[j])
      <4> TAKE j \in 1..i
      <4>1. CASE j = i BY <2>3, <3>2, <3>4, <3>7, <3>10, <4>1 DEF IsCopy
      <4>2. CASE j \in 1..i - 1
        <5>1. PICK y \in 1..l - 1 : /\ m3.roots[base + j] = Ptr(m3.active, y)
                                    /\ m3.objs[y].kind = buf.nodes[j].kind
                                    /\ m3.objs[y].data = buf.nodes[j].data
                                    /\ Len(m3.objs[y].slots) = Len(buf.nodes[j].slots)
          BY <3>9, <4>2
        <5>2. y \in 1..Len(m3.objs) BY <3>2, <3>7
        <5> QED BY <5>1, <5>2 DEF IsCopy
      <4> QED BY <3>11, <4>1, <4>2
    <3>13. \A j, k \in 1..i : m3.roots[base + j] = m3.roots[base + k] => j = k
      <4> SUFFICES ASSUME NEW j \in 1..i, NEW k \in 1..i, m3.roots[base + j] = m3.roots[base + k]
                   PROVE  j = k
        OBVIOUS
      <4>1. ASSUME NEW p \in 1..i - 1 PROVE m3.roots[base + p] # m3.roots[base + i]
        <5>1. PICK y \in 1..l - 1 : m3.roots[base + p] = Ptr(m3.active, y) BY <3>9
        <5>2. y # l BY <3>2
        <5> QED BY <3>10, <5>1, <5>2 DEF Ptr
      <4>2. CASE j \in 1..i - 1 /\ k \in 1..i - 1
        <5>1. PICK x \in 1..Len(m1.objs) :
                /\ m1.roots[base + j] = Ptr(m1.active, x)
                /\ m3.roots[base + j] = Ptr(m3.active, g[x]) /\ g[x] \in 1..l - 1
          BY <3>9, <4>2
        <5>2. PICK y \in 1..Len(m1.objs) :
                /\ m1.roots[base + k] = Ptr(m1.active, y)
                /\ m3.roots[base + k] = Ptr(m3.active, g[y]) /\ g[y] \in 1..l - 1
          BY <3>9, <4>2
        <5>0. g[x] = g[y] BY <5>1, <5>2, PtrIs
        <5>3. g[x] # 0 BY <3>2, <5>1
        <5>4. x = y BY <3>2, <5>0, <5>3 DEF Later
        <5> QED BY <2>2, <4>2, <5>1, <5>2, <5>4
      <4> QED BY <3>11, <4>1, <4>2
    <3>14. Y \subseteq Pooled(m3, base, i)
      <4> SUFFICES ASSUME NEW y \in Y PROVE y \in Pooled(m3, base, i) OBVIOUS
      <4>1. CASE y = l BY <3>4, <3>7, <3>10, <4>1 DEF Pooled
      <4>2. CASE y # l
        <5>1. PICK x \in X : y = g[x] BY <4>2
        <5>2. PICK j \in 1..i - 1 : m1.roots[base + j] = Ptr(m1.active, x) BY DEF X, Pooled
        <5>3. m3.roots[base + j] = Ptr(m3.active, y) /\ y \in 1..l - 1
          <6>1. PICK z \in 1..Len(m1.objs) :
                  /\ m1.roots[base + j] = Ptr(m1.active, z)
                  /\ m3.roots[base + j] = Ptr(m3.active, g[z]) /\ g[z] \in 1..l - 1
            BY <3>9
          <6>2. z = x BY <5>2, <6>1 DEF Ptr
          <6> QED BY <5>1, <6>1, <6>2
        <5>4. y \in 1..Len(m3.objs) /\ j \in 1..i BY <3>2, <3>7, <5>3
        <5> QED BY <5>3, <5>4 DEF Pooled
      <4> QED BY <4>1, <4>2
    <3>15. Good(m3, Pooled(m3, base, i))
      <4> HIDE DEF Y
      <4> QED BY <3>6, <3>14, GoodMore
    <3>16. Building(m, buf, m3, i) BY <3>7, <3>8, <3>12, <3>13, <3>15 DEF Building
    <3>17. m3.fault = "none" BY <3>7, <3>8
    <3>18. Built(m, buf, m3, i) BY <3>16, <3>17 DEF Built
    <3> QED BY <2>1, <2>6, <3>18 DEF m3
  <2> QED BY <2>5, <2>6
<1> QED BY <1>1, <1>2

\* f[i] is the machine after the first i nodes.
Builds(f, n, base, buf, m) ==
  f = [i \in 0..n |-> IF i = 0 THEN m ELSE BuildStep(base, buf, f[i - 1], i)]

LEMMA BuildsExist == ASSUME NEW n \in Nat, NEW base, NEW buf, NEW m PROVE \E f : Builds(f, n, base, buf, m)
<1> DEFINE T == {k \in Nat : \E f : Builds(f, k, base, buf, m)}
<1>1. 0 \in T
  <2> DEFINE f == [i \in 0..0 |-> m]
  <2>1. f = [i \in 0..0 |-> IF i = 0 THEN m ELSE BuildStep(base, buf, f[i - 1], i)] OBVIOUS
  <2> QED BY <2>1 DEF Builds
<1>2. ASSUME NEW k \in 1..n, k - 1 \in T PROVE k \in T
  <2>1. PICK f : Builds(f, k - 1, base, buf, m) BY <1>2
  <2> DEFINE h == [i \in 0..k |-> IF i = k THEN BuildStep(base, buf, f[k - 1], k) ELSE f[i]]
  <2>2. \A i \in 0..k : h[i] = IF i = 0 THEN m ELSE BuildStep(base, buf, h[i - 1], i)
    <3> TAKE i \in 0..k
    <3>1. CASE i = k
      <4>1. k # 0 /\ k - 1 \in 0..k /\ k - 1 # k /\ k \in 0..k OBVIOUS
      <4>2. h[k] = BuildStep(base, buf, f[k - 1], k) /\ h[k - 1] = f[k - 1] BY <4>1
      <4> HIDE DEF h
      <4> QED BY <3>1, <4>1, <4>2
    <3>2. CASE i # k
      <4>1. i \in 0..k - 1 /\ h[i] = f[i] BY <3>2
      <4>2. f[i] = IF i = 0 THEN m ELSE BuildStep(base, buf, f[i - 1], i) BY <2>1, <4>1 DEF Builds
      <4>3. i # 0 => i - 1 \in 0..k /\ i - 1 # k BY <4>1
      <4>4. i # 0 => h[i - 1] = f[i - 1] BY <4>3
      <4> HIDE DEF h
      <4> QED BY <4>1, <4>2, <4>4
    <3> QED BY <3>1, <3>2
  <2>3. h = [i \in 0..k |-> h[i]] OBVIOUS
  <2> HIDE DEF h
  <2>4. Builds(h, k, base, buf, m) BY <2>2, <2>3 DEF Builds
  <2> QED BY <2>4
<1>3. 0..n \subseteq T
  <2> HIDE DEF T
  <2> QED BY <1>1, <1>2, AllUpTo
<1> QED BY <1>3

Pool(m, buf) == [m EXCEPT !.roots = @ \o Slots(Len(buf.nodes))]

BuiltOf(m, buf) ==
  Loop(Len(buf.nodes), Pool(m, buf), LAMBDA m1, i : BuildStep(Len(m.roots), buf, m1, i))

LEMMA PoolIs ==
  ASSUME NEW m, Good(m, {}), m.fault = "none", NEW buf, Message(buf)
  PROVE  Built(m, buf, Pool(m, buf), 0)
<1> DEFINE n == Len(buf.nodes)
           roots == m.roots \o Slots(n)
           m1 == [m EXCEPT !.roots = roots]
<1>1. Pool(m, buf) = m1 BY DEF Pool
<1>2. n \in Nat /\ AMachine(m) /\ RootsFine(m) /\ IsSeq(m.roots) /\ Len(m.roots) \in Nat
      /\ DOMAIN m = Fields
  BY DEF Message, Good, AMachine, IsSeq
<1> HIDE DEF n
<1>3. IsSeq(Slots(n)) /\ Len(Slots(n)) = n /\ \A i \in 1..n : Slots(n)[i] = Undefined
  BY <1>2, SlotsAre
<1>4. /\ IsSeq(roots) /\ Len(roots) = Len(m.roots) + n
      /\ \A i \in 1..Len(m.roots) : roots[i] = m.roots[i]
      /\ \A i \in 1..n : roots[Len(m.roots) + i] = Undefined
  BY <1>2, <1>3, ConcatIs
<1> HIDE DEF roots
<1>5. /\ DOMAIN m1 = Fields /\ m1.roots = roots /\ m1.interned = m.interned
      /\ m1.objs = m.objs /\ m1.active = m.active /\ m1.regs = m.regs /\ m1.window = m.window
      /\ m1.cfs = m.cfs /\ m1.rets = m.rets /\ m1.closure = m.closure /\ m1.fault = m.fault
  BY <1>2 DEF Fields
<1> HIDE DEF m1
<1>6. \A i \in 1..Len(roots) : Fine(m, roots[i])
  <2> TAKE i \in 1..Len(roots)
  <2>1. CASE i <= Len(m.roots) BY <1>2, <1>4, <2>1 DEF RootsFine
  <2>2. CASE i > Len(m.roots)
    <3>1. i - Len(m.roots) \in 1..n /\ Len(m.roots) + (i - Len(m.roots)) = i BY <1>2, <1>4, <2>2
    <3> QED BY <1>4, <3>1, Immediates
  <2> QED BY <1>2, <2>1, <2>2
<1>7. Good(m1, {}) BY <1>2, <1>4, <1>5, <1>6, RootsWritten DEF AMachine, RootsFine
<1>8. Good(m1, Pooled(m1, Len(m.roots), 0)) BY <1>7, GoodMore
<1>9. Building(m, buf, m1, 0)
  <2>1. \A j \in 1..0 : FALSE OBVIOUS
  <2>2. m1.cfs = m.cfs /\ Len(m1.roots) = Len(m.roots) + Len(buf.nodes) BY <1>4, <1>5 DEF n
  <2> QED BY <1>8, <2>1, <2>2 DEF Building
<1> QED BY <1>1, <1>5, <1>9 DEF Built

LEMMA BuiltIs ==
  ASSUME NEW m, Good(m, {}), m.fault = "none", NEW buf, Message(buf)
  PROVE  Built(m, buf, BuiltOf(m, buf), Len(buf.nodes))
<1> DEFINE n == Len(buf.nodes)
           base == Len(m.roots)
           p == Pool(m, buf)
           F == CHOOSE f : f = [i \in 0..n |-> IF i = 0 THEN p ELSE BuildStep(base, buf, f[i - 1], i)]
<1>0. n \in Nat /\ base \in Nat BY DEF Message, IsSeq, Good, AMachine
<1>1. BuiltOf(m, buf) = F[n] BY Zenon DEF BuiltOf, Loop
<1> HIDE DEF p
<1>2. Builds(F, n, base, buf, p)
  <2>1. \E f : Builds(f, n, base, buf, p) BY <1>0, BuildsExist
  <2>2. \E f : f = [i \in 0..n |-> IF i = 0 THEN p ELSE BuildStep(base, buf, f[i - 1], i)]
    BY <2>1, Zenon DEF Builds
  <2> QED BY <2>2, Zenon DEF Builds
<1> HIDE DEF F
<1>3. \A i \in 0..n : F[i] = IF i = 0 THEN p ELSE BuildStep(base, buf, F[i - 1], i)
  BY <1>2 DEF Builds
<1> DEFINE T == {i \in 0..n : Built(m, buf, F[i], i)}
<1>4. 0 \in T
  <2>1. F[0] = p BY <1>0, <1>3
  <2> QED BY <1>0, <2>1, PoolIs DEF p
<1>5. ASSUME NEW i \in 1..n, i - 1 \in T PROVE i \in T
  <2>1. F[i] = BuildStep(base, buf, F[i - 1], i) BY <1>3
  <2>2. Built(m, buf, F[i - 1], i - 1) BY <1>5
  <2>3. Built(m, buf, F[i], i) BY <1>0, <2>1, <2>2, BuildStepIs
  <2> QED BY <2>3
<1>6. 0..n \subseteq T
  <2> HIDE DEF T
  <2> QED BY <1>0, <1>4, <1>5, AllUpTo
<1> QED BY <1>0, <1>1, <1>6

\* A slot of a copy: a reference to node k is the address of its copy.
Here(m1, base, v) == IF v[1] = "node" THEN m1.roots[base + v[2]] ELSE v

\* Not at the top, so that its domain stays a name.
HereAll(m1, base, o) == [k \in DOMAIN o.slots |-> Here(m1, base, o.slots[k])]

PatchStep(base, buf, m1, i) ==
  SetSlots(m1, m1.roots[base + i], HereAll(m1, base, buf.nodes[i]))

\* b after the slots of the first i copies have been written.
Patched(base, buf, b, m1, i) ==
  /\ Good(m1, Pooled(b, base, Len(buf.nodes)))
  /\ m1.roots = b.roots /\ m1.active = b.active /\ m1.cfs = b.cfs /\ Len(m1.objs) = Len(b.objs)
  /\ \A x \in 1..Len(b.objs) : /\ m1.objs[x].kind = b.objs[x].kind
                               /\ m1.objs[x].data = b.objs[x].data
                               /\ Len(m1.objs[x].slots) = Len(b.objs[x].slots)
  /\ \A j \in 1..i : \A x \in 1..Len(b.objs) :
       b.roots[base + j] = Ptr(b.active, x) =>
         \A k \in 1..Len(buf.nodes[j].slots) :
           m1.objs[x].slots[k] = Here(b, base, buf.nodes[j].slots[k])

LEMMA SentHere ==
  ASSUME NEW m, NEW buf, NEW b, NEW n, Building(m, buf, b, n), n = Len(buf.nodes), NEW w, Sent(n, w)
  PROVE  /\ Fine(b, Here(b, Len(m.roots), w)) /\ (Bare(w) => Here(b, Len(m.roots), w) = w)
         /\ \A i \in 1..n : w = <<"node", i>> =>
              \E x \in 1..Len(b.objs) :
                /\ Here(b, Len(m.roots), w) = Ptr(b.active, x)
                /\ b.objs[x].kind = buf.nodes[i].kind
                /\ Len(b.objs[x].slots) = Len(buf.nodes[i].slots)
<1> DEFINE h == Here(b, Len(m.roots), w)
<1>1. ASSUME NEW i \in 1..n, w = <<"node", i>>
      PROVE  \E x \in 1..Len(b.objs) : /\ h = Ptr(b.active, x)
                                       /\ b.objs[x].kind = buf.nodes[i].kind
                                       /\ Len(b.objs[x].slots) = Len(buf.nodes[i].slots)
  <2>1. w[1] = "node" /\ w[2] = i BY <1>1
  <2>2. h = b.roots[Len(m.roots) + i] BY <2>1 DEF Here
  <2>3. IsCopy(b, b.roots[Len(m.roots) + i], buf.nodes[i]) BY DEF Building
  <2> HIDE DEF h
  <2> QED BY <2>2, <2>3 DEF IsCopy
<1>2. Bare(w) => h = w BY DEF Bare, Here
<1> HIDE DEF h
<1>3. Fine(b, h)
  <2>1. CASE Bare(w) BY <1>2, <2>1 DEF Fine
  <2>2. CASE ~Bare(w)
    <3>1. PICK i \in 1..n : w = <<"node", i>> BY <2>2 DEF Sent
    <3>2. PICK x \in 1..Len(b.objs) : h = Ptr(b.active, x) BY <1>1, <3>1
    <3> QED BY <3>2 DEF Fine
  <2> QED BY <2>1, <2>2
<1> QED BY <1>1, <1>2, <1>3 DEF h

LEMMA HereAllIs ==
  ASSUME NEW m1, NEW base, NEW o, AnObject(o)
  PROVE  /\ IsSeq(HereAll(m1, base, o)) /\ Len(HereAll(m1, base, o)) = Len(o.slots)
         /\ \A k \in 1..Len(o.slots) : HereAll(m1, base, o)[k] = Here(m1, base, o.slots[k])
<1> DEFINE n == Len(o.slots)
           s == HereAll(m1, base, o)
<1>1. n \in Nat /\ DOMAIN o.slots = 1..n BY DEF AnObject, IsSeq
<1>2. s = [k \in 1..n |-> s[k]] /\ \A k \in 1..n : s[k] = Here(m1, base, o.slots[k])
  BY <1>1 DEF HereAll
<1> HIDE DEF s, n
<1>3. IsSeq(s) /\ Len(s) = n BY <1>1, <1>2, MakeSeq
<1> QED BY <1>2, <1>3 DEF s, n

LEMMA PatchStepIs ==
  ASSUME NEW m, Len(m.roots) \in Nat, NEW buf, Message(buf), NEW b,
         Building(m, buf, b, Len(buf.nodes)), NEW i \in 1..Len(buf.nodes), NEW m1,
         Patched(Len(m.roots), buf, b, m1, i - 1)
  PROVE  Patched(Len(m.roots), buf, b, PatchStep(Len(m.roots), buf, m1, i), i)
<1> DEFINE base == Len(m.roots)
           n == Len(buf.nodes)
           o == buf.nodes[i]
           s == HereAll(m1, base, o)
           X == Pooled(b, base, n)
           m2 == PatchStep(base, buf, m1, i)
<1>0. /\ n \in Nat /\ AnObject(o)
      /\ \A k \in 1..Len(o.slots) : Sent(n, o.slots[k])
  BY DEF Message, IsSeq
<1>1. /\ Good(m1, X) /\ m1.roots = b.roots /\ m1.active = b.active /\ m1.cfs = b.cfs
      /\ Len(m1.objs) = Len(b.objs)
      /\ \A x \in 1..Len(b.objs) : /\ m1.objs[x].kind = b.objs[x].kind
                                   /\ m1.objs[x].data = b.objs[x].data
                                   /\ Len(m1.objs[x].slots) = Len(b.objs[x].slots)
      /\ \A j \in 1..i - 1 : \A x \in 1..Len(b.objs) :
           b.roots[base + j] = Ptr(b.active, x) =>
             \A k \in 1..Len(buf.nodes[j].slots) :
               m1.objs[x].slots[k] = Here(b, base, buf.nodes[j].slots[k])
  BY DEF Patched
<1>2. PICK x \in 1..Len(b.objs) : /\ b.roots[base + i] = Ptr(b.active, x)
                                  /\ Len(b.objs[x].slots) = Len(o.slots)
  BY DEF Building, IsCopy
<1>3. \A v : Here(m1, base, v) = Here(b, base, v) BY <1>1 DEF Here
<1>4. /\ IsSeq(s) /\ Len(s) = Len(o.slots)
      /\ \A k \in 1..Len(o.slots) : s[k] = Here(b, base, o.slots[k])
  BY <1>0, <1>3, HereAllIs
<1>5. m2 = SetSlots(m1, Ptr(m1.active, x), s) BY <1>1, <1>2 DEF PatchStep
<1> HIDE DEF m2, s
<1>6. AMachine(m1) /\ x \in 1..Len(m1.objs) BY <1>1 DEF Good
<1>7. Rewritten(m1, m2, x, s) BY <1>5, <1>6, SetSlotsIs
<1>8. \A k \in 1..Len(s) : Fine(m1, s[k])
  <2> TAKE k \in 1..Len(s)
  <2>1. Fine(b, Here(b, base, o.slots[k])) BY <1>0, <1>4, SentHere
  <2>2. \A v : Fine(m1, v) <=> Fine(b, v) BY <1>1, FineSame
  <2> QED BY <1>4, <2>1, <2>2
<1>9. x \in X
  <2>1. x \in 1..Len(b.objs) /\ b.roots[base + i] = Ptr(b.active, x) BY <1>2
  <2> QED BY <2>1 DEF Pooled
<1>10. Len(s) = Len(m1.objs[x].slots) BY <1>1, <1>2, <1>4
<1> HIDE DEF X
<1>11. Good(m2, X \cup {x}) BY <1>1, <1>4, <1>6, <1>7, <1>8, <1>10, RewrittenGood
<1>12. X \cup {x} = X BY <1>9
<1>13. Good(m2, X) BY <1>11, <1>12
<1>14. /\ m2.roots = b.roots /\ m2.active = b.active /\ m2.cfs = b.cfs
       /\ Len(m2.objs) = Len(b.objs)
       /\ \A y \in 1..Len(b.objs) : y # x => m2.objs[y] = m1.objs[y]
       /\ m2.objs[x].kind = m1.objs[x].kind /\ m2.objs[x].data = m1.objs[x].data
       /\ m2.objs[x].slots = s
  BY <1>1, <1>7 DEF Rewritten
<1>15. \A y \in 1..Len(b.objs) : /\ m2.objs[y].kind = b.objs[y].kind
                                 /\ m2.objs[y].data = b.objs[y].data
                                 /\ Len(m2.objs[y].slots) = Len(b.objs[y].slots)
  <2> TAKE y \in 1..Len(b.objs)
  <2>1. CASE y = x BY <1>1, <1>10, <1>14, <2>1
  <2>2. CASE y # x BY <1>1, <1>14, <2>2
  <2> QED BY <2>1, <2>2
<1>16. ASSUME NEW j \in 1..i, NEW y \in 1..Len(b.objs), b.roots[base + j] = Ptr(b.active, y),
              NEW k \in 1..Len(buf.nodes[j].slots)
       PROVE  m2.objs[y].slots[k] = Here(b, base, buf.nodes[j].slots[k])
  <2>1. CASE j = i
    <3>1. y = x BY <1>2, <1>16, <2>1, PtrIs
    <3> QED BY <1>4, <1>14, <2>1, <3>1
  <2>2. CASE j # i
    <3>1. j \in 1..i - 1 /\ j \in 1..n /\ i \in 1..n BY <1>0, <2>2
    <3>2. b.roots[base + j] # b.roots[base + i] BY <2>2, <3>1 DEF Building
    <3>3. y # x BY <1>2, <1>16, <3>2
    <3> QED BY <1>1, <1>14, <1>16, <3>1, <3>3
  <2> QED BY <2>1, <2>2
<1>17. Patched(base, buf, b, m2, i) BY <1>13, <1>14, <1>15, <1>16 DEF Patched, X
<1> QED BY <1>17 DEF m2

\* f[i] is the machine after the first i copies have been written.
Patches(f, n, base, buf, m) ==
  f = [i \in 0..n |-> IF i = 0 THEN m ELSE PatchStep(base, buf, f[i - 1], i)]

LEMMA PatchesExist == ASSUME NEW n \in Nat, NEW base, NEW buf, NEW m PROVE \E f : Patches(f, n, base, buf, m)
<1> DEFINE T == {k \in Nat : \E f : Patches(f, k, base, buf, m)}
<1>1. 0 \in T
  <2> DEFINE f == [i \in 0..0 |-> m]
  <2>1. f = [i \in 0..0 |-> IF i = 0 THEN m ELSE PatchStep(base, buf, f[i - 1], i)] OBVIOUS
  <2> QED BY <2>1 DEF Patches
<1>2. ASSUME NEW k \in 1..n, k - 1 \in T PROVE k \in T
  <2>1. PICK f : Patches(f, k - 1, base, buf, m) BY <1>2
  <2> DEFINE h == [i \in 0..k |-> IF i = k THEN PatchStep(base, buf, f[k - 1], k) ELSE f[i]]
  <2>2. \A i \in 0..k : h[i] = IF i = 0 THEN m ELSE PatchStep(base, buf, h[i - 1], i)
    <3> TAKE i \in 0..k
    <3>1. CASE i = k
      <4>1. k # 0 /\ k - 1 \in 0..k /\ k - 1 # k /\ k \in 0..k OBVIOUS
      <4>2. h[k] = PatchStep(base, buf, f[k - 1], k) /\ h[k - 1] = f[k - 1] BY <4>1
      <4> HIDE DEF h
      <4> QED BY <3>1, <4>1, <4>2
    <3>2. CASE i # k
      <4>1. i \in 0..k - 1 /\ h[i] = f[i] BY <3>2
      <4>2. f[i] = IF i = 0 THEN m ELSE PatchStep(base, buf, f[i - 1], i) BY <2>1, <4>1 DEF Patches
      <4>3. i # 0 => i - 1 \in 0..k /\ i - 1 # k BY <4>1
      <4>4. i # 0 => h[i - 1] = f[i - 1] BY <4>3
      <4> HIDE DEF h
      <4> QED BY <4>1, <4>2, <4>4
    <3> QED BY <3>1, <3>2
  <2>3. h = [i \in 0..k |-> h[i]] OBVIOUS
  <2> HIDE DEF h
  <2>4. Patches(h, k, base, buf, m) BY <2>2, <2>3 DEF Patches
  <2> QED BY <2>4
<1>3. 0..n \subseteq T
  <2> HIDE DEF T
  <2> QED BY <1>1, <1>2, AllUpTo
<1> QED BY <1>3

PatchedOf(m, buf, b) ==
  Loop(Len(buf.nodes), b, LAMBDA m1, i : PatchStep(Len(m.roots), buf, m1, i))

LEMMA PatchedIs ==
  ASSUME NEW m, Len(m.roots) \in Nat, NEW buf, Message(buf), NEW b,
         Building(m, buf, b, Len(buf.nodes))
  PROVE  Patched(Len(m.roots), buf, b, PatchedOf(m, buf, b), Len(buf.nodes))
<1> DEFINE n == Len(buf.nodes)
           base == Len(m.roots)
           F == CHOOSE f : f = [i \in 0..n |-> IF i = 0 THEN b ELSE PatchStep(base, buf, f[i - 1], i)]
<1>0. n \in Nat BY DEF Message, IsSeq
<1>1. PatchedOf(m, buf, b) = F[n] BY Zenon DEF PatchedOf, Loop
<1>2. Patches(F, n, base, buf, b)
  <2>1. \E f : Patches(f, n, base, buf, b) BY <1>0, PatchesExist
  <2>2. \E f : f = [i \in 0..n |-> IF i = 0 THEN b ELSE PatchStep(base, buf, f[i - 1], i)]
    BY <2>1, Zenon DEF Patches
  <2> QED BY <2>2, Zenon DEF Patches
<1> HIDE DEF F
<1>3. \A i \in 0..n : F[i] = IF i = 0 THEN b ELSE PatchStep(base, buf, F[i - 1], i)
  BY <1>2 DEF Patches
<1> DEFINE T == {i \in 0..n : Patched(base, buf, b, F[i], i)}
<1>4. 0 \in T
  <2>1. F[0] = b BY <1>0, <1>3
  <2>2. \A j \in 1..0 : FALSE OBVIOUS
  <2>3. Patched(base, buf, b, b, 0) BY <2>2 DEF Patched, Building
  <2> QED BY <1>0, <2>1, <2>3
<1>5. ASSUME NEW i \in 1..n, i - 1 \in T PROVE i \in T
  <2>1. F[i] = PatchStep(base, buf, F[i - 1], i) BY <1>3
  <2>2. Patched(base, buf, b, F[i - 1], i - 1) BY <1>5
  <2>3. Patched(base, buf, b, F[i], i) BY <2>1, <2>2, PatchStepIs
  <2> QED BY <2>3
<1>6. 0..n \subseteq T
  <2> HIDE DEF T
  <2> QED BY <1>0, <1>4, <1>5, AllUpTo
<1> QED BY <1>0, <1>1, <1>6

\* When all slots have been written, every copy is complete.
LEMMA PatchedWhole ==
  ASSUME NEW m, NEW buf, Message(buf), NEW b, NEW n, n = Len(buf.nodes), Building(m, buf, b, n),
         NEW m1, Patched(Len(m.roots), buf, b, m1, n)
  PROVE  Good(m1, {})
<1> DEFINE base == Len(m.roots)
           X == Pooled(b, base, n)
<1>1. /\ Good(m1, X) /\ m1.active = b.active /\ Len(m1.objs) = Len(b.objs)
      /\ \A x \in 1..Len(b.objs) : /\ m1.objs[x].kind = b.objs[x].kind
                                   /\ m1.objs[x].data = b.objs[x].data
                                   /\ Len(m1.objs[x].slots) = Len(b.objs[x].slots)
  BY DEF Patched
<1>2. ASSUME NEW x \in X PROVE Whole(m1, m1.objs[x])
  <2>1. x \in 1..Len(b.objs) /\ \E j \in 1..n : b.roots[base + j] = Ptr(b.active, x) BY DEF Pooled
  <2>2. PICK j \in 1..n : b.roots[base + j] = Ptr(b.active, x) BY <2>1
  <2> DEFINE o == buf.nodes[j]
             e == m1.objs[x]
  <2>3. /\ AnObject(o) /\ SentWhole(buf, o) /\ \A k \in 1..Len(o.slots) : Sent(n, o.slots[k])
    BY DEF Message
  <2>4. b.objs[x].kind = o.kind /\ b.objs[x].data = o.data
        /\ Len(b.objs[x].slots) = Len(o.slots)
    <3>1. PICK y \in 1..Len(b.objs) :
            /\ b.roots[base + j] = Ptr(b.active, y) /\ b.objs[y].kind = o.kind
            /\ b.objs[y].data = o.data /\ Len(b.objs[y].slots) = Len(o.slots)
      BY DEF Building, IsCopy
    <3>2. y = x BY <2>2, <3>1, PtrIs
    <3> QED BY <3>1, <3>2
  <2>5. e.kind = o.kind /\ e.data = o.data /\ Len(e.slots) = Len(o.slots) BY <1>1, <2>1, <2>4
  <2>6. \A k \in 1..Len(o.slots) : e.slots[k] = Here(b, base, o.slots[k])
    BY <2>1, <2>2 DEF Patched
  <2> HIDE DEF o, e
  <2>7. ASSUME SentBacked(buf, o), Len(o.slots) >= 2, Len(o.slots) \in Nat
        PROVE  /\ Backed(m1, e) /\ SizeAt(m1, e.slots[1]) = SentSize(buf, o.slots[1])
               /\ e.slots[2] = o.slots[2]
    <3>1. PICK i \in 1..n : o.slots[1] = <<"node", i>> /\ buf.nodes[i].kind = "array"
      BY <2>7 DEF SentBacked
    <3>2. Bare(o.slots[2]) /\ o.slots[2][2] \in Int BY <2>7 DEF SentBacked
    <3>3. 1 \in 1..Len(o.slots) /\ 2 \in 1..Len(o.slots) BY <2>7
    <3>4. e.slots[2] = o.slots[2] BY <2>3, <2>6, <3>2, <3>3, SentHere
    <3>5. PICK y \in 1..Len(b.objs) : /\ Here(b, base, o.slots[1]) = Ptr(b.active, y)
                                      /\ b.objs[y].kind = buf.nodes[i].kind
                                      /\ Len(b.objs[y].slots) = Len(buf.nodes[i].slots)
      <4> DEFINE w == o.slots[1]
      <4>1. Sent(n, w) BY <2>3, <3>3
      <4> HIDE DEF w
      <4>2. \A h \in 1..n : w = <<"node", h>> =>
              \E y \in 1..Len(b.objs) : /\ Here(b, base, w) = Ptr(b.active, y)
                                        /\ b.objs[y].kind = buf.nodes[h].kind
                                        /\ Len(b.objs[y].slots) = Len(buf.nodes[h].slots)
        BY <4>1, SentHere
      <4> QED BY <3>1, <4>2 DEF w
    <3>6. e.slots[1] = Ptr(m1.active, y) /\ y \in 1..Len(m1.objs) BY <1>1, <2>6, <3>3, <3>5
    <3>7. /\ ~Bare(e.slots[1]) /\ Fine(m1, e.slots[1]) /\ At(m1, e.slots[1]) = m1.objs[y]
      BY <3>6, LiveIs
    <3>8. m1.objs[y].kind = "array" /\ Len(m1.objs[y].slots) = Len(buf.nodes[i].slots)
      BY <1>1, <3>1, <3>5
    <3>9. SizeAt(m1, e.slots[1]) = Len(buf.nodes[i].slots) BY <3>7, <3>8 DEF SizeAt
    <3>10. o.slots[1][2] = i BY <3>1
    <3>11. SentSize(buf, o.slots[1]) = Len(buf.nodes[i].slots) BY <3>10 DEF SentSize
    <3> QED BY <3>2, <3>4, <3>7, <3>8, <3>9, <3>11 DEF Backed
  <2>8. ASSUME e.kind = "vec"
        PROVE  /\ Len(e.slots) = 2 /\ Backed(m1, e) /\ e.slots[2][2] \in 0..SizeAt(m1, e.slots[1])
    <3>1. Len(o.slots) = 2 /\ SentBacked(buf, o) /\ o.slots[2][2] \in 0..SentSize(buf, o.slots[1])
      BY <2>3, <2>5, <2>8 DEF SentWhole
    <3>2. /\ Backed(m1, e) /\ SizeAt(m1, e.slots[1]) = SentSize(buf, o.slots[1])
          /\ e.slots[2] = o.slots[2]
      BY <2>7, <3>1
    <3> QED BY <2>5, <3>1, <3>2
  <2>9. ASSUME e.kind = "map"
        PROVE  /\ Len(e.slots) = 3 /\ Backed(m1, e) /\ Bare(e.slots[3])
               /\ \E c \in 0..SizeAt(m1, e.slots[1]) : SizeAt(m1, e.slots[1]) = 2 * c
    <3>1. /\ Len(o.slots) = 3 /\ SentBacked(buf, o) /\ Bare(o.slots[3])
          /\ \E c \in 0..SentSize(buf, o.slots[1]) : SentSize(buf, o.slots[1]) = 2 * c
      BY <2>3, <2>5, <2>9 DEF SentWhole
    <3>2. Backed(m1, e) /\ SizeAt(m1, e.slots[1]) = SentSize(buf, o.slots[1]) BY <2>7, <3>1
    <3>3. 3 \in 1..Len(o.slots) BY <3>1
    <3>4. e.slots[3] = o.slots[3] BY <2>3, <2>6, <3>1, <3>3, SentHere
    <3> QED BY <2>5, <3>1, <3>2, <3>4
  <2>10. e.kind = "closure" => e.data[1] \in DOMAIN Fns BY <2>3, <2>5 DEF SentWhole
  <2>11. Whole(m1, e) BY <2>8, <2>9, <2>10 DEF Whole
  <2> QED BY <2>11 DEF e
<1> HIDE DEF X
<1> QED BY <1>1, <1>2 DEF Good

DoneOf(m, buf) ==
  IF BuiltOf(m, buf).fault # "none" THEN BuiltOf(m, buf) ELSE PatchedOf(m, buf, BuiltOf(m, buf))

LEMMA DoneIs ==
  ASSUME NEW m, Good(m, {}), m.fault = "none", NEW buf, Message(buf),
         NEW d, d = DoneOf(m, buf)
  PROVE  \/ d.fault # "none" /\ \E X : Good(d, X)
         \/ /\ Good(d, {}) /\ d.cfs = m.cfs /\ Len(d.roots) = Len(m.roots) + Len(buf.nodes)
            /\ Fine(d, Here(d, Len(m.roots), buf.root))
<1> DEFINE n == Len(buf.nodes)
           b == BuiltOf(m, buf)
           base == Len(m.roots)
<1>1. Built(m, buf, b, n) BY BuiltIs
<1>2. base \in Nat BY DEF Good, AMachine, IsSeq
<1> HIDE DEF b
<1>3. CASE b.fault # "none"
  <2>1. d = b BY <1>3 DEF DoneOf, b
  <2> QED BY <1>1, <1>3, <2>1 DEF Built
<1>4. CASE b.fault = "none"
  <2>1. d = PatchedOf(m, buf, b) BY <1>4 DEF DoneOf, b
  <2>2. Building(m, buf, b, n) BY <1>1, <1>4 DEF Built
  <2>3. Patched(base, buf, b, d, n) BY <1>2, <2>1, <2>2, PatchedIs
  <2>4. Good(d, {}) BY <2>2, <2>3, PatchedWhole
  <2>5. d.roots = b.roots /\ d.active = b.active /\ d.cfs = b.cfs /\ Len(d.objs) = Len(b.objs)
    BY <2>3 DEF Patched
  <2>6. b.cfs = m.cfs /\ Len(b.roots) = base + n BY <2>2 DEF Building
  <2>7. Sent(n, buf.root) BY DEF Message
  <2>8. Fine(b, Here(b, base, buf.root)) BY <2>2, <2>7, SentHere
  <2>9. Here(d, base, buf.root) = Here(b, base, buf.root) BY <2>5 DEF Here
  <2>10. Fine(d, Here(d, base, buf.root)) BY <2>5, <2>8, <2>9, FineSame
  <2> QED BY <2>4, <2>5, <2>6, <2>10
<1> QED BY <1>3, <1>4

LEMMA RebuiltIs ==
  ASSUME NEW m, NEW buf
  PROVE  /\ Rebuilt(m, buf).vm = DoneOf(m, buf)
         /\ Rebuilt(m, buf).root = Here(DoneOf(m, buf), Len(m.roots), buf.root)
<1>1. Rebuilt(m, buf) = [vm   |-> DoneOf(m, buf),
                         root |-> Here(DoneOf(m, buf), Len(m.roots), buf.root)]
  BY Zenon DEF Rebuilt, DoneOf, Here, PatchedOf, PatchStep, HereAll, BuiltOf, BuildStep, Blank, Pool,
               Allocated
<1> QED BY <1>1

LEMMA SumIs == \A a, b \in Nat : \A c : c = a + b => a \in 0..c
OBVIOUS

LEMMA SendToSelfKeeps ==
  ASSUME MachineInv, NEW rd \in Frame, NEW ra \in Frame, SendToSelf(rd, ra)
  PROVE  MachineInv'
<1> DEFINE buf == Encode(vm, Reg(vm, ra))
           r == Rebuilt(vm, buf)
           d == r.vm
           m1 == SetReg(d, rd, r.root)
           m2 == [m1 EXCEPT !.roots = SubSeq(m1.roots, 1, Len(vm.roots))]
           m == IF HasClosure(buf) THEN Fault(vm, "a closure cannot be copied")
                ELSE IF d.fault # "none" THEN d
                ELSE IF ~WellFormed(buf) THEN Fault(vm, "malformed message")
                ELSE m2
<1>1. Ready("send") /\ Do(m) BY DEF SendToSelf
<1>2. Steady BY <1>1, ReadyIs
<1>3. Good(vm, {}) /\ Len(program.texts) <= Len(vm.roots) /\ vm.fault = "none" BY <1>2 DEF Steady
<1>4. rd \in 0..vm.cfs - 1 /\ Fine(vm, Reg(vm, ra)) BY <1>3, RegisterIs DEF Frame
<1>5. Message(buf) BY <1>3, <1>4, EncodeIs
<1> HIDE DEF buf
<1>6. d = DoneOf(vm, buf) /\ r.root = Here(d, Len(vm.roots), buf.root) BY RebuiltIs
<1> HIDE DEF r
<1>7. \/ d.fault # "none" /\ \E X : Good(d, X)
      \/ /\ Good(d, {}) /\ d.cfs = vm.cfs /\ Len(d.roots) = Len(vm.roots) + Len(buf.nodes)
         /\ Fine(d, r.root)
  BY <1>3, <1>5, <1>6, DoneIs
<1>8. Outcome(Fault(vm, "a closure cannot be copied")) /\ Outcome(Fault(vm, "malformed message"))
  BY <1>3, FaultIs
<1>9. CASE d.fault # "none" /\ \E X : Good(d, X)
  <2>1. Outcome(d) BY <1>9 DEF Outcome
  <2>2. Outcome(m) BY <1>8, <1>9, <2>1
  <2> HIDE DEF m
  <2> QED BY <1>1, <2>2, DoKeeps
<1>10. CASE /\ Good(d, {}) /\ d.cfs = vm.cfs /\ Len(d.roots) = Len(vm.roots) + Len(buf.nodes)
            /\ Fine(d, r.root)
  <2>1. Good(m1, {}) /\ OtherRegs(d, m1) BY <1>4, <1>10, SetRegGood
  <2> HIDE DEF m1
  <2> DEFINE s == SubSeq(m1.roots, 1, Len(vm.roots))
  <2>2. AMachine(m1) /\ RootsFine(m1) /\ m1.roots = d.roots /\ IsSeq(m1.roots)
        /\ IsSeq(m1.interned) /\ DOMAIN m1 = Fields
    BY <2>1 DEF Good, AMachine, OtherRegs
  <2>3. Len(vm.roots) \in 0..Len(m1.roots)
    <3>1. Len(vm.roots) \in Nat /\ Len(buf.nodes) \in Nat BY <1>3, <1>5 DEF Good, AMachine, IsSeq, Message
    <3>2. Len(m1.roots) = Len(vm.roots) + Len(buf.nodes) BY <1>10, <2>2
    <3> QED BY <3>1, <3>2, SumIs
  <2>4. IsSeq(s) /\ Len(s) = Len(vm.roots) /\ \A i \in 1..Len(vm.roots) : s[i] = m1.roots[i]
    BY <2>2, <2>3, StartOf
  <2>5. m2 = [m1 EXCEPT !.roots = s] OBVIOUS
  <2> HIDE DEF s, m2
  <2>6. /\ DOMAIN m2 = Fields /\ m2.roots = s /\ m2.interned = m1.interned
        /\ m2.objs = m1.objs /\ m2.active = m1.active /\ m2.regs = m1.regs
        /\ m2.window = m1.window /\ m2.cfs = m1.cfs /\ m2.rets = m1.rets
        /\ m2.closure = m1.closure
    BY <2>2, <2>5 DEF Fields
  <2>7. \A i \in 1..Len(s) : Fine(m1, s[i])
    <3> TAKE i \in 1..Len(s)
    <3>1. i \in 1..Len(m1.roots) BY <2>3, <2>4
    <3> QED BY <2>2, <2>4, <3>1 DEF RootsFine
  <2>8. \A i \in 1..Len(m1.interned) : Fine(m1, m1.interned[i]) BY <2>2 DEF RootsFine
  <2>9. Good(m2, {}) BY <2>1, <2>2, <2>4, <2>6, <2>7, <2>8, RootsWritten
  <2>10. Len(program.texts) <= Len(m2.roots) BY <1>3, <2>4, <2>6
  <2>11. Outcome(m2) BY <2>9, <2>10 DEF Outcome
  <2>12. d.fault # "none" => Outcome(d) BY <1>10 DEF Outcome
  <2>13. Outcome(m) BY <1>8, <2>11, <2>12
  <2> HIDE DEF m
  <2> QED BY <1>1, <2>13, DoKeeps
<1> QED BY <1>7, <1>9, <1>10

-----------------------------------------------------------------------------
(* The invariant of the specification.                                     *)

LEMMA StartGood ==
  ASSUME NEW p \in Programs
  PROVE  Good(Start(p), {}) /\ Len(p.texts) <= Len(Start(p).roots)
<1> DEFINE m == Start(p)
           n == Len(p.texts)
<1>1. n \in Nat /\ RegSpace \in Nat BY MachineAssumption
<1>2. 1 \in DOMAIN Fns
  <2>1. Fns \in Seq([frame : Nat, arity : Nat, captures : Nat, self : Nat]) /\ Fns # <<>> BY MachineAssumption
  <2> QED BY <2>1
<1>3. TopFrame \in Nat /\ TopFrame <= RegSpace BY <1>2, FunctionIs DEF TopFrame
<1>4. /\ DOMAIN m = Fields /\ m.objs = <<>> /\ m.active = 0 /\ m.rets = <<>> /\ m.interned = <<>>
      /\ m.regs = [r \in 0..RegSpace - 1 |-> Undefined] /\ m.window = 0 /\ m.cfs = TopFrame
      /\ m.closure = Undefined /\ m.roots = Slots(n)
  BY DEF Start, Fields
<1>5. IsSeq(<<>>) /\ Len(<<>>) = 0 BY DEF IsSeq
<1>6. IsSeq(m.roots) /\ Len(m.roots) = n /\ \A i \in 1..n : m.roots[i] = Undefined BY <1>1, <1>4, SlotsAre
<1> HIDE DEF m, n
<1>7. m.regs = [r \in 0..RegSpace - 1 |-> m.regs[r]] /\ \A r \in 0..RegSpace - 1 : m.regs[r] = Undefined
  BY <1>4
<1>8. Bare(Undefined) /\ Fine(m, Undefined) BY Immediates
<1>9. AMachine(m) BY <1>1, <1>3, <1>4, <1>5, <1>6, <1>7 DEF AMachine, Stacked
<1>10. RootsFine(m)
  <2>1. \A r \in Scanned(m) : Fine(m, m.regs[r]) BY <1>7, <1>8, <1>9, ScannedAre
  <2>2. \A i \in 1..Len(m.roots) : Fine(m, m.roots[i]) BY <1>6, <1>8
  <2>3. Len(m.interned) = 0 /\ Len(m.rets) = 0 /\ Fine(m, m.closure) BY <1>4, <1>5, <1>8
  <2> QED BY <2>1, <2>2, <2>3 DEF RootsFine
<1>11. Above(m) BY <1>7, <1>8 DEF Above
<1>12. Len(m.objs) = 0 BY <1>4, <1>5
<1>13. Good(m, {}) BY <1>9, <1>10, <1>11, <1>12 DEF Good
<1>14. n <= Len(m.roots) BY <1>1, <1>6
<1> QED BY <1>13, <1>14 DEF m, n

LEMMA InitKeeps == Init => MachineInv
<1> SUFFICES ASSUME Init PROVE MachineInv OBVIOUS
<1>1. PICK p \in Programs : vm = Start(p) /\ program = p BY DEF Init
<1>2. Good(vm, {}) /\ Len(program.texts) <= Len(vm.roots) BY <1>1, StartGood
<1>3. {} \in SUBSET (1..Len(vm.objs)) OBVIOUS
<1> QED BY <1>1, <1>2, <1>3 DEF MachineInv

LEMMA SameKeeps == MachineInv /\ UNCHANGED vars => MachineInv'
<1> SUFFICES ASSUME MachineInv, UNCHANGED vars PROVE MachineInv' OBVIOUS
<1>1. vm' = vm /\ program' = program BY DEF vars
<1> QED BY <1>1 DEF MachineInv

\* One step: an instruction, a literal of the pool, or nothing after a fault.
LEMMA StepKeeps ==
  ASSUME \A k : Hash(k) \in Nat, MachineInv, [Next]_vars
  PROVE  MachineInv'
<1>1. CASE LoadLiteral BY <1>1, LoadLiteralKeeps
<1>2. CASE LoadStr BY <1>2, LoadStrKeeps
<1>3. CASE LoadInt BY <1>3, LoadIntKeeps
<1>4. CASE Mov BY <1>4, MovKeeps
<1>5. CASE VecNew BY <1>5, VecNewKeeps
<1>6. CASE Call BY <1>6, CallKeeps
<1>7. CASE TailCall BY <1>7, TailCallKeeps
<1>8. CASE CallClosure BY <1>8, CallClosureKeeps
<1>9. CASE TailClosure BY <1>9, TailClosureKeeps
<1>10. CASE LoadCapture BY <1>10, LoadCaptureKeeps
<1>11. CASE Ret BY <1>11, RetKeeps
<1>12. ASSUME NEW rd \in Frame, NEW ra \in Frame,
              \/ VecPush(rd, ra) \/ VecPop(rd, ra) \/ VecFirst(rd, ra)
              \/ MapDelete(rd, ra) \/ MapKeys(rd, ra) \/ SendToSelf(rd, ra)
       PROVE  MachineInv'
  <2>1. CASE VecPush(rd, ra) BY <2>1, VecPushKeeps
  <2>2. CASE VecPop(rd, ra) BY <2>2, VecPopKeeps
  <2>3. CASE VecFirst(rd, ra) BY <2>3, VecFirstKeeps
  <2>4. CASE MapDelete(rd, ra) BY <2>4, MapDeleteKeeps
  <2>5. CASE MapKeys(rd, ra) BY <2>5, MapKeysKeeps
  <2>6. CASE SendToSelf(rd, ra) BY <2>6, SendToSelfKeeps
  <2> QED BY <1>12, <2>1, <2>2, <2>3, <2>4, <2>5, <2>6
<1>13. ASSUME NEW rd \in Frame, MapNew(rd) PROVE MachineInv' BY <1>13, MapNewKeeps
<1>14. ASSUME NEW rd \in Frame, NEW base \in Frame, NEW f \in DOMAIN Fns, MakeClosure(rd, f, base)
       PROVE  MachineInv'
  BY <1>14, MakeClosureKeeps
<1>15. ASSUME NEW rd \in Frame, NEW ra \in Frame, NEW rb \in Frame,
              Concat(rd, ra, rb) \/ MapSet(ra, rb, rd) \/ MapGet(rd, ra, rb)
       PROVE  MachineInv'
  <2>1. CASE Concat(rd, ra, rb) BY <2>1, ConcatKeeps
  <2>2. CASE MapSet(ra, rb, rd) BY <2>2, MapSetKeeps
  <2>3. CASE MapGet(rd, ra, rb) BY <2>3, MapGetKeeps
  <2> QED BY <1>15, <2>1, <2>2, <2>3
<1>16. CASE Over BY <1>16, SameKeeps DEF Over
<1>17. CASE UNCHANGED vars BY <1>17, SameKeeps
<1>18. CASE Next
  BY Zenon, <1>1, <1>2, <1>3, <1>4, <1>5, <1>6, <1>7, <1>8, <1>9, <1>10, <1>11, <1>12, <1>13, <1>14,
     <1>15, <1>16, <1>18 DEF Next
<1> QED BY <1>17, <1>18

-----------------------------------------------------------------------------
(* What the invariant gives.                                               *)

LEMMA FineIsLive == ASSUME NEW m, NEW v, Fine(m, v), IsPtr(v) PROVE Live(m, v)
<1>1. ~Bare(v) BY DEF Bare, IsPtr
<1>2. PICK i \in 1..Len(m.objs) : v = Ptr(m.active, i) BY <1>1 DEF Fine
<1>3. v[2] = m.active /\ v[3] = i BY <1>2 DEF Ptr
<1> QED BY <1>2, <1>3 DEF Live

LEMMA SeqDomain == ASSUME NEW s, IsSeq(s) PROVE DOMAIN s = 1..Len(s) BY DEF IsSeq

LEMMA InvImplies == MachineInv => NothingIsStale
<1> SUFFICES ASSUME MachineInv PROVE NothingIsStale OBVIOUS
<1>1. PICK X : Good(vm, X) BY DEF MachineInv
<1>2. AMachine(vm) /\ RootsFine(vm) /\ Above(vm) BY <1>1 DEF Good
<1>3. \A i \in 1..Len(vm.objs) : SlotsFine(vm, vm.objs[i]) BY <1>1 DEF Good
<1>4. /\ DOMAIN vm.objs = 1..Len(vm.objs) /\ DOMAIN vm.roots = 1..Len(vm.roots)
      /\ DOMAIN vm.interned = 1..Len(vm.interned) /\ DOMAIN vm.rets = 1..Len(vm.rets)
      /\ \A i \in 1..Len(vm.objs) : DOMAIN vm.objs[i].slots = 1..Len(vm.objs[i].slots)
  BY <1>2, SeqDomain DEF AMachine, AnObject
<1>5. \A v : Fine(vm, v) /\ IsPtr(v) => Live(vm, v) BY FineIsLive
<1>6. RootsAreLive
  <2>1. \A r \in Scanned(vm) : Fine(vm, vm.regs[r]) BY <1>2 DEF RootsFine
  <2>2. \A i \in DOMAIN vm.roots : Fine(vm, vm.roots[i]) BY <1>2, <1>4 DEF RootsFine
  <2>3. \A i \in DOMAIN vm.interned : Fine(vm, vm.interned[i]) BY <1>2, <1>4 DEF RootsFine
  <2>4. Fine(vm, vm.closure) /\ \A d \in DOMAIN vm.rets : Fine(vm, vm.rets[d].closure)
    BY <1>2, <1>4 DEF RootsFine
  <2>5. \A i \in DOMAIN vm.objs : \A k \in DOMAIN vm.objs[i].slots : Fine(vm, vm.objs[i].slots[k])
    BY <1>3, <1>4 DEF SlotsFine
  <2> QED BY Zenon, <1>5, <2>1, <2>2, <2>3, <2>4, <2>5 DEF RootsAreLive
<1>7. NothingAboveTheFrame
  <2>1. DOMAIN vm.regs = 0..RegSpace - 1 BY <1>2 DEF AMachine
  <2>2. \A r \in 0..RegSpace - 1 : r >= vm.window + vm.cfs => Bare(vm.regs[r]) BY <1>2 DEF Above
  <2>3. \A v : Bare(v) => ~IsPtr(v) BY DEF Bare, IsPtr
  <2> QED BY Zenon, <2>1, <2>2, <2>3 DEF NothingAboveTheFrame
<1> QED BY <1>6, <1>7 DEF NothingIsStale

(* Whatever a program does, no collection reads a stale address: every root *)
(* and every slot of an object is an immediate or the address of an object *)
(* of the active semispace, at every instruction and after every fault, and *)
(* between two instructions no pointer lies above the running frame. Debug *)
(* builds assert it of registers and roots in Heap::verify_frame; what     *)
(* verify_heap asserts of the slots of objects is stricter (Machine.tla).  *)
THEOREM NothingIsEverStale ==
  ASSUME \A k : Hash(k) \in Nat
  PROVE  Spec => []NothingIsStale
<1>1. Init => MachineInv BY InitKeeps
<1>2. MachineInv /\ [Next]_vars => MachineInv' BY StepKeeps
<1>3. MachineInv => NothingIsStale BY InvImplies
<1> QED BY <1>1, <1>2, <1>3, PTL DEF Spec
=============================================================================
