---------------------------- MODULE TablesProofs ----------------------------
(***************************************************************************)
(* Theorems about the small parts that share no state: the fault windows   *)
(* of threads, the deque, the registry of sockets, the output of a world   *)
(* and a program's map.  For any threads and any table, any elements, any  *)
(* number of sockets and generations, any actors, any keys and hashes.     *)
(***************************************************************************)
EXTENDS ThreadSlots, Deque, Registry, LineOut, ProgramMap, SequenceTheorems, FiniteSetTheorems,
        WellFoundedInduction, TLAPS

-----------------------------------------------------------------------------
(* The fault windows of threads: a fault never finds a window of another   *)
(* thread or of a run that has been left.                                  *)
(*                                                                         *)
(* The invariant says of each thread, by where it is in store, whether it  *)
(* holds a slot and what the slot shows; of the table, that no thread      *)
(* holds two slots and that a free slot shows nothing.                     *)

Windows == {None} \cup {Window(t, d) : t \in Threads, d \in 1..MaxNest}

WindowTypes ==
    /\ tid \in [Slots -> Threads \cup {FREE}]
    /\ value \in [Slots -> Windows]
    /\ depth \in [Threads -> 0..MaxNest]
    /\ armed \in [Threads -> [1..MaxNest -> BOOLEAN]]
    /\ prev \in [Threads -> [1..MaxNest -> Windows]]
    /\ at \in [Threads -> [pc : {"idle", "arm", "retract", "claim", "put", "free"},
                           slot : Nat \ {0}, v : Windows] \cup {Idle}]

(* No thread holds two slots, and a slot nobody holds shows no window. *)
OneSlot   == \A s, r \in Slots : tid[s] = tid[r] /\ tid[s] # FREE => s = r
FreeClean == \A s \in Slots : tid[s] = FREE => value[s] = None

NoSlot(t)       == \A s \in Slots : tid[s] # t
Shows(t, w, lo) == \E s \in Slots : s >= lo /\ tid[s] = t /\ value[s] = w

(* The window that was published when run d was entered. *)
Covered(t, d) == d > 1 /\ armed[t][d - 1]
Below(t, d)   == IF Covered(t, d) THEN Window(t, d - 1) ELSE None

(* What a slot of t shows is always a run of t. *)
OwnRuns(t) == \A s \in Slots : tid[s] = t => \/ value[s] = None
                                             \/ \E d \in 1..depth[t] : value[s] = Window(t, d)

(* A run inside one that has a slot has it too, up to run n. *)
Chain(t, n) == \A d \in 1..n - 1 : armed[t][d] => armed[t][d + 1]

AtIdle(t) ==
    /\ Chain(t, depth[t])
    /\ IF depth[t] > 0 /\ armed[t][depth[t]] THEN Shows(t, Window(t, depth[t]), 1) ELSE NoSlot(t)

InStore(t) ==
    LET d == depth[t]
        a == at[t]
    IN  /\ d > 0 /\ ~armed[t][d] /\ Chain(t, d - 1)
        /\ a.v = Window(t, d) \/ a.v = Below(t, d)
        /\ a.pc = "arm" => /\ a.v = Window(t, d)
                           /\ IF Covered(t, d) THEN Shows(t, Window(t, d - 1), a.slot) ELSE NoSlot(t)
        /\ a.pc = "retract" => a.v = Below(t, d) /\ Shows(t, Window(t, d), a.slot)
        /\ a.pc = "claim" => a.v = Window(t, d) /\ ~Covered(t, d) /\ NoSlot(t)
        /\ a.pc = "put" => a.slot \in Slots /\ tid[a.slot] = t
        /\ a.pc = "free" => /\ a.slot \in Slots /\ tid[a.slot] = t /\ value[a.slot] = None
                            /\ a.v = None

ThreadInv(t) ==
    /\ \A d \in 1..depth[t] : prev[t][d] = Below(t, d)
    /\ \A d \in depth[t] + 1..MaxNest : ~armed[t][d]
    /\ OwnRuns(t)
    /\ at[t].pc = "idle" => AtIdle(t)
    /\ at[t].pc # "idle" => InStore(t)

IInv == WindowTypes /\ OneSlot /\ FreeClean /\ \A t \in Threads : ThreadInv(t)

-----------------------------------------------------------------------------
(* A window is never the empty one, and names its thread and its run. *)
LEMMA WindowFacts ==
  ASSUME NEW t \in Threads, NEW u \in Threads, NEW d \in Nat, NEW e \in Nat
  PROVE /\ Window(t, d) # None
        /\ Window(t, d) = Window(u, e) => t = u /\ d = e
BY TableAssumption DEF Window, None

(* What load finds: what the thread's slot shows, if it holds one. *)
LEMMA LoadedIs ==
  ASSUME OneSlot, NEW t \in Threads
  PROVE /\ NoSlot(t) => Loaded(t) = None
        /\ \A s \in Slots : tid[s] = t => Loaded(t) = value[s]
<1>1. NoSlot(t) => Loaded(t) = None
  BY DEF NoSlot, Loaded, Owned
<1>2. ASSUME NEW s \in Slots, tid[s] = t PROVE Loaded(t) = value[s]
  <2>1. t # FREE BY TableAssumption
  <2>2. Owned(t) = {s} BY <1>2, <2>1 DEF Owned, OneSlot
  <2>3. \A r \in Owned(t) : s <= r BY <2>2 DEF Slots
  <2>4. (CHOOSE q \in Owned(t) : \A r \in Owned(t) : q <= r) = s BY <2>2, <2>3
  <2> QED BY <2>2, <2>4 DEF Loaded
<1> QED BY <1>1, <1>2

(* The invariant of a thread speaks of that thread's entries only. *)
LEMMA OtherThread ==
  ASSUME NEW t \in Threads, ThreadInv(t),
         depth'[t] = depth[t], armed'[t] = armed[t], prev'[t] = prev[t], at'[t] = at[t],
         \A s \in Slots : tid'[s] = t <=> tid[s] = t,
         \A s \in Slots : tid[s] = t => value'[s] = value[s]
  PROVE ThreadInv(t)'
<1>1. \A d : Covered(t, d)' <=> Covered(t, d) BY DEF Covered
<1>2. \A d : Below(t, d)' = Below(t, d) BY <1>1 DEF Below, None, Window
<1>3. NoSlot(t)' <=> NoSlot(t) BY DEF NoSlot
<1>4. \A w, lo : Shows(t, w, lo)' <=> Shows(t, w, lo) BY DEF Shows
<1>5. \A n : Chain(t, n)' <=> Chain(t, n) BY DEF Chain
<1>6. OwnRuns(t)' BY DEF ThreadInv, OwnRuns, Window, None
<1>7. at[t].pc = "idle" => AtIdle(t)'
  BY <1>3, <1>4, <1>5 DEF ThreadInv, AtIdle, Window
<1>8. at[t].pc # "idle" => InStore(t)'
  BY <1>1, <1>2, <1>3, <1>4, <1>5 DEF ThreadInv, InStore, Window, None
<1> QED BY <1>2, <1>6, <1>7, <1>8 DEF ThreadInv

-----------------------------------------------------------------------------
(* The initial states. *)
LEMMA InitInv == Init => IInv
<1> SUFFICES ASSUME Init PROVE IInv OBVIOUS
<1>1. WindowTypes
  BY TableAssumption DEF Init, WindowTypes, Windows, Idle
<1>2. OneSlot /\ FreeClean
  BY DEF Init, OneSlot, FreeClean
<1>3. ASSUME NEW t \in Threads PROVE ThreadInv(t)
  <2>1. t # FREE BY TableAssumption
  <2>2. OwnRuns(t) /\ NoSlot(t) BY <2>1 DEF Init, OwnRuns, NoSlot
  <2>3. depth[t] = 0 /\ at[t].pc = "idle" BY DEF Init, Idle
  <2>4. \A d \in 1..MaxNest : ~armed[t][d] BY DEF Init
  <2>5. AtIdle(t) BY <2>2, <2>3 DEF AtIdle, Chain
  <2> QED BY <2>2, <2>3, <2>4, <2>5 DEF ThreadInv
<1> QED BY <1>1, <1>2, <1>3 DEF IInv

(* EnterRun: what it remembers is what was published. *)
LEMMA EnterRunInv ==
  ASSUME IInv, NEW u \in Threads, EnterRun(u)
  PROVE IInv'
<1> DEFINE d == depth[u] + 1
<1> USE TableAssumption
<1>1. ThreadInv(u) /\ WindowTypes /\ OneSlot BY DEF IInv
<1>2. /\ depth[u] \in Nat /\ d \in 1..MaxNest
      /\ at[u].pc = "idle" /\ AtIdle(u)
  BY <1>1 DEF WindowTypes, EnterRun, ThreadInv
<1>3. Loaded(u) = Below(u, d)
  <2>1. CASE Covered(u, d)
    <3>1. PICK s \in Slots : tid[s] = u /\ value[s] = Window(u, depth[u])
      BY <1>2, <2>1 DEF AtIdle, Covered, Shows
    <3> QED BY <3>1, <1>1, <1>2, <2>1, LoadedIs DEF Below
  <2>2. CASE ~Covered(u, d)
    <3>1. NoSlot(u) BY <1>2, <2>2 DEF AtIdle, Covered
    <3> QED BY <3>1, <1>1, <2>2, LoadedIs DEF Below
  <2> QED BY <2>1, <2>2
<1>4. Window(u, d) \in Windows /\ Below(u, d) \in Windows
  BY <1>2 DEF Windows, Below, Covered
<1>5. WindowTypes'
  BY <1>1, <1>2, <1>3, <1>4 DEF WindowTypes, EnterRun
<1>6. OneSlot' /\ FreeClean'
  BY DEF IInv, OneSlot, FreeClean, EnterRun
<1>7. ThreadInv(u)'
  <2>1. depth'[u] = d /\ armed' = armed /\ tid' = tid /\ value' = value
    BY <1>1 DEF EnterRun, WindowTypes
  <2>2. at'[u] = [pc |-> "arm", slot |-> 1, v |-> Window(u, d)]
    BY <1>1 DEF EnterRun, WindowTypes
  <2>3. \A e : Below(u, e)' = Below(u, e) /\ (Covered(u, e)' <=> Covered(u, e))
    BY <2>1 DEF Below, Covered, Window, None
  <2>4. prev'[u] = [prev[u] EXCEPT ![d] = Below(u, d)]
    BY <1>1, <1>3 DEF EnterRun, WindowTypes
  <2>5. \A e \in 1..d : prev'[u][e] = Below(u, e)
    BY <1>1, <1>2, <2>4 DEF ThreadInv, WindowTypes
  <2>6. OwnRuns(u)'
    BY <1>1, <1>2, <2>1 DEF ThreadInv, OwnRuns, Window, None
  <2>7. ~armed[u][d] /\ Chain(u, d - 1)
    BY <1>1, <1>2 DEF ThreadInv, AtIdle
  <2>8. IF Covered(u, d) THEN Shows(u, Window(u, d - 1), 1) ELSE NoSlot(u)
    BY <1>2 DEF AtIdle, Covered
  <2>9. InStore(u)'
    BY <1>2, <2>1, <2>2, <2>3, <2>7, <2>8 DEF InStore, Chain, Shows, NoSlot, Window
  <2> QED BY <1>1, <1>2, <2>1, <2>2, <2>3, <2>5, <2>6, <2>9 DEF ThreadInv
<1>8. ASSUME NEW t \in Threads, t # u PROVE ThreadInv(t)'
  <2>1. /\ depth'[t] = depth[t] /\ armed'[t] = armed[t] /\ prev'[t] = prev[t] /\ at'[t] = at[t]
        /\ tid' = tid /\ value' = value
    BY <1>1, <1>8 DEF EnterRun, WindowTypes
  <2> QED BY <2>1, OtherThread DEF IInv
<1> QED BY <1>5, <1>6, <1>7, <1>8 DEF IInv

(* A run that shows nothing is left. *)
LEMMA PoppedKeeps ==
  ASSUME WindowTypes, NEW t \in Threads, ThreadInv(t), depth[t] > 0,
         ~armed[t][depth[t]], Popped(t), armed' = armed
  PROVE /\ depth'[t] = depth[t] - 1 /\ depth'[t] \in 0..MaxNest
        /\ depth' \in [Threads -> 0..MaxNest]
        /\ prev' \in [Threads -> [1..MaxNest -> Windows]]
        /\ \A e : Below(t, e)' = Below(t, e)
        /\ \A e \in 1..depth'[t] : prev'[t][e] = Below(t, e)'
        /\ \A e \in depth'[t] + 1..MaxNest : ~armed'[t][e]
<1> USE TableAssumption
<1>1. depth[t] \in 1..MaxNest BY DEF WindowTypes
<1>2. depth'[t] = depth[t] - 1 /\ depth'[t] \in 0..MaxNest /\ depth' \in [Threads -> 0..MaxNest]
  BY <1>1 DEF Popped, WindowTypes
<1>3. prev' \in [Threads -> [1..MaxNest -> Windows]] BY DEF Popped, WindowTypes, Windows
<1>4. \A e : Below(t, e)' = Below(t, e) BY DEF Below, Covered, Window, None
<1>5. \A e \in 1..depth'[t] : prev'[t][e] = prev[t][e]
  BY <1>1, <1>2 DEF Popped, WindowTypes
<1>6. \A e \in 1..depth'[t] : prev'[t][e] = Below(t, e)'
  BY <1>1, <1>2, <1>4, <1>5 DEF ThreadInv
<1>7. \A e \in depth'[t] + 1..MaxNest : ~armed'[t][e]
  BY <1>1, <1>2 DEF ThreadInv
<1> QED BY <1>2, <1>3, <1>4, <1>6, <1>7

(* LeaveRun: an armed run starts to retract, a refused one is just left. *)
LEMMA LeaveRunInv ==
  ASSUME IInv, NEW u \in Threads, LeaveRun(u)
  PROVE IInv'
<1> DEFINE d == depth[u]
<1> USE TableAssumption
<1>1. ThreadInv(u) /\ WindowTypes /\ OneSlot BY DEF IInv
<1>2. /\ d \in 1..MaxNest
      /\ at[u].pc = "idle" /\ AtIdle(u)
      /\ tid' = tid /\ value' = value
  BY <1>1 DEF WindowTypes, LeaveRun, ThreadInv
<1>3. OneSlot' /\ FreeClean'
  BY <1>2 DEF IInv, OneSlot, FreeClean
<1>4. ASSUME NEW t \in Threads, t # u PROVE ThreadInv(t)'
  <2>1. depth'[t] = depth[t] /\ armed'[t] = armed[t] /\ prev'[t] = prev[t] /\ at'[t] = at[t]
    BY <1>1, <1>4 DEF LeaveRun, Popped, WindowTypes
  <2> QED BY <1>2, <2>1, OtherThread DEF IInv
<1>5. CASE armed[u][d]
  <2>1. /\ armed' = [armed EXCEPT ![u][d] = FALSE]
        /\ at' = [at EXCEPT ![u] = [pc |-> "retract", slot |-> 1, v |-> prev[u][d]]]
        /\ depth' = depth /\ prev' = prev
    BY <1>5, <1>2 DEF LeaveRun
  <2>2. prev[u][d] = Below(u, d) /\ prev[u][d] \in Windows
    BY <1>1, <1>2 DEF ThreadInv, WindowTypes
  <2>3. WindowTypes'
    BY <1>1, <1>2, <2>1, <2>2 DEF WindowTypes
  <2>4. armed'[u] = [armed[u] EXCEPT ![d] = FALSE]
    BY <1>1, <2>1 DEF WindowTypes
  <2>5. \A e \in 1..d : (Covered(u, e)' <=> Covered(u, e)) /\ Below(u, e)' = Below(u, e)
    BY <1>1, <1>2, <2>4 DEF Covered, Below, Window, None, WindowTypes
  <2>6. \A e \in 1..depth'[u] : prev'[u][e] = Below(u, e)'
    BY <1>1, <1>2, <2>1, <2>5 DEF ThreadInv
  <2>7. \A e \in depth'[u] + 1..MaxNest : ~armed'[u][e]
    BY <1>1, <1>2, <2>1, <2>4 DEF ThreadInv, WindowTypes
  <2>8. OwnRuns(u)'
    BY <1>1, <1>2, <2>1 DEF ThreadInv, OwnRuns, Window, None
  <2>9. at'[u] = [pc |-> "retract", slot |-> 1, v |-> Below(u, d)]
    BY <1>1, <2>1, <2>2 DEF WindowTypes
  <2>10. Shows(u, Window(u, d), 1)' /\ ~armed'[u][d] /\ Chain(u, d - 1)'
    <3>1. Shows(u, Window(u, d), 1) /\ Chain(u, d) BY <1>2, <1>5 DEF AtIdle
    <3>2. Shows(u, Window(u, d), 1)' BY <3>1, <1>2, <2>1 DEF Shows, Window
    <3>3. ~armed'[u][d] BY <1>1, <1>2, <2>4 DEF WindowTypes
    <3>4. ASSUME NEW e \in 1..d - 1 PROVE armed'[u][e] = armed[u][e]
      <4>1. e \in 1..MaxNest /\ e # d BY <1>2
      <4>2. armed[u] \in [1..MaxNest -> BOOLEAN] BY <1>1 DEF WindowTypes
      <4> QED BY <4>1, <4>2, <2>4
    <3>5. Chain(u, d - 1)' BY <3>1, <3>4, <1>2, <2>1 DEF Chain
    <3> QED BY <3>2, <3>3, <3>5
  <2>11. InStore(u)'
    BY <1>2, <2>1, <2>5, <2>9, <2>10 DEF InStore, Window
  <2>12. ThreadInv(u)'
    BY <2>6, <2>7, <2>8, <2>9, <2>11 DEF ThreadInv
  <2> QED BY <1>3, <1>4, <2>3, <2>12 DEF IInv
<1>6. CASE ~armed[u][d]
  <2>1. Popped(u) /\ armed' = armed /\ at' = at
    BY <1>6, <1>2 DEF LeaveRun
  <2>2. /\ depth'[u] = d - 1 /\ depth' \in [Threads -> 0..MaxNest]
        /\ prev' \in [Threads -> [1..MaxNest -> Windows]]
        /\ \A e \in 1..depth'[u] : prev'[u][e] = Below(u, e)'
        /\ \A e \in depth'[u] + 1..MaxNest : ~armed'[u][e]
    BY <1>1, <1>2, <1>6, <2>1, PoppedKeeps
  <2>3. WindowTypes'
    BY <1>1, <1>2, <2>1, <2>2 DEF WindowTypes
  <2>4. NoSlot(u) /\ Chain(u, d) BY <1>2, <1>6 DEF AtIdle
  <2>5. NoSlot(u)' BY <2>4, <1>2 DEF NoSlot
  <2>6. d - 1 > 0 => ~armed[u][d - 1]
    BY <1>2, <1>6, <2>4 DEF Chain
  <2>7. AtIdle(u)'
    <3>1. Chain(u, depth[u])' BY <1>2, <2>1, <2>2, <2>4 DEF Chain
    <3>2. ~(depth'[u] > 0 /\ armed'[u][depth'[u]]) BY <2>1, <2>2, <2>6
    <3> QED BY <2>5, <3>1, <3>2 DEF AtIdle
  <2>8. OwnRuns(u)' BY <2>5 DEF OwnRuns, NoSlot
  <2>9. ThreadInv(u)' BY <1>2, <2>1, <2>2, <2>7, <2>8 DEF ThreadInv
  <2> QED BY <1>3, <1>4, <2>3, <2>9 DEF IInv
<1> QED BY <1>5, <1>6

-----------------------------------------------------------------------------
(* store is done for Arm: its run is armed if it got a slot, and then the
   slot shows its window. *)
LEMMA ArmDone ==
  ASSUME WindowTypes, NEW t \in Threads, ThreadInv(t), NEW ok \in BOOLEAN,
         at[t].pc # "idle", at[t].v = Window(t, depth[t]), Finished(t, ok),
         \A s \in Slots : tid'[s] = t => value'[s] = Window(t, depth[t]),
         ok => \E s \in Slots : tid'[s] = t,
         ~ok => ~Covered(t, depth[t]) /\ NoSlot(t)'
  PROVE /\ depth' = depth /\ prev' = prev
        /\ armed' \in [Threads -> [1..MaxNest -> BOOLEAN]]
        /\ \A u \in Threads \ {t} : armed'[u] = armed[u]
        /\ ThreadInv(t)'
<1> DEFINE d == depth[t]
<1> USE TableAssumption
<1>1. /\ d \in 1..MaxNest /\ InStore(t)
      /\ armed[t] \in [1..MaxNest -> BOOLEAN]
  BY DEF WindowTypes, ThreadInv, InStore
<1>2. /\ depth' = depth /\ prev' = prev
      /\ armed' = [armed EXCEPT ![t][d] = ok] /\ at' = [at EXCEPT ![t] = Idle]
  BY DEF Finished
<1>3. armed'[t] = [armed[t] EXCEPT ![d] = ok] /\ at'[t] = Idle
  BY <1>2 DEF WindowTypes
<1>4. armed' \in [Threads -> [1..MaxNest -> BOOLEAN]] BY <1>2 DEF WindowTypes
<1>5. \A u \in Threads \ {t} : armed'[u] = armed[u] BY <1>2 DEF WindowTypes
<1>6. ASSUME NEW e \in 1..MaxNest, e # d PROVE armed'[t][e] = armed[t][e]
  BY <1>1, <1>3, <1>6
<1>7. armed'[t][d] = ok BY <1>1, <1>3
<1>8. \A e \in 1..d : (Covered(t, e)' <=> Covered(t, e)) /\ Below(t, e)' = Below(t, e)
  <2> SUFFICES ASSUME NEW e \in 1..d
               PROVE (Covered(t, e)' <=> Covered(t, e)) /\ Below(t, e)' = Below(t, e)
    OBVIOUS
  <2>1. e > 1 => armed'[t][e - 1] = armed[t][e - 1] BY <1>1, <1>6
  <2>2. Covered(t, e)' <=> Covered(t, e) BY <2>1 DEF Covered
  <2> QED BY <2>2 DEF Below, Window, None
<1>9. \A e \in 1..depth'[t] : prev'[t][e] = Below(t, e)'
  BY <1>2, <1>8 DEF ThreadInv
<1>10. \A e \in depth'[t] + 1..MaxNest : ~armed'[t][e]
  BY <1>1, <1>2, <1>6 DEF ThreadInv
<1>11. OwnRuns(t)'
  BY <1>1, <1>2 DEF OwnRuns, Window, None
<1>12. Chain(t, depth[t])'
  <2> SUFFICES ASSUME NEW e \in 1..d - 1, armed'[t][e] PROVE armed'[t][e + 1]
    BY <1>2 DEF Chain
  <2>1. e \in 1..MaxNest /\ e # d /\ e + 1 \in 1..MaxNest BY <1>1
  <2>2. armed[t][e] BY <2>1, <1>6
  <2>3. CASE e + 1 # d
    <3>1. armed[t][e + 1] BY <2>2, <2>3, <1>1 DEF InStore, Chain
    <3> QED BY <3>1, <2>1, <2>3, <1>6
  <2>4. CASE e + 1 = d
    <3>1. e = d - 1 /\ d > 1 BY <2>4, <1>1
    <3>2. Covered(t, d) BY <3>1, <2>2 DEF Covered
    <3> QED BY <3>2, <2>4, <1>7
  <2> QED BY <2>3, <2>4
<1>13. AtIdle(t)'
  <2>1. CASE ok
    <3>1. Shows(t, Window(t, depth[t]), 1)' BY <2>1, <1>2 DEF Shows, Slots, Window
    <3>2. depth'[t] > 0 /\ armed'[t][depth'[t]]
      <4>1. depth'[t] = d /\ d > 0 BY <1>1, <1>2
      <4>2. ok = TRUE BY <2>1
      <4>3. armed'[t][d] = TRUE BY <1>7, <4>2
      <4> QED BY <4>1, <4>3
    <3> QED BY <3>1, <3>2, <1>12 DEF AtIdle
  <2>2. CASE ~ok
    BY <2>2, <1>1, <1>2, <1>7, <1>12 DEF AtIdle
  <2> QED BY <2>1, <2>2
<1>14. ThreadInv(t)'
  BY <1>3, <1>9, <1>10, <1>11, <1>13 DEF ThreadInv, Idle
<1> QED BY <1>2, <1>4, <1>5, <1>14

(* store is done for retract: the run is left, and the slot shows the window
   of the run below if that one had it. *)
LEMMA RetractDone ==
  ASSUME WindowTypes, NEW t \in Threads, ThreadInv(t), NEW ok \in BOOLEAN,
         at[t].pc # "idle", at[t].v # Window(t, depth[t]), Finished(t, ok),
         \A s \in Slots : tid'[s] = t => value'[s] = Below(t, depth[t]),
         Covered(t, depth[t]) => \E s \in Slots : tid'[s] = t,
         ~Covered(t, depth[t]) => NoSlot(t)'
  PROVE /\ armed' = armed
        /\ depth' \in [Threads -> 0..MaxNest]
        /\ prev' \in [Threads -> [1..MaxNest -> Windows]]
        /\ \A u \in Threads \ {t} : depth'[u] = depth[u] /\ prev'[u] = prev[u]
        /\ ThreadInv(t)'
<1> DEFINE d == depth[t]
<1> USE TableAssumption
<1>1. d \in 1..MaxNest /\ InStore(t) /\ ~armed[t][d]
  BY DEF WindowTypes, ThreadInv, InStore
<1>2. Popped(t) /\ armed' = armed /\ at' = [at EXCEPT ![t] = Idle]
  BY DEF Finished
<1>3. at'[t] = Idle BY <1>2 DEF WindowTypes
<1>4. \A u \in Threads \ {t} : depth'[u] = depth[u] /\ prev'[u] = prev[u]
  BY <1>2 DEF WindowTypes, Popped
<1>5. /\ depth'[t] = d - 1 /\ depth' \in [Threads -> 0..MaxNest]
      /\ prev' \in [Threads -> [1..MaxNest -> Windows]]
      /\ \A e \in 1..depth'[t] : prev'[t][e] = Below(t, e)'
      /\ \A e \in depth'[t] + 1..MaxNest : ~armed'[t][e]
  BY <1>1, <1>2, PoppedKeeps
<1>6. OwnRuns(t)'
  <2> SUFFICES ASSUME NEW s \in Slots, tid'[s] = t, value'[s] # None
               PROVE \E e \in 1..depth'[t] : value'[s] = Window(t, e)
    BY DEF OwnRuns, None, Window
  <2>1. Covered(t, d) /\ value'[s] = Window(t, d - 1) BY DEF Below
  <2>2. d - 1 \in 1..depth'[t] BY <2>1, <1>1, <1>5 DEF Covered
  <2> QED BY <2>1, <2>2
<1>7. Chain(t, depth[t])' BY <1>1, <1>2, <1>5 DEF InStore, Chain
<1>8. AtIdle(t)'
  <2>1. CASE Covered(t, d)
    <3>1. depth'[t] > 0 /\ armed'[t][depth'[t]] BY <2>1, <1>1, <1>2, <1>5 DEF Covered
    <3>2. Below(t, d) = Window(t, depth'[t]) BY <2>1, <1>5 DEF Below
    <3>3. Shows(t, Window(t, depth[t]), 1)' BY <2>1, <3>2 DEF Shows, Slots, Window
    <3> QED BY <3>1, <3>3, <1>7 DEF AtIdle
  <2>2. CASE ~Covered(t, d)
    <3>1. ~(depth'[t] > 0 /\ armed'[t][depth'[t]]) BY <2>2, <1>1, <1>2, <1>5 DEF Covered
    <3> QED BY <3>1, <2>2, <1>7 DEF AtIdle
  <2> QED BY <2>1, <2>2
<1>9. \A e \in 1..depth'[t] : prev'[t][e] = Below(t, e)' BY <1>5
<1>10. \A e \in depth'[t] + 1..MaxNest : ~armed'[t][e] BY <1>5
<1>11. ThreadInv(t)'
  BY <1>3, <1>6, <1>8, <1>9, <1>10 DEF ThreadInv, Idle
<1> QED BY <1>2, <1>4, <1>5, <1>11

(* Goto moves the program counter and the slot, and keeps the window. *)
LEMMA GotoIs ==
  ASSUME WindowTypes, NEW t \in Threads, at[t].pc # "idle", NEW pc, NEW s, Goto(t, pc, s)
  PROVE at' = [at EXCEPT ![t] = [pc |-> pc, slot |-> s, v |-> at[t].v]]
<1> DEFINE a == at[t]
           new == [pc |-> pc, slot |-> s, v |-> a.v]
<1>1. a = [pc |-> a.pc, slot |-> a.slot, v |-> a.v]
  BY DEF WindowTypes, Idle
<1>2. at' = [[at EXCEPT ![t] = [at[t] EXCEPT !.pc = pc]]
                EXCEPT ![t] = [@ EXCEPT !.slot = s]]
  BY DEF Goto
<1>3. [at[t] EXCEPT !.pc = pc] = [pc |-> pc, slot |-> a.slot, v |-> a.v]
  BY <1>1
<1>4. [[pc |-> pc, slot |-> a.slot, v |-> a.v] EXCEPT !.slot = s] = new
  OBVIOUS
<1>5. at' = [[at EXCEPT ![t] = [pc |-> pc, slot |-> a.slot, v |-> a.v]] EXCEPT ![t] = new]
  BY <1>2, <1>3, <1>4 DEF WindowTypes
<1> QED BY <1>5 DEF WindowTypes

(* Seek: what is left of the scan still has the slot. *)
LEMMA SeekInv ==
  ASSUME IInv, NEW u \in Threads, Seek(u)
  PROVE IInv'
<1> DEFINE d == depth[u]
           a == at[u]
<1> USE TableAssumption
<1>1. ThreadInv(u) /\ WindowTypes /\ OneSlot BY DEF IInv
<1>2. /\ a.pc \in {"arm", "retract"} /\ a.slot \in Nat \ {0} /\ a.v \in Windows
      /\ d \in 1..MaxNest /\ InStore(u)
      /\ tid' = tid /\ value' = value
  BY <1>1 DEF Seek, ThreadInv, InStore, WindowTypes, Idle
<1>3. a.v = Window(u, d) => a.v # None BY <1>2, WindowFacts
<1>4. a.slot > Capacity => \A w : ~Shows(u, w, a.slot) BY <1>2 DEF Shows, Slots
<1>5. a.slot > Capacity => a.pc = "arm" /\ a.v = Window(u, d) /\ ~Covered(u, d) /\ NoSlot(u)
  BY <1>2, <1>4 DEF InStore
<1>6. /\ depth' = depth /\ armed' = armed /\ prev' = prev
      /\ \/ a.slot <= Capacity /\ tid[a.slot] = u /\ Goto(u, "put", a.slot)
         \/ a.slot <= Capacity /\ tid[a.slot] # u /\ Goto(u, a.pc, a.slot + 1)
         \/ a.slot > Capacity /\ Goto(u, "claim", 1)
  BY <1>3, <1>5, <1>1 DEF Seek, runs
<1>7. PICK pc \in {"put", "arm", "retract", "claim"}, s \in Nat \ {0} :
        /\ at' = [at EXCEPT ![u] = [pc |-> pc, slot |-> s, v |-> a.v]]
        /\ \/ a.slot <= Capacity /\ tid[a.slot] = u /\ pc = "put" /\ s = a.slot
           \/ a.slot <= Capacity /\ tid[a.slot] # u /\ pc = a.pc /\ s = a.slot + 1
           \/ a.slot > Capacity /\ pc = "claim"
  <2>1. a.pc # "idle" BY <1>2
  <2>2. \A pc, s : Goto(u, pc, s) => at' = [at EXCEPT ![u] = [pc |-> pc, slot |-> s, v |-> a.v]]
    BY <1>1, <2>1, GotoIs
  <2>3. CASE a.slot <= Capacity /\ tid[a.slot] = u /\ Goto(u, "put", a.slot)
    BY <2>2, <2>3, <1>2
  <2>4. CASE a.slot <= Capacity /\ tid[a.slot] # u /\ Goto(u, a.pc, a.slot + 1)
    BY <2>2, <2>4, <1>2
  <2>5. CASE a.slot > Capacity /\ Goto(u, "claim", 1)
    BY <2>2, <2>5, <1>2
  <2> QED BY <1>6, <2>3, <2>4, <2>5
<1>8. WindowTypes'
  BY <1>1, <1>2, <1>6, <1>7 DEF WindowTypes
<1>9. OneSlot' /\ FreeClean'
  BY <1>2 DEF IInv, OneSlot, FreeClean
<1>10. ASSUME NEW t \in Threads, t # u PROVE ThreadInv(t)'
  <2>1. at'[t] = at[t] BY <1>1, <1>7, <1>10 DEF WindowTypes
  <2> QED BY <1>2, <1>6, <2>1, OtherThread DEF IInv
<1>11. ThreadInv(u)'
  <2>1. at'[u] = [pc |-> pc, slot |-> s, v |-> a.v] BY <1>1, <1>7 DEF WindowTypes
  <2>2. \A e : (Covered(u, e)' <=> Covered(u, e)) /\ Below(u, e)' = Below(u, e)
    BY <1>6 DEF Covered, Below, Window, None
  <2>3. /\ \A e \in 1..depth'[u] : prev'[u][e] = Below(u, e)'
        /\ \A e \in depth'[u] + 1..MaxNest : ~armed'[u][e]
    BY <1>1, <1>6, <2>2 DEF ThreadInv
  <2>4. OwnRuns(u)' BY <1>1, <1>2, <1>6 DEF ThreadInv, OwnRuns, Window, None
  <2>5. /\ d > 0 /\ ~armed'[u][d] /\ Chain(u, d - 1)'
        /\ at'[u].v = Window(u, d) \/ at'[u].v = Below(u, d)
    BY <1>2, <1>6, <2>1 DEF InStore, Chain
  <2>6. NoSlot(u)' <=> NoSlot(u) BY <1>2 DEF NoSlot
  <2>7. CASE a.slot <= Capacity /\ tid[a.slot] = u /\ pc = "put" /\ s = a.slot
    <3>1. s \in Slots BY <1>2, <2>7 DEF Slots
    <3>2. InStore(u)' BY <1>2, <1>6, <2>1, <2>2, <2>5, <2>7, <3>1 DEF InStore, Window
    <3> QED BY <2>1, <2>3, <2>4, <2>7, <3>2 DEF ThreadInv
  <2>8. CASE a.slot <= Capacity /\ tid[a.slot] # u /\ pc = a.pc /\ s = a.slot + 1
    <3>1. ASSUME NEW w, Shows(u, w, a.slot)
          PROVE \E r \in Slots : r >= s /\ tid'[r] = u /\ value'[r] = w
      <4>1. PICK r \in Slots : r >= a.slot /\ tid[r] = u /\ value[r] = w BY <3>1 DEF Shows
      <4>2. r >= s BY <4>1, <2>8, <1>2 DEF Slots
      <4> QED BY <4>1, <4>2, <1>2
    <3>2. a.pc = "arm" => IF Covered(u, d) THEN Shows(u, Window(u, d - 1), s)' ELSE NoSlot(u)
      BY <1>2, <1>6, <1>7, <3>1 DEF InStore, Shows, Window
    <3>3. a.pc = "retract" => Shows(u, Window(u, d), s)'
      BY <1>2, <1>6, <3>1 DEF InStore, Shows, Window
    <3>4. InStore(u)'
      BY <1>2, <1>6, <2>1, <2>2, <2>5, <2>6, <2>8, <3>2, <3>3 DEF InStore, Window
    <3> QED BY <1>2, <2>1, <2>3, <2>4, <2>8, <3>4 DEF ThreadInv
  <2>9. CASE a.slot > Capacity /\ pc = "claim"
    <3>1. InStore(u)' BY <1>5, <1>6, <2>1, <2>2, <2>5, <2>6, <2>9 DEF InStore, Window
    <3> QED BY <2>1, <2>3, <2>4, <2>9, <3>1 DEF ThreadInv
  <2> QED BY <1>7, <2>7, <2>8, <2>9
<1> QED BY <1>8, <1>9, <1>10, <1>11 DEF IInv

(* Claim: a slot is taken by a thread that has none, and taken clean; with
   no free slot seen the run is refused. *)
LEMMA ClaimInv ==
  ASSUME IInv, NEW u \in Threads, Claim(u)
  PROVE IInv'
<1> DEFINE d == depth[u]
           a == at[u]
<1> USE TableAssumption
<1>1. ThreadInv(u) /\ WindowTypes /\ OneSlot /\ FreeClean BY DEF IInv
<1>2. /\ a.pc = "claim" /\ a.slot \in Nat \ {0} /\ a.v \in Windows
      /\ d \in 1..MaxNest /\ InStore(u)
      /\ a.v = Window(u, d) /\ ~Covered(u, d) /\ NoSlot(u)
      /\ value' = value
  BY <1>1 DEF Claim, ThreadInv, InStore, WindowTypes, Idle
<1>3. CASE a.slot > Capacity /\ Finished(u, FALSE) /\ tid' = tid
  <2>1. NoSlot(u)' BY <1>2, <1>3 DEF NoSlot
  <2>2. /\ depth' = depth /\ prev' = prev
        /\ armed' \in [Threads -> [1..MaxNest -> BOOLEAN]]
        /\ \A t \in Threads \ {u} : armed'[t] = armed[t]
        /\ ThreadInv(u)'
    BY <1>1, <1>2, <1>3, <2>1, ArmDone DEF NoSlot
  <2>3. at' = [at EXCEPT ![u] = Idle] BY <1>3 DEF Finished
  <2>4. WindowTypes' BY <1>1, <1>2, <1>3, <2>2, <2>3 DEF WindowTypes
  <2>5. OneSlot' /\ FreeClean' BY <1>1, <1>2, <1>3 DEF OneSlot, FreeClean
  <2>6. ASSUME NEW t \in Threads, t # u PROVE ThreadInv(t)'
    <3>1. at'[t] = at[t] BY <1>1, <2>3, <2>6 DEF WindowTypes
    <3> QED BY <1>2, <1>3, <2>2, <2>6, <3>1, OtherThread DEF IInv
  <2> QED BY <2>2, <2>4, <2>5, <2>6 DEF IInv
<1>4. ASSUME NEW pc \in {"put", "claim"}, NEW s \in Nat \ {0}, Goto(u, pc, s),
             depth' = depth, armed' = armed, prev' = prev,
             \/ a.slot \in Slots /\ tid[a.slot] = FREE /\ pc = "put" /\ s = a.slot
                /\ tid' = [tid EXCEPT ![a.slot] = u]
             \/ pc = "claim" /\ tid' = tid
      PROVE IInv'
  <2>1. at' = [at EXCEPT ![u] = [pc |-> pc, slot |-> s, v |-> a.v]]
    BY <1>1, <1>2, <1>4, GotoIs
  <2>2. WindowTypes'
    <3>1. tid' \in [Slots -> Threads \cup {FREE}] BY <1>1, <1>4 DEF WindowTypes
    <3>2. at' \in [Threads -> [pc : {"idle", "arm", "retract", "claim", "put", "free"},
                               slot : Nat \ {0}, v : Windows] \cup {Idle}]
      BY <1>1, <1>2, <1>4, <2>1 DEF WindowTypes
    <3> QED BY <1>1, <1>2, <1>4, <3>1, <3>2 DEF WindowTypes
  <2>3. at'[u] = [pc |-> pc, slot |-> s, v |-> a.v] BY <1>1, <2>1 DEF WindowTypes
  <2>4. \A r \in Slots : tid'[r] = tid[r] \/ (r = a.slot /\ tid[r] = FREE /\ tid'[r] = u)
    BY <1>1, <1>4 DEF WindowTypes
  <2>5. u # FREE OBVIOUS
  <2>6. OneSlot' BY <1>1, <1>2, <2>4 DEF OneSlot, NoSlot
  <2>7. FreeClean' BY <1>1, <1>2, <2>4, <2>5 DEF FreeClean
  <2>8. ASSUME NEW t \in Threads, t # u PROVE ThreadInv(t)'
    <3>1. at'[t] = at[t] /\ t # FREE BY <1>1, <2>1, <2>8 DEF WindowTypes
    <3>2. \A r \in Slots : tid'[r] = t <=> tid[r] = t BY <2>4, <2>8, <3>1
    <3> QED BY <1>2, <1>4, <3>1, <3>2, OtherThread DEF IInv
  <2>9. \A e : (Covered(u, e)' <=> Covered(u, e)) /\ Below(u, e)' = Below(u, e)
    BY <1>4 DEF Covered, Below, Window, None
  <2>10. /\ \A e \in 1..depth'[u] : prev'[u][e] = Below(u, e)'
         /\ \A e \in depth'[u] + 1..MaxNest : ~armed'[u][e]
    BY <1>1, <1>4, <2>9 DEF ThreadInv
  <2>11. OwnRuns(u)'
    <3>1. \A r \in Slots : tid'[r] = u => value[r] = None
      BY <1>1, <1>2, <2>4 DEF NoSlot, FreeClean
    <3> QED BY <3>1, <1>2 DEF OwnRuns, None
  <2>12. /\ d > 0 /\ ~armed'[u][d] /\ Chain(u, d - 1)'
         /\ at'[u].v = Window(u, d)
    BY <1>2, <1>4, <2>3 DEF InStore, Chain
  <2>13. InStore(u)'
    <3>1. CASE pc = "put" /\ s = a.slot /\ a.slot \in Slots /\ tid' = [tid EXCEPT ![a.slot] = u]
      <4>1. tid'[s] = u BY <1>1, <3>1 DEF WindowTypes
      <4> QED BY <3>1, <4>1, <1>4, <2>3, <2>12 DEF InStore, Window
    <3>2. CASE pc = "claim" /\ tid' = tid
      BY <3>2, <1>2, <1>4, <2>3, <2>9, <2>12 DEF InStore, Window, NoSlot
    <3> QED BY <1>4, <3>1, <3>2
  <2>14. ThreadInv(u)' BY <1>4, <2>3, <2>10, <2>11, <2>13 DEF ThreadInv
  <2> QED BY <2>2, <2>6, <2>7, <2>8, <2>14 DEF IInv
<1>5. CASE /\ a.slot <= Capacity /\ tid[a.slot] = FREE
           /\ tid' = [tid EXCEPT ![a.slot] = u]
           /\ Goto(u, "put", a.slot) /\ UNCHANGED runs
  <2>1. a.slot \in Slots BY <1>2, <1>5 DEF Slots
  <2> QED BY <1>2, <1>4, <1>5, <2>1 DEF runs
<1>6. CASE /\ a.slot <= Capacity /\ tid[a.slot] # FREE
           /\ Goto(u, "claim", a.slot + 1) /\ UNCHANGED <<tid, depth, armed, prev>>
  BY <1>2, <1>4, <1>6
<1> QED BY <1>3, <1>5, <1>6 DEF Claim

(* Put: the slot shows the new window, or nothing and is then given up. *)
LEMMA PutInv ==
  ASSUME IInv, NEW u \in Threads, Put(u)
  PROVE IInv'
<1> DEFINE d == depth[u]
           a == at[u]
<1> USE TableAssumption
<1>1. ThreadInv(u) /\ WindowTypes /\ OneSlot /\ FreeClean BY DEF IInv
<1>2. /\ a.pc = "put" /\ a.slot \in Slots /\ a.v \in Windows
      /\ d \in 1..MaxNest /\ InStore(u) /\ tid[a.slot] = u
      /\ a.v = Window(u, d) \/ a.v = Below(u, d)
      /\ tid' = tid /\ value' = [value EXCEPT ![a.slot] = a.v]
  BY <1>1 DEF Put, ThreadInv, InStore, WindowTypes, Idle
<1>3. \A r \in Slots : tid[r] = u <=> r = a.slot
  BY <1>1, <1>2 DEF OneSlot
<1>4. \A r \in Slots : value'[r] = IF tid[r] = u THEN a.v ELSE value[r]
  BY <1>1, <1>2, <1>3 DEF WindowTypes
<1>5. value' \in [Slots -> Windows] BY <1>1, <1>2 DEF WindowTypes
<1>6. OneSlot' /\ FreeClean' BY <1>1, <1>2, <1>4 DEF OneSlot, FreeClean, None
<1>7. ASSUME NEW t \in Threads, t # u,
             depth'[t] = depth[t], armed'[t] = armed[t], prev'[t] = prev[t], at'[t] = at[t]
      PROVE ThreadInv(t)'
  <2>1. \A r \in Slots : tid[r] = t => value'[r] = value[r] BY <1>4, <1>7
  <2> QED BY <1>2, <1>7, <2>1, OtherThread DEF IInv
<1>8. CASE a.v = None /\ Goto(u, "free", a.slot) /\ UNCHANGED runs
  <2>1. at' = [at EXCEPT ![u] = [pc |-> "free", slot |-> a.slot, v |-> a.v]]
    BY <1>1, <1>2, <1>8, GotoIs
  <2>2. depth' = depth /\ armed' = armed /\ prev' = prev BY <1>8 DEF runs
  <2>3. WindowTypes' BY <1>1, <1>2, <1>5, <2>1, <2>2 DEF WindowTypes, Slots
  <2>4. at'[u] = [pc |-> "free", slot |-> a.slot, v |-> a.v] BY <1>1, <2>1 DEF WindowTypes
  <2>5. \A e : (Covered(u, e)' <=> Covered(u, e)) /\ Below(u, e)' = Below(u, e)
    BY <2>2 DEF Covered, Below, Window, None
  <2>6. /\ \A e \in 1..depth'[u] : prev'[u][e] = Below(u, e)'
        /\ \A e \in depth'[u] + 1..MaxNest : ~armed'[u][e]
    BY <1>1, <2>2, <2>5 DEF ThreadInv
  <2>7. OwnRuns(u)' BY <1>2, <1>4, <1>8 DEF OwnRuns, None
  <2>8. value'[a.slot] = None BY <1>2, <1>4, <1>8
  <2>9. InStore(u)'
    BY <1>2, <1>8, <2>2, <2>4, <2>5, <2>8 DEF InStore, Chain, Window, None
  <2>10. ThreadInv(u)' BY <2>4, <2>6, <2>7, <2>9 DEF ThreadInv
  <2>11. ASSUME NEW t \in Threads, t # u PROVE ThreadInv(t)'
    BY <1>1, <1>7, <2>1, <2>2, <2>11 DEF WindowTypes
  <2> QED BY <1>6, <2>3, <2>10, <2>11 DEF IInv
<1>9. CASE a.v # None /\ Finished(u, TRUE)
  <2>1. at' = [at EXCEPT ![u] = Idle] BY <1>9 DEF Finished
  <2>2. ASSUME NEW t \in Threads, t # u PROVE at'[t] = at[t]
    BY <1>1, <2>1, <2>2 DEF WindowTypes
  <2>3. CASE a.v = Window(u, d)
    <3>1. /\ depth' = depth /\ prev' = prev
          /\ armed' \in [Threads -> [1..MaxNest -> BOOLEAN]]
          /\ \A t \in Threads \ {u} : armed'[t] = armed[t]
          /\ ThreadInv(u)'
      <4>1. \A s \in Slots : tid'[s] = u => value'[s] = Window(u, depth[u])
        BY <1>2, <1>4, <2>3
      <4>2. \E s \in Slots : tid'[s] = u BY <1>2
      <4> QED BY <1>1, <1>2, <1>9, <2>3, <4>1, <4>2, ArmDone
    <3>2. WindowTypes' BY <1>1, <1>2, <1>5, <2>1, <3>1 DEF WindowTypes
    <3> QED BY <1>6, <1>7, <2>2, <3>1, <3>2 DEF IInv
  <2>4. CASE a.v # Window(u, d)
    <3>1. a.v = Below(u, d) BY <1>2, <2>4
    <3>2. Covered(u, d) BY <1>9, <3>1 DEF Below
    <3>3. /\ armed' = armed
          /\ depth' \in [Threads -> 0..MaxNest]
          /\ prev' \in [Threads -> [1..MaxNest -> Windows]]
          /\ \A t \in Threads \ {u} : depth'[t] = depth[t] /\ prev'[t] = prev[t]
          /\ ThreadInv(u)'
      <4>1. \A s \in Slots : tid'[s] = u => value'[s] = Below(u, depth[u])
        BY <1>2, <1>4, <3>1
      <4>2. \E s \in Slots : tid'[s] = u BY <1>2
      <4> QED BY <1>1, <1>2, <1>9, <2>4, <3>2, <4>1, <4>2, RetractDone
    <3>4. WindowTypes' BY <1>1, <1>2, <1>5, <2>1, <3>3 DEF WindowTypes
    <3> QED BY <1>6, <1>7, <2>2, <3>3, <3>4 DEF IInv
  <2> QED BY <2>3, <2>4
<1> QED BY <1>8, <1>9 DEF Put

(* Free: only a slot that shows nothing is given up. *)
LEMMA FreeInv ==
  ASSUME IInv, NEW u \in Threads, Free(u)
  PROVE IInv'
<1> DEFINE d == depth[u]
           a == at[u]
<1> USE TableAssumption
<1>1. ThreadInv(u) /\ WindowTypes /\ OneSlot /\ FreeClean BY DEF IInv
<1>2. /\ a.pc = "free" /\ a.slot \in Slots /\ d \in 1..MaxNest
      /\ tid[a.slot] = u /\ value[a.slot] = None /\ a.v = None
      /\ a.v = Window(u, d) \/ a.v = Below(u, d)
      /\ tid' = [tid EXCEPT ![a.slot] = FREE] /\ value' = value /\ Finished(u, TRUE)
  <2>1. a.pc = "free" /\ tid' = [tid EXCEPT ![a.slot] = FREE] /\ value' = value
        /\ Finished(u, TRUE)
    BY DEF Free
  <2>2. InStore(u) BY <1>1, <2>1 DEF ThreadInv
  <2>3. d \in 1..MaxNest BY <1>1, <2>2 DEF InStore, WindowTypes
  <2> QED BY <2>1, <2>2, <2>3 DEF InStore
<1>3. a.v # Window(u, d) /\ ~Covered(u, d)
  BY <1>2, WindowFacts DEF Below, Covered
<1>4. \A r \in Slots : tid'[r] = IF tid[r] = u THEN FREE ELSE tid[r]
  BY <1>1, <1>2 DEF OneSlot, WindowTypes
<1>5. NoSlot(u)' BY <1>4 DEF NoSlot
<1>6. /\ armed' = armed
      /\ depth' \in [Threads -> 0..MaxNest]
      /\ prev' \in [Threads -> [1..MaxNest -> Windows]]
      /\ \A t \in Threads \ {u} : depth'[t] = depth[t] /\ prev'[t] = prev[t]
      /\ ThreadInv(u)'
  BY <1>1, <1>2, <1>3, <1>5, RetractDone DEF NoSlot
<1>7. at' = [at EXCEPT ![u] = Idle] BY <1>2 DEF Finished
<1>8. WindowTypes' BY <1>1, <1>2, <1>6, <1>7 DEF WindowTypes
<1>9. OneSlot' BY <1>1, <1>4 DEF OneSlot
<1>10. FreeClean'
  <2> SUFFICES ASSUME NEW r \in Slots, tid'[r] = FREE PROVE value[r] = None
    BY <1>2 DEF FreeClean, None
  <2>1. CASE tid[r] = u BY <2>1, <1>1, <1>2 DEF OneSlot
  <2>2. CASE tid[r] # u BY <2>2, <1>1, <1>4 DEF FreeClean
  <2> QED BY <2>1, <2>2
<1>11. ASSUME NEW t \in Threads, t # u PROVE ThreadInv(t)'
  <2>1. at'[t] = at[t] BY <1>1, <1>7, <1>11 DEF WindowTypes
  <2>2. \A r \in Slots : tid'[r] = t <=> tid[r] = t BY <1>4, <1>11
  <2> QED BY <1>2, <1>6, <1>11, <2>1, <2>2, OtherThread DEF IInv
<1> QED BY <1>6, <1>8, <1>9, <1>10, <1>11 DEF IInv

-----------------------------------------------------------------------------
(* Every step keeps the invariant. *)
LEMMA NextInv == IInv /\ [Next]_vars => IInv'
<1> SUFFICES ASSUME IInv, [Next]_vars PROVE IInv' OBVIOUS
<1>1. ASSUME NEW u \in Threads,
             EnterRun(u) \/ LeaveRun(u) \/ Seek(u) \/ Put(u) \/ Free(u) \/ Claim(u)
      PROVE IInv'
  BY <1>1, EnterRunInv, LeaveRunInv, SeekInv, PutInv, FreeInv, ClaimInv
<1>2. CASE UNCHANGED vars
  <2>1. tid' = tid /\ value' = value /\ depth' = depth /\ armed' = armed
        /\ prev' = prev /\ at' = at
    BY <1>2 DEF vars
  <2>2. WindowTypes' /\ OneSlot' /\ FreeClean'
    BY <2>1 DEF IInv, WindowTypes, OneSlot, FreeClean
  <2>3. \A t \in Threads : ThreadInv(t)' BY <2>1, OtherThread DEF IInv
  <2> QED BY <2>2, <2>3 DEF IInv
<1> QED BY <1>1, <1>2 DEF Next

(* What the invariant says of a fault. *)
LEMMA InvShows == IInv => WindowsAreOwn
<1> SUFFICES ASSUME IInv, NEW t \in Threads
             PROVE /\ Loaded(t) # None => \E d \in 1..depth[t] : Loaded(t) = Window(t, d)
                   /\ at[t].pc = "idle" => Loaded(t) = IF depth[t] > 0 /\ armed[t][depth[t]]
                                                       THEN Window(t, depth[t]) ELSE None
  BY DEF WindowsAreOwn
<1>1. OneSlot /\ ThreadInv(t) BY DEF IInv
<1>2. Loaded(t) # None => \E d \in 1..depth[t] : Loaded(t) = Window(t, d)
  <2> SUFFICES ASSUME Loaded(t) # None
               PROVE \E d \in 1..depth[t] : Loaded(t) = Window(t, d)
    OBVIOUS
  <2>1. PICK s \in Slots : tid[s] = t BY <1>1, LoadedIs DEF NoSlot
  <2>2. Loaded(t) = value[s] BY <1>1, <2>1, LoadedIs
  <2> QED BY <1>1, <2>1, <2>2 DEF ThreadInv, OwnRuns
<1>3. ASSUME at[t].pc = "idle"
      PROVE Loaded(t) = IF depth[t] > 0 /\ armed[t][depth[t]] THEN Window(t, depth[t]) ELSE None
  <2>1. AtIdle(t) BY <1>1, <1>3 DEF ThreadInv
  <2>2. CASE depth[t] > 0 /\ armed[t][depth[t]]
    <3>1. PICK s \in Slots : tid[s] = t /\ value[s] = Window(t, depth[t])
      BY <2>1, <2>2 DEF AtIdle, Shows
    <3>2. Loaded(t) = Window(t, depth[t]) BY <1>1, <3>1, LoadedIs
    <3> QED BY <2>2, <3>2
  <2>3. CASE ~(depth[t] > 0 /\ armed[t][depth[t]])
    BY <1>1, <2>1, <2>3, LoadedIs DEF AtIdle
  <2> QED BY <2>2, <2>3
<1> QED BY <1>2, <1>3

(* The invariant holds throughout. *)
THEOREM InvHolds == Spec => []IInv
<1> QED BY InitInv, NextInv, PTL DEF Spec

(* A fault that strikes a thread at any moment finds a window of that thread
   and of a run it is still in, or none: for every number of threads, slots
   and nested runs. *)
THEOREM WindowsAreOwnHolds == Spec => []WindowsAreOwn
<1> QED BY InvHolds, InvShows, PTL

-----------------------------------------------------------------------------
(* The deque is a sequence, and what it copies is paid for by the calls.    *)

LEMMA FunctionIsSequence ==
  ASSUME NEW S, NEW n \in Nat, NEW g \in [1..n -> S]
  PROVE g \in Seq(S) /\ Len(g) = n
<1>1. g \in Seq(S) BY SeqDef
<1>2. DOMAIN g = 1..n OBVIOUS
<1> QED BY <1>1, <1>2, LenProperties

(* A vector after a pop. *)
LEMMA PoppedIs ==
  ASSUME NEW v \in Seq(Elem), v # <<>>
  PROVE /\ Len(v) \in Nat \ {0}
        /\ Shortened(v) \in Seq(Elem) /\ Len(Shortened(v)) = Len(v) - 1
        /\ \A i \in 1..Len(v) - 1 : Shortened(v)[i] = v[i]
        /\ LastOf(v) = v[Len(v)] /\ LastOf(v) \in Elem
<1>1. Len(v) \in Nat \ {0} BY EmptySeq
<1>2. \A i \in 1..Len(v) : v[i] \in Elem BY <1>1, ElementOfSeq
<1>3. Shortened(v) \in [1..Len(v) - 1 -> Elem] BY <1>1, <1>2 DEF Shortened
<1>4. Len(v) - 1 \in Nat BY <1>1
<1>5. Shortened(v) \in Seq(Elem) /\ Len(Shortened(v)) = Len(v) - 1
  BY <1>3, <1>4, FunctionIsSequence
<1> QED BY <1>1, <1>2, <1>5 DEF Shortened, LastOf

LEMMA PoppedEmpty == Shortened(<<>>) = <<>>
<1>1. Shortened(<<>>) \in [1..0 -> Elem] BY DEF Shortened
<1>2. Shortened(<<>>) \in Seq(Elem) /\ Len(Shortened(<<>>)) = 0 BY <1>1, FunctionIsSequence
<1> QED BY <1>2, EmptySeq

(* The two sides after a move. *)
LEMMA HalvesAre ==
  ASSUME NEW v \in Seq(Elem), Len(v) > 1
  PROVE /\ Half(v) \in 1..Len(v) - 1
        /\ 2 * Half(v) - Len(v) \in {0, 1}
        /\ Taken(v) \in Seq(Elem) /\ Len(Taken(v)) = Half(v)
        /\ \A i \in 1..Half(v) : Taken(v)[i] = v[Half(v) + 1 - i]
        /\ Kept(v) \in Seq(Elem) /\ Len(Kept(v)) = Len(v) - Half(v)
        /\ \A i \in 1..Len(v) - Half(v) : Kept(v)[i] = v[Half(v) + i]
<1>1. Len(v) \in Nat BY LenProperties
<1>2. Half(v) \in 1..Len(v) - 1 /\ 2 * Half(v) - Len(v) \in {0, 1} BY <1>1 DEF Half
<1>3. \A i \in 1..Len(v) : v[i] \in Elem BY <1>1, ElementOfSeq
<1>4. Taken(v) \in [1..Half(v) -> Elem] BY <1>1, <1>2, <1>3 DEF Taken
<1>5. Taken(v) \in Seq(Elem) /\ Len(Taken(v)) = Half(v) BY <1>2, <1>4, FunctionIsSequence
<1>6. Kept(v) \in [1..Len(v) - Half(v) -> Elem] BY <1>1, <1>2, <1>3 DEF Kept
<1>7. Len(v) - Half(v) \in Nat BY <1>1, <1>2
<1>8. Kept(v) \in Seq(Elem) /\ Len(Kept(v)) = Len(v) - Half(v)
  BY <1>6, <1>7, FunctionIsSequence
<1> QED BY <1>2, <1>5, <1>8 DEF Taken, Kept

-----------------------------------------------------------------------------
(* The two sides as one sequence.                                          *)

LEMMA JoinedType ==
  ASSUME NEW f \in Seq(Elem), NEW b \in Seq(Elem)
  PROVE /\ Len(f) \in Nat /\ Len(b) \in Nat
        /\ Joined(f, b) \in Seq(Elem)
        /\ Len(Joined(f, b)) = Len(f) + Len(b)
<1> DEFINE n == Len(f) + Len(b)
<1>1. Len(f) \in Nat /\ Len(b) \in Nat BY LenProperties
<1>2. ASSUME NEW i \in 1..n
      PROVE (IF i <= Len(f) THEN f[Len(f) + 1 - i] ELSE b[i - Len(f)]) \in Elem
  BY <1>1, <1>2, ElementOfSeq
<1>3. Joined(f, b) \in [1..n -> Elem] BY <1>2 DEF Joined
<1>4. Joined(f, b) \in Seq(Elem) /\ Len(Joined(f, b)) = n BY <1>1, <1>3, FunctionIsSequence
<1> QED BY <1>1, <1>4

(* A sequence that agrees with the two sides at each place is their join. *)
LEMMA JoinedIs ==
  ASSUME NEW f \in Seq(Elem), NEW b \in Seq(Elem), NEW s \in Seq(Elem),
         Len(s) = Len(f) + Len(b),
         \A i \in 1..Len(f) : s[Len(f) + 1 - i] = f[i],
         \A i \in 1..Len(b) : s[Len(f) + i] = b[i]
  PROVE Joined(f, b) = s
<1>1. /\ Len(f) \in Nat /\ Len(b) \in Nat
      /\ Joined(f, b) \in Seq(Elem) /\ Len(Joined(f, b)) = Len(s)
  BY JoinedType
<1>2. ASSUME NEW i \in 1..Len(s) PROVE Joined(f, b)[i] = s[i]
  <2>1. CASE i <= Len(f)
    <3>1. Joined(f, b)[i] = f[Len(f) + 1 - i] BY <2>1 DEF Joined
    <3>2. Len(f) + 1 - i \in 1..Len(f) /\ Len(f) + 1 - (Len(f) + 1 - i) = i BY <1>1, <2>1
    <3> QED BY <3>1, <3>2
  <2>2. CASE i > Len(f)
    <3>1. Joined(f, b)[i] = b[i - Len(f)] BY <1>1, <2>2 DEF Joined
    <3>2. i - Len(f) \in 1..Len(b) /\ Len(f) + (i - Len(f)) = i BY <1>1, <2>2
    <3> QED BY <3>1, <3>2
  <2> QED BY <1>1, <2>1, <2>2
<1> QED BY <1>1, <1>2, SeqEqual

(* And the join agrees with them. *)
LEMMA JoinedAgrees ==
  ASSUME NEW f \in Seq(Elem), NEW b \in Seq(Elem)
  PROVE /\ \A i \in 1..Len(f) : Joined(f, b)[Len(f) + 1 - i] = f[i]
        /\ \A i \in 1..Len(b) : Joined(f, b)[Len(f) + i] = b[i]
<1>1. Len(f) \in Nat /\ Len(b) \in Nat BY LenProperties
<1>2. ASSUME NEW i \in 1..Len(f) PROVE Joined(f, b)[Len(f) + 1 - i] = f[i]
  <2>1. Len(f) + 1 - i \in 1..Len(f) /\ Len(f) + 1 - (Len(f) + 1 - i) = i BY <1>1
  <2>2. Len(f) + 1 - i \in 1..Len(f) + Len(b) /\ Len(f) + 1 - i <= Len(f) BY <1>1
  <2> QED BY <2>1, <2>2 DEF Joined
<1>3. ASSUME NEW i \in 1..Len(b) PROVE Joined(f, b)[Len(f) + i] = b[i]
  <2>1. /\ Len(f) + i \in 1..Len(f) + Len(b) /\ ~(Len(f) + i <= Len(f))
        /\ Len(f) + i - Len(f) = i
    BY <1>1
  <2> QED BY <2>1 DEF Joined
<1> QED BY <1>2, <1>3

LEMMA PushedInFront ==
  ASSUME NEW j \in Seq(Elem), NEW x \in Elem
  PROVE /\ <<x>> \o j \in Seq(Elem)
        /\ Len(<<x>> \o j) = 1 + Len(j)
        /\ (<<x>> \o j)[1] = x
        /\ \A i \in 1..Len(j) : (<<x>> \o j)[i + 1] = j[i]
<1>1. Len(j) \in Nat BY LenProperties
<1> QED BY <1>1

LEMMA JoinPushFront ==
  ASSUME NEW f \in Seq(Elem), NEW b \in Seq(Elem), NEW x \in Elem
  PROVE Joined(Append(f, x), b) = <<x>> \o Joined(f, b)
<1> DEFINE j == Joined(f, b)
           g == Append(f, x)
           s == <<x>> \o j
<1>1. /\ Len(f) \in Nat /\ Len(b) \in Nat /\ j \in Seq(Elem) /\ Len(j) = Len(f) + Len(b)
      /\ \A i \in 1..Len(f) : j[Len(f) + 1 - i] = f[i]
      /\ \A i \in 1..Len(b) : j[Len(f) + i] = b[i]
  BY JoinedType, JoinedAgrees
<1>2. /\ g \in Seq(Elem) /\ Len(g) = Len(f) + 1 /\ g[Len(f) + 1] = x
      /\ \A i \in 1..Len(f) : g[i] = f[i]
  BY AppendProperties
<1>3. /\ s \in Seq(Elem) /\ Len(s) = 1 + Len(j) /\ s[1] = x
      /\ \A i \in 1..Len(j) : s[i + 1] = j[i]
  <2> HIDE DEF j
  <2> QED BY <1>1, PushedInFront
<1> HIDE DEF j, g, s
<1>4. ASSUME NEW i \in 1..Len(g) PROVE s[Len(g) + 1 - i] = g[i]
  <2>1. CASE i = Len(f) + 1 BY <1>1, <1>2, <1>3, <2>1
  <2>2. CASE i \in 1..Len(f)
    <3>1. Len(g) + 1 - i = (Len(f) + 1 - i) + 1 /\ Len(f) + 1 - i \in 1..Len(j)
      BY <1>1, <1>2, <2>2
    <3> QED BY <1>1, <1>2, <1>3, <2>2, <3>1
  <2> QED BY <1>1, <1>2, <2>1, <2>2
<1>5. ASSUME NEW i \in 1..Len(b) PROVE s[Len(g) + i] = b[i]
  <2>1. Len(g) + i = (Len(f) + i) + 1 /\ Len(f) + i \in 1..Len(j) BY <1>1, <1>2
  <2> QED BY <1>1, <1>3, <2>1
<1>6. Len(s) = Len(g) + Len(b) BY <1>1, <1>2, <1>3
<1>7. Joined(g, b) = s BY <1>2, <1>3, <1>4, <1>5, <1>6, JoinedIs
<1> QED BY <1>7 DEF j, g, s

LEMMA JoinPushBack ==
  ASSUME NEW f \in Seq(Elem), NEW b \in Seq(Elem), NEW x \in Elem
  PROVE Joined(f, Append(b, x)) = Append(Joined(f, b), x)
<1> DEFINE j == Joined(f, b)
           g == Append(b, x)
           s == Append(j, x)
<1>1. /\ Len(f) \in Nat /\ Len(b) \in Nat /\ j \in Seq(Elem) /\ Len(j) = Len(f) + Len(b)
      /\ \A i \in 1..Len(f) : j[Len(f) + 1 - i] = f[i]
      /\ \A i \in 1..Len(b) : j[Len(f) + i] = b[i]
  BY JoinedType, JoinedAgrees
<1>2. /\ g \in Seq(Elem) /\ Len(g) = Len(b) + 1 /\ g[Len(b) + 1] = x
      /\ \A i \in 1..Len(b) : g[i] = b[i]
  BY AppendProperties
<1>3. /\ s \in Seq(Elem) /\ Len(s) = Len(j) + 1 /\ s[Len(j) + 1] = x
      /\ \A i \in 1..Len(j) : s[i] = j[i]
  <2> HIDE DEF j
  <2> QED BY <1>1, AppendProperties
<1> HIDE DEF j, g, s
<1>4. ASSUME NEW i \in 1..Len(f) PROVE s[Len(f) + 1 - i] = f[i]
  <2>1. Len(f) + 1 - i \in 1..Len(j) BY <1>1
  <2> QED BY <1>1, <1>3, <2>1
<1>5. ASSUME NEW i \in 1..Len(g) PROVE s[Len(f) + i] = g[i]
  <2>1. CASE i = Len(b) + 1
    <3>1. Len(f) + i = Len(j) + 1 BY <1>1, <2>1
    <3> QED BY <1>2, <1>3, <2>1, <3>1
  <2>2. CASE i \in 1..Len(b)
    <3>1. Len(f) + i \in 1..Len(j) BY <1>1, <2>2
    <3> QED BY <1>1, <1>2, <1>3, <2>2, <3>1
  <2> QED BY <1>1, <1>2, <2>1, <2>2
<1>6. Len(s) = Len(f) + Len(g) BY <1>1, <1>2, <1>3
<1>7. Joined(f, g) = s BY <1>2, <1>3, <1>4, <1>5, <1>6, JoinedIs
<1> QED BY <1>7 DEF j, g, s

LEMMA JoinPopFront ==
  ASSUME NEW f \in Seq(Elem), NEW b \in Seq(Elem), f # <<>>
  PROVE /\ Joined(f, b) # <<>>
        /\ Joined(Shortened(f), b) = Tail(Joined(f, b))
        /\ Joined(f, b)[1] = LastOf(f)
<1> DEFINE j == Joined(f, b)
           g == Shortened(f)
           s == Tail(j)
<1>1. /\ Len(f) \in Nat /\ Len(b) \in Nat /\ j \in Seq(Elem) /\ Len(j) = Len(f) + Len(b)
      /\ \A i \in 1..Len(f) : j[Len(f) + 1 - i] = f[i]
      /\ \A i \in 1..Len(b) : j[Len(f) + i] = b[i]
  BY JoinedType, JoinedAgrees
<1>2. /\ g \in Seq(Elem) /\ Len(g) = Len(f) - 1 /\ Len(f) # 0 /\ LastOf(f) = f[Len(f)]
      /\ \A i \in 1..Len(f) - 1 : g[i] = f[i]
  BY PoppedIs
<1> HIDE DEF j, g
<1>3. j # <<>> BY <1>1, <1>2, EmptySeq
<1>4. /\ s \in Seq(Elem) /\ Len(s) = Len(j) - 1
      /\ \A i \in 1..Len(s) : s[i] = j[i + 1]
  BY <1>1, <1>3, HeadTailProperties
<1> HIDE DEF s
<1>5. ASSUME NEW i \in 1..Len(g) PROVE s[Len(g) + 1 - i] = g[i]
  <2>1. Len(g) + 1 - i \in 1..Len(s) /\ Len(g) + 1 - i + 1 = Len(f) + 1 - i /\ i \in 1..Len(f) - 1
    BY <1>1, <1>2, <1>4
  <2>2. s[Len(g) + 1 - i] = j[Len(f) + 1 - i] BY <1>4, <2>1
  <2> QED BY <1>1, <1>2, <2>1, <2>2
<1>6. ASSUME NEW i \in 1..Len(b) PROVE s[Len(g) + i] = b[i]
  <2>1. Len(g) + i + 1 = Len(f) + i BY <1>1, <1>2
  <2>2. Len(g) + i \in 1..Len(s) BY <1>1, <1>2, <1>4
  <2> QED BY <1>1, <1>4, <2>1, <2>2
<1>7. Len(s) = Len(g) + Len(b) BY <1>1, <1>2, <1>4
<1>8. Joined(g, b) = s BY <1>2, <1>4, <1>5, <1>6, <1>7, JoinedIs
<1>9. j[1] = f[Len(f)]
  <2>1. Len(f) \in 1..Len(f) /\ Len(f) + 1 - Len(f) = 1 BY <1>1, <1>2
  <2> QED BY <1>1, <2>1
<1> QED BY <1>2, <1>3, <1>8, <1>9 DEF j, g, s

LEMMA JoinPopBack ==
  ASSUME NEW f \in Seq(Elem), NEW b \in Seq(Elem), b # <<>>
  PROVE /\ Joined(f, b) # <<>>
        /\ Joined(f, Shortened(b)) = Shortened(Joined(f, b))
        /\ LastOf(Joined(f, b)) = LastOf(b)
<1> DEFINE j == Joined(f, b)
           g == Shortened(b)
           s == Shortened(j)
<1>1. /\ Len(f) \in Nat /\ Len(b) \in Nat /\ j \in Seq(Elem) /\ Len(j) = Len(f) + Len(b)
      /\ \A i \in 1..Len(f) : j[Len(f) + 1 - i] = f[i]
      /\ \A i \in 1..Len(b) : j[Len(f) + i] = b[i]
  BY JoinedType, JoinedAgrees
<1>2. /\ g \in Seq(Elem) /\ Len(g) = Len(b) - 1 /\ Len(b) # 0 /\ LastOf(b) = b[Len(b)]
      /\ \A i \in 1..Len(b) - 1 : g[i] = b[i]
  BY PoppedIs
<1> HIDE DEF j, g
<1>3. j # <<>> BY <1>1, <1>2, EmptySeq
<1>4. /\ s \in Seq(Elem) /\ Len(s) = Len(j) - 1 /\ LastOf(j) = j[Len(j)]
      /\ \A i \in 1..Len(j) - 1 : s[i] = j[i]
  BY <1>1, <1>3, PoppedIs
<1> HIDE DEF s
<1>5. ASSUME NEW i \in 1..Len(f) PROVE s[Len(f) + 1 - i] = f[i]
  <2>1. Len(f) + 1 - i \in 1..Len(j) - 1 BY <1>1, <1>2
  <2> QED BY <1>1, <1>4, <2>1
<1>6. ASSUME NEW i \in 1..Len(g) PROVE s[Len(f) + i] = g[i]
  <2>1. Len(f) + i \in 1..Len(j) - 1 /\ i \in 1..Len(b) - 1 /\ i \in 1..Len(b)
    BY <1>1, <1>2
  <2> QED BY <1>1, <1>2, <1>4, <2>1
<1>7. Len(s) = Len(f) + Len(g) BY <1>1, <1>2, <1>4
<1>8. Joined(f, g) = s BY <1>2, <1>4, <1>5, <1>6, <1>7, JoinedIs
<1>9. LastOf(j) = LastOf(b)
  <2>1. Len(b) \in 1..Len(b) BY <1>1, <1>2
  <2> QED BY <1>1, <1>2, <1>4, <2>1
<1> QED BY <1>3, <1>8, <1>9 DEF j, g, s

(* Moving half of one side over changes nothing that can be seen. *)
LEMMA JoinMoved ==
  ASSUME NEW v \in Seq(Elem), Len(v) > 1
  PROVE /\ Joined(Taken(v), Kept(v)) = Joined(<<>>, v)
        /\ Joined(Kept(v), Taken(v)) = Joined(v, <<>>)
<1> DEFINE h == Half(v)
           t == Taken(v)
           k == Kept(v)
<1>1. Len(v) \in Nat BY LenProperties
<1>2. /\ h \in 1..Len(v) - 1
      /\ t \in Seq(Elem) /\ Len(t) = h
      /\ \A i \in 1..h : t[i] = v[h + 1 - i]
      /\ k \in Seq(Elem) /\ Len(k) = Len(v) - h
      /\ \A i \in 1..Len(v) - h : k[i] = v[h + i]
  BY HalvesAre
<1> HIDE DEF h, t, k
<1> DEFINE e == <<>>
<1>3. e \in Seq(Elem) /\ Len(e) = 0 BY EmptySeq
<1> HIDE DEF e
<1>4. Joined(t, k) = Joined(e, v)
  <2> DEFINE j == Joined(e, v)
  <2>0. /\ j \in Seq(Elem) /\ Len(j) = Len(e) + Len(v)
        /\ \A i \in 1..Len(v) : j[Len(e) + i] = v[i]
    BY <1>3, JoinedType, JoinedAgrees
  <2>1. /\ j \in Seq(Elem) /\ Len(j) = Len(v)
        /\ \A i \in 1..Len(v) : j[0 + i] = v[i]
    BY <1>1, <1>3, <2>0
  <2> HIDE DEF j
  <2>2. ASSUME NEW i \in 1..Len(t) PROVE j[Len(t) + 1 - i] = t[i]
    <3>1. h + 1 - i \in 1..Len(v) /\ 0 + (h + 1 - i) = h + 1 - i BY <1>1, <1>2
    <3> QED BY <1>2, <2>1, <3>1
  <2>3. ASSUME NEW i \in 1..Len(k) PROVE j[Len(t) + i] = k[i]
    <3>1. h + i \in 1..Len(v) /\ 0 + (h + i) = h + i BY <1>1, <1>2
    <3> QED BY <1>2, <2>1, <3>1
  <2>4. Len(j) = Len(t) + Len(k) BY <1>1, <1>2, <2>1
  <2>5. Joined(t, k) = j BY <1>2, <2>1, <2>2, <2>3, <2>4, JoinedIs
  <2> QED BY <2>5 DEF j
<1>5. Joined(k, t) = Joined(v, e)
  <2> DEFINE j == Joined(v, e)
  <2>0. /\ j \in Seq(Elem) /\ Len(j) = Len(v) + Len(e)
        /\ \A i \in 1..Len(v) : j[Len(v) + 1 - i] = v[i]
    BY <1>3, JoinedType, JoinedAgrees
  <2>1. /\ j \in Seq(Elem) /\ Len(j) = Len(v)
        /\ \A i \in 1..Len(v) : j[Len(v) + 1 - i] = v[i]
    BY <1>1, <1>3, <2>0
  <2> HIDE DEF j
  <2>2. ASSUME NEW i \in 1..Len(k) PROVE j[Len(k) + 1 - i] = k[i]
    <3>1. h + i \in 1..Len(v) /\ Len(v) + 1 - (h + i) = Len(k) + 1 - i BY <1>1, <1>2
    <3>2. j[Len(v) + 1 - (h + i)] = v[h + i] BY <2>1, <3>1
    <3> QED BY <1>2, <3>1, <3>2
  <2>3. ASSUME NEW i \in 1..Len(t) PROVE j[Len(k) + i] = t[i]
    <3>1. h + 1 - i \in 1..Len(v) /\ Len(v) + 1 - (h + 1 - i) = Len(k) + i BY <1>1, <1>2
    <3>2. j[Len(v) + 1 - (h + 1 - i)] = v[h + 1 - i] BY <2>1, <3>1
    <3> QED BY <1>2, <3>1, <3>2
  <2>4. Len(j) = Len(k) + Len(t) BY <1>1, <1>2, <2>1
  <2>5. Joined(k, t) = j BY <1>2, <2>1, <2>2, <2>3, <2>4, JoinedIs
  <2> QED BY <2>5 DEF j
<1> QED BY <1>4, <1>5 DEF t, k, e

-----------------------------------------------------------------------------
(* The invariants.                                                         *)

LEMMA TypesHold == DequeSpec => []TypeOK
<1>1. DequeInit => TypeOK
  <2> SUFFICES ASSUME DequeInit PROVE TypeOK OBVIOUS
  <2>1. back \in Seq(Elem) BY DEF DequeInit
  <2>2. Len(back) \in Nat BY <2>1, LenProperties
  <2>3. <<>> \in Seq(Elem) BY EmptySeq
  <2> QED BY <2>1, <2>2, <2>3 DEF DequeInit, TypeOK
<1>2. TypeOK /\ [DequeNext]_dequeVars => TypeOK'
  <2> SUFFICES ASSUME TypeOK, [DequeNext]_dequeVars PROVE TypeOK' OBVIOUS
  <2>1. /\ nf \in Nat /\ nb \in Nat
        /\ front \in Seq(Elem) /\ back \in Seq(Elem)
        /\ cursor \in Nat /\ moved \in Nat /\ calls \in Nat
        /\ nf > 0 => front # <<>>
        /\ nb > 0 => back # <<>>
    BY LenProperties, EmptySeq DEF TypeOK, nf, nb
  <2>2. /\ \A i \in 1..nf : front[i] \in Elem
        /\ \A i \in 1..nb : back[i] \in Elem
    BY <2>1, ElementOfSeq DEF nf, nb
  <2>3. ASSUME NEW x \in Elem, PushFront(x) PROVE TypeOK'
    <3>1. Append(front, x) \in Seq(Elem) BY <2>1, AppendProperties
    <3> QED BY <2>1, <2>3, <3>1 DEF PushFront, Call, TypeOK
  <2>4. ASSUME NEW x \in Elem, PushBack(x) PROVE TypeOK'
    <3>1. Append(back, x) \in Seq(Elem) BY <2>1, AppendProperties
    <3> QED BY <2>1, <2>4, <3>1 DEF PushBack, Call, TypeOK
  <2>5. ASSUME NEW v \in Seq(Elem)
        PROVE Shortened(v) \in Seq(Elem) /\ LastOf(v) \in Elem \cup {NoElem}
    <3>1. CASE v = <<>> BY <3>1, PoppedEmpty, EmptySeq DEF LastOf
    <3>2. CASE v # <<>> BY <3>2, PoppedIs
    <3> QED BY <3>1, <3>2
  <2>6. CASE PopFront
    <3>1. CASE nf = 0 /\ nb > 1 /\ front' = Shortened(Taken(back)) /\ ret' = LastOf(Taken(back))
               /\ back' = Kept(back) /\ moved' = moved + nb /\ Call
      <4>1. Taken(back) \in Seq(Elem) /\ Kept(back) \in Seq(Elem) BY <2>1, <3>1, HalvesAre DEF nb
      <4> QED BY <2>1, <2>5, <3>1, <4>1 DEF Call, TypeOK
    <3> QED BY <2>1, <2>5, <2>6, <3>1 DEF PopFront, Call, TypeOK
  <2>7. CASE PopBack
    <3>1. CASE nb = 0 /\ nf > 1 /\ back' = Shortened(Taken(front)) /\ ret' = LastOf(Taken(front))
               /\ front' = Kept(front) /\ moved' = moved + nf /\ Call
      <4>1. Taken(front) \in Seq(Elem) /\ Kept(front) \in Seq(Elem) BY <2>1, <3>1, HalvesAre DEF nf
      <4> QED BY <2>1, <2>5, <3>1, <4>1 DEF Call, TypeOK
    <3> QED BY <2>1, <2>5, <2>7, <3>1 DEF PopBack, Call, TypeOK
  <2>8. CASE Clear
    <3>1. <<>> \in Seq(Elem) BY EmptySeq
    <3> QED BY <2>1, <2>8, <3>1 DEF Clear, TypeOK
  <2>9. \A i \in Int : Get(i) \in Elem \cup {NoElem} BY <2>1, <2>2 DEF Get
  <2>10. CASE Read
    <3>1. PeekFront \in Elem \cup {NoElem} /\ PeekBack \in Elem \cup {NoElem}
      BY <2>1, <2>2 DEF PeekFront, PeekBack
    <3>2. \A i \in -1..nf + nb : i \in Int BY <2>1
    <3> QED BY <2>1, <2>9, <2>10, <3>1, <3>2 DEF Read, TypeOK
  <2>11. CASE CursorNext BY <2>1, <2>9, <2>11 DEF CursorNext, TypeOK
  <2>12. CASE UNCHANGED dequeVars BY <2>12 DEF dequeVars, TypeOK
  <2> QED BY <2>3, <2>4, <2>6, <2>7, <2>8, <2>10, <2>11, <2>12 DEF DequeNext
<1> QED BY <1>1, <1>2, PTL DEF DequeSpec

-----------------------------------------------------------------------------
(* The lengths after a step. *)
LEMMA LengthsAfter ==
  ASSUME TypeOK
  PROVE /\ nf \in Nat /\ nb \in Nat
        /\ \A x \in Elem : Len(Append(front, x)) = nf + 1 /\ Len(Append(back, x)) = nb + 1
        /\ Len(Shortened(front)) = IF nf = 0 THEN 0 ELSE nf - 1
        /\ Len(Shortened(back)) = IF nb = 0 THEN 0 ELSE nb - 1
        /\ nf > 1 => /\ 2 * Half(front) - nf \in {0, 1} /\ Half(front) \in 1..nf - 1
                     /\ Len(Shortened(Taken(front))) = Half(front) - 1
                     /\ Len(Kept(front)) = nf - Half(front)
        /\ nb > 1 => /\ 2 * Half(back) - nb \in {0, 1} /\ Half(back) \in 1..nb - 1
                     /\ Len(Shortened(Taken(back))) = Half(back) - 1
                     /\ Len(Kept(back)) = nb - Half(back)
<1>1. front \in Seq(Elem) /\ back \in Seq(Elem) BY DEF TypeOK
<1>2. ASSUME NEW v \in Seq(Elem)
      PROVE /\ Len(v) \in Nat
            /\ \A x \in Elem : Len(Append(v, x)) = Len(v) + 1
            /\ Len(Shortened(v)) = IF Len(v) = 0 THEN 0 ELSE Len(v) - 1
            /\ Len(v) > 1 => /\ 2 * Half(v) - Len(v) \in {0, 1} /\ Half(v) \in 1..Len(v) - 1
                             /\ Len(Shortened(Taken(v))) = Half(v) - 1
                             /\ Len(Kept(v)) = Len(v) - Half(v)
  <2>1. Len(v) \in Nat BY LenProperties
  <2>2. \A x \in Elem : Len(Append(v, x)) = Len(v) + 1 BY AppendProperties
  <2>3. Len(Shortened(v)) = IF Len(v) = 0 THEN 0 ELSE Len(v) - 1
    <3>1. CASE v = <<>> BY <3>1, PoppedEmpty, EmptySeq
    <3>2. CASE v # <<>> BY <3>2, PoppedIs
    <3> QED BY <3>1, <3>2
  <2>4. ASSUME Len(v) > 1
        PROVE /\ 2 * Half(v) - Len(v) \in {0, 1} /\ Half(v) \in 1..Len(v) - 1
              /\ Len(Shortened(Taken(v))) = Half(v) - 1
              /\ Len(Kept(v)) = Len(v) - Half(v)
    <3>1. /\ 2 * Half(v) - Len(v) \in {0, 1} /\ Half(v) \in 1..Len(v) - 1
          /\ Taken(v) \in Seq(Elem) /\ Len(Taken(v)) = Half(v)
          /\ Len(Kept(v)) = Len(v) - Half(v)
      BY <2>4, HalvesAre
    <3>2. Taken(v) # <<>> BY <2>1, <3>1, EmptySeq
    <3>3. Len(Shortened(Taken(v))) = Half(v) - 1 BY <3>1, <3>2, PoppedIs
    <3> QED BY <3>1, <3>3
  <2> QED BY <2>1, <2>2, <2>3, <2>4
<1> QED BY <1>1, <1>2 DEF nf, nb

(* The elements that the deque has copied from one side to the other, and how
   far apart the sides are, are paid by the pushes and the pops so far. *)
THEOREM CostAlwaysPaid == DequeSpec => []CostIsPaid
<1>1. DequeInit => CostIsPaid
  <2> SUFFICES ASSUME DequeInit PROVE CostIsPaid OBVIOUS
  <2>1. back \in Seq(Elem) BY DEF DequeInit
  <2>2. Len(back) \in Nat /\ Len(<<>>) = 0 BY <2>1, LenProperties, EmptySeq
  <2> QED BY <2>2 DEF DequeInit, CostIsPaid, Apart, nf, nb
<1>2. TypeOK /\ CostIsPaid /\ [DequeNext]_dequeVars => CostIsPaid'
  <2> SUFFICES ASSUME TypeOK, CostIsPaid, [DequeNext]_dequeVars PROVE CostIsPaid' OBVIOUS
  <2>1. moved \in Nat /\ calls \in Nat BY DEF TypeOK
  <2> DEFINE a == Len(front)' c == Len(back)'
  <2>2. CostIsPaid' <=> moved' + (IF a >= c THEN a - c ELSE c - a) <= calls'
    BY DEF CostIsPaid, Apart, nf, nb
  <2>3. moved + (IF nf >= nb THEN nf - nb ELSE nb - nf) <= calls BY DEF CostIsPaid, Apart
  <2> HIDE DEF a, c
  <2>4. ASSUME NEW x \in Elem, PushFront(x) PROVE CostIsPaid'
    <3>1. a = nf + 1 /\ c = nb BY <2>4, LengthsAfter DEF PushFront, a, c, nb
    <3> QED BY <2>1, <2>2, <2>3, <2>4, <3>1, LengthsAfter DEF PushFront, Call
  <2>5. ASSUME NEW x \in Elem, PushBack(x) PROVE CostIsPaid'
    <3>1. a = nf /\ c = nb + 1 BY <2>5, LengthsAfter DEF PushBack, a, c, nf
    <3> QED BY <2>1, <2>2, <2>3, <2>5, <3>1, LengthsAfter DEF PushBack, Call
  <2>6. CASE PopFront
    <3>1. CASE nf > 0 /\ front' = Shortened(front) /\ UNCHANGED <<back, moved>> /\ Call
      <4>1. a = nf - 1 /\ c = nb BY <3>1, LengthsAfter DEF a, c, nb
      <4> QED BY <2>1, <2>2, <2>3, <3>1, <4>1, LengthsAfter DEF Call
    <3>2. CASE nf = 0 /\ nb <= 1 /\ back' = Shortened(back) /\ UNCHANGED <<front, moved>> /\ Call
      <4>1. a = nf /\ c = 0 BY <3>2, LengthsAfter DEF a, c, nf
      <4> QED BY <2>1, <2>2, <2>3, <3>2, <4>1, LengthsAfter DEF Call
    <3>3. CASE nf = 0 /\ nb > 1 /\ front' = Shortened(Taken(back)) /\ back' = Kept(back)
               /\ moved' = moved + nb /\ Call
      <4> DEFINE h == Half(back)
      <4>1. a = h - 1 /\ c = nb - h BY <3>3, LengthsAfter DEF a, c
      <4>2. h \in 1..nb - 1 /\ 2 * h - nb \in {0, 1} /\ nf = 0 /\ nb \in Nat
        BY <3>3, LengthsAfter
      <4>3. moved + nb <= calls BY <2>1, <2>3, <4>2
      <4>4. moved' = moved + nb /\ calls' = calls + 1 BY <3>3 DEF Call
      <4> HIDE DEF h
      <4>5. (IF a >= c THEN a - c ELSE c - a) <= 1 BY <4>1, <4>2
      <4> QED BY <2>1, <2>2, <4>1, <4>2, <4>3, <4>4, <4>5
    <3> QED BY <2>6, <3>1, <3>2, <3>3 DEF PopFront
  <2>7. CASE PopBack
    <3>1. CASE nb > 0 /\ back' = Shortened(back) /\ UNCHANGED <<front, moved>> /\ Call
      <4>1. a = nf /\ c = nb - 1 BY <3>1, LengthsAfter DEF a, c, nf
      <4> QED BY <2>1, <2>2, <2>3, <3>1, <4>1, LengthsAfter DEF Call
    <3>2. CASE nb = 0 /\ nf <= 1 /\ front' = Shortened(front) /\ UNCHANGED <<back, moved>> /\ Call
      <4>1. a = 0 /\ c = nb BY <3>2, LengthsAfter DEF a, c, nb
      <4> QED BY <2>1, <2>2, <2>3, <3>2, <4>1, LengthsAfter DEF Call
    <3>3. CASE nb = 0 /\ nf > 1 /\ back' = Shortened(Taken(front)) /\ front' = Kept(front)
               /\ moved' = moved + nf /\ Call
      <4> DEFINE h == Half(front)
      <4>1. c = h - 1 /\ a = nf - h BY <3>3, LengthsAfter DEF a, c
      <4>2. h \in 1..nf - 1 /\ 2 * h - nf \in {0, 1} /\ nb = 0 /\ nf \in Nat
        BY <3>3, LengthsAfter
      <4>3. moved + nf <= calls BY <2>1, <2>3, <4>2
      <4>4. moved' = moved + nf /\ calls' = calls + 1 BY <3>3 DEF Call
      <4> HIDE DEF h
      <4>5. (IF a >= c THEN a - c ELSE c - a) <= 1 BY <4>1, <4>2
      <4> QED BY <2>1, <2>2, <4>1, <4>2, <4>3, <4>4, <4>5
    <3> QED BY <2>7, <3>1, <3>2, <3>3 DEF PopBack
  <2>8. CASE Clear
    <3>1. a = 0 /\ c = 0 BY <2>8, EmptySeq DEF Clear, a, c
    <3> QED BY <2>1, <2>2, <2>3, <2>8, <3>1, LengthsAfter DEF Clear
  <2>9. CASE Read \/ CursorNext \/ UNCHANGED dequeVars
    <3>1. front' = front /\ back' = back /\ moved' = moved /\ calls' = calls
      BY <2>9 DEF Read, CursorNext, dequeVars
    <3> QED BY <3>1 DEF CostIsPaid, Apart, nf, nb
  <2> QED BY <2>4, <2>5, <2>6, <2>7, <2>8, <2>9 DEF DequeNext
<1> QED BY <1>1, <1>2, TypesHold, PTL DEF DequeSpec

-----------------------------------------------------------------------------
(* The deque answers as the sequence that its two sides make.              *)

LEMMA SeqElement ==
  ASSUME TypeOK, NEW i \in Int
  PROVE Get(i) = Promise!Get(i)
<1>1. /\ front \in Seq(Elem) /\ back \in Seq(Elem) /\ nf \in Nat /\ nb \in Nat
  BY LenProperties DEF TypeOK, nf, nb
<1>2. /\ Len(Contents) = nf + nb
      /\ \A k \in 1..nf : Contents[nf + 1 - k] = front[k]
      /\ \A k \in 1..nb : Contents[nf + k] = back[k]
  BY <1>1, JoinedType, JoinedAgrees DEF Contents, nf, nb
<1>3. CASE i \in 0..nf - 1
  <2>1. nf - i \in 1..nf /\ nf + 1 - (nf - i) = i + 1 BY <1>1, <1>3
  <2>2. Contents[i + 1] = front[nf - i] BY <1>2, <2>1
  <2> QED BY <1>1, <1>2, <1>3, <2>2 DEF Get, Promise!Get
<1>4. CASE i \in nf..nf + nb - 1
  <2>1. i - nf + 1 \in 1..nb /\ nf + (i - nf + 1) = i + 1 BY <1>1, <1>4
  <2>2. Contents[i + 1] = back[i - nf + 1] BY <1>2, <2>1
  <2> QED BY <1>1, <1>2, <1>4, <2>2 DEF Get, Promise!Get
<1>5. CASE i \notin 0..nf - 1 /\ i \notin nf..nf + nb - 1
  BY <1>1, <1>2, <1>5 DEF Get, Promise!Get
<1> QED BY <1>3, <1>4, <1>5

LEMMA EndsAre ==
  ASSUME TypeOK
  PROVE /\ nf \in Nat /\ nb \in Nat /\ Len(Contents) = nf + nb
        /\ PeekFront = Promise!Get(0)
        /\ PeekBack = Promise!Get(Len(Contents) - 1)
<1>1. /\ front \in Seq(Elem) /\ back \in Seq(Elem) /\ nf \in Nat /\ nb \in Nat
      /\ Len(Contents) = nf + nb
  BY LenProperties, JoinedType DEF TypeOK, nf, nb, Contents
<1>2. Promise!Get(0) = Get(0) /\ Promise!Get(nf + nb - 1) = Get(nf + nb - 1)
  BY <1>1, SeqElement
<1>3. PeekFront = Get(0) BY <1>1 DEF PeekFront, Get
<1>4. PeekBack = Get(nf + nb - 1) BY <1>1 DEF PeekBack, Get
<1> QED BY <1>1, <1>2, <1>3, <1>4

(* Only one element is left: what a pop at the other end of it leaves. *)
LEMMA LastOne ==
  ASSUME NEW s \in Seq(Elem), Len(s) = 1
  PROVE Tail(s) = <<>> /\ Shortened(s) = <<>> /\ LastOf(s) = s[1]
<1>1. s # <<>> BY EmptySeq
<1>2. Tail(s) \in Seq(Elem) /\ Len(Tail(s)) = 0 BY <1>1, HeadTailProperties
<1>3. Shortened(s) \in Seq(Elem) /\ Len(Shortened(s)) = 0 /\ LastOf(s) = s[1] BY <1>1, PoppedIs
<1> QED BY <1>2, <1>3, EmptySeq

LEMMA EmptyIs ==
  /\ Joined(<<>>, <<>>) = <<>>
  /\ \A s \in Seq(Elem) : Len(s) = 0 <=> s = <<>>
<1>1. <<>> \in Seq(Elem) BY EmptySeq
<1>2. \A s \in Seq(Elem) : Len(s) = 0 <=> s = <<>> BY EmptySeq
<1>3. Joined(<<>>, <<>>) \in Seq(Elem) /\ Len(Joined(<<>>, <<>>)) = Len(<<>>) + Len(<<>>)
  BY <1>1, JoinedType
<1> HIDE DEF Joined
<1>4. Len(Joined(<<>>, <<>>)) = 0 BY <1>3, EmptySeq
<1> QED BY <1>2, <1>3, <1>4

(* A pop at the front, from either side or after a move. *)
LEMMA PopFrontIs ==
  ASSUME TypeOK, PopFront
  PROVE Promise!PopFront
<1>1. /\ front \in Seq(Elem) /\ back \in Seq(Elem) /\ nf \in Nat /\ nb \in Nat
      /\ Len(Contents) = nf + nb /\ Contents \in Seq(Elem)
  BY LenProperties, JoinedType DEF TypeOK, nf, nb, Contents
<1>2. Contents # <<>> => Promise!Get(0) = Contents[1]
  <2> SUFFICES ASSUME Contents # <<>> PROVE Promise!Get(0) = Contents[1] OBVIOUS
  <2>1. Len(Contents) # 0 BY <1>1, EmptySeq
  <2> QED BY <1>1, <2>1 DEF Promise!Get
<1>3. CASE nf > 0 /\ front' = Shortened(front) /\ ret' = LastOf(front) /\ UNCHANGED <<back, cursor>>
  <2>1. front # <<>> BY <1>1, <1>3, EmptySeq DEF nf
  <2>2. Contents # <<>> /\ Contents' = Tail(Contents) /\ Contents[1] = LastOf(front)
    BY <1>1, <1>3, <2>1, JoinPopFront DEF Contents
  <2> QED BY <1>2, <1>3, <2>2 DEF Promise!PopFront
<1>4. CASE nf = 0 /\ nb = 0 /\ back' = Shortened(back) /\ ret' = LastOf(back) /\ UNCHANGED <<front, cursor>>
  <2>1. front = <<>> /\ back = <<>> BY <1>1, <1>4, EmptySeq DEF nf, nb
  <2>2. Contents = <<>> /\ Contents' = <<>> /\ ret' = NoElem
    BY <1>4, <2>1, PoppedEmpty, EmptyIs DEF Contents, LastOf
  <2>3. Promise!Get(0) = NoElem BY <1>1, <1>4 DEF Promise!Get
  <2> QED BY <1>4, <2>2, <2>3 DEF Promise!PopFront
<1>5. CASE nf = 0 /\ nb = 1 /\ back' = Shortened(back) /\ ret' = LastOf(back) /\ UNCHANGED <<front, cursor>>
  <2>1. front = <<>> /\ back # <<>> BY <1>1, <1>5, EmptySeq DEF nf, nb
  <2>2. Contents # <<>> /\ Contents' = Shortened(Contents) /\ LastOf(Contents) = LastOf(back)
    BY <1>1, <1>5, <2>1, JoinPopBack DEF Contents
  <2>3. Tail(Contents) = <<>> /\ Shortened(Contents) = <<>> /\ LastOf(Contents) = Contents[1]
    BY <1>1, <1>5, LastOne
  <2> QED BY <1>2, <1>5, <2>2, <2>3 DEF Promise!PopFront
<1>6. CASE nf = 0 /\ nb > 1 /\ front' = Shortened(Taken(back)) /\ ret' = LastOf(Taken(back))
           /\ back' = Kept(back) /\ UNCHANGED cursor
  <2>1. front = <<>> BY <1>1, <1>6, EmptySeq DEF nf
  <2>2. /\ Taken(back) \in Seq(Elem) /\ Kept(back) \in Seq(Elem)
        /\ Half(back) \in 1..nb - 1 /\ Len(Taken(back)) = Half(back)
    BY <1>1, <1>6, HalvesAre DEF nb
  <2>3. Taken(back) # <<>> BY <1>1, <2>2, EmptySeq
  <2>4. Contents = Joined(Taken(back), Kept(back)) BY <1>1, <1>6, <2>1, JoinMoved DEF Contents, nb
  <2>5. Contents' = Joined(Shortened(Taken(back)), Kept(back)) BY <1>6 DEF Contents
  <2>6. Contents # <<>> /\ Contents' = Tail(Contents) /\ Contents[1] = LastOf(Taken(back))
    BY <2>2, <2>3, <2>4, <2>5, JoinPopFront
  <2> QED BY <1>2, <1>6, <2>6 DEF Promise!PopFront
<1> QED BY <1>1, <1>3, <1>4, <1>5, <1>6 DEF PopFront, Call

(* A pop at the back, likewise. *)
LEMMA PopBackIs ==
  ASSUME TypeOK, PopBack
  PROVE Promise!PopBack
<1>1. /\ front \in Seq(Elem) /\ back \in Seq(Elem) /\ nf \in Nat /\ nb \in Nat
      /\ Len(Contents) = nf + nb /\ Contents \in Seq(Elem)
  BY LenProperties, JoinedType DEF TypeOK, nf, nb, Contents
<1>2. Contents # <<>> => Promise!Get(Len(Contents) - 1) = LastOf(Contents)
  <2> SUFFICES ASSUME Contents # <<>> PROVE Promise!Get(Len(Contents) - 1) = LastOf(Contents)
    OBVIOUS
  <2>1. Len(Contents) # 0 BY <1>1, EmptySeq
  <2>2. Len(Contents) - 1 \in 0..Len(Contents) - 1 /\ Len(Contents) - 1 + 1 = Len(Contents)
    BY <1>1, <2>1
  <2> QED BY <2>2 DEF Promise!Get, LastOf
<1>3. CASE nb > 0 /\ back' = Shortened(back) /\ ret' = LastOf(back) /\ UNCHANGED <<front, cursor>>
  <2>1. back # <<>> BY <1>1, <1>3, EmptySeq DEF nb
  <2>2. Contents # <<>> /\ Contents' = Shortened(Contents) /\ LastOf(Contents) = LastOf(back)
    BY <1>1, <1>3, <2>1, JoinPopBack DEF Contents
  <2> QED BY <1>2, <1>3, <2>2 DEF Promise!PopBack, Shortened
<1>4. CASE nf = 0 /\ nb = 0 /\ front' = Shortened(front) /\ ret' = LastOf(front) /\ UNCHANGED <<back, cursor>>
  <2>1. front = <<>> /\ back = <<>> BY <1>1, <1>4, EmptySeq DEF nf, nb
  <2>2. Contents = <<>> /\ Contents' = <<>> /\ ret' = NoElem
    BY <1>4, <2>1, PoppedEmpty, EmptyIs DEF Contents, LastOf
  <2>3. Promise!Get(Len(Contents) - 1) = NoElem BY <1>1, <1>4 DEF Promise!Get
  <2> QED BY <1>4, <2>2, <2>3 DEF Promise!PopBack
<1>5. CASE nb = 0 /\ nf = 1 /\ front' = Shortened(front) /\ ret' = LastOf(front) /\ UNCHANGED <<back, cursor>>
  <2>1. back = <<>> /\ front # <<>> BY <1>1, <1>5, EmptySeq DEF nf, nb
  <2>2. Contents # <<>> /\ Contents' = Tail(Contents) /\ Contents[1] = LastOf(front)
    BY <1>1, <1>5, <2>1, JoinPopFront DEF Contents
  <2>3. Tail(Contents) = <<>> /\ Shortened(Contents) = <<>> /\ LastOf(Contents) = Contents[1]
    BY <1>1, <1>5, LastOne
  <2>4. Contents' = [i \in 1..Len(Contents) - 1 |-> Contents[i]] BY <2>2, <2>3 DEF Shortened
  <2> QED BY <1>2, <1>5, <2>2, <2>3, <2>4 DEF Promise!PopBack
<1>6. CASE nb = 0 /\ nf > 1 /\ back' = Shortened(Taken(front)) /\ ret' = LastOf(Taken(front))
           /\ front' = Kept(front) /\ UNCHANGED cursor
  <2>1. back = <<>> BY <1>1, <1>6, EmptySeq DEF nb
  <2>2. /\ Taken(front) \in Seq(Elem) /\ Kept(front) \in Seq(Elem)
        /\ Half(front) \in 1..nf - 1 /\ Len(Taken(front)) = Half(front)
    BY <1>1, <1>6, HalvesAre DEF nf
  <2>3. Taken(front) # <<>> BY <1>1, <2>2, EmptySeq
  <2>4. Contents = Joined(Kept(front), Taken(front)) BY <1>1, <1>6, <2>1, JoinMoved DEF Contents, nf
  <2>5. Contents' = Joined(Kept(front), Shortened(Taken(front))) BY <1>6 DEF Contents
  <2>6. Contents # <<>> /\ Contents' = Shortened(Contents) /\ LastOf(Contents) = LastOf(Taken(front))
    BY <2>2, <2>3, <2>4, <2>5, JoinPopBack
  <2> QED BY <1>2, <1>6, <2>6 DEF Promise!PopBack, Shortened
<1> QED BY <1>1, <1>3, <1>4, <1>5, <1>6 DEF PopBack, Call

(* Whatever is pushed, popped, moved between the sides, read by index or
   walked by a cursor: the two vectors implement one sequence. *)
THEOREM DequeIsSequence == DequeSpec => ImplementsSequence
<1>1. DequeInit => Promise!Init
  <2> SUFFICES ASSUME DequeInit PROVE Promise!Init OBVIOUS
  <2>1. front \in Seq(Elem) /\ back \in Seq(Elem) BY EmptySeq DEF DequeInit
  <2>2. Contents \in Seq(Elem) BY <2>1, JoinedType DEF Contents
  <2> QED BY <2>2 DEF DequeInit, Promise!Init
<1>2. TypeOK /\ [DequeNext]_dequeVars => [Promise!Next]_<<Contents, cursor, ret>>
  <2> SUFFICES ASSUME TypeOK, [DequeNext]_dequeVars
               PROVE Promise!Next \/ UNCHANGED <<Contents, cursor, ret>>
    OBVIOUS
  <2>1. front \in Seq(Elem) /\ back \in Seq(Elem) /\ cursor \in Int BY DEF TypeOK
  <2>2. ASSUME NEW x \in Elem, PushFront(x) PROVE Promise!Next
    <3>1. Contents' = <<x>> \o Contents BY <2>1, <2>2, JoinPushFront DEF PushFront, Contents
    <3>2. Promise!PushFront(x) BY <2>2, <3>1 DEF PushFront, Call, Promise!PushFront
    <3> QED BY <3>2 DEF Promise!Next
  <2>3. ASSUME NEW x \in Elem, PushBack(x) PROVE Promise!Next
    <3>1. Contents' = Append(Contents, x) BY <2>1, <2>3, JoinPushBack DEF PushBack, Contents
    <3>2. Promise!PushBack(x) BY <2>3, <3>1 DEF PushBack, Call, Promise!PushBack
    <3> QED BY <3>2 DEF Promise!Next
  <2>4. CASE PopFront BY <2>4, PopFrontIs DEF Promise!Next
  <2>5. CASE PopBack BY <2>5, PopBackIs DEF Promise!Next
  <2>6. CASE Clear
    <3>1. Contents' = <<>> BY <2>6, EmptyIs DEF Clear, Contents
    <3> QED BY <2>6, <3>1 DEF Clear, Promise!Clear, Promise!Next
  <2>7. CASE Read
    <3>1. UNCHANGED <<Contents, cursor>> BY <2>7 DEF Read, Contents
    <3>2. /\ nf \in Nat /\ nb \in Nat /\ Len(Contents) = nf + nb
          /\ PeekFront = Promise!Get(0) /\ PeekBack = Promise!Get(Len(Contents) - 1)
      BY EndsAre
    <3>3. \E i \in -1..Len(Contents) : ret' = Promise!Get(i)
      <4>1. CASE \E i \in -1..nf + nb : ret' = Get(i)
        <5>1. PICK i \in -1..nf + nb : ret' = Get(i) BY <4>1
        <5>2. ret' = Promise!Get(i) BY <3>2, <5>1, SeqElement
        <5> QED BY <3>2, <5>2
      <4>2. CASE ret' = PeekFront
        <5>1. 0 \in -1..Len(Contents) BY <3>2
        <5> QED BY <3>2, <4>2, <5>1
      <4>3. CASE ret' = PeekBack
        <5>1. Len(Contents) - 1 \in -1..Len(Contents) BY <3>2
        <5> QED BY <3>2, <4>3, <5>1
      <4> QED BY <2>7, <4>1, <4>2, <4>3 DEF Read
    <3>4. Promise!Read BY <3>1, <3>3 DEF Promise!Read
    <3> QED BY <3>4 DEF Promise!Next
  <2>8. CASE CursorNext
    <3>1. UNCHANGED Contents BY <2>8 DEF CursorNext, Contents
    <3>2. Get(cursor) = Promise!Get(cursor) BY <2>1, SeqElement
    <3>3. Promise!CursorNext BY <2>8, <3>1, <3>2 DEF CursorNext, Promise!CursorNext
    <3> QED BY <3>3 DEF Promise!Next
  <2>9. CASE UNCHANGED dequeVars BY <2>9 DEF dequeVars, Contents
  <2> QED BY <2>2, <2>3, <2>4, <2>5, <2>6, <2>7, <2>8, <2>9 DEF DequeNext
<1> QED BY <1>1, <1>2, TypesHold, PTL DEF DequeSpec, ImplementsSequence, Promise!Spec

-----------------------------------------------------------------------------
(* The registry of sockets: a descriptor reaches its own socket or none.   *)
(*                                                                         *)
(* The invariant counts: between a descriptor's generation and its slot's  *)
(* lie as many steps as sockets have left the slot since the descriptor    *)
(* was issued, and the last of them left its mark there.                   *)

Gens       == 0..Generations - 1
Descriptor == [slot : Nat, gen : Gens, sock : 1..Sockets]

RegistryTypes ==
    /\ slots \in Seq([s : 0..Sockets, gen : Gens, end : Ended])
    /\ issued \subseteq Descriptor
    /\ \A d \in issued : d.slot \in 1..Len(slots)
    /\ fate \in [1..Sockets -> {"never", "open"} \cup Ended]

(* Sockets are opened in order, each under one descriptor. *)
OpenedInOrder == \A r, s \in 1..Sockets : r < s /\ fate[s] # "never" => fate[r] # "never"
IssuedOnce    == /\ \A d \in issued : fate[d.sock] # "never"
                 /\ \A d, e \in issued : d.sock = e.sock => d = e

(* A slot's socket is the last it was given, and the only open one. *)
HolderIsLast  == \A d \in issued :
    /\ fate[d.sock] = "open" <=> slots[d.slot].s = d.sock
    /\ slots[d.slot].s # 0 => d.sock <= slots[d.slot].s
HolderIssued  == \A i \in 1..Len(slots) :
    slots[i].s # 0 => \E d \in issued : d.slot = i /\ d.sock = slots[i].s

Ahead(g, n)   == IF g + n < Generations THEN g + n ELSE g + n - Generations
GensCount     == \A d \in issued : Cardinality(Since(d)) < Generations =>
                     slots[d.slot].gen = Ahead(d.gen, Cardinality(Since(d)))

LastToLeave(d) == /\ fate[d.sock] # "open"
                  /\ \A e \in issued : e.slot = d.slot /\ fate[e.sock] # "open" => e.sock <= d.sock
EndIsLast     == \A d \in issued : LastToLeave(d) => slots[d.slot].end = fate[d.sock]

RegistryInv == /\ RegistryTypes /\ OpenedInOrder /\ IssuedOnce
               /\ HolderIsLast /\ HolderIssued /\ GensCount /\ EndIsLast

LEMMA NextGen ==
  ASSUME NEW g \in Gens
  PROVE (g + 1) % Generations = IF g + 1 = Generations THEN 0 ELSE g + 1
BY RegistryAssumption DEF Gens

LEMMA SinceIsFinite ==
  ASSUME RegistryTypes, NEW d \in issued
  PROVE IsFiniteSet(Since(d)) /\ Cardinality(Since(d)) \in Nat
<1>1. IsFiniteSet(1..Sockets) BY FS_Interval, RegistryAssumption
<1>2. Since(d) \subseteq 1..Sockets BY DEF Since, RegistryTypes, Descriptor
<1> QED BY <1>1, <1>2, FS_Subset, FS_CardinalityType

LEMMA LeastNumber ==
  ASSUME NEW S, S \subseteq Nat, S # {}
  PROVE  \E x \in S : \A y \in S : x <= y
<1>1. IsWellFoundedOn(OpToRel(<, Nat), Nat) BY NatLessThanWellFounded
<1>2. \A x, y \in Nat : x < y => <<x, y>> \in OpToRel(<, Nat) BY Zenon DEF OpToRel
<1>3. PICK x \in S : \A y \in S : ~ (<<y, x>> \in OpToRel(<, Nat)) BY <1>1, WFMin, Zenon
<1>4. \A y \in S : ~ (y < x) BY <1>2, <1>3, Zenon
<1> QED BY <1>4

LEMMA RegistryInitInv == RegistryInit => RegistryInv
<1> SUFFICES ASSUME RegistryInit PROVE RegistryInv OBVIOUS
<1>1. Len(slots) = 0 BY DEF RegistryInit
<1>2. slots \in Seq([s : 0..Sockets, gen : Gens, end : Ended]) BY DEF RegistryInit
<1> QED
  BY <1>1, <1>2 DEF RegistryInit, RegistryInv, RegistryTypes, OpenedInOrder, IssuedOnce,
       HolderIsLast, HolderIssued, GensCount, EndIsLast

(* A new socket goes to a slot nobody holds, under the slot's generation. *)
LEMMA FreeSlotIs ==
  ASSUME RegistryTypes
  PROVE \/ FreeSlot = Len(slots) + 1
        \/ FreeSlot \in 1..Len(slots) /\ slots[FreeSlot].s = 0
<1>0. Len(slots) \in Nat BY DEF RegistryTypes
<1>1. CASE Unused = {} BY <1>1 DEF FreeSlot
<1>2. CASE Unused # {}
  <2>1. Unused \subseteq Nat BY DEF Unused
  <2>2. \E i \in Unused : \A j \in Unused : i <= j BY <1>2, <2>1, LeastNumber
  <2> QED BY <1>2, <2>2 DEF FreeSlot, Unused
<1> QED BY <1>1, <1>2

LEMMA AddKeeps ==
  ASSUME RegistryInv, NEW s \in 1..Sockets, Add(s)
  PROVE  RegistryInv'
<1> DEFINE i    == FreeSlot
           gen  == IF i \in DOMAIN slots THEN slots[i].gen ELSE 0
           end  == IF i \in DOMAIN slots THEN slots[i].end ELSE "closed"
           slot == [s |-> s, gen |-> gen, end |-> end]
           new  == [slot |-> i, gen |-> gen, sock |-> s]
           Rec  == [s : 0..Sockets, gen : Gens, end : Ended]
<1>1. RegistryTypes /\ Len(slots) \in Nat /\ DOMAIN slots = 1..Len(slots) /\ slots \in Seq(Rec)
  BY DEF RegistryInv, RegistryTypes
<1>2. /\ fate[s] = "never" /\ \A r \in 1..s - 1 : fate[r] # "never"
      /\ slots' = IF i \in 1..Len(slots) THEN [slots EXCEPT ![i] = slot] ELSE Append(slots, slot)
      /\ issued' = issued \cup {new}
      /\ fate' = [fate EXCEPT ![s] = "open"]
  BY <1>1 DEF Add
<1>3. i = Len(slots) + 1 \/ (i \in 1..Len(slots) /\ slots[i].s = 0) BY <1>1, FreeSlotIs
<1> HIDE DEF i
<1>4. gen \in Gens /\ end \in Ended
  <2>1. 0 \in Gens /\ "closed" \in Ended BY RegistryAssumption DEF Gens, Ended
  <2> HIDE DEF Rec
  <2>2. i \in DOMAIN slots => slots[i] \in Rec BY <1>1, ElementOfSeq
  <2> USE DEF Rec
  <2>3. i \in DOMAIN slots => slots[i].gen \in Gens /\ slots[i].end \in Ended BY <2>2
  <2> QED BY <2>1, <2>3
<1> HIDE DEF gen, end
<1>5. slot \in Rec /\ new \in Descriptor BY <1>1, <1>3, <1>4, RegistryAssumption DEF Descriptor
<1>6. /\ slots' \in Seq(Rec) /\ i \in 1..Len(slots') /\ slots'[i] = slot
      /\ 1..Len(slots) \subseteq 1..Len(slots')
      /\ \A j \in 1..Len(slots') : j # i => j \in 1..Len(slots) /\ slots'[j] = slots[j]
  <2>1. CASE i \in 1..Len(slots) BY <1>1, <1>2, <1>5, <2>1
  <2>2. CASE i = Len(slots) + 1
    <3>1. slots' = Append(slots, slot) BY <1>1, <1>2, <2>2
    <3> HIDE DEF slot, Rec
    <3> QED BY <1>1, <1>5, <2>2, <3>1, AppendProperties
  <2> QED BY <1>3, <2>1, <2>2
<1>7. /\ fate' \in [1..Sockets -> {"never", "open"} \cup Ended] /\ fate'[s] = "open"
      /\ \A r \in 1..Sockets : r # s => fate'[r] = fate[r]
  BY <1>1, <1>2 DEF RegistryTypes
<1>8. \A d \in issued : /\ d \in Descriptor /\ d.slot \in 1..Len(slots)
                        /\ d.sock \in 1..s - 1 /\ d.sock # s /\ fate'[d.sock] = fate[d.sock]
  <2> TAKE d \in issued
  <2>1. d \in Descriptor /\ d.slot \in 1..Len(slots) /\ d.sock \in 1..Sockets
    BY <1>1 DEF RegistryTypes, Descriptor
  <2>2. fate[d.sock] # "never" BY DEF RegistryInv, IssuedOnce
  <2>3. ~(s < d.sock) BY <1>2, <2>1, <2>2 DEF RegistryInv, OpenedInOrder
  <2>4. d.sock # s BY <1>2, <2>2
  <2> QED BY <1>7, <2>1, <2>3, <2>4
<1>9. new.sock = s /\ new.slot = i /\ new.gen = gen /\ slot.s = s /\ slot.gen = gen /\ slot.end = end
  OBVIOUS
<1> HIDE DEF slot, new
<1>10. RegistryTypes'
  <2>1. issued' \subseteq Descriptor BY <1>2, <1>5, <1>8
  <2>2. \A d \in issued' : d.slot \in 1..Len(slots') BY <1>2, <1>6, <1>8, <1>9
  <2> QED BY <1>6, <1>7, <2>1, <2>2 DEF RegistryTypes
<1>11. OpenedInOrder'
  <2> SUFFICES ASSUME NEW r \in 1..Sockets, NEW t \in 1..Sockets, r < t, fate'[t] # "never"
               PROVE  fate'[r] # "never"
    BY DEF OpenedInOrder
  <2>1. CASE t = s BY <1>2, <1>7, <2>1
  <2>2. CASE t # s BY <1>7, <2>2 DEF RegistryInv, OpenedInOrder
  <2> QED BY <2>1, <2>2
<1>12. IssuedOnce'
  <2>1. \A d \in issued' : fate'[d.sock] # "never" BY <1>2, <1>7, <1>8, <1>9 DEF RegistryInv, IssuedOnce
  <2>2. \A d, e \in issued' : d.sock = e.sock => d = e BY <1>2, <1>8, <1>9 DEF RegistryInv, IssuedOnce
  <2> QED BY <2>1, <2>2 DEF IssuedOnce
<1>13. HolderIsLast'
  <2> SUFFICES ASSUME NEW d \in issued'
               PROVE  /\ fate'[d.sock] = "open" <=> slots'[d.slot].s = d.sock
                      /\ slots'[d.slot].s # 0 => d.sock <= slots'[d.slot].s
    BY DEF HolderIsLast
  <2>1. CASE d = new BY <1>6, <1>7, <1>9, <2>1
  <2>2. CASE d \in issued /\ d.slot = i
    <3>1. slots[i].s = 0 BY <1>1, <1>3, <1>8, <2>2
    <3>2. fate[d.sock] # "open" BY <1>8, <2>2, <3>1 DEF RegistryInv, HolderIsLast
    <3> QED BY <1>6, <1>8, <1>9, <2>2, <3>2
  <2>3. CASE d \in issued /\ d.slot # i
    <3>1. slots'[d.slot] = slots[d.slot] BY <1>6, <1>8, <2>3
    <3> QED BY <1>8, <2>3, <3>1 DEF RegistryInv, HolderIsLast
  <2> QED BY <1>2, <2>1, <2>2, <2>3
<1>14. HolderIssued'
  <2> SUFFICES ASSUME NEW j \in 1..Len(slots'), slots'[j].s # 0
               PROVE  \E d \in issued' : d.slot = j /\ d.sock = slots'[j].s
    BY DEF HolderIssued
  <2>1. CASE j = i BY <1>2, <1>6, <1>9, <2>1
  <2>2. CASE j # i BY <1>2, <1>6, <2>2 DEF RegistryInv, HolderIssued
  <2> QED BY <2>1, <2>2
<1>15. \A d \in issued : Since(d)' = Since(d)
  <2> TAKE d \in issued
  <2>1. Since(d)' = {e.sock : e \in {x \in issued' : x.slot = d.slot /\ x.sock >= d.sock /\ fate'[x.sock] # "open"}}
    BY DEF Since
  <2>2. {x \in issued' : x.slot = d.slot /\ x.sock >= d.sock /\ fate'[x.sock] # "open"}
        = {x \in issued : x.slot = d.slot /\ x.sock >= d.sock /\ fate[x.sock] # "open"}
    BY <1>2, <1>7, <1>8, <1>9
  <2> QED BY <2>1, <2>2 DEF Since
<1>16. GensCount'
  <2> SUFFICES ASSUME NEW d \in issued', Cardinality(Since(d)') < Generations
               PROVE  slots'[d.slot].gen = Ahead(d.gen, Cardinality(Since(d)'))
    BY DEF GensCount, Ahead
  <2>1. CASE d = new
    <3>1. Since(d)' = {}
      <4>1. \A x \in issued' : x.sock >= s => fate'[x.sock] = "open" BY <1>2, <1>7, <1>8, <1>9
      <4> QED BY <1>9, <2>1, <4>1 DEF Since
    <3>2. Cardinality(Since(d)') = 0 BY <3>1, FS_EmptySet
    <3>3. slots'[d.slot].gen = gen /\ d.gen = gen BY <1>6, <1>9, <2>1
    <3>4. gen \in Nat /\ gen < Generations BY <1>4, RegistryAssumption DEF Gens
    <3> QED BY <3>2, <3>3, <3>4 DEF Ahead
  <2>2. CASE d \in issued
    <3>1. Since(d)' = Since(d) BY <1>15, <2>2
    <3>2. slots[d.slot].gen = Ahead(d.gen, Cardinality(Since(d)))
      BY <2>2, <3>1 DEF RegistryInv, GensCount
    <3>3. slots'[d.slot].gen = slots[d.slot].gen
      <4>1. CASE d.slot = i BY <1>1, <1>6, <1>8, <1>9, <2>2, <4>1 DEF gen
      <4>2. CASE d.slot # i BY <1>6, <1>8, <2>2, <4>2
      <4> QED BY <4>1, <4>2
    <3> QED BY <3>1, <3>2, <3>3
  <2> QED BY <1>2, <2>1, <2>2
<1>17. EndIsLast'
  <2> SUFFICES ASSUME NEW d \in issued', LastToLeave(d)' PROVE slots'[d.slot].end = fate'[d.sock]
    BY DEF EndIsLast
  <2>1. d \in issued /\ d # new BY <1>2, <1>7, <1>9 DEF LastToLeave
  <2>2. LastToLeave(d) BY <1>2, <1>8, <2>1 DEF LastToLeave
  <2>3. slots[d.slot].end = fate[d.sock] BY <2>1, <2>2 DEF RegistryInv, EndIsLast
  <2>4. slots'[d.slot].end = slots[d.slot].end
    <3>1. CASE d.slot = i BY <1>1, <1>6, <1>8, <1>9, <2>1, <3>1 DEF end
    <3>2. CASE d.slot # i BY <1>6, <1>8, <2>1, <3>2
    <3> QED BY <3>1, <3>2
  <2> QED BY <1>8, <2>1, <2>3, <2>4
<1> QED BY <1>10, <1>11, <1>12, <1>13, <1>14, <1>16, <1>17 DEF RegistryInv

LEMMA ReleaseKeeps ==
  ASSUME RegistryInv, NEW a \in issued, NEW how \in Ended, Release(a, how)
  PROVE  RegistryInv'
<1> DEFINE i    == a.slot
           t    == slots[i].s
           slot == [s |-> 0, gen |-> (slots[i].gen + 1) % Generations, end |-> how]
           Rec  == [s : 0..Sockets, gen : Gens, end : Ended]
<1>1. RegistryTypes /\ Len(slots) \in Nat /\ slots \in Seq(Rec)
  BY DEF RegistryInv, RegistryTypes
<1>2. /\ i \in 1..Len(slots) /\ t # 0
      /\ slots' = [slots EXCEPT ![i] = slot]
      /\ fate' = [fate EXCEPT ![t] = how]
      /\ issued' = issued
  BY DEF Release, IsLive
<1>3. PICK own \in issued : own.slot = i /\ own.sock = t
  BY <1>2 DEF RegistryInv, HolderIssued
<1>4. slots[i] \in Rec
  <2> HIDE DEF Rec, i
  <2> QED BY <1>1, <1>2, ElementOfSeq
<1>5. slots[i].gen \in Gens /\ slots[i].gen \in Nat /\ t \in 1..Sockets
  BY <1>2, <1>4, RegistryAssumption DEF Gens
<1>6. /\ slot.gen = Ahead(slots[i].gen, 1) /\ slot.gen \in Gens /\ slot.s = 0 /\ slot.end = how
      /\ slot \in Rec
  <2>1. slot.gen = IF slots[i].gen + 1 = Generations THEN 0 ELSE slots[i].gen + 1
    BY <1>5, NextGen
  <2>2. slot.gen \in Gens /\ slot.gen = Ahead(slots[i].gen, 1)
    BY <1>5, <2>1, RegistryAssumption DEF Gens, Ahead
  <2> QED BY <2>2, RegistryAssumption
<1> HIDE DEF slot
<1>7. /\ slots' \in Seq(Rec) /\ Len(slots') = Len(slots) /\ slots'[i] = slot
      /\ \A j \in 1..Len(slots) : j # i => slots'[j] = slots[j]
  <2> HIDE DEF Rec, i
  <2> QED BY <1>1, <1>2, <1>6, ExceptSeq
<1>8. /\ fate' \in [1..Sockets -> {"never", "open"} \cup Ended] /\ fate'[t] = how
      /\ how # "never" /\ how # "open"
      /\ \A r \in 1..Sockets : r # t => fate'[r] = fate[r]
  <2>1. how # "never" /\ how # "open" BY DEF Ended
  <2>2. fate \in [1..Sockets -> {"never", "open"} \cup Ended] BY <1>1 DEF RegistryTypes
  <2> HIDE DEF t
  <2> QED BY <1>2, <1>5, <2>1, <2>2
<1>9. fate[t] = "open" BY <1>3 DEF RegistryInv, HolderIsLast
<1>10. \A d \in issued : /\ d \in Descriptor /\ d.slot \in 1..Len(slots) /\ d.sock \in 1..Sockets
                         /\ d.gen \in Nat /\ d.gen < Generations
                         /\ d.slot = i => d.sock <= t
                         /\ d.slot # i => d.sock # t
  <2> TAKE d \in issued
  <2>1. d \in Descriptor /\ d.slot \in 1..Len(slots) BY <1>1 DEF RegistryTypes
  <2>2. d.slot = i => d.sock <= t BY <1>2 DEF RegistryInv, HolderIsLast
  <2>3. d.slot # i => d.sock # t BY <1>3 DEF RegistryInv, IssuedOnce
  <2>4. d.sock \in 1..Sockets /\ d.gen \in Nat /\ d.gen < Generations
    BY <2>1, RegistryAssumption DEF Descriptor, Gens
  <2> QED BY <2>1, <2>2, <2>3, <2>4
<1> HIDE DEF i, t, Rec
<1>11. RegistryTypes'
  <2>1. slots' \in Seq([s : 0..Sockets, gen : Gens, end : Ended]) BY <1>7 DEF Rec
  <2> QED BY <1>1, <1>2, <1>7, <1>8, <2>1 DEF RegistryTypes
<1>12. OpenedInOrder'
  <2> SUFFICES ASSUME NEW r \in 1..Sockets, NEW u \in 1..Sockets, r < u, fate'[u] # "never"
               PROVE  fate'[r] # "never"
    BY DEF OpenedInOrder
  <2>1. fate[u] # "never" BY <1>8, <1>9
  <2> QED BY <1>8, <2>1 DEF RegistryInv, OpenedInOrder
<1>13. IssuedOnce'
  <2>1. \A d \in issued : fate'[d.sock] # "never" BY <1>8, <1>10 DEF RegistryInv, IssuedOnce
  <2> QED BY <1>2, <2>1 DEF RegistryInv, IssuedOnce
<1>14. HolderIsLast'
  <2> SUFFICES ASSUME NEW d \in issued
               PROVE  /\ fate'[d.sock] = "open" <=> slots'[d.slot].s = d.sock
                      /\ slots'[d.slot].s # 0 => d.sock <= slots'[d.slot].s
    BY <1>2 DEF HolderIsLast
  <2>1. CASE d.slot = i
    <3>1. slots'[d.slot].s = 0 /\ d.sock # 0 BY <1>6, <1>7, <1>10, <2>1
    <3>2. fate'[d.sock] # "open"
      <4>1. CASE d.sock = t BY <1>8, <4>1
      <4>2. CASE d.sock # t
        <5>1. fate[d.sock] # "open" BY <2>1, <4>2 DEF RegistryInv, HolderIsLast, t
        <5> QED BY <1>8, <1>10, <4>2, <5>1
      <4> QED BY <4>1, <4>2
    <3> QED BY <3>1, <3>2
  <2>2. CASE d.slot # i
    <3>1. slots'[d.slot] = slots[d.slot] /\ fate'[d.sock] = fate[d.sock] BY <1>7, <1>8, <1>10, <2>2
    <3> QED BY <3>1 DEF RegistryInv, HolderIsLast
  <2> QED BY <2>1, <2>2
<1>15. HolderIssued'
  <2> SUFFICES ASSUME NEW j \in 1..Len(slots), slots'[j].s # 0
               PROVE  \E d \in issued : d.slot = j /\ d.sock = slots'[j].s
    BY <1>2, <1>7 DEF HolderIssued
  <2>1. j # i BY <1>6, <1>7
  <2> QED BY <1>7, <2>1 DEF RegistryInv, HolderIssued
<1>16. GensCount'
  <2> SUFFICES ASSUME NEW d \in issued, Cardinality(Since(d)') < Generations
               PROVE  slots'[d.slot].gen = Ahead(d.gen, Cardinality(Since(d)'))
    BY <1>2 DEF GensCount, Ahead
  <2>0. Since(d)' = {e.sock : e \in {x \in issued : x.slot = d.slot /\ x.sock >= d.sock /\ fate'[x.sock] # "open"}}
    BY <1>2 DEF Since
  <2>1. CASE d.slot = i
    <3>1. Since(d)' = Since(d) \cup {t}
      <4>1. \A x \in issued : x.slot = i /\ x.sock # t => fate'[x.sock] = fate[x.sock] BY <1>8, <1>10
      <4>2. own.sock >= d.sock /\ fate'[own.sock] # "open" /\ own.slot = d.slot
        BY <1>3, <1>8, <1>10, <2>1
      <4>3. \A x \in issued : x.sock = t => x = own BY <1>3 DEF RegistryInv, IssuedOnce
      <4>4. Since(d)' \subseteq Since(d) \cup {t} BY <2>0, <2>1, <4>1 DEF Since
      <4>5. Since(d) \subseteq Since(d)'
        <5>1. \A x \in issued : x.slot = i /\ fate[x.sock] # "open" => fate'[x.sock] # "open"
          BY <1>9, <4>1
        <5> QED BY <2>0, <2>1, <5>1 DEF Since
      <4>6. t \in Since(d)' BY <1>3, <2>0, <4>2
      <4> QED BY <4>4, <4>5, <4>6
    <3>2. t \notin Since(d) BY <1>9 DEF Since
    <3>3. IsFiniteSet(Since(d)) /\ Cardinality(Since(d)) \in Nat BY <1>1, SinceIsFinite
    <3>4. Cardinality(Since(d)') = Cardinality(Since(d)) + 1 BY <3>1, <3>2, <3>3, FS_AddElement
    <3>5. slots[i].gen = Ahead(d.gen, Cardinality(Since(d)))
      BY <2>1, <3>3, <3>4, RegistryAssumption DEF RegistryInv, GensCount
    <3>6. slots'[d.slot].gen = Ahead(slots[i].gen, 1) BY <1>6, <1>7, <1>10, <2>1
    <3> QED BY <1>10, <3>3, <3>4, <3>5, <3>6, RegistryAssumption DEF Ahead
  <2>2. CASE d.slot # i
    <3>1. Since(d)' = Since(d)
      <4>1. \A x \in issued : x.slot = d.slot => fate'[x.sock] = fate[x.sock] BY <1>8, <1>10, <2>2
      <4> QED BY <2>0, <4>1 DEF Since
    <3>2. slots'[d.slot] = slots[d.slot] BY <1>7, <1>10, <2>2
    <3> QED BY <3>1, <3>2 DEF RegistryInv, GensCount
  <2> QED BY <2>1, <2>2
<1>17. EndIsLast'
  <2> SUFFICES ASSUME NEW d \in issued, LastToLeave(d)' PROVE slots'[d.slot].end = fate'[d.sock]
    BY <1>2 DEF EndIsLast
  <2>0. /\ fate'[d.sock] # "open"
        /\ \A e \in issued : e.slot = d.slot /\ fate'[e.sock] # "open" => e.sock <= d.sock
    BY <1>2 DEF LastToLeave
  <2>1. CASE d.slot = i
    <3>1. t <= d.sock BY <1>3, <1>8, <2>0, <2>1
    <3>2. d.sock = t BY <1>5, <1>10, <2>1, <3>1
    <3> QED BY <1>6, <1>7, <1>8, <1>10, <2>1, <3>2
  <2>2. CASE d.slot # i
    <3>1. \A e \in issued : e.slot = d.slot => fate'[e.sock] = fate[e.sock] BY <1>8, <1>10, <2>2
    <3>2. LastToLeave(d) BY <2>0, <2>2, <3>1 DEF LastToLeave
    <3>3. slots'[d.slot] = slots[d.slot] BY <1>7, <1>10, <2>2
    <3> QED BY <3>1, <3>2, <3>3 DEF RegistryInv, EndIsLast
  <2> QED BY <2>1, <2>2
<1> QED BY <1>11, <1>12, <1>13, <1>14, <1>15, <1>16, <1>17 DEF RegistryInv

LEMMA RegistryUnchanged ==
  ASSUME RegistryInv, UNCHANGED registryVars
  PROVE  RegistryInv'
<1>1. slots' = slots /\ issued' = issued /\ fate' = fate BY DEF registryVars
<1>2. \A d \in issued : Since(d)' = Since(d) BY <1>1 DEF Since
<1>3. \A d \in issued : LastToLeave(d)' = LastToLeave(d) BY <1>1 DEF LastToLeave
<1> QED
  BY <1>1, <1>2, <1>3 DEF RegistryInv, RegistryTypes, OpenedInOrder, IssuedOnce,
       HolderIsLast, HolderIssued, GensCount, EndIsLast, Ahead

LEMMA DescriptorsFollow == RegistryInv => DescriptorsMeanTheirSocket
<1> SUFFICES ASSUME RegistryInv, NEW d \in issued, Cardinality(Since(d)) < Generations
             PROVE  /\ IsLive(d) <=> fate[d.sock] = "open"
                    /\ IsLive(d) => slots[d.slot].s = d.sock
                    /\ ~IsLive(d) => Reason(d) \in {fate[d.sock], "unknown"}
  BY DEF DescriptorsMeanTheirSocket
<1> DEFINE n == Cardinality(Since(d))
<1>1. RegistryTypes /\ Len(slots) \in Nat BY DEF RegistryInv, RegistryTypes
<1>2. /\ d \in Descriptor /\ d.slot \in 1..Len(slots) /\ d.sock \in 1..Sockets
      /\ d.gen \in Gens /\ d.gen \in Nat /\ d.gen < Generations
  BY <1>1, RegistryAssumption DEF RegistryTypes, Descriptor, Gens
<1>3. IsFiniteSet(Since(d)) /\ n \in Nat /\ n < Generations BY <1>1, SinceIsFinite
<1>4. slots[d.slot].gen = Ahead(d.gen, n) BY DEF RegistryInv, GensCount
<1> HIDE DEF n
<1>5. slots[d.slot].gen = d.gen <=> n = 0 BY <1>2, <1>3, <1>4, RegistryAssumption DEF Ahead
<1>6. n = 0 <=> Since(d) = {} BY <1>3, FS_EmptySet DEF n
<1>7. fate[d.sock] # "open" => d.sock \in Since(d) BY <1>2 DEF Since
<1>8. fate[d.sock] = "open" => /\ Since(d) = {} /\ slots[d.slot].s = d.sock /\ d.sock # 0
  <2> SUFFICES ASSUME fate[d.sock] = "open"
               PROVE  Since(d) = {} /\ slots[d.slot].s = d.sock /\ d.sock # 0
    OBVIOUS
  <2>1. slots[d.slot].s = d.sock /\ d.sock # 0 BY <1>2 DEF RegistryInv, HolderIsLast
  <2>2. \A x \in issued : x.slot = d.slot /\ x.sock >= d.sock => fate[x.sock] = "open"
    <3> SUFFICES ASSUME NEW x \in issued, x.slot = d.slot, x.sock >= d.sock
                 PROVE  x.sock = d.sock
      OBVIOUS
    <3>1. x.sock <= d.sock BY <2>1 DEF RegistryInv, HolderIsLast
    <3>2. x.sock \in 1..Sockets BY <1>1 DEF RegistryTypes, Descriptor
    <3> QED BY <1>2, <3>1, <3>2
  <2> QED BY <2>1, <2>2 DEF Since
<1>9. IsLive(d) <=> fate[d.sock] = "open" BY <1>2, <1>5, <1>6, <1>7, <1>8 DEF IsLive
<1>10. ASSUME ~IsLive(d), Reason(d) # "unknown" PROVE Reason(d) = fate[d.sock]
  <2>1. (d.gen + 1) % Generations = slots[d.slot].gen /\ Reason(d) = slots[d.slot].end
    BY <1>10 DEF Reason
  <2>2. n # 0 /\ fate[d.sock] # "open" BY <1>6, <1>7, <1>9, <1>10
  <2>3. n = 1
    <3>1. (d.gen + 1) % Generations = IF d.gen + 1 = Generations THEN 0 ELSE d.gen + 1 BY <1>2, NextGen
    <3> QED BY <1>2, <1>3, <1>4, <2>1, <2>2, <3>1, RegistryAssumption DEF Ahead
  <2>4. PICK r : Since(d) = {r} BY <1>3, <2>3, FS_Singleton DEF n
  <2>5. Since(d) = {d.sock} BY <1>7, <2>2, <2>4
  <2>6. LastToLeave(d)
    <3> SUFFICES ASSUME NEW e \in issued, e.slot = d.slot, fate[e.sock] # "open"
                 PROVE  e.sock <= d.sock
      BY <2>2 DEF LastToLeave
    <3>1. e.sock \in 1..Sockets BY <1>1 DEF RegistryTypes, Descriptor
    <3>2. e.sock >= d.sock => e.sock \in Since(d) BY DEF Since
    <3> QED BY <1>2, <2>5, <3>1, <3>2
  <2> QED BY <2>1, <2>6 DEF RegistryInv, EndIsLast
<1> QED BY <1>8, <1>9, <1>10

(* A descriptor an isolate kept, however long ago it was issued, is live    *)
(* only while its own socket is open, reaches that socket only, and its     *)
(* refusal names what became of it - until the slot has been given up as    *)
(* often as a generation counts (NetRegistry::add, live, drop and detach).  *)
THEOREM DescriptorsHold == RegistrySpec => []DescriptorsMeanTheirSocket
<1>1. RegistryInv /\ [RegistryNext]_registryVars => RegistryInv'
  BY AddKeeps, ReleaseKeeps, RegistryUnchanged DEF RegistryNext
<1> QED BY RegistryInitInv, DescriptorsFollow, <1>1, PTL DEF RegistrySpec

-----------------------------------------------------------------------------
(* The output of a world: no line is torn, except one of the root's.       *)
(*                                                                         *)
(* Until the first actor starts the stream holds the root's pieces alone,  *)
(* in the order of its lines.  From then on one line of the root may be in *)
(* pieces, the last it wrote through; a line of anyone else's reaches the  *)
(* stream in one write, before which the stream holds nothing of it.       *)

PieceOf(w, n) == {<<w, n>>, <<w, n, "nl">>}
AllPieces     == UNION {PieceOf(w, n) : w \in Writers, n \in Int}

OutputTypes == /\ written \in [Writers -> [line : Int, pieces : Int]]
               /\ line \in [Writers -> Seq(AllPieces)]
               /\ through \in Seq(AllPieces)
               /\ target \in Seq(AllPieces)
               /\ running \subseteq Actors

\* A buffer holds pieces of its writer's current line only.
Buffered == \A w \in Writers : \A i \in 1..Len(line[w]) :
                line[w][i][1] = w /\ line[w][i][2] = written[w].line

ThroughIs(n) == \A i \in 1..Len(through) : through[i][1] = Root /\ through[i][2] = n

\* n bounds what the root, alone so far, has written.
AloneAt(n) == /\ ThroughIs(n)
              /\ n \in Int /\ n <= written[Root].line
              /\ (through = <<>>) => n = written[Root].line
              /\ \A i \in 1..Len(target) : target[i][1] = Root /\ target[i][2] <= n

Alone == ~actors_started =>
    /\ running = {} /\ line[Root] = <<>>
    /\ \A i, k \in 1..Len(target) : i <= k => target[i][2] <= target[k][2]
    /\ \E n \in Int : AloneAt(n)

\* n is the root's line that may be in pieces.
InPiecesAt(n) == /\ ThroughIs(n)
                 /\ \A w \in Writers, m \in Int : w # Root \/ m # n =>
                        /\ ~Torn(w, m)
                        /\ Places(w, m) # {} => m < written[w].line

InPieces == actors_started => \E n \in Int : n <= written[Root].line /\ InPiecesAt(n)

OutputInv == OutputTypes /\ Buffered /\ Alone /\ InPieces

LEMMA PieceIs ==
  /\ \A p \in AllPieces : p[1] \in Writers /\ p[2] \in Int
  /\ \A w \in Writers, n \in Int : /\ <<w, n>> \in AllPieces /\ <<w, n, "nl">> \in AllPieces
                                   /\ <<w, n>>[1] = w /\ <<w, n>>[2] = n
                                   /\ <<w, n, "nl">>[1] = w /\ <<w, n, "nl">>[2] = n
<1>1. ASSUME NEW w \in Writers, NEW n \in Int
      PROVE  <<w, n>> \in AllPieces /\ <<w, n, "nl">> \in AllPieces
  <2>1. <<w, n>> \in PieceOf(w, n) /\ <<w, n, "nl">> \in PieceOf(w, n) BY DEF PieceOf
  <2>2. \A p \in PieceOf(w, n) : p \in AllPieces BY SMT DEF AllPieces
  <2> QED BY <2>1, <2>2
<1>2. ASSUME NEW p \in AllPieces PROVE p[1] \in Writers /\ p[2] \in Int
  <2>1. PICK w \in Writers, n \in Int : p \in PieceOf(w, n) BY DEF AllPieces
  <2> QED BY <2>1 DEF PieceOf
<1> QED BY <1>1, <1>2

(* What writing one line's pieces to the stream does to each line. *)
LEMMA WrittenAtOnce ==
  ASSUME OutputTypes, NEW v \in Writers, NEW l \in Int, NEW block \in Seq(AllPieces),
         \A i \in 1..Len(block) : block[i][1] = v /\ block[i][2] = l,
         target' = target \o block
  PROVE  /\ target' \in Seq(AllPieces)
         /\ \A w \in Writers, n \in Int : w # v \/ n # l =>
                Places(w, n)' = Places(w, n) /\ (Torn(w, n)' <=> Torn(w, n))
         /\ Places(v, l) = {} => ~Torn(v, l)'
<1>1. /\ target \in Seq(AllPieces) /\ Len(target) \in Nat /\ Len(block) \in Nat
      /\ target' \in Seq(AllPieces) /\ Len(target') = Len(target) + Len(block)
      /\ \A i \in 1..Len(target') : target'[i] = IF i <= Len(target) THEN target[i] ELSE block[i - Len(target)]
  BY ConcatProperties DEF OutputTypes
<1>2. \A i \in Len(target) + 1..Len(target') : target'[i][1] = v /\ target'[i][2] = l
  <2> TAKE i \in Len(target) + 1..Len(target')
  <2>1. i - Len(target) \in 1..Len(block) /\ target'[i] = block[i - Len(target)] BY <1>1
  <2> QED BY <2>1
<1>3. DOMAIN target = 1..Len(target) /\ DOMAIN target' = 1..Len(target') BY <1>1
<1>4. ASSUME NEW w \in Writers, NEW n \in Int, w # v \/ n # l
      PROVE  Places(w, n)' = Places(w, n) /\ (Torn(w, n)' <=> Torn(w, n))
  <2>1. ASSUME NEW i \in Places(w, n)' PROVE i \in Places(w, n)
    <3>1. i \in 1..Len(target') /\ target'[i][1] = w /\ target'[i][2] = n BY <1>3, <2>1 DEF Places
    <3>2. i \in 1..Len(target) /\ target'[i] = target[i] BY <1>1, <1>2, <1>4, <3>1
    <3> QED BY <1>3, <3>1, <3>2 DEF Places
  <2>2. ASSUME NEW i \in Places(w, n) PROVE i \in Places(w, n)'
    <3>1. i \in 1..Len(target) /\ target[i][1] = w /\ target[i][2] = n BY <1>3, <2>2 DEF Places
    <3>2. i \in 1..Len(target') /\ target'[i] = target[i] BY <1>1, <3>1
    <3> QED BY <1>3, <3>1, <3>2 DEF Places
  <2>3. Places(w, n)' = Places(w, n) BY <2>1, <2>2
  <2> QED BY <2>3 DEF Torn
<1>5. ASSUME Places(v, l) = {} PROVE ~Torn(v, l)'
  <2>1. \A i \in Places(v, l)' : i \in Len(target) + 1..Len(target')
    <3> TAKE i \in Places(v, l)'
    <3>1. i \in 1..Len(target') /\ target'[i][1] = v /\ target'[i][2] = l BY <1>3 DEF Places
    <3>2. i \in 1..Len(target) => target'[i] = target[i] BY <1>1
    <3>3. i \in 1..Len(target) => i \in Places(v, l) BY <1>3, <3>1, <3>2 DEF Places
    <3> QED BY <1>1, <1>5, <3>1, <3>3
  <2>2. \A j \in Len(target) + 1..Len(target') : j \in Places(v, l)' BY <1>1, <1>2, <1>3 DEF Places
  <2>3. \A i, k \in Places(v, l)' : \A j \in i..k : j \in Places(v, l)' BY <1>1, <2>1, <2>2
  <2> QED BY <2>3 DEF Torn
<1> QED BY <1>1, <1>4, <1>5

LEMMA OutputInitInv == OutputInit => OutputInv
<1> SUFFICES ASSUME OutputInit PROVE OutputInv OBVIOUS
<1>1. Root \in Writers BY DEF Writers
<1>2. /\ line = [w \in Writers |-> <<>>] /\ through = <<>> /\ target = <<>> /\ running = {}
      /\ actors_started = FALSE /\ written = [w \in Writers |-> [line |-> 1, pieces |-> 0]]
  BY DEF OutputInit
<1>3. OutputTypes BY <1>2 DEF OutputTypes
<1>4. Buffered BY <1>2 DEF Buffered
<1>5. AloneAt(1) BY <1>1, <1>2 DEF AloneAt, ThroughIs
<1>6. Alone BY <1>1, <1>2, <1>5 DEF Alone
<1>7. InPieces BY <1>2 DEF InPieces
<1> QED BY <1>3, <1>4, <1>6, <1>7 DEF OutputInv

(* The writer's line goes out, or stays: the buffer, the stream and the     *)
(* count of lines after a step of w that ends its line.                    *)
LEMMA OneWriteKeeps ==
  ASSUME OutputInv, NEW w \in Writers, w = Root => (through = <<>> /\ actors_started),
         w # Root => w \in running,
         NEW block \in Seq(AllPieces),
         \A i \in 1..Len(block) : block[i][1] = w /\ block[i][2] = written[w].line,
         target' = target \o block,
         line' = [line EXCEPT ![w] = <<>>],
         written' = [written EXCEPT ![w].line = @ + 1],
         UNCHANGED <<actors_started, running, through>>
  PROVE  OutputInv'
<1>0. PICK l \in Int : l = written[w].line BY DEF OutputInv, OutputTypes
<1>1. OutputTypes /\ Root \in Writers BY DEF OutputInv, OutputTypes, Writers
<1>2. actors_started BY DEF OutputInv, Alone
<1>3. PICK n \in Int : n <= written[Root].line /\ InPiecesAt(n) BY <1>2 DEF OutputInv, InPieces
<1>4. /\ target' \in Seq(AllPieces)
      /\ \A v \in Writers, m \in Int : v # w \/ m # l =>
             Places(v, m)' = Places(v, m) /\ (Torn(v, m)' <=> Torn(v, m))
      /\ Places(w, l) = {} => ~Torn(w, l)'
  <2>1. \A i \in 1..Len(block) : block[i][1] = w /\ block[i][2] = l BY <1>0
  <2> QED BY <1>1, <2>1, WrittenAtOnce
<1>5. /\ written' \in [Writers -> [line : Int, pieces : Int]]
      /\ written'[w].line = l + 1
      /\ \A v \in Writers : v # w => written'[v] = written[v]
  <2>1. written[w] \in [line : Int, pieces : Int] /\ written \in [Writers -> [line : Int, pieces : Int]]
    BY <1>1 DEF OutputTypes
  <2>2. written' = [written EXCEPT ![w] = [written[w] EXCEPT !.line = l + 1]] BY <1>0
  <2>3. [written[w] EXCEPT !.line = l + 1] \in [line : Int, pieces : Int]
        /\ [written[w] EXCEPT !.line = l + 1].line = l + 1
    BY <1>1, <2>1
  <2> QED BY <2>1, <2>2, <2>3
<1>6. /\ line' \in [Writers -> Seq(AllPieces)] /\ line'[w] = <<>>
      /\ \A v \in Writers : v # w => line'[v] = line[v]
  <2>1. <<>> \in Seq(AllPieces) /\ line \in [Writers -> Seq(AllPieces)] BY <1>1 DEF OutputTypes
  <2> QED BY <2>1
<1>7. OutputTypes' BY <1>1, <1>4, <1>5, <1>6 DEF OutputTypes
<1>8. Buffered'
  <2> SUFFICES ASSUME NEW v \in Writers, NEW i \in 1..Len(line'[v])
               PROVE  line'[v][i][1] = v /\ line'[v][i][2] = written'[v].line
    BY DEF Buffered
  <2>1. CASE v = w BY <1>6, <2>1
  <2>2. CASE v # w BY <1>5, <1>6, <2>2 DEF OutputInv, Buffered
  <2> QED BY <2>1, <2>2
<1>9. InPiecesAt(n)'
  <2>1. ThroughIs(n)' BY <1>3 DEF InPiecesAt, ThroughIs
  <2>2. ASSUME NEW v \in Writers, NEW m \in Int, v # Root \/ m # n
        PROVE  ~Torn(v, m)' /\ (Places(v, m)' # {} => m < written'[v].line)
    <3>1. ~Torn(v, m) /\ (Places(v, m) # {} => m < written[v].line) BY <1>3, <2>2 DEF InPiecesAt
    <3>2. CASE v # w \/ m # l
      <4>1. written[v].line <= written'[v].line BY <1>0, <1>1, <1>5 DEF OutputTypes
      <4>2. written[v].line \in Int /\ written'[v].line \in Int BY <1>1, <1>5 DEF OutputTypes
      <4> QED BY <1>4, <3>1, <3>2, <4>1, <4>2
    <3>3. CASE v = w /\ m = l
      <4>1. Places(w, l) = {} BY <1>0, <3>1, <3>3
      <4>2. ~Torn(v, m)' BY <1>4, <3>3, <4>1
      <4> QED BY <1>1, <1>5, <3>3, <4>2
    <3> QED BY <3>2, <3>3
  <2> QED BY <2>1, <2>2 DEF InPiecesAt
<1>10. n <= written'[Root].line
  <2>1. written[Root].line \in Int /\ written[Root].line <= written'[Root].line
    BY <1>0, <1>1, <1>5 DEF OutputTypes
  <2>2. written'[Root].line \in Int BY <1>1, <1>5
  <2> QED BY <1>3, <2>1, <2>2
<1>11. Alone' /\ InPieces' BY <1>2, <1>9, <1>10 DEF Alone, InPieces
<1> QED BY <1>7, <1>8, <1>11 DEF OutputInv

(* What the writer of a piece that is not the end of its line may count on. *)
LEMMA MoreKeeps ==
  ASSUME OutputInv, NEW w \in Writers, CanWrite(w), w = Root => actors_started,
         line' = [line EXCEPT ![w] = Append(line[w], Text(w))],
         written' = [written EXCEPT ![w].pieces = @ + 1],
         UNCHANGED <<actors_started, running, through, target>>
  PROVE  OutputInv'
<1>1. OutputTypes /\ Root \in Writers BY DEF OutputInv, Writers
<1>2. PICK l \in Int : l = written[w].line BY <1>1 DEF OutputTypes
<1>3. PICK text : text = Text(w) BY DEF Text
<1>4. text \in AllPieces /\ text[1] = w /\ text[2] = l BY <1>2, <1>3, PieceIs DEF Text
<1>5. actors_started BY DEF OutputInv, Alone, CanWrite
<1>6. /\ written' \in [Writers -> [line : Int, pieces : Int]]
      /\ \A v \in Writers : written'[v].line = written[v].line
  <2>1. written[w] \in [line : Int, pieces : Int] /\ written \in [Writers -> [line : Int, pieces : Int]]
    BY <1>1 DEF OutputTypes
  <2>2. PICK k \in Int : k = written[w].pieces + 1 BY <2>1
  <2>3. written' = [written EXCEPT ![w] = [written[w] EXCEPT !.pieces = k]] BY <2>2
  <2>4. [written[w] EXCEPT !.pieces = k] \in [line : Int, pieces : Int]
        /\ [written[w] EXCEPT !.pieces = k].line = written[w].line
    BY <2>1
  <2> QED BY <2>1, <2>3, <2>4
<1>7. PICK old \in Seq(AllPieces) : old = line[w] BY <1>1 DEF OutputTypes
<1>8. /\ Append(old, text) \in Seq(AllPieces) /\ Len(Append(old, text)) = Len(old) + 1 /\ Len(old) \in Nat
      /\ \A i \in 1..Len(old) : Append(old, text)[i] = old[i]
      /\ Append(old, text)[Len(old) + 1] = text
  BY <1>4, AppendProperties
<1>9. PICK new \in Seq(AllPieces) : new = Append(old, text) BY <1>8
<1>10. /\ line' \in [Writers -> Seq(AllPieces)] /\ line'[w] = new
       /\ \A v \in Writers : v # w => line'[v] = line[v]
  <2>1. line \in [Writers -> Seq(AllPieces)] /\ line' = [line EXCEPT ![w] = new]
    BY <1>1, <1>3, <1>7, <1>9 DEF OutputTypes
  <2> QED BY <2>1
<1>11. OutputTypes' BY <1>1, <1>6, <1>10 DEF OutputTypes
<1>12. Buffered'
  <2> SUFFICES ASSUME NEW v \in Writers, NEW i \in 1..Len(line'[v])
               PROVE  line'[v][i][1] = v /\ line'[v][i][2] = written'[v].line
    BY DEF Buffered
  <2>1. CASE v = w
    <3>1. i \in 1..Len(new) /\ i \in 1..Len(old) \cup {Len(old) + 1} BY <1>8, <1>9, <1>10, <2>1
    <3>2. i \in 1..Len(old) => old[i][1] = w /\ old[i][2] = l BY <1>2, <1>7 DEF OutputInv, Buffered
    <3>3. new[i][1] = w /\ new[i][2] = l BY <1>4, <1>8, <1>9, <3>1, <3>2
    <3> QED BY <1>2, <1>6, <1>10, <2>1, <3>3
  <2>2. CASE v # w BY <1>6, <1>10, <2>2 DEF OutputInv, Buffered
  <2> QED BY <2>1, <2>2
<1>13. Alone' BY <1>5 DEF Alone
<1>14. InPieces'
  <2>1. PICK n \in Int : n <= written[Root].line /\ InPiecesAt(n) BY <1>5 DEF OutputInv, InPieces
  <2>2. \A v \in Writers, m \in Int : Places(v, m)' = Places(v, m) /\ (Torn(v, m)' <=> Torn(v, m))
    BY DEF Places, Torn
  <2>3. InPiecesAt(n)' BY <1>6, <2>1, <2>2 DEF InPiecesAt, ThroughIs
  <2> QED BY <1>1, <1>6, <2>1, <2>3 DEF InPieces
<1> QED BY <1>11, <1>12, <1>13, <1>14 DEF OutputInv

LEMMA WriteLineKeeps ==
  ASSUME OutputInv, NEW w \in Writers, NEW piece \in {Text(w), Newline(w)}, WriteLine(w, piece)
  PROVE  OutputInv'
<1>1. OutputTypes BY DEF OutputInv
<1>2. PICK l \in Int : l = written[w].line BY <1>1 DEF OutputTypes
<1>3. Text(w) # Newline(w) BY DEF Text, Newline
<1>4. CASE piece = Text(w) BY <1>3, <1>4, MoreKeeps DEF WriteLine, Wrote
<1>5. CASE piece = Newline(w)
  <2>1. PICK end : end = Newline(w) BY DEF Newline
  <2>2. end \in AllPieces /\ end[1] = w /\ end[2] = l BY <1>2, <2>1, PieceIs DEF Newline
  <2>3. PICK old \in Seq(AllPieces) : old = line[w] BY <1>1 DEF OutputTypes
  <2>4. /\ Append(old, end) \in Seq(AllPieces) /\ Len(Append(old, end)) = Len(old) + 1 /\ Len(old) \in Nat
        /\ \A i \in 1..Len(old) : Append(old, end)[i] = old[i]
        /\ Append(old, end)[Len(old) + 1] = end
    BY <2>2, AppendProperties
  <2>5. PICK block \in Seq(AllPieces) : block = Append(old, end) BY <2>4
  <2>6. \A i \in 1..Len(old) : old[i][1] = w /\ old[i][2] = l BY <1>2, <2>3 DEF OutputInv, Buffered
  <2>7. \A i \in 1..Len(block) : block[i][1] = w /\ block[i][2] = written[w].line
    <3> TAKE i \in 1..Len(block)
    <3>1. i \in 1..Len(old) \/ i = Len(old) + 1 BY <2>4, <2>5
    <3> QED BY <1>2, <2>2, <2>4, <2>5, <2>6, <3>1
  <2>8. /\ target' = target \o block /\ line' = [line EXCEPT ![w] = <<>>]
        /\ UNCHANGED <<actors_started, running, through>>
    BY <1>5, <2>1, <2>3, <2>5 DEF WriteLine
  <2>9. written' = [written EXCEPT ![w].line = @ + 1] BY <1>5 DEF WriteLine, Wrote
  <2>10. /\ w = Root => through = <<>> /\ actors_started
         /\ w # Root => w \in running
    BY DEF WriteLine, CanWrite
  <2> QED BY <2>7, <2>8, <2>9, <2>10, OneWriteKeeps
<1> QED BY <1>4, <1>5

LEMMA FlushKeeps ==
  ASSUME OutputInv, NEW w \in Writers, Flush(w)
  PROVE  OutputInv'
<1>1. OutputTypes BY DEF OutputInv
<1>2. PICK block \in Seq(AllPieces) : block = line[w] BY <1>1 DEF OutputTypes
<1>3. \A i \in 1..Len(block) : block[i][1] = w /\ block[i][2] = written[w].line
  BY <1>2 DEF OutputInv, Buffered
<1>4. /\ target' = target \o block /\ line' = [line EXCEPT ![w] = <<>>]
      /\ written' = [written EXCEPT ![w].line = @ + 1]
      /\ UNCHANGED <<actors_started, running, through>>
  BY <1>2 DEF Flush
<1>5. /\ w = Root => through = <<>> /\ actors_started
      /\ w # Root => w \in running
  BY DEF Flush, CanWrite, OutputInv, Alone
<1> QED BY <1>3, <1>4, <1>5, OneWriteKeeps

LEMMA DecideKeeps ==
  ASSUME OutputInv, NEW piece \in {Text(Root), Newline(Root)}, DecideThrough(piece)
  PROVE  OutputInv'
<1>1. OutputTypes /\ Root \in Writers BY DEF OutputInv, Writers
<1>2. PICK l \in Int : l = written[Root].line BY <1>1 DEF OutputTypes
<1>3. /\ ~actors_started /\ ~actors_started' /\ target' = target /\ running' = running
      /\ running = {} /\ line[Root] = <<>> /\ through = <<>>
      /\ line' = [line EXCEPT ![Root] = <<>>]
      /\ through' = line[Root] \o <<piece>>
  BY DEF DecideThrough, CanWrite, OutputInv, Alone
<1>4. PICK p : p = piece OBVIOUS
<1>5. p \in AllPieces /\ p[1] = Root /\ p[2] = l
  <2>1. p = <<Root, l>> \/ p = <<Root, l, "nl">> BY <1>2, <1>4 DEF Text, Newline
  <2>2. /\ <<Root, l>> \in AllPieces /\ <<Root, l, "nl">> \in AllPieces
        /\ <<Root, l>>[1] = Root /\ <<Root, l>>[2] = l
        /\ <<Root, l, "nl">>[1] = Root /\ <<Root, l, "nl">>[2] = l
    BY <1>1, PieceIs
  <2>3. CASE p = <<Root, l>> BY <2>2, <2>3
  <2>4. CASE p = <<Root, l, "nl">> BY <2>2, <2>4
  <2> QED BY <2>1, <2>3, <2>4
<1>6. through' = <<p>> BY <1>3, <1>4, <1>5
<1>7. line' = line
  <2>1. line \in [Writers -> Seq(AllPieces)] BY <1>1 DEF OutputTypes
  <2> QED BY <1>1, <1>3, <2>1
<1>8. /\ written' \in [Writers -> [line : Int, pieces : Int]]
      /\ written'[Root].line \in {l, l + 1}
      /\ \A v \in Writers : v # Root => written'[v] = written[v]
  <2>0. written \in [Writers -> [line : Int, pieces : Int]] /\ written[Root] \in [line : Int, pieces : Int]
    BY <1>1 DEF OutputTypes
  <2>1. CASE piece = Newline(Root)
    <3>1. written' = [written EXCEPT ![Root].line = @ + 1] BY <2>1 DEF DecideThrough, Wrote
    <3>2. written' = [written EXCEPT ![Root] = [written[Root] EXCEPT !.line = l + 1]] BY <1>2, <3>1
    <3>3. [written[Root] EXCEPT !.line = l + 1] \in [line : Int, pieces : Int]
          /\ [written[Root] EXCEPT !.line = l + 1].line = l + 1
      BY <2>0
    <3> QED BY <1>1, <2>0, <3>2, <3>3
  <2>2. CASE piece # Newline(Root)
    <3>1. written' = [written EXCEPT ![Root].pieces = @ + 1] BY <2>2 DEF DecideThrough, Wrote
    <3>2. PICK k \in Int : k = written[Root].pieces + 1 BY <2>0
    <3>3. written' = [written EXCEPT ![Root] = [written[Root] EXCEPT !.pieces = k]] BY <3>1, <3>2
    <3>4. [written[Root] EXCEPT !.pieces = k] \in [line : Int, pieces : Int]
          /\ [written[Root] EXCEPT !.pieces = k].line = l
      BY <1>2, <2>0
    <3> QED BY <1>1, <2>0, <3>3, <3>4
  <2> QED BY <2>1, <2>2
<1>9. OutputTypes'
  <2>1. through' \in Seq(AllPieces) BY <1>5, <1>6
  <2> QED BY <1>1, <1>3, <1>7, <1>8, <2>1 DEF OutputTypes
<1>10. Buffered'
  <2> SUFFICES ASSUME NEW v \in Writers, NEW i \in 1..Len(line[v])
               PROVE  line[v][i][1] = v /\ line[v][i][2] = written'[v].line
    BY <1>7 DEF Buffered
  <2>1. CASE v = Root BY <1>3, <2>1
  <2>2. CASE v # Root BY <1>8, <2>2 DEF OutputInv, Buffered
  <2> QED BY <2>1, <2>2
<1>11. Alone'
  <2>1. AloneAt(l)'
    <3>1. ThroughIs(l)' BY <1>5, <1>6 DEF ThroughIs
    <3>2. l <= written'[Root].line BY <1>8
    <3>3. through' # <<>> BY <1>6
    <3>4. \A i \in 1..Len(target) : target[i][1] = Root /\ target[i][2] <= l
      <4>1. PICK n \in Int : AloneAt(n) BY <1>3 DEF OutputInv, Alone
      <4> QED BY <1>2, <1>3, <4>1 DEF AloneAt
    <3> QED BY <1>3, <3>1, <3>2, <3>3, <3>4 DEF AloneAt
  <2>2. \A i, k \in 1..Len(target) : i <= k => target[i][2] <= target[k][2]
    BY <1>3 DEF OutputInv, Alone
  <2> QED BY <1>3, <1>7, <2>1, <2>2 DEF Alone
<1>12. InPieces' BY <1>3 DEF InPieces
<1> QED BY <1>9, <1>10, <1>11, <1>12 DEF OutputInv

LEMMA WriteThroughKeeps ==
  ASSUME OutputInv, WriteThrough
  PROVE  OutputInv'
<1>1. OutputTypes /\ Root \in Writers BY DEF OutputInv, Writers
<1>2. PICK block \in Seq(AllPieces) : block = through BY <1>1 DEF OutputTypes
<1>3. /\ block # <<>> /\ target' = target \o block /\ through' = <<>>
      /\ actors_started' = actors_started /\ running' = running /\ written' = written /\ line' = line
  BY <1>2 DEF WriteThrough
<1>4. ASSUME NEW n \in Int, ThroughIs(n)
      PROVE  /\ target' \in Seq(AllPieces)
             /\ \A w \in Writers, m \in Int : w # Root \/ m # n =>
                    Places(w, m)' = Places(w, m) /\ (Torn(w, m)' <=> Torn(w, m))
  <2>1. \A i \in 1..Len(block) : block[i][1] = Root /\ block[i][2] = n BY <1>2, <1>4 DEF ThroughIs
  <2> QED BY <1>1, <1>3, <2>1, WrittenAtOnce
<1>5. \A n : ThroughIs(n)' BY <1>3 DEF ThroughIs
<1>6. ASSUME actors_started PROVE OutputInv'
  <2>1. PICK n \in Int : n <= written[Root].line /\ InPiecesAt(n) BY <1>6 DEF OutputInv, InPieces
  <2>2. ThroughIs(n) BY <2>1 DEF InPiecesAt
  <2>3. InPiecesAt(n)' BY <1>3, <1>4, <1>5, <2>1, <2>2 DEF InPiecesAt
  <2>4. OutputTypes' BY <1>1, <1>3, <1>4, <2>2 DEF OutputTypes
  <2>5. Buffered' BY <1>3 DEF OutputInv, Buffered
  <2> QED BY <1>3, <1>6, <2>1, <2>3, <2>4, <2>5 DEF OutputInv, Alone, InPieces
<1>7. ASSUME ~actors_started PROVE OutputInv'
  <2>1. PICK n \in Int : AloneAt(n) BY <1>7 DEF OutputInv, Alone
  <2>2. ThroughIs(n) BY <2>1 DEF AloneAt
  <2>3. OutputTypes' BY <1>1, <1>3, <1>4, <2>2 DEF OutputTypes
  <2>4. Buffered' BY <1>3 DEF OutputInv, Buffered
  <2>5. /\ Len(target) \in Nat /\ Len(block) \in Nat /\ Len(target') = Len(target) + Len(block)
        /\ \A i \in 1..Len(target') : target'[i] = IF i <= Len(target) THEN target[i] ELSE block[i - Len(target)]
    BY <1>1, <1>3, ConcatProperties DEF OutputTypes
  <2>6. \A i \in Len(target) + 1..Len(target') : target'[i][1] = Root /\ target'[i][2] = n
    <3> TAKE i \in Len(target) + 1..Len(target')
    <3>1. i - Len(target) \in 1..Len(block) /\ target'[i] = block[i - Len(target)] BY <2>5
    <3> QED BY <1>2, <2>2, <3>1 DEF ThroughIs
  <2>7. \A i \in 1..Len(target) : target'[i] = target[i] /\ target[i][1] = Root /\ target[i][2] <= n
    BY <2>1, <2>5 DEF AloneAt
  <2>8. \A i \in 1..Len(target') : target'[i][1] = Root /\ target'[i][2] <= n
    <3> TAKE i \in 1..Len(target')
    <3>1. CASE i \in 1..Len(target) BY <2>7, <3>1
    <3>2. CASE i \in Len(target) + 1..Len(target') BY <2>6, <3>2
    <3> QED BY <2>5, <3>1, <3>2
  <2>9. \A i, k \in 1..Len(target') : i <= k => target'[i][2] <= target'[k][2]
    <3> SUFFICES ASSUME NEW i \in 1..Len(target'), NEW k \in 1..Len(target'), i <= k
                 PROVE  target'[i][2] <= target'[k][2]
      OBVIOUS
    <3>1. CASE k \in 1..Len(target)
      <4>1. i \in 1..Len(target) BY <2>5, <3>1
      <4> QED BY <1>7, <2>7, <3>1, <4>1 DEF OutputInv, Alone
    <3>2. CASE k \in Len(target) + 1..Len(target') BY <2>6, <2>8, <3>2
    <3> QED BY <2>5, <3>1, <3>2
  <2>10. PICK l \in Int : l = written[Root].line BY <1>1 DEF OutputTypes
  <2>11. AloneAt(l)'
    <3>1. n <= l BY <2>1, <2>10 DEF AloneAt
    <3>2. \A i \in 1..Len(target') : target'[i][2] <= l
      <4> TAKE i \in 1..Len(target')
      <4>1. target'[i] \in AllPieces BY <2>3 DEF OutputTypes
      <4>2. target'[i][2] \in Int BY <4>1, PieceIs
      <4> QED BY <2>8, <3>1, <4>2
    <3> QED BY <1>3, <1>5, <2>8, <2>10, <3>2 DEF AloneAt
  <2>12. Alone' BY <1>3, <1>7, <2>9, <2>11 DEF OutputInv, Alone
  <2>13. InPieces' BY <1>3, <1>7 DEF InPieces
  <2> QED BY <2>3, <2>4, <2>12, <2>13 DEF OutputInv
<1> QED BY <1>6, <1>7

LEMMA StartKeeps ==
  ASSUME OutputInv, NEW a \in Actors, StartActor(a)
  PROVE  OutputInv'
<1>1. OutputTypes /\ Root \in Writers BY DEF OutputInv, Writers
<1>2. /\ actors_started' = TRUE /\ running' = running \cup {a}
      /\ written' = written /\ line' = line /\ through' = through /\ target' = target
  BY DEF StartActor
<1>3. OutputTypes' BY <1>1, <1>2 DEF OutputTypes
<1>4. Buffered' BY <1>2 DEF OutputInv, Buffered
<1>5. Alone' BY <1>2 DEF Alone
<1>6. /\ \A w \in Writers, m \in Int : Places(w, m)' = Places(w, m) /\ (Torn(w, m)' <=> Torn(w, m))
      /\ \A n : ThroughIs(n)' <=> ThroughIs(n)
  BY <1>2 DEF Places, Torn, ThroughIs
<1>7. ASSUME NEW n \in Int, n <= written[Root].line, InPiecesAt(n) PROVE InPieces'
  <2>1. InPiecesAt(n)' BY <1>2, <1>6, <1>7 DEF InPiecesAt
  <2> QED BY <1>2, <1>7, <2>1 DEF InPieces
<1>8. ASSUME ~actors_started PROVE InPieces'
  <2>1. PICK n \in Int : AloneAt(n) BY <1>8 DEF OutputInv, Alone
  <2>2. DOMAIN target = 1..Len(target) /\ target \in Seq(AllPieces) BY <1>1 DEF OutputTypes
  <2>3. ASSUME NEW w \in Writers, NEW m \in Int, w # Root \/ m # n
        PROVE  ~Torn(w, m) /\ (Places(w, m) # {} => m < written[w].line)
    <3>1. ASSUME NEW i \in Places(w, m) PROVE w = Root /\ m < written[w].line
      <4>1. i \in 1..Len(target) /\ target[i][1] = w /\ target[i][2] = m BY <2>2 DEF Places
      <4>2. w = Root /\ m <= n BY <2>1, <4>1 DEF AloneAt
      <4>3. n <= written[Root].line /\ written[Root].line \in Int BY <1>1, <2>1 DEF AloneAt, OutputTypes
      <4> QED BY <2>3, <4>2, <4>3
    <3>2. ASSUME NEW i \in Places(w, m), NEW k \in Places(w, m), NEW j \in i..k PROVE j \in Places(w, m)
      <4>1. /\ i \in 1..Len(target) /\ target[i][1] = w /\ target[i][2] = m
            /\ k \in 1..Len(target) /\ target[k][2] = m
        BY <2>2 DEF Places
      <4>2. j \in 1..Len(target) /\ i <= j /\ j <= k BY <1>1, <4>1 DEF OutputTypes
      <4>3. target[i][2] <= target[j][2] /\ target[j][2] <= target[k][2]
        BY <1>8, <4>1, <4>2 DEF OutputInv, Alone
      <4>4. target[j] \in AllPieces BY <2>2, <4>2
      <4>5. target[j][2] \in Int BY <4>4, PieceIs
      <4>6. target[j][2] = m BY <4>1, <4>3, <4>5
      <4>7. target[j][1] = Root /\ w = Root BY <2>1, <4>1, <4>2 DEF AloneAt
      <4> QED BY <2>2, <4>2, <4>6, <4>7 DEF Places
    <3>3. ~Torn(w, m) BY <3>2 DEF Torn
    <3> QED BY <3>1, <3>3
  <2>4. InPiecesAt(n) BY <2>1, <2>3 DEF InPiecesAt, AloneAt
  <2> QED BY <1>7, <2>1, <2>4 DEF AloneAt
<1>9. ASSUME actors_started PROVE InPieces' BY <1>7, <1>9 DEF OutputInv, InPieces
<1> QED BY <1>3, <1>4, <1>5, <1>8, <1>9 DEF OutputInv

LEMMA OutputUnchanged ==
  ASSUME OutputInv, UNCHANGED outputVars
  PROVE  OutputInv'
<1>1. /\ actors_started' = actors_started /\ running' = running
      /\ written' = written /\ line' = line /\ through' = through /\ target' = target
  BY DEF outputVars
<1>2. /\ \A w, m : Places(w, m)' = Places(w, m) /\ (Torn(w, m)' <=> Torn(w, m))
      /\ \A n : ThroughIs(n)' <=> ThroughIs(n)
  BY <1>1 DEF Places, Torn, ThroughIs
<1>3. \A n : (AloneAt(n)' <=> AloneAt(n)) /\ (InPiecesAt(n)' <=> InPiecesAt(n))
  BY <1>1, <1>2 DEF AloneAt, InPiecesAt
<1> QED BY <1>1, <1>3 DEF OutputInv, OutputTypes, Buffered, Alone, InPieces

LEMMA WholeLines == OutputInv => LinesStayWhole
<1> SUFFICES ASSUME OutputInv PROVE LinesStayWhole OBVIOUS
<1> DEFINE torn == {x \in Writers \X (1..Lines) : Torn(x[1], x[2])}
<1>1. OutputTypes BY DEF OutputInv
<1>2. PICK n \in Int : \A w \in Writers, m \in Int : Torn(w, m) => w = Root /\ m = n
  <2>1. CASE actors_started BY <2>1 DEF OutputInv, InPieces, InPiecesAt
  <2>2. CASE ~actors_started
    <3>1. PICK l \in Int : AloneAt(l) BY <2>2 DEF OutputInv, Alone
    <3>2. DOMAIN target = 1..Len(target) /\ target \in Seq(AllPieces) BY <1>1 DEF OutputTypes
    <3>3. ASSUME NEW w \in Writers, NEW m \in Int,
                 NEW i \in Places(w, m), NEW k \in Places(w, m), NEW j \in i..k
          PROVE  j \in Places(w, m)
      <4>1. /\ i \in 1..Len(target) /\ target[i][1] = w /\ target[i][2] = m
            /\ k \in 1..Len(target) /\ target[k][2] = m
        BY <3>2 DEF Places
      <4>2. j \in 1..Len(target) /\ i <= j /\ j <= k BY <3>2, <4>1
      <4>3. target[i][2] <= target[j][2] /\ target[j][2] <= target[k][2]
        BY <2>2, <4>1, <4>2 DEF OutputInv, Alone
      <4>4. target[j] \in AllPieces BY <3>2, <4>2
      <4>5. target[j][2] \in Int BY <4>4, PieceIs
      <4>6. target[j][2] = m BY <4>1, <4>3, <4>5
      <4>7. target[j][1] = w BY <3>1, <4>1, <4>2 DEF AloneAt
      <4> QED BY <3>2, <4>2, <4>6, <4>7 DEF Places
    <3>4. \A w \in Writers, m \in Int : ~Torn(w, m) BY <3>3 DEF Torn
    <3> QED BY <3>4
  <2> QED BY <2>1, <2>2
<1>3. torn \subseteq {<<Root, n>>}
  <2> SUFFICES ASSUME NEW x \in torn PROVE x = <<Root, n>> OBVIOUS
  <2>1. x = <<x[1], x[2]>> /\ x[1] \in Writers /\ x[2] \in Int /\ Torn(x[1], x[2]) OBVIOUS
  <2> QED BY <1>2, <2>1
<1>4. Cardinality(torn) <= 1
  <2>1. IsFiniteSet({<<Root, n>>}) /\ Cardinality({<<Root, n>>}) = 1 BY FS_Singleton
  <2> HIDE DEF torn
  <2> QED BY <1>3, <2>1, FS_Subset
<1>5. \A x \in torn : x[1] = Root BY <1>3
<1> QED BY <1>4, <1>5 DEF LinesStayWhole

(* Whatever the actors and the root write, and however their writes fall    *)
(* between each other, no line reaches the stream in pieces but one of the  *)
(* root's, the one it was writing through when the first actor started      *)
(* (LineForwardBuf::xsputn and sync, native_spawn_actor).                   *)
THEOREM LinesHold == OutputSpec => []LinesStayWhole
<1>1. OutputInv /\ [OutputNext]_outputVars => OutputInv'
  <2> SUFFICES ASSUME OutputInv, [OutputNext]_outputVars PROVE OutputInv' OBVIOUS
  <2>1. CASE WriteThrough BY <2>1, WriteThroughKeeps
  <2>2. ASSUME NEW w \in Writers, Write(w) PROVE OutputInv'
    <3>1. Root \in Writers BY DEF Writers
    <3> QED BY <2>2, <3>1, WriteLineKeeps, DecideKeeps DEF Write
  <2>3. ASSUME NEW w \in Writers, Flush(w) PROVE OutputInv' BY <2>3, FlushKeeps
  <2>4. ASSUME NEW w \in Actors, StartActor(w) PROVE OutputInv' BY <2>4, StartKeeps
  <2>5. CASE UNCHANGED outputVars BY <2>5, OutputUnchanged
  <2> QED BY <2>1, <2>2, <2>3, <2>4, <2>5 DEF OutputNext
<1> QED BY OutputInitInv, WholeLines, <1>1, PTL DEF OutputSpec

-----------------------------------------------------------------------------
(* A program's map is a finite function, whatever its keys' hashes.         *)
(*                                                                         *)
(* Every live entry is on the chain of its key: between the place its hash *)
(* names and its own there is no empty slot.  An insertion fills one slot, *)
(* a deletion leaves its mark, so that no chain is ever cut; a rehash puts *)
(* one entry after the other on a chain of the new table.                  *)

(* The remainder of a division is what is left over. *)
LEMMA RemainderIs ==
  ASSUME NEW n \in Nat \ {0}, NEW q \in Nat, NEW r \in 0..n - 1
  PROVE  (n * q + r) % n = r
OBVIOUS

(* Every number is a multiple and a remainder. *)
LEMMA Divided ==
  ASSUME NEW n \in Nat \ {0}, NEW a \in Nat
  PROVE  \E q \in Nat, r \in 0..n - 1 : a = n * q + r
<1> DEFINE T == {r \in Nat : \E q \in Nat : a = n * q + r}
<1>1. a \in T
  <2>1. a = n * 0 + a OBVIOUS
  <2> QED BY <2>1
<1>2. PICK r \in T : \A y \in T : r <= y
  <2>1. T \subseteq Nat OBVIOUS
  <2> HIDE DEF T
  <2> QED BY <1>1, <2>1, LeastNumber
<1>3. PICK q \in Nat : a = n * q + r OBVIOUS
<1>4. r < n
  <2> SUFFICES ASSUME r - n \in Nat PROVE FALSE OBVIOUS
  <2>1. n * (q + 1) = n * q + n OBVIOUS
  <2>2. a = n * (q + 1) + (r - n) BY <1>3, <2>1
  <2>3. r - n \in T BY <2>2
  <2> QED BY <1>2, <2>3
<1> QED BY <1>3, <1>4

(* Walking on from any place one comes to every place. *)
LEMMA EveryPlace ==
  ASSUME NEW n \in Nat \ {0}, NEW a \in Nat, NEW p \in 0..n - 1
  PROVE  \E d \in 0..n - 1 : (a + d) % n = p
<1>1. PICK q \in Nat, r \in 0..n - 1 : a = n * q + r BY Divided
<1>2. CASE p >= r
  <2>1. a + (p - r) = n * q + p /\ p - r \in 0..n - 1 BY <1>1, <1>2
  <2> QED BY <2>1, RemainderIs
<1>3. CASE p < r
  <2>1. n * (q + 1) = n * q + n OBVIOUS
  <2>2. a + (p - r + n) = n * (q + 1) + p /\ p - r + n \in 0..n - 1 BY <1>1, <1>3, <2>1
  <2>3. (n * (q + 1) + p) % n = p BY RemainderIs
  <2> QED BY <2>2, <2>3
<1> QED BY <1>2, <1>3

(* What marks a slot without an entry. *)
Mark == {Empty, Gone}
Entry == [key : Keys \cup Mark, raw : Keys \cup Mark, val : Vals \cup {Empty, NilValue}]

(* The table t has n slots. *)
Slotted(t, n) == n \in Nat \ {0} /\ t \in [0..n - 1 -> Entry]

(* The d-th place where the search for key looks. *)
Place(key, d, n) == (Hash(key) + d) % n

(* Slot p is on the chain of key: no empty slot comes before it. *)
OnChain(t, n, key, p) ==
  \E d \in 0..n - 1 : Place(key, d, n) = p /\ \A e \in 0..d - 1 : t[Place(key, e, n)].key # Empty

(* No key has two slots, and each is on its chain. *)
Sound(t, n) ==
  /\ Slotted(t, n)
  /\ \A p, q \in LiveSlots(t) : t[p].key = t[q].key => p = q
  /\ \A p \in LiveSlots(t) : OnChain(t, n, t[p].key, p)

(* The table t stands for f. *)
Means(t, f) ==
  /\ DOMAIN f = {t[p].key : p \in LiveSlots(t)}
  /\ \A p \in LiveSlots(t) : f[t[p].key] = t[p].val

(* What Min gives. *)
LEMMA LeastOf ==
  ASSUME NEW S, S \subseteq Nat, S # {}
  PROVE  Min(S) \in S /\ \A y \in S : Min(S) <= y
BY LeastNumber DEF Min

(* Cap counts the slots. *)
LEMMA SlottedCap ==
  ASSUME NEW n, NEW t, Slotted(t, n)
  PROVE  Cap(t) = n /\ DOMAIN t = 0..n - 1 /\ IsFiniteSet(0..n - 1)
<1>1. n - 1 \in Int /\ DOMAIN t = 0..n - 1 /\ 0 <= n - 1 BY DEF Slotted
<1>2. Cardinality(0..n - 1) = n BY <1>1, FS_Interval DEF Slotted
<1> QED BY <1>1, <1>2, FS_Interval DEF Cap

(* A search stays in the table. *)
LEMMA PlaceType ==
  ASSUME NEW n \in Nat \ {0}, NEW k \in Keys, NEW d \in Nat
  PROVE  Place(k, d, n) \in 0..n - 1
BY KeysAssumption DEF Place

(* A live slot has a key. *)
LEMMA LiveKey ==
  ASSUME NEW n, NEW t, Slotted(t, n), NEW p \in LiveSlots(t)
  PROVE  p \in 0..n - 1 /\ t[p].key \in Keys /\ t[p].key \notin Mark
BY DEF LiveSlots, Slotted, Entry, Mark

(* What the search for a key comes to, told without LET. *)
Stops(t, n, key) == {d \in 0..n - 1 : t[Place(key, d, n)].key \in {Empty, key}}
Tombs(t, n, key, d) == {e \in 0..d - 1 : t[Place(key, e, n)].key = Gone}

LEMMA ProbeIs ==
  ASSUME NEW n, NEW t, Slotted(t, n), NEW key
  PROVE  Probe(t, key) =
           IF Stops(t, n, key) = {} THEN Endless
           ELSE LET stop == Min(Stops(t, n, key))
                IN IF t[Place(key, stop, n)].key = key \/ Tombs(t, n, key, stop) = {}
                   THEN Place(key, stop, n)
                   ELSE Place(key, Min(Tombs(t, n, key, stop)), n)
BY SlottedCap DEF Probe, Stops, Tombs, Place

(* A key that is there is found where it is. *)
LEMMA ProbeHits ==
  ASSUME NEW n, NEW t, Sound(t, n), NEW p \in LiveSlots(t)
  PROVE  Probe(t, t[p].key) = p /\ Holds(t, t[p].key)
<1> DEFINE k == t[p].key
           S == Stops(t, n, k)
           stop == Min(S)
<1>0. Slotted(t, n) /\ n \in Nat \ {0} BY DEF Sound, Slotted
<1>1. p \in 0..n - 1 /\ k \in Keys /\ k \notin Mark BY <1>0, LiveKey
<1>2. PICK d \in 0..n - 1 : Place(k, d, n) = p /\ \A e \in 0..d - 1 : t[Place(k, e, n)].key # Empty
  BY DEF Sound, OnChain
<1>3. d \in S BY <1>2 DEF Stops
<1>4. stop \in S /\ stop <= d
  <2>1. S \subseteq Nat /\ S # {} BY <1>0, <1>3 DEF Stops
  <2> HIDE DEF S
  <2> QED BY <1>3, <2>1, LeastOf
<1>5. stop \in 0..n - 1 /\ t[Place(k, stop, n)].key \in {Empty, k} BY <1>4 DEF Stops
<1>6. t[Place(k, stop, n)].key = k
  <2>1. CASE stop = d BY <1>2, <2>1
  <2>2. CASE stop # d
    <3>1. stop \in 0..d - 1 BY <1>0, <1>4, <1>5, <2>2
    <3> QED BY <1>2, <1>5, <3>1
  <2> QED BY <2>1, <2>2
<1>7. Place(k, stop, n) = p
  <2>1. Place(k, stop, n) \in 0..n - 1 BY <1>0, <1>1, <1>5, PlaceType
  <2>2. Place(k, stop, n) \in LiveSlots(t)
    BY <1>0, <1>1, <1>6, <2>1, SlottedCap DEF LiveSlots, Mark
  <2> QED BY <1>6, <2>2 DEF Sound
<1>8. Probe(t, k) = p
  <2>1. S # {} BY <1>3
  <2> HIDE DEF S, k
  <2> QED BY <1>0, <1>6, <1>7, <2>1, ProbeIs DEF S
<1>9. p # Endless BY <1>1 DEF Endless
<1> QED BY <1>8, <1>9 DEF Holds

(* A key that is not there ends at a slot that can take it. *)
LEMMA ProbeMisses ==
  ASSUME NEW n, NEW t, Sound(t, n), NEW k \in Keys, \A p \in LiveSlots(t) : t[p].key # k,
         \E p \in 0..n - 1 : t[p].key = Empty
  PROVE  /\ Probe(t, k) \in 0..n - 1 /\ t[Probe(t, k)].key \in Mark
         /\ OnChain(t, n, k, Probe(t, k)) /\ ~Holds(t, k)
<1> DEFINE S == Stops(t, n, k)
           stop == Min(S)
           G == Tombs(t, n, k, stop)
<1>0. Slotted(t, n) /\ n \in Nat \ {0} BY DEF Sound, Slotted
<1>1. k \notin Mark BY KeysAssumption DEF Mark
<1>2. \A d \in Nat : Place(k, d, n) \in 0..n - 1 /\ t[Place(k, d, n)].key # k
  <2> TAKE d \in Nat
  <2>1. Place(k, d, n) \in 0..n - 1 BY <1>0, PlaceType
  <2> QED BY <1>0, <1>1, <2>1, SlottedCap DEF LiveSlots, Mark
<1>3. S # {}
  <2>1. PICK p \in 0..n - 1 : t[p].key = Empty OBVIOUS
  <2>2. PICK d \in 0..n - 1 : Place(k, d, n) = p
    BY <1>0, EveryPlace, KeysAssumption DEF Place
  <2> QED BY <2>1, <2>2 DEF Stops
<1>4. stop \in S /\ \A d \in S : stop <= d
  <2>1. S \subseteq Nat BY <1>0 DEF Stops
  <2> HIDE DEF S
  <2> QED BY <1>3, <2>1, LeastOf
<1>5. stop \in 0..n - 1 /\ stop \in Nat /\ t[Place(k, stop, n)].key = Empty
  BY <1>0, <1>2, <1>4 DEF Stops
<1>6. \A e \in 0..stop - 1 : t[Place(k, e, n)].key # Empty
  <2> TAKE e \in 0..stop - 1
  <2>1. e \in 0..n - 1 /\ ~(stop <= e) BY <1>0, <1>5
  <2>2. e \notin S BY <1>4, <2>1
  <2> QED BY <2>1, <2>2 DEF Stops
<1>7. PICK d \in 0..stop : Probe(t, k) = Place(k, d, n) /\ t[Place(k, d, n)].key \in Mark
  <2>1. CASE G = {}
    <3>1. Probe(t, k) = Place(k, stop, n) BY <1>0, <1>3, <2>1, ProbeIs
    <3> QED BY <1>5, <3>1 DEF Mark
  <2>2. CASE G # {}
    <3>1. Probe(t, k) = Place(k, Min(G), n)
      <4>1. t[Place(k, stop, n)].key # k BY <1>2, <1>5
      <4> QED BY <1>0, <1>3, <2>2, <4>1, ProbeIs
    <3>2. Min(G) \in G
      <4>1. G \subseteq Nat BY <1>5 DEF Tombs
      <4> HIDE DEF G
      <4> QED BY <2>2, <4>1, LeastOf
    <3>3. Min(G) \in 0..stop /\ t[Place(k, Min(G), n)].key = Gone BY <1>5, <3>2 DEF Tombs
    <3> QED BY <3>1, <3>3 DEF Mark
  <2> QED BY <2>1, <2>2
<1>8. d \in 0..n - 1 /\ \A e \in 0..d - 1 : e \in 0..stop - 1 BY <1>0, <1>5
<1>9. OnChain(t, n, k, Probe(t, k)) BY <1>6, <1>7, <1>8 DEF OnChain
<1>10. ~Holds(t, k) BY <1>1, <1>7 DEF Holds, Mark
<1> QED BY <1>2, <1>7, <1>8, <1>9, <1>10

(* So Holds says what the table has. *)
LEMMA HoldsIs ==
  ASSUME NEW n, NEW t, Sound(t, n), NEW k \in Keys, \E p \in 0..n - 1 : t[p].key = Empty
  PROVE  Holds(t, k) <=> \E p \in LiveSlots(t) : t[p].key = k
BY ProbeHits, ProbeMisses

(* A table whose used slots are fewer than all has an empty one. *)
LEMMA SomeEmpty ==
  ASSUME NEW n, NEW t, Slotted(t, n), Cardinality(UsedSlots(t)) < n
  PROVE  \E p \in 0..n - 1 : t[p].key = Empty
<1>1. DOMAIN t = 0..n - 1 BY SlottedCap
<1>2. CASE UsedSlots(t) = 0..n - 1
  <2>1. Cardinality(0..n - 1) = n BY <1>1, SlottedCap DEF Cap
  <2> QED BY <1>2, <2>1 DEF Slotted
<1>3. CASE UsedSlots(t) # 0..n - 1 BY <1>1, <1>3 DEF UsedSlots
<1> QED BY <1>2, <1>3

(* What is live or used is finite. *)
LEMMA SlotsFinite ==
  ASSUME NEW n, NEW t, Slotted(t, n)
  PROVE  /\ IsFiniteSet(LiveSlots(t)) /\ IsFiniteSet(UsedSlots(t))
         /\ Cardinality(LiveSlots(t)) \in Nat /\ Cardinality(UsedSlots(t)) \in Nat
         /\ LiveSlots(t) \subseteq UsedSlots(t) /\ UsedSlots(t) \subseteq 0..n - 1
         /\ Cardinality(LiveSlots(t)) <= Cardinality(UsedSlots(t))
<1>1. DOMAIN t = 0..n - 1 /\ IsFiniteSet(0..n - 1) BY SlottedCap
<1>2. LiveSlots(t) \subseteq UsedSlots(t) /\ UsedSlots(t) \subseteq 0..n - 1
  BY <1>1 DEF LiveSlots, UsedSlots
<1>3. IsFiniteSet(UsedSlots(t)) /\ IsFiniteSet(LiveSlots(t)) BY <1>1, <1>2, FS_Subset
<1> QED BY <1>2, <1>3, FS_CardinalityType, FS_Subset

(* An insertion. *)
Inserted(t, p, x) == [t EXCEPT ![p] = x]

(* An entry is put into a slot on its chain. *)
LEMMA Filled ==
  ASSUME NEW n, NEW t, Sound(t, n), NEW x \in Entry, x.key \in Keys,
         \A q \in LiveSlots(t) : t[q].key # x.key,
         NEW p \in 0..n - 1, t[p].key \in Mark, OnChain(t, n, x.key, p)
  PROVE  /\ Sound(Inserted(t, p, x), n)
         /\ LiveSlots(Inserted(t, p, x)) = LiveSlots(t) \cup {p}
         /\ UsedSlots(Inserted(t, p, x)) = UsedSlots(t) \cup {p}
         /\ p \notin LiveSlots(t)
         /\ Inserted(t, p, x)[p] = x /\ \A q \in LiveSlots(t) : Inserted(t, p, x)[q] = t[q]
<1> DEFINE u == Inserted(t, p, x)
<1>0. Slotted(t, n) /\ n \in Nat \ {0} BY DEF Sound, Slotted
<1>1. DOMAIN t = 0..n - 1 BY <1>0, SlottedCap
<1>2. x.key \notin Mark BY KeysAssumption DEF Mark
<1>3. \A q \in 0..n - 1 : u[q] = IF q = p THEN x ELSE t[q] BY <1>1 DEF Inserted
<1>4. Slotted(u, n) /\ DOMAIN u = 0..n - 1 BY <1>0, <1>1 DEF Slotted, Inserted
<1> HIDE DEF u
<1>5. p \notin LiveSlots(t) BY DEF LiveSlots, Mark
<1>6. LiveSlots(u) = LiveSlots(t) \cup {p} BY <1>1, <1>2, <1>3, <1>4 DEF LiveSlots, Mark
<1>7. UsedSlots(u) = UsedSlots(t) \cup {p} BY <1>1, <1>2, <1>3, <1>4 DEF UsedSlots, Mark
<1>8. \A q \in LiveSlots(t) : q \in 0..n - 1 /\ q # p /\ u[q] = t[q] /\ t[q].key \in Keys
  BY <1>0, <1>3, <1>5, LiveKey
<1>9. \A q, r \in LiveSlots(u) : u[q].key = u[r].key => q = r
  BY <1>3, <1>6, <1>8 DEF Sound
<1>10. ASSUME NEW k \in Keys, NEW q, OnChain(t, n, k, q) PROVE OnChain(u, n, k, q)
  <2>1. PICK d \in 0..n - 1 : Place(k, d, n) = q /\ \A e \in 0..d - 1 : t[Place(k, e, n)].key # Empty
    BY <1>10 DEF OnChain
  <2>2. \A e \in 0..d - 1 : u[Place(k, e, n)].key # Empty
    <3> TAKE e \in 0..d - 1
    <3>1. Place(k, e, n) \in 0..n - 1 BY <1>0, PlaceType
    <3> QED BY <1>2, <1>3, <2>1, <3>1 DEF Mark
  <2> QED BY <2>1, <2>2 DEF OnChain
<1>11. \A q \in LiveSlots(u) : OnChain(u, n, u[q].key, q)
  <2> TAKE q \in LiveSlots(u)
  <2>1. CASE q = p BY <1>3, <1>10, <2>1
  <2>2. CASE q # p
    <3>1. q \in LiveSlots(t) BY <1>6, <2>2
    <3> QED BY <1>8, <1>10, <3>1 DEF Sound
  <2> QED BY <2>1, <2>2
<1> QED BY <1>3, <1>4, <1>5, <1>6, <1>7, <1>8, <1>9, <1>11 DEF Sound, u

(* The value of a live entry is replaced. *)
LEMMA Replaced ==
  ASSUME NEW n, NEW t, Sound(t, n), NEW p \in LiveSlots(t), NEW v \in Vals
  PROVE  LET u == [t EXCEPT ![p].val = v]
         IN  /\ Sound(u, n)
             /\ LiveSlots(u) = LiveSlots(t) /\ UsedSlots(u) = UsedSlots(t)
             /\ u[p].val = v /\ \A q \in LiveSlots(t) : u[q].key = t[q].key
             /\ \A q \in LiveSlots(t) : q # p => u[q].val = t[q].val
<1> DEFINE u == [t EXCEPT ![p].val = v]
<1>0. Slotted(t, n) /\ n \in Nat \ {0} BY DEF Sound, Slotted
<1>1. DOMAIN t = 0..n - 1 /\ p \in 0..n - 1 BY <1>0, SlottedCap, LiveKey
<1>2. \A q \in 0..n - 1 : t[q] \in Entry BY <1>0 DEF Slotted
<1>3. \A q \in 0..n - 1 : u[q] = IF q = p THEN [t[p] EXCEPT !.val = v] ELSE t[q] BY <1>1
<1>4. [t[p] EXCEPT !.val = v] \in Entry /\ [t[p] EXCEPT !.val = v].key = t[p].key
      /\ [t[p] EXCEPT !.val = v].val = v
  BY <1>1, <1>2 DEF Entry
<1>5. DOMAIN u = 0..n - 1 /\ u = [q \in 0..n - 1 |-> u[q]] BY <1>1
<1> HIDE DEF u
<1>6. \A q \in 0..n - 1 : u[q].key = t[q].key /\ u[q] \in Entry BY <1>2, <1>3, <1>4
<1>7. Slotted(u, n) BY <1>0, <1>5, <1>6 DEF Slotted
<1>8. LiveSlots(u) = LiveSlots(t) /\ UsedSlots(u) = UsedSlots(t)
  BY <1>1, <1>5, <1>6 DEF LiveSlots, UsedSlots
<1>9. \A q \in LiveSlots(t) : q \in 0..n - 1 /\ t[q].key \in Keys BY <1>0, LiveKey
<1>10. \A q \in LiveSlots(t) : OnChain(u, n, t[q].key, q)
  <2> TAKE q \in LiveSlots(t)
  <2>1. PICK d \in 0..n - 1 : /\ Place(t[q].key, d, n) = q
                              /\ \A e \in 0..d - 1 : t[Place(t[q].key, e, n)].key # Empty
    BY DEF Sound, OnChain
  <2>2. \A e \in 0..d - 1 : u[Place(t[q].key, e, n)].key # Empty
    <3> TAKE e \in 0..d - 1
    <3>1. Place(t[q].key, e, n) \in 0..n - 1 BY <1>0, <1>9, PlaceType
    <3> QED BY <1>6, <2>1, <3>1
  <2> QED BY <2>1, <2>2 DEF OnChain
<1>11. Sound(u, n) BY <1>6, <1>7, <1>8, <1>9, <1>10 DEF Sound
<1> QED BY <1>1, <1>3, <1>4, <1>6, <1>8, <1>9, <1>11 DEF u

(* A live entry becomes a tombstone. *)
LEMMA Deleted ==
  ASSUME NEW n, NEW t, Sound(t, n), NEW p \in LiveSlots(t)
  PROVE  LET u == [t EXCEPT ![p] = [key |-> Gone, raw |-> Gone, val |-> NilValue]]
         IN  /\ Sound(u, n)
             /\ LiveSlots(u) = LiveSlots(t) \ {p} /\ UsedSlots(u) = UsedSlots(t)
             /\ \A q \in LiveSlots(t) \ {p} : u[q] = t[q]
<1> DEFINE g == [key |-> Gone, raw |-> Gone, val |-> NilValue]
           u == [t EXCEPT ![p] = g]
<1>0. Slotted(t, n) /\ n \in Nat \ {0} BY DEF Sound, Slotted
<1>1. DOMAIN t = 0..n - 1 /\ p \in 0..n - 1 BY <1>0, SlottedCap, LiveKey
<1>2. g \in Entry BY DEF Entry, Mark
<1>3. \A q \in 0..n - 1 : u[q] = IF q = p THEN g ELSE t[q] BY <1>1
<1>4. Slotted(u, n) /\ DOMAIN u = 0..n - 1 BY <1>0, <1>1, <1>2 DEF Slotted
<1>5. Gone # Empty /\ g.key = Gone /\ t[p].key # Empty BY DEF Gone, Empty, LiveSlots
<1> HIDE DEF u, g
<1>6. LiveSlots(u) = LiveSlots(t) \ {p} BY <1>1, <1>3, <1>4, <1>5 DEF LiveSlots
<1>7. UsedSlots(u) = UsedSlots(t) BY <1>1, <1>3, <1>4, <1>5 DEF UsedSlots
<1>8. \A q \in LiveSlots(u) : q \in 0..n - 1 /\ q \in LiveSlots(t) /\ u[q] = t[q] /\ t[q].key \in Keys
  BY <1>0, <1>3, <1>6, LiveKey
<1>9. \A q \in LiveSlots(u) : OnChain(u, n, t[q].key, q)
  <2> TAKE q \in LiveSlots(u)
  <2>1. PICK d \in 0..n - 1 : /\ Place(t[q].key, d, n) = q
                              /\ \A e \in 0..d - 1 : t[Place(t[q].key, e, n)].key # Empty
    BY <1>8 DEF Sound, OnChain
  <2>2. \A e \in 0..d - 1 : u[Place(t[q].key, e, n)].key # Empty
    <3> TAKE e \in 0..d - 1
    <3>1. Place(t[q].key, e, n) \in 0..n - 1 BY <1>0, <1>8, PlaceType
    <3> QED BY <1>3, <1>5, <2>1, <3>1
  <2> QED BY <2>1, <2>2 DEF OnChain
<1>10. Sound(u, n) BY <1>4, <1>8, <1>9 DEF Sound
<1> QED BY <1>6, <1>7, <1>8, <1>10 DEF u, g

(* A table of n slots that stands for f, its counters right. *)
Right(tb, n, f) ==
  /\ tb = [slots |-> tb.slots, count |-> tb.count, used |-> tb.used]
  /\ Sound(tb.slots, n) /\ Means(tb.slots, f)
  /\ tb.count = Cardinality(LiveSlots(tb.slots))
  /\ tb.used = Cardinality(UsedSlots(tb.slots))

(* At most 70 % of the slots are used. *)
Roomy(tb, n) == tb.used <= (n * 7) \div 10

(* What it is to come to. *)
With(f, k, v) == [x \in DOMAIN f \cup {k} |-> IF x = k THEN v ELSE f[x]]

(* A table with room has an empty slot. *)
LEMMA RightFacts ==
  ASSUME NEW tb, NEW n, NEW f, Right(tb, n, f), Roomy(tb, n)
  PROVE  /\ n \in Nat \ {0} /\ tb.count \in Nat /\ tb.used \in Nat /\ tb.count <= tb.used
         /\ tb.used < n /\ Slotted(tb.slots, n) /\ Cap(tb.slots) = n
         /\ \E p \in 0..n - 1 : tb.slots[p].key = Empty
<1>1. Slotted(tb.slots, n) /\ n \in Nat \ {0} BY DEF Right, Sound, Slotted
<1>2. /\ tb.count \in Nat /\ tb.used \in Nat /\ tb.count <= tb.used
  BY <1>1, SlotsFinite DEF Right
<1>3. tb.used < n BY <1>1, <1>2 DEF Roomy
<1> QED BY <1>1, <1>2, <1>3, SomeEmpty, SlottedCap DEF Right

(* map_set, when the key is there or there is room for it. *)
LEMMA EntryKeeps ==
  ASSUME NEW tb, NEW n, NEW f, Right(tb, n, f), Roomy(tb, n), NEW k \in Keys, NEW v \in Vals,
         Holds(tb.slots, k) \/ tb.used + 1 <= (n * 7) \div 10
  PROVE  Right(WithEntry(tb, k, k, v), n, With(f, k, v)) /\ Roomy(WithEntry(tb, k, k, v), n)
<1> DEFINE t == tb.slots
           p == Probe(t, k)
           new == WithEntry(tb, k, k, v)
<1>0. /\ n \in Nat \ {0} /\ tb.count \in Nat /\ tb.used \in Nat /\ Slotted(t, n) /\ Sound(t, n)
      /\ \E q \in 0..n - 1 : t[q].key = Empty
  BY RightFacts DEF Right
<1>1. CASE Holds(t, k)
  <2>1. p \in LiveSlots(t) /\ t[p].key = k
    <3>1. PICK q \in LiveSlots(t) : t[q].key = k BY <1>0, <1>1, HoldsIs
    <3> QED BY <1>0, <3>1, ProbeHits
  <2> DEFINE u == [t EXCEPT ![p].val = v]
  <2>2. new = [tb EXCEPT !.slots[p].val = v] BY <1>1 DEF WithEntry
  <2>3. new.slots = u /\ new.count = tb.count /\ new.used = tb.used
        /\ new = [slots |-> u, count |-> tb.count, used |-> tb.used]
    BY <2>2 DEF Right
  <2>4. /\ Sound(u, n)
        /\ LiveSlots(u) = LiveSlots(t) /\ UsedSlots(u) = UsedSlots(t)
        /\ u[p].val = v /\ \A q \in LiveSlots(t) : u[q].key = t[q].key
        /\ \A q \in LiveSlots(t) : q # p => u[q].val = t[q].val
    BY <1>0, <2>1, Replaced
  <2> HIDE DEF u, p, new
  <2>5. Means(u, With(f, k, v))
    <3>1. DOMAIN f = {t[q].key : q \in LiveSlots(t)} BY DEF Right, Means
    <3>2. \A q \in LiveSlots(t) : f[t[q].key] = t[q].val /\ (t[q].key = k => q = p)
      BY <2>1, <1>0 DEF Right, Means, Sound
    <3>3. k \in DOMAIN f BY <2>1, <3>1
    <3>4. DOMAIN With(f, k, v) = {u[q].key : q \in LiveSlots(u)} BY <2>4, <3>1, <3>3 DEF With
    <3>5. \A q \in LiveSlots(u) : With(f, k, v)[u[q].key] = u[q].val
      BY <2>1, <2>4, <3>1, <3>2, <3>3 DEF With
    <3> QED BY <3>4, <3>5 DEF Means
  <2>6. Right(new, n, With(f, k, v)) BY <2>3, <2>4, <2>5 DEF Right
  <2> QED BY <2>3, <2>6 DEF Roomy, new
<1>2. CASE ~Holds(t, k)
  <2> DEFINE x == [key |-> k, raw |-> k, val |-> v]
             u == Inserted(t, p, x)
             one == IF t[p].key = Empty THEN 1 ELSE 0
  <2>1. \A q \in LiveSlots(t) : t[q].key # k BY <1>0, <1>2, HoldsIs
  <2>2. p \in 0..n - 1 /\ t[p].key \in Mark /\ OnChain(t, n, k, p)
    BY <1>0, <2>1, ProbeMisses
  <2>3. x \in Entry /\ x.key = k BY DEF Entry
  <2>4. new = [slots |-> u, count |-> tb.count + 1, used |-> tb.used + one]
    BY <1>2 DEF WithEntry, Inserted
  <2> HIDE DEF x, p
  <2>5. /\ Sound(u, n)
        /\ LiveSlots(u) = LiveSlots(t) \cup {p} /\ UsedSlots(u) = UsedSlots(t) \cup {p}
        /\ p \notin LiveSlots(t)
        /\ u[p] = x /\ \A q \in LiveSlots(t) : u[q] = t[q]
    <3>1. x.key \in Keys /\ (\A q \in LiveSlots(t) : t[q].key # x.key) /\ OnChain(t, n, x.key, p)
      BY <2>1, <2>2, <2>3
    <3>2. Sound(t, n) /\ x \in Entry /\ p \in 0..n - 1 /\ t[p].key \in Mark BY <1>0, <2>2, <2>3
    <3> HIDE DEF t
    <3> QED BY <3>1, <3>2, Filled
  <2> HIDE DEF u, new
  <2>6. Means(u, With(f, k, v))
    <3>1. DOMAIN f = {t[q].key : q \in LiveSlots(t)} BY DEF Right, Means
    <3>2. \A q \in LiveSlots(t) : f[t[q].key] = t[q].val BY DEF Right, Means
    <3>3. DOMAIN With(f, k, v) = {u[q].key : q \in LiveSlots(u)}
      BY <2>3, <2>5, <3>1 DEF With
    <3>4. x.val = v BY DEF x
    <3>5. \A q \in LiveSlots(u) : With(f, k, v)[u[q].key] = u[q].val
      <4> TAKE q \in LiveSlots(u)
      <4>1. CASE q = p BY <2>3, <2>5, <3>4, <4>1 DEF With
      <4>2. CASE q # p
        <5>1. q \in LiveSlots(t) /\ u[q] = t[q] BY <2>5, <4>2
        <5> QED BY <2>1, <3>1, <3>2, <5>1 DEF With
      <4> QED BY <4>1, <4>2
    <3> QED BY <3>3, <3>5 DEF Means
  <2>7. Cardinality(LiveSlots(u)) = Cardinality(LiveSlots(t)) + 1
    BY <1>0, <2>5, SlotsFinite, FS_AddElement
  <2>8. Cardinality(UsedSlots(u)) = Cardinality(UsedSlots(t)) + one
    <3>1. p \in DOMAIN t BY <1>0, <2>2, SlottedCap
    <3>2. CASE t[p].key = Empty
      <4>1. p \notin UsedSlots(t) BY <3>2 DEF UsedSlots
      <4> QED BY <1>0, <2>5, <3>2, <4>1, SlotsFinite, FS_AddElement
    <3>3. CASE t[p].key # Empty
      <4>1. p \in UsedSlots(t) BY <3>1, <3>3 DEF UsedSlots
      <4>2. UsedSlots(u) = UsedSlots(t) BY <2>5, <4>1
      <4> QED BY <1>0, <3>3, <4>2, SlotsFinite
    <3> QED BY <3>2, <3>3
  <2>9. Right(new, n, With(f, k, v)) BY <2>4, <2>5, <2>6, <2>7, <2>8 DEF Right
  <2>10. Roomy(new, n)
    <3>1. tb.used + 1 <= (n * 7) \div 10 BY <1>2
    <3>2. new.used = tb.used + one /\ one \in {0, 1} BY <2>4
    <3> QED BY <1>0, <3>1, <3>2 DEF Roomy
  <2> QED BY <2>9, <2>10 DEF new
<1> QED BY <1>1, <1>2

(* map_delete. *)
LEMMA WithoutKeeps ==
  ASSUME NEW tb, NEW n, NEW f, Right(tb, n, f), Roomy(tb, n), NEW k \in Keys
  PROVE  /\ Right(Without(tb, k), n, [x \in DOMAIN f \ {k} |-> f[x]])
         /\ Roomy(Without(tb, k), n)
<1> DEFINE t == tb.slots
           p == Probe(t, k)
           g == [x \in DOMAIN f \ {k} |-> f[x]]
           new == Without(tb, k)
<1>0. /\ n \in Nat \ {0} /\ tb.count \in Nat /\ tb.used \in Nat /\ Slotted(t, n) /\ Sound(t, n)
      /\ \E q \in 0..n - 1 : t[q].key = Empty
  BY RightFacts DEF Right
<1>1. /\ DOMAIN f = {t[q].key : q \in LiveSlots(t)}
      /\ \A q \in LiveSlots(t) : f[t[q].key] = t[q].val
  BY DEF Right, Means
<1>2. CASE ~Holds(t, k)
  <2>1. \A q \in LiveSlots(t) : t[q].key # k BY <1>0, <1>2, HoldsIs
  <2>2. new = tb BY <1>2 DEF Without
  <2>3. Means(t, g) BY <1>1, <2>1 DEF Means
  <2> HIDE DEF new, g
  <2> QED BY <2>2, <2>3 DEF Right, new, g
<1>3. CASE Holds(t, k)
  <2>1. p \in LiveSlots(t) /\ t[p].key = k
    <3>1. PICK q \in LiveSlots(t) : t[q].key = k BY <1>0, <1>3, HoldsIs
    <3> QED BY <1>0, <3>1, ProbeHits
  <2> DEFINE u == [t EXCEPT ![p] = [key |-> Gone, raw |-> Gone, val |-> NilValue]]
  <2>2. new = [tb EXCEPT !.slots[p] = [key |-> Gone, raw |-> Gone, val |-> NilValue],
                         !.count = @ - 1]
    BY <1>3 DEF Without
  <2>3. new = [slots |-> u, count |-> tb.count - 1, used |-> tb.used]
    BY <2>2 DEF Right
  <2>4. /\ Sound(u, n)
        /\ LiveSlots(u) = LiveSlots(t) \ {p} /\ UsedSlots(u) = UsedSlots(t)
        /\ \A q \in LiveSlots(t) \ {p} : u[q] = t[q]
    BY <1>0, <2>1, Deleted
  <2> HIDE DEF u, p, new
  <2>5. \A q \in LiveSlots(t) : t[q].key = k => q = p BY <1>0, <2>1 DEF Sound
  <2>6. Means(u, g)
    <3>1. DOMAIN g = {u[q].key : q \in LiveSlots(u)} BY <1>1, <2>1, <2>4, <2>5
    <3>2. \A q \in LiveSlots(u) : g[u[q].key] = u[q].val BY <1>1, <2>4, <2>5
    <3> QED BY <3>1, <3>2 DEF Means
  <2>7. Cardinality(LiveSlots(u)) = Cardinality(LiveSlots(t)) - 1
    <3>1. IsFiniteSet(LiveSlots(t)) BY <1>0, SlotsFinite
    <3>2. Cardinality(LiveSlots(t) \ {p}) = Cardinality(LiveSlots(t)) - 1
      BY <2>1, <3>1, FS_RemoveElement
    <3> QED BY <2>4, <3>2
  <2>8. Right(new, n, g) BY <2>3, <2>4, <2>6, <2>7 DEF Right
  <2> QED BY <2>3, <2>8 DEF Roomy, new
<1> QED BY <1>2, <1>3

(* Induction up to n. *)
LEMMA AllUpTo ==
  ASSUME NEW n \in Nat, NEW T, 0 \in T, \A i \in 1..n : i - 1 \in T => i \in T
  PROVE  0..n \subseteq T
<1> DEFINE B == {i \in 0..n : i \notin T}
<1> SUFFICES ASSUME B # {} PROVE FALSE OBVIOUS
<1>1. B \subseteq Nat OBVIOUS
<1>2. PICK i \in B : \A y \in B : i <= y
  <2> HIDE DEF B
  <2> QED BY <1>1, LeastNumber
<1>3. i \in 1..n /\ i - 1 \in 0..n /\ ~(i <= i - 1) OBVIOUS
<1>4. i - 1 \in T BY <1>2, <1>3
<1> QED BY <1>3, <1>4

(* f[i] is the value after round i of a loop. *)
Rounds(f, m, S, a, step) ==
  f \in [0..m -> S] /\ f[0] = a /\ \A i \in 1..m : f[i] = step[i][f[i - 1]]

(* A loop of n rounds has a value after each of them. *)
LEMMA RoundsExist ==
  ASSUME NEW n \in Nat, NEW S, NEW a \in S, NEW step \in [1..n -> [S -> S]]
  PROVE  \E f : Rounds(f, n, S, a, step)
<1> DEFINE T == {m \in 0..n : \E f : Rounds(f, m, S, a, step)}
<1>1. 0 \in T
  <2>1. Rounds([i \in 0..0 |-> a], 0, S, a, step) BY DEF Rounds
  <2>2. 0 \in 0..n OBVIOUS
  <2> QED BY <2>1, <2>2
<1>2. ASSUME NEW m \in 1..n, m - 1 \in T PROVE m \in T
  <2>1. PICK f : Rounds(f, m - 1, S, a, step) BY <1>2
  <2>2. m - 1 \in 0..m - 1 /\ f[m - 1] \in S BY <2>1 DEF Rounds
  <2> DEFINE g == [i \in 0..m |-> IF i = m THEN step[m][f[m - 1]] ELSE f[i]]
  <2>3. step[m][f[m - 1]] \in S BY <2>2
  <2>4. \A i \in 0..m : i # m => i \in 0..m - 1 OBVIOUS
  <2>5. g \in [0..m -> S] BY <2>1, <2>3, <2>4 DEF Rounds
  <2>6. g[0] = a BY <2>1 DEF Rounds
  <2>7. \A i \in 1..m : g[i] = step[i][g[i - 1]]
    <3> TAKE i \in 1..m
    <3>1. i - 1 \in 0..m - 1 /\ i - 1 # m /\ i - 1 \in 0..m /\ i \in 0..m OBVIOUS
    <3>2. g[i - 1] = f[i - 1] BY <3>1
    <3>3. CASE i = m BY <3>1, <3>2, <3>3
    <3>4. CASE i # m
      <4>1. i \in 1..m - 1 /\ g[i] = f[i] BY <3>1, <3>4
      <4> QED BY <2>1, <3>2, <4>1 DEF Rounds
    <3> QED BY <3>3, <3>4
  <2> HIDE DEF g
  <2>8. Rounds(g, m, S, a, step) BY <2>5, <2>6, <2>7 DEF Rounds
  <2>9. m \in 0..n OBVIOUS
  <2> QED BY <2>8, <2>9
<1>3. 0..n \subseteq T
  <2> HIDE DEF T
  <2>1. \A i \in 1..n : i - 1 \in T => i \in T BY <1>2
  <2> QED BY <1>1, <2>1, AllUpTo
<1>4. n \in T
  <2> HIDE DEF T
  <2> QED BY <1>3
<1> QED BY <1>4

(* The sizes that map_rehash_cap tries. *)
Doubles(f, n) == f = [k \in 0..n |-> IF k = 0 THEN MapInitialCap ELSE f[k - 1] * 2]

(* They are what they are meant to be, *)
LEMMA DoublesExist == ASSUME NEW n \in Nat PROVE \E f : Doubles(f, n)
<1> DEFINE step == [i \in 1..n |-> [x \in Nat |-> x * 2]]
<1>1. step \in [1..n -> [Nat -> Nat]] OBVIOUS
<1>2. MapInitialCap \in Nat BY MapCapAssumption
<1>3. PICK f : Rounds(f, n, Nat, MapInitialCap, step)
  <2> HIDE DEF step
  <2> QED BY <1>1, <1>2, RoundsExist
<1>4. \A i \in 0..n : f[i] = IF i = 0 THEN MapInitialCap ELSE f[i - 1] * 2
  <2> TAKE i \in 0..n
  <2>1. CASE i = 0 BY <1>3, <2>1 DEF Rounds
  <2>2. CASE i # 0
    <3>1. i \in 1..n /\ i - 1 \in 0..n BY <2>2
    <3>2. f[i - 1] \in Nat BY <1>3, <3>1 DEF Rounds
    <3>3. step[i][f[i - 1]] = f[i - 1] * 2 BY <3>1, <3>2
    <3>4. f[i] = step[i][f[i - 1]] BY <1>3, <3>1 DEF Rounds
    <3> QED BY <2>2, <3>3, <3>4
  <2> QED BY <2>1, <2>2
<1>5. f = [i \in 0..n |-> f[i]] BY <1>3 DEF Rounds
<1> QED BY <1>4, <1>5 DEF Doubles

(* and the last is not less than the table's. *)
LEMMA DoublesGrow ==
  ASSUME NEW n \in Nat, NEW f, Doubles(f, n)
  PROVE  \A k \in 0..n : f[k] \in Nat /\ f[k] >= MapInitialCap + k
<1> DEFINE T == {k \in 0..n : f[k] \in Nat /\ f[k] >= MapInitialCap + k}
<1>0. MapInitialCap \in Nat /\ MapInitialCap >= 1 BY MapCapAssumption
<1>1. \A k \in 0..n : f[k] = IF k = 0 THEN MapInitialCap ELSE f[k - 1] * 2 BY DEF Doubles
<1>2. 0 \in T BY <1>0, <1>1
<1>3. \A k \in 1..n : k - 1 \in T => k \in T
  <2> SUFFICES ASSUME NEW k \in 1..n, k - 1 \in T PROVE k \in T OBVIOUS
  <2>1. f[k] = f[k - 1] * 2 BY <1>1
  <2> QED BY <1>0, <2>1
<1>4. 0..n \subseteq T
  <2> HIDE DEF T
  <2> QED BY <1>2, <1>3, AllUpTo
<1> QED BY <1>4

(* A rehash makes room for one more. *)
LEMMA RehashMakesRoom ==
  ASSUME NEW tb, NEW n, NEW f, Right(tb, n, f), Roomy(tb, n), n >= MapInitialCap, IsFull(tb)
  PROVE  /\ RehashCap(tb) \in Nat /\ RehashCap(tb) >= MapInitialCap
         /\ tb.count + 1 <= (RehashCap(tb) * 7) \div 10
<1>0. /\ n \in Nat \ {0} /\ tb.count \in Nat /\ tb.used \in Nat /\ tb.count <= tb.used
      /\ Cap(tb.slots) = n
  BY RightFacts
<1>1. MapInitialCap \in Nat /\ (MapInitialCap * 7) \div 10 >= 1 BY MapCapAssumption
<1>2. tb.used + 1 > (n * 7) \div 10 BY <1>0 DEF IsFull
<1>3. (n * 7) \div 10 >= 1 BY <1>0, <1>1
<1>4. tb.used = (n * 7) \div 10 BY <1>0, <1>2 DEF Roomy
<1>5. CASE tb.count * 2 >= tb.used
  <2>1. RehashCap(tb) = n * 2 BY <1>0, <1>5 DEF RehashCap
  <2>2. ((n * 2) * 7) \div 10 >= (n * 7) \div 10 + 1 BY <1>0, <1>3
  <2> QED BY <1>0, <1>1, <1>4, <2>1, <2>2
<1>6. CASE ~(tb.count * 2 >= tb.used)
  <2> DEFINE size == CHOOSE g : g = [k \in 0..n |-> IF k = 0 THEN MapInitialCap ELSE g[k - 1] * 2]
             R == {c \in {size[k] : k \in 0..n} : c >= n \/ (c * 7) \div 20 >= tb.count + 1}
  <2>1. RehashCap(tb) = Min(R) BY <1>0, <1>6, Zenon DEF RehashCap
  <2>2. Doubles(size, n)
    <3>1. \E g : g = [k \in 0..n |-> IF k = 0 THEN MapInitialCap ELSE g[k - 1] * 2]
      BY <1>0, DoublesExist DEF Doubles
    <3> QED BY <3>1, Zenon DEF Doubles
  <2> HIDE DEF size
  <2>3. \A k \in 0..n : size[k] \in Nat /\ size[k] >= MapInitialCap + k
    BY <1>0, <2>2, DoublesGrow
  <2>4. R \subseteq Nat BY <2>3
  <2>5. size[n] \in R BY <1>0, <1>1, <2>3
  <2>6. Min(R) \in R
    <3> HIDE DEF R
    <3> QED BY <2>4, <2>5, LeastOf
  <2>7. PICK c \in R : c = RehashCap(tb) BY <2>1, <2>6
  <2>8. c \in Nat /\ c >= MapInitialCap BY <1>1, <2>3
  <2>9. CASE c >= n
    <3>1. (c * 7) \div 10 >= (n * 7) \div 10 BY <1>0, <2>8, <2>9
    <3> QED BY <1>0, <1>4, <1>6, <2>7, <2>8, <3>1
  <2>10. CASE (c * 7) \div 20 >= tb.count + 1
    <3>1. (c * 7) \div 10 >= (c * 7) \div 20 BY <2>8
    <3> QED BY <1>0, <2>7, <2>8, <2>10, <3>1
  <2> QED BY <2>7, <2>9, <2>10
<1> QED BY <1>5, <1>6

(* map_grow's loop over the table t, into one of m slots. *)
Moves(to, t, n, m) ==
  to = [i \in 0..n |-> IF i = 0 THEN EmptySlots(m)
                       ELSE IF i - 1 \in LiveSlots(t) THEN Reinserted(to[i - 1], t[i - 1])
                       ELSE to[i - 1]]

(* The loop has an end. *)
LEMMA MovesExist ==
  ASSUME NEW n, NEW t, Slotted(t, n), NEW m \in Nat \ {0}
  PROVE  \E to : Moves(to, t, n, m)
<1> DEFINE S == [0..m - 1 -> Entry]
           step == [i \in 1..n |-> [x \in S |-> IF i - 1 \in LiveSlots(t)
                                                THEN Reinserted(x, t[i - 1]) ELSE x]]
<1>1. EmptySlots(m) \in S BY DEF EmptySlots, Entry, Mark
<1>2. \A x \in S, i \in 1..n : Reinserted(x, t[i - 1]) \in S
  <2> TAKE x \in S, i \in 1..n
  <2>1. i - 1 \in 0..n - 1 BY DEF Slotted
  <2>2. t[i - 1] \in Entry BY <2>1 DEF Slotted
  <2>3. \A p : [x EXCEPT ![p] = t[i - 1]] \in S BY <2>2
  <2> QED BY <2>3 DEF Reinserted
<1>3. step \in [1..n -> [S -> S]] BY <1>2
<1>4. n \in Nat BY DEF Slotted
<1>5. PICK to : Rounds(to, n, S, EmptySlots(m), step)
  <2> HIDE DEF step, S
  <2> QED BY <1>1, <1>3, <1>4, RoundsExist
<1>6. \A i \in 0..n : to[i] = IF i = 0 THEN EmptySlots(m)
                              ELSE IF i - 1 \in LiveSlots(t) THEN Reinserted(to[i - 1], t[i - 1])
                              ELSE to[i - 1]
  <2> TAKE i \in 0..n
  <2>1. CASE i = 0 BY <1>5, <2>1 DEF Rounds
  <2>2. CASE i # 0
    <3>1. i \in 1..n /\ i - 1 \in 0..n BY <1>4, <2>2
    <3>2. to[i - 1] \in S BY <1>5, <3>1 DEF Rounds
    <3>3. step[i][to[i - 1]] = IF i - 1 \in LiveSlots(t) THEN Reinserted(to[i - 1], t[i - 1])
                               ELSE to[i - 1]
      BY <3>1, <3>2
    <3>4. to[i] = step[i][to[i - 1]] BY <1>5, <3>1 DEF Rounds
    <3> QED BY <2>2, <3>3, <3>4
  <2> QED BY <2>1, <2>2
<1>7. to = [i \in 0..n |-> to[i]] BY <1>5 DEF Rounds
<1> HIDE DEF S, step
<1> QED BY <1>6, <1>7 DEF Moves

(* An entry that is not there comes to the first empty slot of its chain. *)
LEMMA ReinsertedIs ==
  ASSUME NEW m, NEW u, Sound(u, m), NEW x \in Entry, x.key \in Keys,
         \E p \in 0..m - 1 : u[p].key = Empty
  PROVE  \E p \in 0..m - 1 : /\ Reinserted(u, x) = Inserted(u, p, x)
                             /\ u[p].key = Empty /\ OnChain(u, m, x.key, p)
<1> DEFINE k == x.key
           D == {d \in 0..m - 1 : u[Place(k, d, m)].key = Empty}
           d == Min(D)
<1>0. Slotted(u, m) /\ m \in Nat \ {0} BY DEF Sound, Slotted
<1>1. DOMAIN u = 0..m - 1 /\ Cap(u) = m BY <1>0, SlottedCap
<1>2. Reinserted(u, x) = Inserted(u, Place(k, d, m), x) BY <1>1 DEF Reinserted, Inserted, Place
<1>3. D # {}
  <2>1. PICK p \in 0..m - 1 : u[p].key = Empty OBVIOUS
  <2>2. PICK e \in 0..m - 1 : Place(k, e, m) = p
    BY <1>0, EveryPlace, KeysAssumption DEF Place
  <2> QED BY <2>1, <2>2
<1>4. d \in D /\ \A e \in D : d <= e
  <2>1. D \subseteq Nat BY <1>0
  <2> HIDE DEF D
  <2> QED BY <1>3, <2>1, LeastOf
<1>5. d \in 0..m - 1 /\ u[Place(k, d, m)].key = Empty BY <1>4
<1>6. \A e \in 0..d - 1 : u[Place(k, e, m)].key # Empty
  <2> TAKE e \in 0..d - 1
  <2>1. e \in 0..m - 1 /\ ~(d <= e) BY <1>0, <1>5
  <2>2. e \notin D BY <1>4, <2>1
  <2> QED BY <2>1, <2>2
<1>7. Place(k, d, m) \in 0..m - 1 BY <1>0, <1>5, PlaceType
<1>8. OnChain(u, m, k, Place(k, d, m)) BY <1>5, <1>6 DEF OnChain
<1> QED BY <1>2, <1>5, <1>7, <1>8

(* What is known of the new table when the entries before slot i have been moved. *)
Moved(u, m, t, i) ==
  /\ Sound(u, m) /\ UsedSlots(u) = LiveSlots(u)
  /\ {u[q] : q \in LiveSlots(u)} = {t[q] : q \in {p \in LiveSlots(t) : p < i}}
  /\ Cardinality(LiveSlots(u)) = Cardinality({p \in LiveSlots(t) : p < i})

(* Before the first entry. *)
LEMMA FirstMoved ==
  ASSUME NEW m \in Nat \ {0}, NEW n, NEW t, Slotted(t, n)
  PROVE  Moved(EmptySlots(m), m, t, 0)
<1> DEFINE u == EmptySlots(m)
<1>1. Slotted(u, m) /\ DOMAIN u = 0..m - 1 /\ \A p \in 0..m - 1 : u[p].key = Empty
  BY DEF EmptySlots, Slotted, Entry, Mark
<1> HIDE DEF u
<1>2. LiveSlots(u) = {} /\ UsedSlots(u) = {} BY <1>1 DEF LiveSlots, UsedSlots
<1>3. {p \in LiveSlots(t) : p < 0} = {}
  <2>1. LiveSlots(t) \subseteq 0..n - 1 BY SlotsFinite
  <2> QED BY <2>1
<1>4. Sound(u, m) BY <1>1, <1>2 DEF Sound
<1> QED BY <1>2, <1>3, <1>4 DEF Moved, u

(* One entry more. *)
LEMMA NextMoved ==
  ASSUME NEW n, NEW t, Sound(t, n), NEW m \in Nat \ {0}, Cardinality(LiveSlots(t)) < m,
         NEW i \in 1..n, NEW u, Moved(u, m, t, i - 1)
  PROVE  Moved(IF i - 1 \in LiveSlots(t) THEN Reinserted(u, t[i - 1]) ELSE u, m, t, i)
<1> DEFINE B == {p \in LiveSlots(t) : p < i - 1}
           A == {p \in LiveSlots(t) : p < i}
           x == t[i - 1]
<1>0. Slotted(t, n) /\ n \in Nat \ {0} /\ Slotted(u, m) BY DEF Sound, Slotted, Moved
<1>1. LiveSlots(t) \subseteq 0..n - 1 /\ IsFiniteSet(LiveSlots(t))
      /\ Cardinality(LiveSlots(t)) \in Nat
  BY <1>0, SlotsFinite
<1>2. \A p \in LiveSlots(t) : p \in Int BY <1>1
<1>3. CASE i - 1 \notin LiveSlots(t)
  <2>1. A = B BY <1>2, <1>3
  <2> QED BY <1>3, <2>1 DEF Moved
<1>4. CASE i - 1 \in LiveSlots(t)
  <2>1. A = B \cup {i - 1} /\ i - 1 \notin B BY <1>2, <1>4
  <2>2. IsFiniteSet(B) /\ IsFiniteSet(A) /\ Cardinality(A) <= Cardinality(LiveSlots(t))
        /\ Cardinality(A) \in Nat /\ Cardinality(B) \in Nat
    BY <1>1, FS_Subset, FS_CardinalityType
  <2>3. Cardinality(A) = Cardinality(B) + 1 BY <2>1, <2>2, FS_AddElement
  <2>4. \E p \in 0..m - 1 : u[p].key = Empty
    <3>1. Cardinality(UsedSlots(u)) < m BY <1>1, <2>2, <2>3 DEF Moved
    <3> QED BY <1>0, <3>1, SomeEmpty
  <2>5. x \in Entry /\ x.key \in Keys
    <3>1. i - 1 \in 0..n - 1 BY <1>1, <1>4
    <3> QED BY <1>0, <1>4, <3>1, LiveKey DEF Slotted
  <2>6. \A q \in LiveSlots(u) : u[q].key # x.key
    <3> SUFFICES ASSUME NEW q \in LiveSlots(u), u[q].key = x.key PROVE FALSE OBVIOUS
    <3>1. PICK p \in B : u[q] = t[p] BY DEF Moved
    <3>2. p = i - 1 BY <1>4, <3>1 DEF Sound
    <3> QED BY <2>1, <3>1, <3>2
  <2> DEFINE v == Reinserted(u, x)
  <2>7. PICK p \in 0..m - 1 : v = Inserted(u, p, x) /\ u[p].key = Empty /\ OnChain(u, m, x.key, p)
    <3>1. Sound(u, m) BY DEF Moved
    <3> HIDE DEF x
    <3> QED BY <2>4, <2>5, <3>1, ReinsertedIs
  <2> HIDE DEF v, x
  <2>8. /\ Sound(v, m)
        /\ LiveSlots(v) = LiveSlots(u) \cup {p} /\ UsedSlots(v) = UsedSlots(u) \cup {p}
        /\ p \notin LiveSlots(u)
        /\ v[p] = x /\ \A q \in LiveSlots(u) : v[q] = u[q]
    <3>1. Sound(u, m) /\ u[p].key \in Mark BY <2>7 DEF Moved, Mark
    <3> QED BY <2>5, <2>6, <2>7, <3>1, Filled
  <2>9. UsedSlots(v) = LiveSlots(v) BY <2>8 DEF Moved
  <2>10. {v[q] : q \in LiveSlots(v)} = {t[q] : q \in A}
    <3>1. {v[q] : q \in LiveSlots(v)} = {u[q] : q \in LiveSlots(u)} \cup {x} BY <2>8
    <3>2. {t[q] : q \in A} = {t[q] : q \in B} \cup {x} BY <2>1 DEF x
    <3>3. {u[q] : q \in LiveSlots(u)} = {t[q] : q \in B} BY DEF Moved
    <3> QED BY <3>1, <3>2, <3>3
  <2>11. Cardinality(LiveSlots(v)) = Cardinality(A)
    <3>1. IsFiniteSet(LiveSlots(u)) BY <1>0, SlotsFinite
    <3>2. Cardinality(LiveSlots(v)) = Cardinality(LiveSlots(u)) + 1
      BY <2>8, <3>1, FS_AddElement
    <3> QED BY <2>3, <3>2 DEF Moved
  <2>12. Moved(v, m, t, i) BY <2>8, <2>9, <2>10, <2>11 DEF Moved
  <2> QED BY <1>4, <2>12 DEF v, x
<1> QED BY <1>3, <1>4

(* map_grow: the same function, without the tombstones. *)
LEMMA RehashedKeeps ==
  ASSUME NEW tb, NEW n, NEW f, Right(tb, n, f), Roomy(tb, n), n >= MapInitialCap, IsFull(tb)
  PROVE  \E m \in Nat : /\ m >= MapInitialCap /\ Right(Rehashed(tb), m, f)
                        /\ Rehashed(tb).used + 1 <= (m * 7) \div 10
<1> DEFINE t == tb.slots
           m == RehashCap(tb)
           to == CHOOSE g : g = [i \in 0..n |->
                   IF i = 0 THEN EmptySlots(m)
                   ELSE IF i - 1 \in LiveSlots(t) THEN Reinserted(g[i - 1], t[i - 1])
                   ELSE g[i - 1]]
<1>0. /\ n \in Nat \ {0} /\ tb.count \in Nat /\ Slotted(t, n) /\ Sound(t, n) /\ Cap(t) = n
      /\ tb.count = Cardinality(LiveSlots(t))
  BY RightFacts DEF Right
<1>1. m \in Nat /\ m >= MapInitialCap /\ tb.count + 1 <= (m * 7) \div 10
  BY RehashMakesRoom
<1>2. Rehashed(tb) = [slots |-> to[n], count |-> tb.count, used |-> tb.count]
  BY <1>0, Zenon DEF Rehashed
<1> HIDE DEF m
<1>3. m \in Nat \ {0} /\ Cardinality(LiveSlots(t)) < m BY <1>0, <1>1
<1>4. Moves(to, t, n, m)
  <2>1. \E g : g = [i \in 0..n |->
                 IF i = 0 THEN EmptySlots(m)
                 ELSE IF i - 1 \in LiveSlots(t) THEN Reinserted(g[i - 1], t[i - 1])
                 ELSE g[i - 1]]
    <3>1. \E g : Moves(g, t, n, m) BY <1>0, <1>3, MovesExist
    <3> QED BY <3>1, Zenon DEF Moves
  <2> QED BY <2>1, Zenon DEF Moves
<1> HIDE DEF to
<1>5. Moved(to[n], m, t, n)
  <2> DEFINE T == {i \in 0..n : Moved(to[i], m, t, i)}
  <2>1. \A i \in 0..n : to[i] = IF i = 0 THEN EmptySlots(m)
                                ELSE IF i - 1 \in LiveSlots(t) THEN Reinserted(to[i - 1], t[i - 1])
                                ELSE to[i - 1]
    BY <1>4 DEF Moves
  <2>2. 0 \in T BY <1>0, <1>3, <2>1, FirstMoved
  <2>3. \A i \in 1..n : i - 1 \in T => i \in T
    <3> SUFFICES ASSUME NEW i \in 1..n, i - 1 \in T PROVE i \in T OBVIOUS
    <3>1. i \in 0..n /\ i # 0 OBVIOUS
    <3>2. Moved(to[i - 1], m, t, i - 1) OBVIOUS
    <3>3. to[i] = IF i - 1 \in LiveSlots(t) THEN Reinserted(to[i - 1], t[i - 1]) ELSE to[i - 1]
      BY <2>1, <3>1
    <3> HIDE DEF t
    <3>4. Moved(to[i], m, t, i) BY <1>0, <1>3, <3>2, <3>3, NextMoved
    <3> QED BY <3>1, <3>4
  <2>4. n \in 0..n /\ n \in Nat BY <1>0
  <2> HIDE DEF T
  <2>5. n \in T BY <2>2, <2>3, <2>4, AllUpTo
  <2> QED BY <2>5 DEF T
<1> DEFINE u == to[n]
<1>6. {p \in LiveSlots(t) : p < n} = LiveSlots(t)
  <2>1. LiveSlots(t) \subseteq 0..n - 1 BY <1>0, SlotsFinite
  <2> QED BY <1>0, <2>1
<1>7. /\ Sound(u, m) /\ UsedSlots(u) = LiveSlots(u)
      /\ {u[q] : q \in LiveSlots(u)} = {t[q] : q \in LiveSlots(t)}
      /\ Cardinality(LiveSlots(u)) = Cardinality(LiveSlots(t))
  BY <1>5, <1>6 DEF Moved
<1> HIDE DEF u
<1>8. Means(u, f)
  <2>1. /\ DOMAIN f = {t[p].key : p \in LiveSlots(t)}
        /\ \A p \in LiveSlots(t) : f[t[p].key] = t[p].val
    BY DEF Right, Means
  <2> HIDE DEF t
  <2>2. \A q \in LiveSlots(u) : \E p \in LiveSlots(t) : u[q] = t[p] BY <1>7
  <2>3. \A p \in LiveSlots(t) : \E q \in LiveSlots(u) : u[q] = t[p] BY <1>7
  <2>4. {u[q].key : q \in LiveSlots(u)} = {t[p].key : p \in LiveSlots(t)} BY <2>2, <2>3
  <2>5. \A q \in LiveSlots(u) : f[u[q].key] = u[q].val BY <2>1, <2>2
  <2> QED BY <2>1, <2>4, <2>5 DEF Means
<1>9. Right(Rehashed(tb), m, f)
  <2>1. Rehashed(tb) = [slots |-> u, count |-> tb.count, used |-> tb.count] BY <1>2 DEF u
  <2> QED BY <1>0, <1>7, <1>8, <2>1 DEF Right
<1>10. Rehashed(tb).used = tb.count BY <1>2
<1> QED BY <1>1, <1>9, <1>10

(* The invariant names the number of slots. *)
MapInv ==
  /\ DOMAIN map \subseteq Keys /\ map = [k \in DOMAIN map |-> map[k]]
  /\ \E n \in Nat : n >= MapInitialCap /\ Right(tab, n, map) /\ Roomy(tab, n)

(* MapInv holds at first, and every call keeps it. *)
LEMMA MapInitInv == MapInit => MapInv
<1> SUFFICES ASSUME MapInit PROVE MapInv OBVIOUS
<1> DEFINE n == MapInitialCap
           t == EmptySlots(n)
<1>1. n \in Nat \ {0} BY MapCapAssumption
<1>2. Slotted(t, n) /\ DOMAIN t = 0..n - 1 /\ \A p \in 0..n - 1 : t[p].key = Empty
  BY <1>1 DEF EmptySlots, Slotted, Entry, Mark
<1>3. tab = [slots |-> t, count |-> 0, used |-> 0] /\ map = <<>> BY DEF MapInit, NewTable
<1> HIDE DEF t
<1>4. LiveSlots(t) = {} /\ UsedSlots(t) = {} BY <1>2 DEF LiveSlots, UsedSlots
<1>5. Sound(t, n) BY <1>2, <1>4 DEF Sound
<1>6. DOMAIN map = {} /\ map = [k \in DOMAIN map |-> map[k]] BY <1>3
<1>7. Means(t, map) BY <1>4, <1>6 DEF Means
<1>8. Right(tab, n, map) BY <1>3, <1>4, <1>5, <1>7, FS_EmptySet DEF Right
<1>9. Roomy(tab, n) BY <1>1, <1>3 DEF Roomy
<1> QED BY <1>1, <1>6, <1>8, <1>9 DEF MapInv

LEMMA MapSetKeeps ==
  ASSUME MapInv, NEW k \in Keys, NEW v \in Vals, MapSet(k, v) PROVE MapInv'
<1>1. PICK n \in Nat : n >= MapInitialCap /\ Right(tab, n, map) /\ Roomy(tab, n) BY DEF MapInv
<1>2. map' = With(map, k, v) BY DEF MapSet, With
<1>3. \E m \in Nat : m >= MapInitialCap /\ Right(tab', m, With(map, k, v)) /\ Roomy(tab', m)
  <2>1. CASE Holds(tab.slots, k) \/ ~IsFull(tab)
    <3>1. tab' = WithEntry(tab, k, k, v) BY <2>1 DEF MapSet, Set
    <3>2. Holds(tab.slots, k) \/ tab.used + 1 <= (n * 7) \div 10
      <4>1. tab.used \in Nat /\ n \in Nat /\ Cap(tab.slots) = n BY <1>1, RightFacts
      <4> QED BY <2>1, <4>1 DEF IsFull
    <3> QED BY <1>1, <3>1, <3>2, EntryKeeps
  <2>2. CASE ~(Holds(tab.slots, k) \/ ~IsFull(tab))
    <3>1. tab' = WithEntry(Rehashed(tab), k, k, v) BY <2>2 DEF MapSet, Set
    <3>2. PICK m \in Nat : /\ m >= MapInitialCap /\ Right(Rehashed(tab), m, map)
                           /\ Rehashed(tab).used + 1 <= (m * 7) \div 10
      BY <1>1, <2>2, RehashedKeeps
    <3>3. Roomy(Rehashed(tab), m)
      <4>1. Slotted(Rehashed(tab).slots, m) BY <3>2 DEF Right, Sound
      <4>2. Rehashed(tab).used \in Nat BY <3>2, <4>1, SlotsFinite DEF Right
      <4> QED BY <3>2, <4>2 DEF Roomy
    <3> QED BY <3>1, <3>2, <3>3, EntryKeeps
  <2> QED BY <2>1, <2>2
<1>4. DOMAIN map' \subseteq Keys /\ map' = [x \in DOMAIN map' |-> map'[x]]
  BY <1>2 DEF With, MapInv
<1> QED BY <1>2, <1>3, <1>4 DEF MapInv

LEMMA MapDeleteKeeps ==
  ASSUME MapInv, NEW k \in Keys, MapDelete(k) PROVE MapInv'
<1>1. PICK n \in Nat : n >= MapInitialCap /\ Right(tab, n, map) /\ Roomy(tab, n) BY DEF MapInv
<1>2. map' = [x \in DOMAIN map \ {k} |-> map[x]] /\ tab' = Without(tab, k) BY DEF MapDelete
<1>3. Right(tab', n, map') /\ Roomy(tab', n) BY <1>1, <1>2, WithoutKeeps
<1>4. DOMAIN map' \subseteq Keys /\ map' = [x \in DOMAIN map' |-> map'[x]]
  BY <1>2 DEF MapInv
<1> QED BY <1>1, <1>3, <1>4 DEF MapInv

(* It implies the property. *)
LEMMA MapIsRight == MapInv => TableIsMap
<1> SUFFICES ASSUME MapInv PROVE TableIsMap OBVIOUS
<1> DEFINE t == tab.slots
<1>1. PICK n \in Nat : n >= MapInitialCap /\ Right(tab, n, map) /\ Roomy(tab, n) BY DEF MapInv
<1>2. /\ Sound(t, n) /\ Cap(t) = n /\ tab.used < n /\ \E p \in 0..n - 1 : t[p].key = Empty
      /\ tab.count = Cardinality(LiveSlots(t)) /\ tab.used = Cardinality(UsedSlots(t))
  BY <1>1, RightFacts DEF Right
<1>3. /\ DOMAIN map = {t[p].key : p \in LiveSlots(t)}
      /\ \A p \in LiveSlots(t) : map[t[p].key] = t[p].val
  BY <1>1 DEF Right, Means
<1>4. \A k \in Keys : Holds(t, k) <=> k \in DOMAIN map
  <2> HIDE DEF t
  <2>1. \A k \in Keys : Holds(t, k) <=> \E p \in LiveSlots(t) : t[p].key = k BY <1>2, HoldsIs
  <2> QED BY <1>3, <2>1
<1>5. Entries(t) = map
  <2>1. \A k \in DOMAIN map : t[CHOOSE p \in LiveSlots(t) : t[p].key = k].val = map[k]
    <3> TAKE k \in DOMAIN map
    <3> DEFINE p == CHOOSE p \in LiveSlots(t) : t[p].key = k
    <3>1. p \in LiveSlots(t) /\ t[p].key = k BY <1>3
    <3> HIDE DEF p, t
    <3>2. map[t[p].key] = t[p].val BY <1>3, <3>1
    <3> QED BY <3>1, <3>2 DEF p
  <2>2. Entries(t) = [k \in DOMAIN map |-> t[CHOOSE p \in LiveSlots(t) : t[p].key = k].val]
    BY <1>3 DEF Entries
  <2>3. map = [k \in DOMAIN map |-> map[k]] BY DEF MapInv
  <2> HIDE DEF t
  <2> QED BY <2>1, <2>2, <2>3
<1> QED BY <1>2, <1>4, <1>5 DEF TableIsMap

(* A program's map is a finite function through every insertion, deletion and
   rehash: for any keys, values and hashes, and any first size of at least two. *)
THEOREM TableIsAlwaysMap == MapSpec => []TableIsMap
<1>1. MapInv /\ [MapNext]_mapVars => MapInv'
  <2> SUFFICES ASSUME MapInv, [MapNext]_mapVars PROVE MapInv' OBVIOUS
  <2>1. CASE MapNext BY <2>1, MapSetKeeps, MapDeleteKeeps DEF MapNext
  <2>2. CASE UNCHANGED mapVars BY <2>2 DEF mapVars, MapInv
  <2> QED BY <2>1, <2>2
<1> QED BY <1>1, MapInitInv, MapIsRight, PTL DEF MapSpec
=============================================================================
