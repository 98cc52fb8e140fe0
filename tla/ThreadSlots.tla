----------------------------- MODULE ThreadSlots ----------------------------
(***************************************************************************)
(* The fault windows of threads: ThreadSlotTable.h, a lock-free table from *)
(* a thread to the landing of its innermost window, and the arming and     *)
(* retracting of windows in FaultSignals.h.                                *)
(*                                                                         *)
(* A window is <<t, d>>: the d-th on thread t's stack of nested runs.      *)
(* Every atomic access of store is a step of its own.  load is one step:   *)
(* a thread looks only for its own slot, and only it takes or leaves that  *)
(* slot, so the other accesses of its scan tell it nothing.                *)
(***************************************************************************)
EXTENDS Naturals

CONSTANTS Threads,   \* the threads that run the machine
          Capacity,  \* slots in the table
          MaxNest,   \* runs nested in a thread, a bound
          FREE       \* the key of a slot nobody holds

ASSUME TableAssumption == /\ Capacity \in Nat
                          /\ MaxNest \in Nat
                          /\ FREE \notin Threads

VARIABLES tid,     \* tid[s]: the thread that holds slot s
          value,   \* value[s]: its published window
          depth,   \* depth[t]: how many runs are nested in it
          armed,   \* armed[t][d]: the d-th has a slot for its window
          prev,    \* prev[t][d]: the window that was published before it
          at       \* at[t]: where it is in store: [pc, slot, v]

runs == <<depth, armed, prev>>
vars == <<tid, value, depth, armed, prev, at>>

Slots  == 1..Capacity
None   == <<FREE, 0>>
Window(t, d) == <<t, d>>

Idle == [pc |-> "idle", slot |-> 0, v |-> None]

Init == /\ tid = [s \in Slots |-> FREE]
        /\ value = [s \in Slots |-> None]
        /\ depth = [t \in Threads |-> 0]
        /\ armed = [t \in Threads |-> [d \in 1..MaxNest |-> FALSE]]
        /\ prev = [t \in Threads |-> [d \in 1..MaxNest |-> None]]
        /\ at = [t \in Threads |-> Idle]

(* load *)
Owned(t)  == {s \in Slots : tid[s] = t}
Loaded(t) == IF Owned(t) = {} THEN None
             ELSE value[CHOOSE s \in Owned(t) : \A r \in Owned(t) : s <= r]

-----------------------------------------------------------------------------
Goto(t, pc, s) == at' = [at EXCEPT ![t].pc = pc, ![t].slot = s]

(* Arm: the enclosing window is remembered, then this one published. *)
EnterRun(t) ==
    LET d == depth[t] + 1
    IN  /\ at[t].pc = "idle" /\ d <= MaxNest
        /\ depth' = [depth EXCEPT ![t] = d]
        /\ prev' = [prev EXCEPT ![t][d] = Loaded(t)]
        /\ at' = [at EXCEPT ![t] = [pc |-> "arm", slot |-> 1, v |-> Window(t, d)]]
        /\ UNCHANGED <<tid, value, armed>>

(* The run is over. *)
Popped(t) == /\ depth' = [depth EXCEPT ![t] = @ - 1]
             /\ prev' = [prev EXCEPT ![t][depth[t]] = None]

(* ~Arm, after a normal end and after a fault alike.  A run that was refused
   a slot has nothing to retract. *)
LeaveRun(t) ==
    LET d == depth[t]
    IN  /\ at[t].pc = "idle" /\ d > 0
        /\ \/ /\ armed[t][d]
              /\ armed' = [armed EXCEPT ![t][d] = FALSE]
              /\ at' = [at EXCEPT ![t] = [pc |-> "retract", slot |-> 1, v |-> prev[t][d]]]
              /\ UNCHANGED <<depth, prev>>
           \/ /\ ~armed[t][d]
              /\ Popped(t)
              /\ UNCHANGED <<armed, at>>
        /\ UNCHANGED <<tid, value>>

(* The end of store in Arm, where v is this run's window, and in retract. *)
Finished(t, ok) ==
    /\ at' = [at EXCEPT ![t] = Idle]
    /\ \/ /\ at[t].v = Window(t, depth[t])
          /\ armed' = [armed EXCEPT ![t][depth[t]] = ok]
          /\ UNCHANGED <<depth, prev>>
       \/ /\ at[t].v # Window(t, depth[t])
          /\ Popped(t)
          /\ UNCHANGED armed

-----------------------------------------------------------------------------
(* store, first loop: a slot of our own? *)
Seek(t) ==
    LET s == at[t].slot
    IN  /\ at[t].pc \in {"arm", "retract"}
        /\ UNCHANGED <<tid, value>>
        /\ \/ /\ s <= Capacity
              /\ IF tid[s] = t THEN Goto(t, "put", s) ELSE Goto(t, at[t].pc, s + 1)
              /\ UNCHANGED runs
           \/ s > Capacity /\ at[t].v # None /\ Goto(t, "claim", 1) /\ UNCHANGED runs
           \/ s > Capacity /\ at[t].v = None /\ Finished(t, TRUE)

(* store, second loop: a free slot, by compare-and-exchange. *)
Claim(t) ==
    LET s == at[t].slot
    IN  /\ at[t].pc = "claim"
        /\ UNCHANGED value
        /\ \/ s > Capacity /\ Finished(t, FALSE) /\ UNCHANGED tid
           \/ /\ s <= Capacity /\ tid[s] = FREE
              /\ tid' = [tid EXCEPT ![s] = t]
              /\ Goto(t, "put", s) /\ UNCHANGED runs
           \/ /\ s <= Capacity /\ tid[s] # FREE
              /\ Goto(t, "claim", s + 1) /\ UNCHANGED <<tid, depth, armed, prev>>

(* A fault: a slot that is given up keeps its last window. *)
PutStale(t) ==
    LET s == at[t].slot
    IN  /\ at[t].pc = "put"
        /\ UNCHANGED tid
        /\ \/ /\ at[t].v = None /\ Goto(t, "free", s)
              /\ UNCHANGED <<value, depth, armed, prev>>
           \/ /\ at[t].v # None /\ Finished(t, TRUE)
              /\ value' = [value EXCEPT ![s] = at[t].v]

(* The window of our slot; with no window any more the slot is given up, in
   this order. *)
Put(t) ==
    LET s == at[t].slot
    IN  /\ at[t].pc = "put"
        /\ value' = [value EXCEPT ![s] = at[t].v]
        /\ UNCHANGED tid
        /\ \/ at[t].v = None /\ Goto(t, "free", s) /\ UNCHANGED runs
           \/ at[t].v # None /\ Finished(t, TRUE)

Free(t) ==
    /\ at[t].pc = "free"
    /\ tid' = [tid EXCEPT ![at[t].slot] = FREE]
    /\ Finished(t, TRUE)
    /\ UNCHANGED value

Next == \E t \in Threads :
            EnterRun(t) \/ LeaveRun(t) \/ Seek(t) \/ Put(t) \/ Free(t) \/ Claim(t)

Spec == Init /\ [][Next]_vars

-----------------------------------------------------------------------------
(* What a fault finds, whenever it strikes: a window of the very thread it
   strikes, of a run that has not been left, or none; and outside store, the
   window of the innermost run unless that run was refused a slot.  The
   handler jumps there without any further check. *)
WindowsAreOwn ==
    \A t \in Threads :
        /\ Loaded(t) # None => \E d \in 1..depth[t] : Loaded(t) = Window(t, d)
        /\ at[t].pc = "idle" => Loaded(t) = IF depth[t] > 0 /\ armed[t][depth[t]]
                                            THEN Window(t, depth[t]) ELSE None

=============================================================================
