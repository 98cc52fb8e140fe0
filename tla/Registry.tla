------------------------------ MODULE Registry ------------------------------
(***************************************************************************)
(* An isolate's registry of sockets (NetRegistry; FileRegistry has the     *)
(* same shape): a descriptor is a slot and the slot's generation.  A       *)
(* program may keep a descriptor for ever and use it at any time.          *)
(***************************************************************************)
EXTENDS Integers, Sequences, FiniteSets

CONSTANTS Sockets,      \* the sockets the isolate ever opens, in order: a bound
          Generations   \* a generation counts modulo this, 2^23 in the code

ASSUME RegistryAssumption == Sockets \in Nat /\ Generations \in Nat \ {0}

VARIABLES slots,   \* each [s, gen, end]: its socket or 0, how the last one ended
          issued,  \* every descriptor ever issued: [slot, gen, sock]
          fate     \* fate[sock]: "never", "open" or how it ended

registryVars == <<slots, issued, fate>>

Ended == {"closed", "handed", "activated"}

RegistryInit == /\ slots = <<>>
                /\ issued = {}
                /\ fate = [s \in 1..Sockets |-> "never"]

Unused == {i \in 1..Len(slots) : slots[i].s = 0}

(* The first slot without a socket, or one more. *)
FreeSlot == IF Unused = {} THEN Len(slots) + 1
            ELSE CHOOSE i \in Unused : \A j \in Unused : i <= j

(* live *)
IsLive(d) == /\ d.slot \in 1..Len(slots)
             /\ slots[d.slot].gen = d.gen
             /\ slots[d.slot].s # 0

(* add *)
Add(s) ==
    LET i    == FreeSlot
        gen  == IF i \in DOMAIN slots THEN slots[i].gen ELSE 0
        end  == IF i \in DOMAIN slots THEN slots[i].end ELSE "closed"
        slot == [s |-> s, gen |-> gen, end |-> end]
    IN  /\ fate[s] = "never" /\ \A r \in 1..s - 1 : fate[r] # "never"
        /\ slots' = IF i \in DOMAIN slots THEN [slots EXCEPT ![i] = slot] ELSE Append(slots, slot)
        /\ issued' = issued \cup {[slot |-> i, gen |-> gen, sock |-> s]}
        /\ fate' = [fate EXCEPT ![s] = "open"]

(* A fault: the generation counts the sockets opened, not those given up. *)
ReleaseKeepsGen(d, how) ==
    /\ IsLive(d)
    /\ slots' = [slots EXCEPT ![d.slot] = [@ EXCEPT !.s = 0, !.end = how]]
    /\ fate' = [fate EXCEPT ![slots[d.slot].s] = how]
    /\ UNCHANGED issued

(* drop, or detach for a hand-off or an activation: what a descriptor that is
   not live asks for changes nothing. *)
Release(d, how) ==
    /\ IsLive(d)
    /\ slots' = [slots EXCEPT ![d.slot] =
                    [s |-> 0, gen |-> (@.gen + 1) % Generations, end |-> how]]
    /\ fate' = [fate EXCEPT ![slots[d.slot].s] = how]
    /\ UNCHANGED issued

RegistryNext == \/ \E s \in 1..Sockets : Add(s)
                \/ \E d \in issued, how \in Ended : Release(d, how)

RegistrySpec == RegistryInit /\ [][RegistryNext]_registryVars

-----------------------------------------------------------------------------
(* invalid_reason: how the socket ended, if the descriptor is of the slot's
   last generation and it did not just end. *)
Reason(d) ==
    IF /\ d.slot \in 1..Len(slots)
       /\ (d.gen + 1) % Generations = slots[d.slot].gen
    THEN slots[d.slot].end
    ELSE "unknown"

(* The sockets that have left the slot of d since d was issued. *)
Since(d) == {e.sock : e \in {x \in issued : /\ x.slot = d.slot /\ x.sock >= d.sock
                                            /\ fate[x.sock] # "open"}}

(* A descriptor reaches its own socket or none, and a refusal names what
   became of that socket, unless Generations sockets or more have left the
   slot since: the counter has then come round. *)
DescriptorsMeanTheirSocket ==
    \A d \in issued : Cardinality(Since(d)) < Generations =>
        /\ IsLive(d) <=> fate[d.sock] = "open"
        /\ IsLive(d) => slots[d.slot].s = d.sock
        /\ ~IsLive(d) => Reason(d) \in {fate[d.sock], "unknown"}

=============================================================================
