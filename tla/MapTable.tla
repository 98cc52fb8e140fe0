------------------------------ MODULE MapTable ------------------------------
(***************************************************************************)
(* The table of a program's map (vmcore/opcodes/op_map.h): open addressing *)
(* with linear probing over 2^k slots.  A table's slots are a function     *)
(* from 0..cap-1 to entries [key, raw, val]: raw is the key as it is       *)
(* stored, key what its equality and hash depend on (a string's text, not  *)
(* its address).  An empty slot's key is undefined, a deleted one's the    *)
(* tombstone.  A table is [slots, count, used]: used counts tombstones.    *)
(***************************************************************************)
EXTENDS Integers, Sequences, FiniteSets, SequencesExt

CONSTANTS MapInitialCap,  \* MAP_INITIAL_CAP
          Hash(_)         \* a key's hash

ASSUME MapCapAssumption == /\ MapInitialCap \in Nat
                           /\ (MapInitialCap * 7) \div 10 > 0

Empty == <<"undef", 0>>
Gone  == <<"tomb", 0>>
NilValue == <<"nil", 0>>

Cap(t) == Cardinality(DOMAIN t)

LiveSlots(t) == {p \in DOMAIN t : t[p].key \notin {Empty, Gone}}
UsedSlots(t) == {p \in DOMAIN t : t[p].key # Empty}

EmptySlots(cap) == [p \in 0..cap - 1 |-> [key |-> Empty, raw |-> Empty, val |-> Empty]]

NewTable == [slots |-> EmptySlots(MapInitialCap), count |-> 0, used |-> 0]

(* No slot ends the search: the loop would never stop. *)
Endless == -1

(* A fault: a tombstone ends the search. *)
ProbeShort(t, key) ==
    LET at(d) == (Hash(key) + d) % Cap(t)
        stops == {d \in DOMAIN t : t[at(d)].key \in {Empty, Gone, key}}
    IN  IF stops = {} THEN Endless ELSE at(Min(stops))

(* map_probe: the slot of an equal key; otherwise the first tombstone on the
   way to the first empty slot, or that slot. *)
Probe(t, key) ==
    LET at(d) == (Hash(key) + d) % Cap(t)
        stops == {d \in DOMAIN t : t[at(d)].key \in {Empty, key}}
        stop  == Min(stops)
        tombs == {d \in 0..stop - 1 : t[at(d)].key = Gone}
    IN  IF stops = {} THEN Endless
        ELSE IF t[at(stop)].key = key \/ tombs = {} THEN at(stop)
        ELSE at(Min(tombs))

Holds(t, key) == LET p == Probe(t, key) IN p # Endless /\ t[p].key = key

(* map_set's test before it inserts: would one more used slot pass 70 %? *)
IsFull(tab) == tab.used + 1 > (Cap(tab.slots) * 7) \div 10

(* map_rehash_cap: twice the size while half of what is used lives, otherwise
   the least size, doubling from the first, that the live entries fill to 35 % at
   most. *)
RehashCap(tab) ==
    LET cap   == Cap(tab.slots)
        size[k \in 0..cap] == IF k = 0 THEN MapInitialCap ELSE size[k - 1] * 2
        roomy == {c \in {size[k] : k \in 0..cap} : c >= cap \/ (c * 7) \div 20 >= tab.count + 1}
    IN  IF tab.count * 2 >= tab.used THEN cap * 2 ELSE Min(roomy)

(* map_grow's loop: every live entry goes to the first empty slot of its chain
   in the new table. *)
Reinserted(new, entry) ==
    LET at(d) == (Hash(entry.key) + d) % Cap(new)
    IN  [new EXCEPT ![at(Min({d \in DOMAIN new : new[at(d)].key = Empty}))] = entry]

(* A fault: the entries stay where they were. *)
RehashedInPlace(tab) ==
    LET cap == RehashCap(tab)
        slots == [p \in 0..cap - 1 |-> IF p \in LiveSlots(tab.slots) THEN tab.slots[p]
                                       ELSE EmptySlots(cap)[p]]
    IN  [slots |-> slots, count |-> tab.count, used |-> tab.count]

Rehashed(tab) ==
    LET cap == RehashCap(tab)
        to[i \in 0..Cap(tab.slots)] ==
            IF i = 0 THEN EmptySlots(cap)
            ELSE IF i - 1 \in LiveSlots(tab.slots) THEN Reinserted(to[i - 1], tab.slots[i - 1])
            ELSE to[i - 1]
    IN  [slots |-> to[Cap(tab.slots)], count |-> tab.count, used |-> tab.count]

(* map_set: a key that is there keeps its slot; a tombstone that is taken over
   is used already. *)
WithEntry(tab, key, raw, val) ==
    LET p == Probe(tab.slots, key)
    IN  IF Holds(tab.slots, key) THEN [tab EXCEPT !.slots[p].val = val]
        ELSE [slots |-> [tab.slots EXCEPT ![p] = [key |-> key, raw |-> raw, val |-> val]],
              count |-> tab.count + 1,
              used  |-> tab.used + IF tab.slots[p].key = Empty THEN 1 ELSE 0]

Set(tab, key, raw, val) ==
    WithEntry(IF Holds(tab.slots, key) \/ ~IsFull(tab) THEN tab ELSE Rehashed(tab), key, raw, val)

(* map_delete: the value is dropped, the slot stays used. *)
Without(tab, key) ==
    IF ~Holds(tab.slots, key) THEN tab
    ELSE [tab EXCEPT !.slots[Probe(tab.slots, key)] = [key |-> Gone, raw |-> Gone, val |-> NilValue],
                     !.count = @ - 1]

(* What a table means: a finite function. *)
Entries(t) ==
    [k \in {t[p].key : p \in LiveSlots(t)} |-> t[CHOOSE p \in LiveSlots(t) : t[p].key = k].val]

=============================================================================
