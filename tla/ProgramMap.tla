----------------------------- MODULE ProgramMap -----------------------------
(***************************************************************************)
(* A program's map over its life: any calls of map_set and map_delete on   *)
(* the table of MapTable, beside the finite function the program has in    *)
(* mind.                                                                   *)
(***************************************************************************)
EXTENDS MapTable

CONSTANTS Keys, Vals  \* the keys up to their equality, the values

\* A key is what map_key_valid lets through, which neither mark of a slot is.
ASSUME KeysAssumption == \A k \in Keys : Hash(k) \in Nat /\ k \notin {Empty, Gone}

VARIABLES tab,  \* the map's header and backing
          map   \* what it should be

mapVars == <<tab, map>>

MapInit == tab = NewTable /\ map = <<>>

MapSet(k, v) == /\ tab' = Set(tab, k, k, v)
                /\ map' = [x \in DOMAIN map \cup {k} |-> IF x = k THEN v ELSE map[x]]

MapDelete(k) == /\ tab' = Without(tab, k)
                /\ map' = [x \in DOMAIN map \ {k} |-> map[x]]

MapNext == \E k \in Keys : MapDelete(k) \/ \E v \in Vals : MapSet(k, v)

MapSpec == MapInit /\ [][MapNext]_mapVars

-----------------------------------------------------------------------------
(* Whatever was inserted, replaced, deleted and rehashed, a map's table is the
   finite function it stands for, and a search finds in it what the function
   has and nothing else; its two counters are right, and one slot at least is
   empty, without which a search for a missing key would not end. *)
TableIsMap ==
    /\ Entries(tab.slots) = map
    /\ \A k \in Keys : Holds(tab.slots, k) <=> k \in DOMAIN map
    /\ tab.count = Cardinality(LiveSlots(tab.slots))
    /\ tab.used = Cardinality(UsedSlots(tab.slots))
    /\ tab.used < Cap(tab.slots)
=============================================================================
