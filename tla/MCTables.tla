------------------------------ MODULE MCTables ------------------------------
(***************************************************************************)
(* Small parts that share no state: of the runtime the fault windows of    *)
(* threads, a registry of sockets, the output of a world and a program's   *)
(* map; of the library the deque and the regular expressions; of the       *)
(* checker the coverage of a match.  A behaviour exercises one of them,    *)
(* chosen at the start: together they would only multiply each other's     *)
(* states.                                                                 *)
(***************************************************************************)
EXTENDS ThreadSlots, Registry, LineOut, ProgramMap, Deque, MatchCases, RegexCases

CONSTANT MaxCap  \* the table's greatest size: a bound

VARIABLES table,                                               \* the one in use
          scrut, arms, seen, dead, idle, verdict,              \* MatchCoverage
          prog, tree, text, multi, from, sp, threads, best, found  \* Regex

C == INSTANCE MatchCoverage WITH Scrutinees <- MatchTypes, Variants <- MatchVariants,
                                 PatternsOf <- MatchPatterns, ValuesOf <- MatchValues,
                                 MaxArms <- 3, OrCap <- 3
X == INSTANCE Regex WITH Patterns <- RegexTrees, Subjects <- RegexTexts, NewLine <- LineBreak

match == <<scrut, arms, seen, dead, idle, verdict>>
regex == <<prog, tree, text, multi, from, sp, threads, best, found>>

(* A deque is made of nothing, or of three elements. *)
ShortVecs == UNION {[1..len -> Elem] : len \in {0, 3}}

(* The map's hash: neighbours and exact collisions. *)
Spread(key) == (key[2] * key[2]) % 5

IntKeys == {<<"int", n>> : n \in 1..5}

(* The parts that may begin in many states do so only when they are used. *)
NoDeque == /\ front = <<>> /\ back = <<>> /\ cursor = 0
           /\ ret = NoElem /\ moved = 0 /\ calls = 0
NoMatch == /\ scrut = <<>> /\ arms = <<>> /\ seen = {}
           /\ dead = {} /\ idle = {} /\ verdict = "open"
NoRegex == /\ prog = <<>> /\ tree = <<>> /\ text = <<>> /\ multi = FALSE /\ from = 0
           /\ sp = 0 /\ threads = <<>> /\ best = <<>> /\ found = <<>>

BoundedMap == MapNext /\ Cap(tab'.slots) <= MaxCap

TablesInit == /\ table \in {"windows", "registry", "output", "map", "deque", "match", "regex"}
              /\ Init /\ RegistryInit /\ OutputInit /\ MapInit
              /\ IF table = "deque" THEN DequeInit ELSE NoDeque
              /\ IF table = "match" THEN C!Init ELSE NoMatch
              /\ IF table = "regex" THEN X!Init ELSE NoRegex

TablesNext ==
    /\ UNCHANGED table
    /\ \/ table = "windows"  /\ Next         /\ UNCHANGED <<registryVars, outputVars, mapVars, dequeVars, match, regex>>
       \/ table = "registry" /\ RegistryNext /\ UNCHANGED <<vars, outputVars, mapVars, dequeVars, match, regex>>
       \/ table = "output"   /\ OutputNext   /\ UNCHANGED <<vars, registryVars, mapVars, dequeVars, match, regex>>
       \/ table = "map"      /\ BoundedMap   /\ UNCHANGED <<vars, registryVars, outputVars, dequeVars, match, regex>>
       \/ table = "deque"    /\ DequeNext    /\ UNCHANGED <<vars, registryVars, outputVars, mapVars, match, regex>>
       \/ table = "match"    /\ C!Next       /\ UNCHANGED <<vars, registryVars, outputVars, mapVars, dequeVars, regex>>
       \/ table = "regex"    /\ X!Next       /\ UNCHANGED <<vars, registryVars, outputVars, mapVars, dequeVars, match>>

TablesSpec == TablesInit /\ [][TablesNext]_<<table, vars, registryVars, outputVars, mapVars, dequeVars, match, regex>>

-----------------------------------------------------------------------------
(* See MatchCoverage and Regex. *)
VerdictsAreRight == table = "match" => C!VerdictsAreRight
FindsTheFirstWay == table = "regex" => X!FindsTheFirstWay
=============================================================================
