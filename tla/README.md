# A verification project for Skarn

Skarn is a statically typed language with a register virtual machine written in C++
(`src/vmcore`), a compiler (`src/static_compiler`), a library written in Skarn
(`src/static_compiler/std`), a runner and a language server.  Two things can go wrong in it in
ways that unit tests hardly reach: its concurrent runtime, in which isolates on threads of
their own start, message, watch and end each other, wait on each other's inboxes and share one
I/O thread; and the agreements between passes that a program relies on without seeing them,
between a moving collector and the values an instruction holds, and between the pass that
measures a frame and the one that fills it.  This project models both in TLA+, checks them with
TLC and proves the core with TLAPS.  Unless another file is named, line numbers are those of
`src/vmcore/vmcore.cpp`.

## Contents

1. Inventory of the system
2. The modules and how they correspond to the code
3. The runs, what they show, their bounds
4. Fairness
5. What is proved, and how
6. Disagreements between the code and its own statements
7. What is not modelled
8. Plan

## 1. Inventory

### Parts, their state, their operations

| Part | State | Operations | Interacts with |
|---|---|---|---|
| **Mailbox** (484-640) | `q`, `owner`, `capacity`, `messages`, `dead`, `released`, `stopped`, `stop_seen`, `io_paused`, `pad`, `blocked`, all under `m` | `put`, `offer`, `offer_or_pause`, `close`, `release`, `vacate`, `retire`, `rawReceive`'s take | every other part of the runtime |
| **World and isolate life** (648-702, 821-967, 3096-3249, 3412-3694) | `mailboxes`, `isolates`, `next_id`, `stopping`; per isolate its thread, record, starter, watchers, `ended` | `start_isolate` (rawSpawn, rawSpawnActor, rawSpawnInto), `run_isolate`'s epilogue, rawJoin, rawNewSlot, rawReleaseSlot, rawNewInbox, rawCloseInbox, rawStopActor, rawMonitor, `~World` | takes `World::m` and mailboxes in sequence, threads |
| **Back-pressure and deadlock detection** (3256-3390, 3412-3480, 3746-3786) | `send_waits`, `deadlocked` under `wait_m`; `blocked` in each mailbox, `join_blocked` in each task | rawSend's and rawJoin's waits in slices, `publish`, the two-pass walk, the mark, the unwinding | Mailbox, the join of tasks |
| **WaitPad** (323-470, 3807-4060) | `gen`, `cv`, the pipe, the atomics `waiters` and `pollers` | rawReceive, rawSelect, rawSelectIo; `wake`, `poke`, `drain` | every call that queues mail |
| **Active sockets** (720-798, 4158-4677) | `socks`, `stopping`, the wake line; per socket `pending`, `pending_tickets`, `paused`, `done`, `close_req` | rawActivate, rawActiveSend, rawActiveClose, `close_owned_by`, the loop, `stop` | Mailbox by `offer_or_pause`, the hand-off table, poll |
| **Hand-off, descriptor registries** (140-268, 4117-4156) | `handoffs`; slots with a generation modulo 2^23 | rawHandOff, rawTake; add, get, detach, close | hub, `~World` |
| **Line output** (805-820, 969-1003) | a partial line per isolate, `out_m` | write, flush | the root's stream |
| **Supervisor** (`std/supervisor.skn`) | `running`, `state`, `recent`, `restartFrom`, `deadline` | start, restart, group stop, shutdown | reports of watches and of crashes, `spawnInto`, `releaseSlot` |
| **Fault windows** (`ThreadSlotTable.h`, `FaultSignals.h`) | a table from thread ids to armed windows | store, load in a signal handler, Arm and ~Arm | the interpreter's threads |
| **Heap and interner** (`Heap.h`, `StringInterner.h`) | two semispaces, the committed size, a table of strings | allocate, collect, grow, intern | the interpreter's registers and stacks, the roots |
| **Maps, vectors, strings** (`opcodes/op_map.h`, `op_vec.h`, `op_string.h`) | headers and backing arrays on the heap; open addressing with tombstones | set, remove, grow, push, concat | the heap, which moves them |
| **Value codec** (`ValueCodec.h`) | a pool of decoded objects | encode, decode | every message, the heap |
| **Interpreter** (`Interpreter.h`) | registers, window, frame size, return stack | call, tail call, return, branch, arithmetic | the heap, the compiled code |
| **Code generator** (`Codegen.cpp`) | per function a register allocator, scopes, loops, expansions; a map of inlined sites for the program | measure, plan (with a retry ladder), emit | the interpreter; checked against `RefEval.cpp` |
| **Deque** (`std/deque.skn`) | two vectors, `front` reversed and `back` | push, pop and peek at both ends, get, at, clear, the cursor | programs |
| **Regular expressions** (`std/regex.skn`) | a program of a Thompson machine; the threads of a search | compile, search, the iterators | programs |
| **Coverage of a match** (`Check.cpp` 6905-7297) | the rows of the unguarded arms so far | one arm, the end of the match | the checker's errors and warnings |
| **The rest of the compiler front end** (`Lexer`, `Parser`, `Check`, `Solver`, `Loader`) | sequential | | the code generator |
| **Bytecode files, the rest of the library, runner, language server** | sequential | | |

### Behaviours that are hard, and what makes them right

* *Lives that overlap.*  A record is registered after its thread runs; an end is announced
  while actors are being made; a monitor races the end it asks about; a slot changes actors
  while mail, Stops and reports are on their way to it.  Right means: the world outlives
  every thread, everybody who must be told to stop is told, every watcher is answered once,
  one actor per slot, no old mail for a successor, no report before the address is gone.
* *Waits.*  A wait is right when it ends as soon as what it waits for is there (no lost
  wakeup, with relaxed loads allowed to be stale), when it leaves nothing behind, and when a
  ring of waits is reported, by all of its members, and only if there is one.
* *One I/O thread for all sockets.*  It never waits on an inbox: it pauses.  Right means:
  events keep their order, a paused socket is resumed, a socket is closed once and never
  while somebody uses it, every accepted connection is in exactly one place, the thread ends.
* *Numbers.*  A count that must follow a queue through every reset; a generation that wraps.
* *Restart policies.*  Two reports for one crash, a crash during a group stop, a shutdown
  during a group stop.  Right means: nobody is blamed for a predecessor's crash, a group ends
  before it starts again, nobody is left running without having been told, a Stop is final.
* *A heap that moves.*  Every allocation may move every object while an instruction holds some
  in C++ locals, and a register that no frame covers keeps the address of something long moved.
  Right means: no stale address is ever a root, and a program cannot tell that anything moved.
* *Two walks that must agree.*  A frame is measured before any code is emitted.  Right means:
  nothing is emitted above the plan, whatever was inlined and given back, and the code computes
  what the tree means: operands in order, tail calls in place, a match's binding not overwritten.

`PROJECT.json` lists each of these hazards at its line with the properties that cover it.

## 2. The modules

| Module | Models | State and code |
|---|---|---|
| `Mailbox` | one inbox as a record with the pure effect of each operation | a field per field of `Mailbox`; `q` holds mails of kind msg, exited and stop; a message is an atom that remembers for whom it was sent |
| `ActorWorld` | isolates, inboxes, slots, monitors and the end of a world | `mb` the mailboxes, `mailboxes`/`isolates` the two maps, `iso` the records, `th` the threads with their place in a native, `stopping` |
| `SendDeadlock` | waiting for room or for a task, and finding rings | `blocked`, `send_waits`, `deadlocked` as in the code; `walk` the locals of `confirm_send_cycle`; `ticket` pairs a waiter and its wait's number |
| `WaitPad` | the three waits of an isolate against threads that queue mail | `gen`, `pipe`; `counts` is the modification order of `waiters` and `pollers`, `released` what each mutex hands on of it |
| `IoHub` | the hub, its thread, its sockets and the hand-off table | `entry` an `ActiveSock` per socket, `socks`, `wake`, `io` the thread's place and locals, `handoffs`, `fds` each isolate's connections |
| `Supervisor` | `superviseWith` and its children's ends | the function's locals by name; `pc` its place; `actor` each actor started for a child, with its place in `run_isolate`'s epilogue; `q` its inbox |
| `Registry` | an isolate's sockets behind descriptors | `slots` as in `NetRegistry`; `issued` every descriptor a program may still hold |
| `LineOut` | the shared output stream | `line` each writer's partial line, `actors_started`, `through` the root between its test and its write |
| `ThreadSlots` | the lock-free table a fault handler reads | `tid`, `value` the table; `depth`, `armed`, `prev` each thread's nested runs; `at` its place in `store` |
| `MapTable` | a map's table of slots | open addressing with tombstones: search, insert, delete, grow, rehash; `used` and `count` |
| `ProgramMap` | a program's map over its life | any calls on `MapTable`'s table, beside the function it stands for |
| `Heap` | the semispaces, the collector and the allocation ladder | `vm.objs` the active space in order, `Forward`, `Scan`, `Collect`, `Alloc`, `Intern` |
| `Machine` | the register machine on that heap | an action per instruction with its re-fetches after an allocation; a message as encode, pool, patch |
| `Store` | what a program may rely on | objects with an identity that never move; maps are functions, vectors sequences |
| `MachineRefines` | that `Machine` implements `Store` | `SeenActs`, `SeenObjects`: the refinement mapping, addresses to identities |
| `SkarnOracle` | what a program means | `RefEval.cpp`'s walker over the Int and Bool core, signals for break, continue and return |
| `FramePlan` | the measure pass and the plan of frames | needs as records of temporaries, locals, inlined sites and widest call; the retry ladder |
| `Codegen` | the emit pass | the emitter as a record; one operator per `compile_*` function |
| `CompiledCode` | the generated code at work | `regs`, `win`, `cfs`, `rets` as in `Interpreter.h`; `m` the module that `Codegen` made |
| `Deque` | the library's double-ended queue | `front`, `back`; `moved` and `calls` count what was copied and called |
| `DoubleEnded` | what it promises | a sequence, a cursor and the last answer; `Deque` implements it |
| `MatchCoverage` | the verdicts on a match | `seen` the rows; `dead`, `idle`, `verdict` what the checker says; `Matches` is `RefEval.cpp`'s `match_pattern` |
| `Regex` | compilation and search | `prog`, `threads`, `best` as in `_rxSearch`; `Ways` is the backtracking matcher it is compared with |
| `MC...`, `MatchCases`, `RegexCases` | instances for TLC | which programs call what; `MCTables` puts seven parts that share no state in one run |
| `MailboxProofs` | lemmas on the operators of an inbox | used by the proofs of every module that extends `Mailbox` |
| `ActorWorldProofs` | theorems of `ActorWorld` | types and lives; counts, Stops, reports and slots |
| `SendDeadlockProofs`, `WaitPadProofs`, `IoHubProofs`, `SupervisorProofs` | theorems of these four | tickets; wakeups; sockets, connections and events; children and their reports |
| `TablesProofs` | theorems of `ThreadSlots`, `Deque`, `Registry`, `LineOut`, `ProgramMap` | |
| `MachineProofs` | the theorem of `Machine` | the collector, the allocator, then one lemma per instruction |

`Mailbox` is extended by `ActorWorld`, `SendDeadlock`, `WaitPad` and `IoHub`, so the same
`Vacate` or `Retire` is exercised in each setting.  `Machine` is built on `Heap` and `MapTable`,
`CompiledCode` on `Codegen`, `FramePlan` and `SkarnOracle`.

**Atomicity.**  One action is one critical section together with the thread's private work
up to the next one, or one atomic operation, or one system call.  A native with several
critical sections is a chain of actions through `th[t].pc` (or `pc`, `o.pc`, `io.pc`, `at.pc`); the
program of an isolate is nondeterministic among the calls the instance gives it (`Calls`,
`Targets`, `Waits`, `Jobs`).  Where a comment of a module says that two sections are one
action, nothing between them can be observed.  In `Supervisor` one action is one call of the
runtime; in `Machine` and `CompiledCode`, where nothing runs concurrently, one instruction.

**Abstractions.**  Messages, events and reasons are atoms.  Timeouts are choices: a slice or a
deadline may pass whenever its wait is not satisfied; `Supervisor` counts ticks.  Spurious
returns of condition variables, which find their predicate false, are left out.  What a peer
sends is given to `IoHub` as a sequence of reads with the events their framing yields.  `WaitPad`
is the POSIX form.  Tickets of the hand-off table stand for their connection.  In `Heap` an
address is a space and an ordinal, since only staleness and order matter; sizes are in cells.
A hash is any function of the key; the instances choose ones that collide.  `SkarnOracle` and
`CompiledCode` count without the wrap of an Int at 48 bits, which no program of the runs reaches.

**The compiler's modules are run, not proved.**  `SkarnOracle`, `FramePlan` and `Codegen` are
recursive over trees and hold no theorem.  `CompiledCode`'s initial states are programs: TLC
computes their code with `Codegen`, runs it instruction by instruction, and the invariant
`SameAnswer` compares the end with what `SkarnOracle` computes for the tree.

## 3. The runs

All twelve finish within two minutes on two workers (the largest has 1.5 million states).

| Run | Question | Result |
|---|---|---|
| `ActorWorldSlots` | Do counts, addresses, reports and Stops survive restarts, releases, crashes and threads that cannot be made? | holds: `TypeOK`, `MessagesCounted`, `OneActorPerSlot`, `ReportedActorIsGone`, `SuccessorGetsFreshMail`, `ReleasedActorIsTold` |
| `ActorWorldEnds` | Does `~World` join everybody and return, is everybody told, is every monitor answered once? | holds: `WorldOutlivesIsolates`, `NoActorMissesTheEnd`, `ExactlyOneReport`, `WorldEnds` |
| `SendDeadlockSlot` | Is a verdict about waits that were all listed at one instant, told to all, and is nothing left of a wait? | holds: `NothingLeaks`, `ListedTogether`, `NobodyRefusedSilently` |
| `SendDeadlockBroken` | Is every ring broken? | holds without slots: `RingsAreBroken` |
| `WaitPadWakes` | Can a wakeup be lost between relaxed loads, scan, park and drain? | no: `NoLostWakeup`, `NamedInboxIsReady`, `MailEndsTheWait` |
| `IoHub` | Do events, sockets and connections stay right between the I/O thread, their owner, a taker and the end of the world? | holds: `ClosedOnce`, `EventsInOrder`, `NoWakeIsMissed`, `UndeliveredAreHeld`, `ConnectionHasOneHolder` |
| `Supervisor` | Is everybody restarted, stopped and waited for as each strategy says, with crashes at any time? | holds: `BlamedHasEnded`, `EndsInOrder`, `NobodyIsOrphaned`, `StopEndsIt`, `CrashIsAnswered` |
| `Machine` | Can a program tell that its objects move? | no: `NothingIsStale`, `ImplementsStore` |
| `Tables` | Does a fault find its own thread's window, a descriptor its own socket, a line its own pieces, a map its own entries, a deque its own sequence, a search the first match, the checker the holes of a match? | yes: `WindowsAreOwn`, `DescriptorsMeanTheirSocket`, `LinesStayWhole`, `TableIsMap`, `CostIsPaid`, `ImplementsSequence`, `FindsTheFirstWay`, `VerdictsAreRight` |
| `Codegen` | Does the code compute what the tree means, within the frame that was planned? | yes for 868 programs, each with and without the inliner: `SameAnswer`, `FramesAreTight`, `Finishes` |
| `ActorWorldStopLost` | Is an actor restarted during the end told to stop? | no: violates `EveryActorGetsStop` |
| `CodegenDisagrees` | Does it also for programs that assign between operands, break in a condition, return a local, or give inlining up? | no: violates `SameAnswer`, each of its four programs by itself |

### Bounds, and why they are enough

* `MaxId` bounds ids: isolates, inboxes and slots share one counter, as in the code
  (`next_id`).  With 3, the root can start an actor that starts another, or restart a slot
  twice; the violation that needs a supervisor in a slot's way uses 4.  What depends on a
  longer chain is proved for every `MaxId` (section 5).
* `Capacity` is 1: a full inbox, an empty one and a sender in between all occur.  In
  `ActorWorld` it only bounds what is queued; waits for room are `SendDeadlock`'s.
* `MaxMonitors` bounds the calls of rawMonitor in a run.  1 is enough for the race of a request
  with an end: requests only meet in the list, which is taken as a whole.
* `ActorWorldSlots` has one spawner, who also releases: what a second one does is in section 6.
* `MaxWaits` is 1 per isolate and there are three: a ring of two with a bystander and a ring of
  three.  `NothingLeaks` and `ListedTogether` are proved for any number of both (section 5).  A
  second wait may meet what the first left behind, which is nothing but a mark (section 6), and a
  walk that still follows a path through the first; what comes of that needs five isolates, and
  `NobodyRefusedSilently` does not survive it (section 6).
* `WaitPad`: two inboxes, because a select must rank and scan more than one; two notifiers,
  because a wake of one may be absorbed by the drain for another; two waits, because what a
  wait leaves behind (a byte, a generation, a stale load) meets the next one.
* `IoHub`: a stream and a listener in one inbox of capacity 1, so both pause; three events,
  one connection, `Batch` 1, so that a batch ends with work left.
* `Supervisor`: three children under rest_for_one, because a second crash may then fall before,
  in or after the group; two under the other strategies.  `MaxCrashes` 2 against a limit of 1
  restart: the limit is reached and also just missed, since a window of one tick may have passed.
* `Machine`: `InitialSemi` 4 and `reserved` between 6 and 24 cells, so that every allocation
  site collects, grows and fails; six programs, because all instructions together would only
  multiply; `RegSpace` 6, so that calls run out of registers; `VecInitialCap` 1 and
  `MapInitialCap` 2, so that both grow at once; all keys collide.
* `Tables`: three threads for two slots, so that one is refused, nested twice; five sockets
  through generations modulo 3 (2^23 in the code), so that a generation wraps; two actors and
  the root with two lines of two pieces; a map of keys 1 to 5 whose hashes collide in pairs, of
  initial capacity 4 and at most 16, so that it grows, shrinks and rehashes in place.
  The deque starts with three elements or none and makes six calls, enough to move halves of
  three elements over and back.  `RegexCases` has every operator over one operator over two bytes,
  one of them a line break, grouped and not, in all texts of up to three bytes, each searched to
  the end.  `MatchCases` has matches of up to three arms over a pair, an integer, a list, a struct
  and a map in a pair, with `OR_EXPANSION_CAP` 3 instead of 64, so that alternatives are cut off.
  A behaviour exercises one of the seven, chosen at the start.
* `Codegen`: `MaxFrame` 13 instead of 63 (16 in `CodegenDisagrees`), so that small programs go
  through the whole retry ladder; `MaxNodes` 20 and `MaxDepth` 2 for the inliner; `Registers` 40.
  `Grid` combines every shape of function body with every pair of operands; the other programs
  are single ones for loops, patterns, tail calls and frames too wide to inline into.

`CHECK_DEADLOCK` is on where a system goes on or ends in an explicit stuttering step.  It is off
in `Tables`, whose registry and output stop at their bounds and whose searches and matches end, and in the two `Codegen` runs, whose
programs halt.  Symmetry is not used: the isolates of an instance differ in what they call.

## 4. Fairness

Liveness is checked under the fairness that threads and their scheduler give.

* `ActorWorld!FairSpec`: weak fairness of each thread's steps inside a native or the epilogue
  and of the destructor.  A program is under no obligation, with one exception: it receives
  from its main inbox and returns on Stop (strong fairness, since other calls interleave).
  The code states that assumption itself: "a root whose actors ignore Stop -- or whose
  tasks never end -- waits for them" (283-284).
* `SendDeadlock!FairSpec`: weak fairness of each isolate's own steps in a wait.  A slice ends
  (`wait_for` has a timeout), so the walk is reached; receiving is *not* fair, for otherwise no
  ring of waits would be worth finding.
* `WaitPad!Spec`: weak fairness of the owner's steps in a wait, and of each notifier once it
  is in the middle of a call.  Not of deadlines.

* `Supervisor!Spec`: weak fairness of the supervisor's own steps, of time, of the epilogues of
  ended children and, where a setting says that the children come to a receive, of a told child's
  end (`Obeys`).  Children that never do are answered by the deadline alone, which those settings
  have.  Crashes and Stops are under no fairness.
* `CompiledCode!Spec`: weak fairness of `Next`, the interpreter's loop.

`IoHub`, `Machine` and the tables are checked for safety only.  A liveness check of `IoHub`, on
the instance of its run, does not finish within the time a run may take.

## 5. What is proved

Theorems of `ActorWorld` hold for every `MaxId`, `Capacity`, `MaxMonitors` and `Calls` (the
assumptions `MaxIdAssumption`, `CapacityAssumption`, `MaxMonitorsAssumption`, `CallsAssumption`,
which only say that these are naturals and sets of calls).  Those of `SendDeadlock` hold for any
isolates, inboxes and tasks with any homes and targets (`SortsAssumption`, `HomeAssumption`,
`TargetsAssumption`), any capacity and any number of waits of each isolate (`BoundAssumption`).
Those of `WaitPad` hold for any number of inboxes, notifiers and waits, whatever the program waits
for (`NBoxesAssumption`, `MaxWaitsAssumption`, `WaitsAssumption`); of the notifiers' jobs
`JobsAssumption` says one thing besides their types: who closes an inbox that somebody else may
wait for retires it next, since only `native_release_slot` (3551-3567) does that.  Those of
`IoHub` hold for any isolates, inboxes, sockets, connections and programs, whatever arrives and in
whatever portions (`SortsAssumption`, `ArrivesAssumption`, `BoundAssumption`, `CallsAssumption`);
`AcceptAssumption` says of the kernel that accept returns each connection once, and
`EventsAssumption` that the events of two sockets with one inbox differ: the history `heard` and the
properties tell by it whose an event is, nothing else does.  Those of `Supervisor` hold for any number of children and
crashes and any settings (`ChildrenAssumption`, `MaxCrashesAssumption`, `SettingsAssumption`); two
of them suppose besides that a group keeps no child in a slot (`GroupsHaveNoSlots`), which the
instance of the run satisfies too, because otherwise they are false: a child that crashes while its
group is stopping reports twice, and the second report may be taken for its successor's (section 6).
Those of
`ThreadSlots` hold for every set of threads, capacity and depth of nesting (`TableAssumption`),
of `Registry` for any number of sockets and any modulus of a generation (`RegistryAssumption`), of
`LineOut` for any actors, lines and pieces, of `Deque` for any elements and initial vectors, and of
`ProgramMap` for any keys, values and hashes (`KeysAssumption`: a key is neither mark of a slot) and
any first size from two slots on (`MapCapAssumption`).  The theorem of `Machine` holds for any function
table, register space, heap and set of programs (`MachineAssumption`: the sizes are naturals, no
function takes more than its frame holds, and no frame is wider than the register space) and for any
hash with natural values, which is its hypothesis and what the 32-bit hash of `op_map.h` (66-80) gives.

| Module | Theorem | States |
|---|---|---|
| `ActorWorldProofs` | `TypeCorrect` | `Spec => []TypeOK` |
| | `StartersAlwaysStand` | `Spec => []StartersStand` |
| | `WorldOutlives` | `Spec => []WorldOutlivesIsolates` |
| | `MessagesAlwaysCounted` | `Spec => []MessagesCounted` |
| | `NoActorEverMissesTheEnd` | `Spec => []NoActorMissesTheEnd` |
| | `ReportedAreGone` | `Spec => []ReportedActorIsGone` |
| | `EachReportIsMadeOnce` | `Spec => []ExactlyOneReport` |
| | `OneActorInASlot` | `Spec /\ []SpawnersTakeTurns => []OneActorPerSlot` |
| | `SuccessorFindsFreshMail` | `Spec /\ []SpawnersTakeTurns => []SuccessorGetsFreshMail /\ SlotsPassOnNothing` |
| | `ReleasedActorHoldsStop` | `Spec /\ []SlotsHaveOneManager => []ReleasedActorIsTold` |
| | `OneSlotKeeper` | these three theorems' conclusions for `Spec` alone, if one isolate has the calls `spawnInto` and `releaseSlot` |
| `SendDeadlockProofs` | `WaitsLeaveNothing` | `Spec => []NothingLeaks` |
| | `VerdictsAreOfOneInstant` | `Spec => []ListedTogether` |
| `WaitPadProofs` | `WakeupsHold` | `Spec => []NoLostWakeup` |
| | `NamedInboxesHold` | `Spec => []NamedInboxIsReady` |
| `IoHubProofs` | `HubInvariant` | `Spec => []HubInv` |
| | `SocketsCloseOnce` | `Spec => []ClosedOnce` |
| | `PausesEnd` | `Spec => []NoWakeIsMissed` |
| | `TicketsAreHeld` | `Spec => []UndeliveredAreHeld` |
| | `ConnectionsHaveOneHolder` | `Spec => []ConnectionHasOneHolder` |
| | `EventsComeInOrder` | `Spec => []EventsInOrder` |
| `SupervisorProofs` | `SupervisorInv` | `Spec => []SupInv` |
| | `BlameMeetsTheDead` | `GroupsHaveNoSlots => (Spec => []BlamedHasEnded)` |
| | `OneEndsBeforeTheNext` | `GroupsHaveNoSlots => (Spec => []EndsInOrder)` |
| | `OrphansAreTold` | `Spec => []NobodyIsOrphaned` |
| `TablesProofs` | `InvHolds` | `Spec => []IInv`, of `ThreadSlots` |
| | `WindowsAreOwnHolds` | `Spec => []WindowsAreOwn` |
| | `CostAlwaysPaid` | `DequeSpec => []CostIsPaid` |
| | `DequeIsSequence` | `DequeSpec => ImplementsSequence` |
| | `DescriptorsHold` | `RegistrySpec => []DescriptorsMeanTheirSocket` |
| | `LinesHold` | `OutputSpec => []LinesStayWhole` |
| | `TableIsAlwaysMap` | `MapSpec => []TableIsMap` |
| `MachineProofs` | `NothingIsEverStale` | `(\A k : Hash(k) \in Nat) => (Spec => []NothingIsStale)` |

**The world outlives its isolates.**  `WorldOutlivesIsolates` is what keeps `run_isolate` from using
a destroyed `World`, and it is not inductive.  The destructor goes on when every *registered*
isolate is joined; an isolate is registered only by its starter, after its thread has been made.
So the proof needs that whoever lives without a record has a starter that is still in
`start_isolate` (`StartersStand`), and that such a starter is itself alive and *older*
(`StartersAreOlder`): ids are handed out by one counter.  Suppose somebody lives when the
destructor finds nothing to join.  Take the one with the least id (`LeastNatural`): if it is on
record it would have been joined, and joined means ended (`JoinedHaveEnded`); if it is not, it
has an older starter that lives.  Either way a contradiction; the root itself is in the
destructor and starts nobody.

The inductive invariant is `Inv == TypeInv /\ LifeInv`.  `TypeInv` is `TypeOK` with
`IdBound` (nothing is known under an id not handed out yet); `LifeInv` has the parts
`ThreadsHaveIsolates`, `JoinedHaveEnded`, `StartersAreOlder`, `UnmadeHaveOneStarter`,
`FreshIdsAreUnused`, `StartersStand`, `WorldOutlivesIsolates`.  Most of the actions of the
module only move a thread inside its own life; they are shown to be `Ordinary`
(`Goes`, `RecordsStay`, `IdsStay`) and one lemma carries the invariant across all of them.
Five kinds of steps are not ordinary and have a lemma each: `Makes`, `Made`, `Refused`,
`Registers`, `Ends`.  `MailboxProofs` has the lemmas about the mailbox's operators; the typing, action by action, comes
first in `ActorWorldProofs`.

**The count follows the queue.**  `MessagesCounted` is inductive together with the types.  The
work is in the mailbox: for each method that touches a queue one lemma (`PutKeepsCounted`,
`OfferKeepsCounted`, `TakeKeepsCounted`, `EndKeepsCounted`) says that `messages` stays the number of
messages among the mails of `q`, from three facts about what appending and taking do to the set of
their positions (`MsgsAppend`, `MsgsTail`, `MsgsEmpty`).

**No actor misses the end.**  Once `~World` has told everybody, an actor whose main inbox is its own
has Stop in it until it receives it.  Not inductive: an inbox made during the announcement, one
whose owner took the Stop before, and one that is being closed could each break it.  The
invariant is `MailInv`, of three parts:

* `InboxesAreInformed`: an inbox that can be found and is no slot is not dead, keeps every Stop it
  was given, and has one when the world is ending, unless the root reads it.  The announcement and
  `add_mailbox` are both under `World::m`, and that is what makes it true (`BornInformed`,
  `AddMailboxInforms`).  Slots are excepted because `vacate` drops a Stop (section 6).
* `ActorsHaveInboxes`: the main inbox of whoever lives is a slot or its own, and open.
* `ClosesInPrivate`: what a thread is about to close was erased from `mailboxes` first, or is a
  slot; without it another thread's `close` could make an inbox dead that can be found.

What each method does to Stop is stated once (`PutKeeps`, `OfferKeeps`, `TakeKeeps`, `ReleaseKeeps`,
`PutStopInforms`) and carried over the actions by `MailKept`.

**A reported actor is gone.**  A report lies in a queue long after the end it tells of, so the
invariant, `GoneInv`, says where each party is.  `ReportsAreLate`: who is reported has come to the
reports of its epilogue, or is done (`Late`).  `OwnersLive`: whoever owns an inbox that an address
leads to is the root, nobody, or an actor that has not come that far, and if it is closing its
inboxes, this one is still on its list (`todo`).  The two together are the property.  Two things
keep `OwnersLive`: the epilogue takes an inbox off its list only when it has closed it, and a new
inbox is registered by a thread that runs.  Steps are grouped by what they do to a queue
(`Gains` at the end, `Drops`, `Takes`), with one lemma per group.

**A monitor is answered once.**  `asked` and `told` are histories; what ties them is a ledger:
`asked[a][b] = told[a][b] + Occ(watchers, b) + Occ(due, b)`, where `Occ` counts places of a
sequence (`Balance`).  `Owed` says when the two lists must be empty: the end takes the whole list
under `World::m`, a request that comes later finds the end marked and is answered at once.  It needs
`Registered`: an isolate on record has started, so that the mark is never overwritten.

**What a slot promises, and to whom.**  `rawSpawnInto` looks at a slot under the slot's mutex (3535)
and takes it under `World::m` without a second look (3548).  Two spawners of one slot can both
pass the look, and with two of them TLC finds two actors in one slot, in a trace of eleven
states; a release in between leaves an actor without an address.  So the theorems have as hypothesis
that this does not happen, as a condition on the behaviour: `SpawnersTakeTurns`, that no two threads
stand between look and take at one slot, and `SlotsHaveOneManager`, that no release stands there
either.  `OneSlotKeeper` gives a condition on programs that implies both: one isolate has the calls
`spawnInto` and `releaseSlot`, as the one supervisor of a slot does, and the instance of the run
`ActorWorldSlots`.  Nothing is assumed of the actors in the slots, their crashes and their ends, or
of who sends to them and watches them.

`SlotInv` ties a slot's owner field to the one actor that `Holds` it: from the take to the
vacate the owner is that actor, and a spawner that has looked still finds none.  Two holders
would be two values of one field.  `AllFresh` is `SuccessorGetsFreshMail` for every inbox,
running owner or not: each message of a queue was sent to the present owner or to nobody; a take
finds no owner (`TakersFindItEmpty`), and whatever else changes an owner empties the queue.
That property is of messages only, since a report or a Stop does not record whom it was sent to.
What is true of all mail is the action property `SlotsPassOnNothing`: a slot loses its owner
only together with its whole queue, and is taken only without an owner and with its queue left
alone.  Every step is one of the `Changes` a mailbox goes through (`StepChanges`), and none of
them does otherwise.  Neither says anything of the flags `stopped` and `stop_seen`, which
`vacate` keeps; what follows from that is told in section 6.

`ReleaseInv` says that a listed slot is not dead (`OpenSlotsWork`), that a spawner's slot is
listed and a releaser's is not (`InHand`), and that an actor in a dead slot holds Stop or
somebody is on its way to put it (`ToldOrToBeTold`).

**A ring of one instant.**  `confirm_send_cycle` looks at every hop of a ring under a lock of its
own, twice, and calls the second pass a proof that all of them waited at once (3335-3338).  The
invariant follows one ticket.  `ListedWait` and `IndexedWait` (`LeakInv`): whatever is in a list or
in `send_waits` belongs to a wait that goes on, at the object it waits for; that every exit of a
wait, the fault's too, passes through `unlist` and `unindex` is `NothingLeaks`.  For
`ListedTogether` the converse is needed: a ticket that has once been listed and is not listed any
more is over for good, since numbers are never used again and a wait is listed once.  So a hop
found in pass 1 and again in pass 2 was listed in between, and between the passes there is one
instant for all.  This says nothing of the hops that lead *to* the ring (section 6).

**No wakeup is lost.**  The owner raises `waiters`, reads the generation or drains the pipe, and then
looks at one inbox after the other without holding the pad's mutex; a notifier loads the counts
with relaxed loads.  What makes this work is the inbox's mutex, which both take: `released[b] =
Len(counts)` for every inbox that has been looked at (`SelectWakes`, `PollWakes`), so whoever queues
there later knows the raised count and cannot load an older one.  `WaitInv` says where that notifier
is: on its way with that knowledge (`OnWay`), or past the load with the count it found, or past the
bump, so that the generation differs from the one the owner read, or the byte is in the pipe.
`Counting` ties the last count to the owner's place; `Control` its place to its call.  Who was
queued before the look was seen by it.  `FoundIsReady` needs that only the owner takes mail, and
that a closed slot is retired next (`Paired`).

**What passes through the I/O thread.**  `HubInv` follows each thing that changes hands.

* A *socket* is registered, then its close is the thread's (`closing`), then it is closed:
  `Standing` is the first two, and `SocksStand` says that the number of its closes is 1 exactly when
  it was activated and stands no more.  The thread polls only what is registered (`Control`), and
  moves a socket to `closing` only at the top of its round, when it polls nothing; an owner that
  writes has not asked for the close, since it is one thread.  So a close meets nobody.
* A *connection* is owed by the one listener that accepted it, in the hand-off table, held by one
  isolate, or closed.  `ConnsStand` is the account of the last three; its hard case is the close of a
  listener, which closes the connections it still owes.  `OwedOnce` says why nobody else has them:
  what is owed is owed once, no program has read its ticket and no inbox holds it, and it is in the
  table as long as the listener stands.  That two listeners never owe the same connection
  (`OwedByOne`) is where `AcceptAssumption` is used.
* A *wake*.  `Deep` says of a paused socket that the byte is in the wake line or on its way, or its
  inbox is dead, or the inbox is full and carries the mark that makes its reader send the byte.
  This is not true at every moment: while the thread works through what poll returned, a byte it
  has drained may concern a socket that it looks at in its next round.  `WakesCome` claims it between the top of
  a round and the return of poll (`InRound`), for the sockets the round has been past; the drain leads out
  of that part of the loop, and the next round flushes whatever is pending before it polls.

**Events come in order.**  An event goes from what arrived to `pending` (a read), to the inbox (a
flush, which a full inbox interrupts anywhere) and to its reader.  `OrderInv` adds up the four
places: as long as the inbox is open, heard, then queued, then pending is exactly what the socket has
read (`Ordered`); once it is dead, what was heard is a beginning of it for good.  A socket that is
not activated has read nothing, and one that is polled has not ended (`Opened`), so a read never
follows the last.  Queued and read are sums of sequences (`FlattenSeq`, a recursive function of the
library); what such a sum does when a sequence is added at either end is shown by looking at the
first place where it would go wrong, since the induction theorems cannot be used (`SumsExist`,
`FlattenAppend`, `FlattenHead`).  That an inbox serves several sockets, Stops and other mail is no matter:
`Picked` takes the events of one out, and each step changes one end of the queue.

**The supervisor and its reports.**  What the supervisor believes (`state`) it has from reports,
which were on their way while the child's thread ended, or was replaced.  `SupInv` ties three things
together: the belief, the reports in its inbox, and the actor that runs at the child's address.  Only
the last actor of a child may live (`Numbers`); no report comes before its actor, and only a slot's
has no number (`ReportsKnown`); if no two actors of a child can report under one address (`Sole`),
then a child counted as down does not run, and neither does one that a report names (`DeadAreDead`).
A slot's actors do report under one address; under one_for_one, where nobody is watched before the
shutdown, each reports once and before its successor starts (`SlotsReportOnce`, `OneByOne`).
`GroupWaits` and `Shutdown` follow the loop over the children, `StoppingTold` who was told, `StopOnce`
that a Stop is read once.  In a group a child in a slot breaks `Sole`, hence the hypothesis of two of
the theorems.  `OrphansAreTold` needs none: whoever still runs is `UP` and is told at the end,
or was told before, or sits in a slot, whose release tells it.

**A fault finds its own thread's window.**  `ThreadSlots` has no lock: a slot is taken by a
compare-and-swap on `tid`, its value is published by a store of its own, and the handler reads both
while other threads take and free slots.  `WindowsAreOwn` needs `OneSlot` (a thread holds at most one
slot, which makes the handler's first hit its only one), `FreeClean` (a slot is emptied before it
is freed, so a taker never shows its predecessor's window) and, per thread, that its slot shows the
innermost armed run and each armed run remembers the one below it (`ThreadInv`).

**A deque is a sequence.**  `Contents` joins the reversed front and the back; it is the refinement
mapping.  `JoinedIs` says what identifies a joined sequence (its length and each element), so that
each operation needs only what its own two vectors are: a push at one end, a pop that moves
nothing, a pop that has moved half of the other side (`Taken` reversed, `Kept` the rest).  The cost is
an amortisation: `moved` plus how far the sides are apart never exceeds the calls, since a call
changes the sides by one and a move leaves them at most one apart after copying what they were
apart; no further invariant than the types is needed.

**A descriptor reaches its own socket.**  A slot's generation, modulo `Generations`, counts the
sockets that left it.  `RegistryInv` counts without the modulus: between the generation of a
descriptor and that of its slot lie as many steps as sockets have left since it was issued, and the
last to leave wrote how it ended.  Two descriptors of one slot are equal only after a full turn,
which is the condition in `DescriptorsMeanTheirSocket`.

**A line stays whole.**  Until the first actor starts, the stream holds the root's pieces alone, in
the order of its lines.  From then on at most one line of the root's can be in pieces: the one it
was writing through when `actors_started` became true.  Everything else reaches the stream by one
write, and `OutputInv` says that before that write the stream has nothing of the line and the
buffer only pieces of it.

**A map is a finite function.**  `Sound` says that every live entry is on the chain of its key: between
the place its hash names and its own there is no empty slot; and no two entries have one key.  Then a
search ends at the key's slot or at an empty one, whatever the hashes are (`HoldsIs`), provided that
there is an empty slot, which the load test and the count of used slots guarantee: at most 70 % of
the slots are used (`Roomy`), and a rehash makes room for one more (`RehashMakesRoom`).  An
insertion fills a slot on the chain, a deletion leaves its mark and so cuts none.  A rehash enters one
live entry after the other (`Moved`), and stands for the same function because each goes to the end of
its chain.  The two counters are cardinalities, the map's domain is what lives.

**Nothing is stale.**  The collector reads every register of every frame, every registered slot and
every slot of a copied object; the instructions put these addresses there, across allocations of which
any may move everything.  `MachineInv` says that the machine is `Good`: its frames lie one upon the
other with a margin above them (`Stacked`), every root is an immediate or the address of an object
(`RootsFine`), so is every slot of every object (`SlotsFine`), there is no pointer above the running
frame (`Above`), and every container is `Whole`: its header names a backing array that is there and
large enough for its count.  Without `Whole` the re-fetch of a backing after an allocation would be
an arbitrary read.  An instruction that allocates twice leaves a header without a backing in
between, so `Good(m, X)` excepts a set `X` of headers; it is empty between instructions,
and after a fault it may be left as it is, since nothing runs any more.

* *A collection* copies each reachable object once (`ForwardIs`, `ScanIs`).  That Cheney's scan
  has looked at every copy when it stops is a matter of counting (`CopiesAreFew`, `AllScanned`): there are
  no more copies than objects.  `CollectIs` gives what the instructions need: a map `g` from old to new
  places under which every root and every slot `Becomes` what it was, kinds, sizes and data included.
* *An allocation* (`AllocGood`) either leaves everything where it was or passes through such a `g`.
  `HeaderFollows` and `ContainerFollows` say that what a register names after it is the
  container it named before it: that is where an instruction that does not fetch again fails.
* *Calls* slide the window; a frame that is entered finds only what its caller put above its own frame
  (`EnterKeeps`), a frame that is left or shrinks is cleared (`ReenterKeeps`, `ReturnGood`), and so
  is the register the result lay in (`MOV_TAKE`).
* *A message* is encoded in the order in which its references are met (`NodesAre`), so its node
  numbers are below the number of its nodes (`EncodeIs`).  Its pool of roots is what each allocation of
  the decoder moves (`BuiltIs`); when the last is through, patching writes fine addresses only
  (`PatchedIs`), and the containers are whole because `WellFormed` has looked (`PatchedWhole`).

Recursive functions and choices (the loops, the fresh id, the width of a grown heap) are used
through what they are at the next step (`ForwardsExist`, `ScansExist`, `WalksExist`, `BuildsExist` and
their like); a loop up to `n` goes by `AllUpTo`, which a least element proves.

**Only model-checked.**

* Liveness, which is out of the proof system's reach under fairness: `WorldEnds`, `RingsAreBroken`,
  `MailEndsTheWait`, `CrashIsAnswered`, `StopEndsIt`, `Finishes`.
* `NobodyRefusedSilently` of `SendDeadlock`.  It is true of the run, where each isolate waits once,
  and is not true in general: with five isolates, one of which waits twice, TLC finds a ring of
  which one member is refused unmarked (section 6, the first item read in the code).
* `ImplementsStore` of `Machine`: that the maps and messages of a program stand for those of `Store`.
* `SkarnOracle`, `FramePlan` and `Codegen` are recursive over trees: they are evaluated, never
  proved about, and with them the properties of `CompiledCode`.  `Regex` and `MatchCoverage` compare
  a recursive definition with a recursive reference, which needs induction over data.

## 6. Disagreements between the code and its own statements

Two runs end in counterexamples (`PROJECT.json`, `findings`):

1. **A Stop is lost with the queue of a slot** (`ActorWorldStopLost`).  `vacate` drops it (615),
   the successor started during the end of the world is not told, and the join waits for it.
2. **Four programs the compiler treats otherwise than its reference** (`CodegenDisagrees`; TLC
   stops at the first, `tlc -continue` lists all):
   * an operand that is a local is read after a later operand has assigned it
     (`Codegen.cpp` 1265, also 1291, 1446 and the arguments of a call, 3209-3213);
   * a `break` in the condition of a `while` leaves that loop and not the enclosing one (1556);
   * `return` of a local is emitted with a temporary its measure does not count (471 against
     1083), and a legal function is refused;
   * a site whose inlining was given up comes back into the map when another function's plan
     walks over it (752), and a legal function is refused.

Of an old Stop a slot's successor gets too much or too little.  `vacate` drops the queue but keeps
the flags `stopped` and `stop_seen` (615-624), and `start_isolate` gives the slot its new owner
without touching them (3224-3229).  The model has both flags, and TLC shows two consequences with
instances outside the runs (the calls `newSlot`, `spawnInto`, `stopActor`, `receive`, `fault`):

* The predecessor *read* its Stop.  Then `stop_seen` is still set, and the successor's first receive
  on an empty queue answers Stop (3812-3821) although nobody stopped it: a trace of fifteen states.
  A supervisor with `OneForAll` or `RestForOne` stops a crash's siblings in just this way before it
  starts them again (`supervisor.skn` 183-190), and with `childIn` into the same slots; the
  restarted siblings come up, are stopped, and return, which nobody answers.
  `SkarnActors.md` 391 promises "all of them, stopped first and started again together".  The test
  `supervisor_group_restart_keeps_addresses` (`static_compiler_tests/main.cpp` 11606-11645) asks only
  the child that crashed, which had read no Stop.
* The predecessor was told but crashed *before* it read.  The Stop is dropped, `stopped` stays set,
  and every later Stop is swallowed (529): the successor can never be stopped, not even by the end
  of the world, whose join then waits for it.  `EveryActorGetsStop` fails in seventeen states; the
  restart comes before the end here, while the run `ActorWorldStopLost` restarts during the end.

Read in the code, without a run:

* A `stopActor` that has listed the slot before its actor's `vacate` puts the Stop after it (3582):
  the successor reads a Stop meant for its predecessor.
* `verify_heap` (`Heap.h` 879) asserts that an interior pointer is `p < end`, while `verify_frame`
  allows `p <= end` and says why (800-803): an empty array or a nullary struct that ends the space
  has its payload exactly there.  In a debug build a live slot that refers to such an object would
  trip the assertion in a state that is legal, and that `NothingIsStale` calls fine.
* A deadlock fault on a path that is no more: pass 2 re-confirms only the hops of the ring
  (3350), though the comment says "pass 2 re-confirms the same hops" that pass 1 collected
  (3337-3338).  An isolate outside the ring has followed a path to it whose first hops may have
  ended meanwhile; it is not marked, faults "waiting on a deadlocked cycle", and closes its
  inboxes.  If the isolate it had a path through is by then in a new ring with it, that ring's
  members are refused with GONE and without a mark, in spite of 3340-3341.
* Two actors in one slot: `spawnInto` tests the owner and takes the slot in two critical sections
  (3535, 3548), so two spawners may both pass the test.  Section 5 proves that with one there is none.
* `spawnInto` against `releaseSlot` (3544): an actor may be started into a mailbox that has just
  been released; it then has no address and gets no Stop.
* A crash nobody is told of (3155): the starter is looked up by a record that is registered only
  after its thread runs (3246); the comment at 3149 promises the report.
* A verdict about a ring that is already opening (3307): listed does not mean unsatisfied, since a
  sender for whom there is room stays listed until it wakes; the comment at 3335-3336 says that
  all were unsatisfied at one instant, and that the verdict is a proof.
* A ring through a slot whose owner changed is not found: the published edge keeps the owner it
  had, and `SendWait::target`, which is refreshed (555), is never read.
* A supervisor takes a second report for a crash of a successor (`supervisor.skn` 168): a child
  that crashes while it is stopping reports twice, and in a slot both reports name one address.
* At Stop, the supervisor skips children that are already stopping (`supervisor.skn` 278),
  though 269-271 says that each is waited for; the panic at a passed deadline (145-149) leaves
  the children outside the group running, and untold.
* `ThreadSlotTable.h` 67-68 says that `store` fails only when the table is full; a scan may pass a
  slot just before it is freed and refuse although one is free (assertion in `FaultSignals.h` 140).
* A mark in `deadlocked` (3386) stays for good: a marked isolate that went on reports the old ring
  at a later, unrelated refusal.
* `releaseSlot` puts Stop into the slot's mailbox only, while the comment on `rawStopRequested`
  (3699-3701) says that every ending path puts Stop into all of an actor's inboxes.
* A send to the actor's own inbox answers true for GONE as well ("GONE is impossible", 3754),
  although a release of its slot makes it GONE and the message is dropped.
* "Every other reader takes `m`" (511): 915, 926, 945, 3639 read `owner` without it.
* A monitor's report goes to an inbox id looked up at the end (3168): a slot's next actor may get it.
* `select` may name a slot's inbox that a release, between its close and its retire, makes
  unreadable for a moment; `NamedInboxIsReady` states the exception.
* `closeInbox` with a paused socket does not wake the hub (3653; comment at 759): what is
  undelivered stays parked until something else does.
* An event that the I/O thread posts between the vacate of a slot and the close of its dead
  actor's sockets (3144) is read by the successor.
* "Events not received yet are dropped" (4666): those already in the inbox are received.
* Two patterns the checker does not look into (two maps, or two arms with more than 64
  alternatives) have one constructor: the second is called unreachable though it may match
  (`Check.cpp` 7143, 7014), while the comment at 6966-6970 says that such a leaf "never matches
  another row's specialization" and that there is no false "unreachable match arm".
  `UnreachableIsRight` excludes matches with two such leaves.
* A header line of `std/resp.skn` of exactly the maximal length is refused when its "\r" arrives
  without its "\n", and accepted when both arrive together (`_header`).
* `(|a)+` and `(|a)*` find different matches, and `x{0,2}?` tries its alternatives in another order
  than nested optionals: where a repeated part may match nothing, what `std/regex.skn` finds is
  one of the ways from the leftmost position, not the first.  Nothing promises more.

## 7. What is not modelled

Of the modelled parts: `rawMainInbox`'s first call, `rawTrySend` (a send without its wait),
read-only natives, `setSendTimeout`, failures to make a pipe or the hub, the Windows forms; byte
buffers and the heap's statistics; the byte format of the codec and its bounds checks; doubles,
globals, structs, traits and natives of the interpreter; of the code generator everything beyond
the Int and Bool core: strings, doubles, aggregates and their scalar replacement, lambdas,
traits, `try`, `for`, list and struct patterns.

Of the checker only the coverage of a match, of the library only deque, regular expressions (without
classes, word boundaries and the parser) and supervisor.  Not begun: the lexer, parser, solver and
loader; bytecode files; the actor, poll and net libraries, which are wrappers over modelled
natives; the runner; the
language server.  `PROJECT.json` gives the reason for each.  More than half of the repository's
lines are its compiler's tests and its type checker: the former are cases, not behaviour, and
the latter is sequential code over trees whose hazards are those of any such checker.

## 8. Plan

Done, in this order: the actor world, its waits, its sockets, the supervisor, the small tables, the
machine with its refinement, the code generator, the deque, regular expressions, match coverage.

Next:

1. Unification and the trait solver (`Solver.cpp` 47-175) and the loader's order of modules, as
   pure modules against reference definitions.
2. `Codegen` over strings and aggregates: the scalar replacement of structs, and `for`.
3. A slot as a destination of `IoHub`, with a fair specification on a smaller instance
   (`EventsArrive`, `HubEnds`); `SendDeadlock` with two waits per actor and the marks that stay.
4. Abstract specifications: an actor's life as its watchers see it, which `ActorWorld`
   implements; a bounded buffer with refusal, which `SendDeadlock`'s inboxes implement; a FIFO
   per socket, which `IoHub` implements.
5. Theorems: that `Machine` implements `Store`, step by step.
