------------------------------- MODULE LineOut ------------------------------
(***************************************************************************)
(* The output of a world (LineForwardBuf): the root and the actors write   *)
(* pieces of lines, each through a buffer of its own, into one stream.     *)
(* Until the first actor starts, the root writes through.                  *)
(*                                                                         *)
(* A piece is <<w, n>>: part of the n-th line of writer w.  A line ends    *)
(* with its newline, or where its writer asks for a flush.                 *)
(***************************************************************************)
EXTENDS Integers, Sequences, FiniteSets, SequencesExt

CONSTANTS Actors,  \* the actors that are started, not 0
          Lines,   \* lines a writer writes, a bound
          Pieces   \* pieces a writer writes, newlines not counted, a bound

Root    == 0
Writers == {Root} \cup Actors

VARIABLES actors_started,
          running,  \* the actors whose thread runs
          written,  \* written[w]: how much it has, [line, pieces]
          line,     \* line[w]: what waits in its buffer
          through,  \* what the root has decided to write through
          target    \* the stream

outputVars == <<actors_started, running, written, line, through, target>>

OutputInit == /\ actors_started = FALSE /\ running = {}
              /\ written = [w \in Writers |-> [line |-> 1, pieces |-> 0]]
              /\ line = [w \in Writers |-> <<>>]
              /\ through = <<>>
              /\ target = <<>>

Text(w)    == <<w, written[w].line>>
Newline(w) == <<w, written[w].line, "nl">>

CanWrite(w) == /\ w = Root \/ w \in running
               /\ written[w].line <= Lines
               /\ w = Root => through = <<>>

Wrote(w, piece) ==
    written' = IF piece = Newline(w) THEN [written EXCEPT ![w].line = @ + 1]
               ELSE [written EXCEPT ![w].pieces = @ + 1]

(* xsputn of the root before it has seen an actor start: the decision... *)
DecideThrough(piece) ==
    /\ CanWrite(Root) /\ ~actors_started
    /\ through' = line[Root] \o <<piece>>
    /\ line' = [line EXCEPT ![Root] = <<>>]
    /\ Wrote(Root, piece)
    /\ UNCHANGED <<actors_started, running, target>>

(* ... and the write under the stream's lock. *)
WriteThrough ==
    /\ through # <<>>
    /\ target' = target \o through
    /\ through' = <<>>
    /\ UNCHANGED <<actors_started, running, written, line>>

(* xsputn otherwise: every complete line in one write. *)
WriteLine(w, piece) ==
    /\ CanWrite(w) /\ (w = Root => actors_started)
    /\ LET all == Append(line[w], piece)
       IN  IF piece = Newline(w)
           THEN target' = target \o all /\ line' = [line EXCEPT ![w] = <<>>]
           ELSE UNCHANGED target /\ line' = [line EXCEPT ![w] = all]
    /\ Wrote(w, piece)
    /\ UNCHANGED <<actors_started, running, through>>

Write(w) == \E piece \in {Text(w), Newline(w)} :
    /\ piece = Text(w) => written[w].pieces < Pieces
    /\ WriteLine(w, piece) \/ (w = Root /\ DecideThrough(piece))

(* sync, before a read of the input and at the end of an isolate. *)
Flush(w) ==
    /\ CanWrite(w) /\ line[w] # <<>>
    /\ target' = target \o line[w]
    /\ line' = [line EXCEPT ![w] = <<>>]
    /\ written' = [written EXCEPT ![w].line = @ + 1]
    /\ UNCHANGED <<actors_started, running, through>>

(* A fault: the thread runs before the root is told. *)
StartActorEarly(w) ==
    /\ w \in Actors \ running
    /\ running' = running \cup {w}
    /\ actors_started' = (running # {})
    /\ UNCHANGED <<written, line, through, target>>

(* native_spawn_actor, by the root or by a task that runs beside it. *)
StartActor(w) ==
    /\ w \in Actors \ running
    /\ actors_started' = TRUE
    /\ running' = running \cup {w}
    /\ UNCHANGED <<written, line, through, target>>

OutputNext == \/ WriteThrough
              \/ \E w \in Writers : Write(w) \/ Flush(w)
              \/ \E w \in Actors : StartActor(w)

OutputSpec == OutputInit /\ [][OutputNext]_outputVars

-----------------------------------------------------------------------------
Places(w, n) == {i \in DOMAIN target : target[i][1] = w /\ target[i][2] = n}

(* Another writer's piece lies between two pieces of this line. *)
Torn(w, n) == \E i, k \in Places(w, n) : \E j \in i..k : j \notin Places(w, n)

(* No line is torn by another writer's output, except at most one of the
   root's: the one it was writing through when the first actor started. *)
LinesStayWhole ==
    LET torn == {x \in Writers \X (1..Lines) : Torn(x[1], x[2])}
    IN  Cardinality(torn) <= 1 /\ \A x \in torn : x[1] = Root

=============================================================================
