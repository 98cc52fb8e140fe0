-------------------------- MODULE ActorWorldProofs --------------------------
(***************************************************************************)
(* Theorems of ActorWorld, for every number of ids, every capacity and     *)
(* every program: types, and that no isolate outlives its world; a count   *)
(* that follows its queue through every reset, the end of the world that   *)
(* reaches every inbox of an actor, each request to be told of an end      *)
(* answered once, when the actor is gone; and, for every program that      *)
(* keeps one rule of the supervisors, what a slot promises.                *)
(*                                                                         *)
(* The first part is about lives.  The destructor joins what it finds in   *)
(* the registry; an isolate is in there only after its starter has         *)
(* registered it, so the invariant follows the chain of starters: a live   *)
(* isolate that is not registered has a starter with a smaller id that     *)
(* still has to do it.                                                     *)
(***************************************************************************)
EXTENDS ActorWorld, MailboxProofs, FiniteSetTheorems, WellFoundedInduction

-----------------------------------------------------------------------------
(* Ids.                                                                    *)

Into == {t \in Id : At(t, "into")}

\* The threads past their slot check still find an id: what the bound IdsLeft is for.
IdBound == next_id + Cardinality(Into) <= MaxId + 1

TypeInv == TypeOK /\ IdBound

\* Every nonempty set of naturals has a least element.
LEMMA LeastNatural ==
  ASSUME NEW T, T \subseteq Nat, T # {}
  PROVE \E x \in T : \A y \in T : x <= y
<1>1. IsWellFoundedOn(OpToRel(<, Nat), Nat) BY NatLessThanWellFounded
<1>2. \A x, y \in Nat : x < y => <<x, y>> \in OpToRel(<, Nat) BY Zenon DEF OpToRel
<1>3. \E x \in T : \A y \in T : ~ (<<y, x>> \in OpToRel(<, Nat)) BY <1>1, WFMin, Zenon
<1>4. PICK x \in T : \A y \in T : ~ (<<y, x>> \in OpToRel(<, Nat)) BY <1>3, Zenon
<1>5. \A y \in T : ~ (y < x) BY <1>2, <1>4, Zenon
<1>6. \A y \in T : x <= y BY <1>5
<1> QED BY <1>6

\* Sets of ids are finite, and counted by a natural number.
LEMMA IdsFinite ==
  ASSUME NEW S, S \subseteq Id
  PROVE IsFiniteSet(S) /\ Cardinality(S) \in Nat
<1>1. IsFiniteSet(Id) BY FS_Interval, MaxIdAssumption DEF Id
<1>2. IsFiniteSet(S) BY <1>1, FS_Subset
<1> QED BY <1>2, FS_CardinalityType

\* A subset counts no more.
LEMMA IdsSubset ==
  ASSUME NEW S, NEW T, S \subseteq T, T \subseteq Id
  PROVE Cardinality(S) <= Cardinality(T)
BY FS_Subset, IdsFinite

\* An id that is taken under the bound is an id.
LEMMA FreshId ==
  ASSUME TypeOK, IdsLeft
  PROVE next_id \in Id /\ next_id \in 1 .. MaxId /\ next_id + Cardinality(Into) <= MaxId
<1>1. Cardinality(Into) \in Nat BY IdsFinite DEF Into
<1>2. next_id + Cardinality(Into) <= MaxId BY DEF IdsLeft, Into
<1> QED BY <1>1, <1>2, MaxIdAssumption DEF TypeOK, Id

\* The same for a thread that has passed its slot check.
LEMMA FreshIdInto ==
  ASSUME TypeInv, NEW t \in Id, At(t, "into")
  PROVE next_id \in Id /\ next_id \in 1 .. MaxId
<1>1. Cardinality(Into) \in Nat /\ IsFiniteSet(Into) BY IdsFinite DEF Into
<1>2. t \in Into BY DEF Into
<1>3. Cardinality(Into) # 0 BY <1>1, <1>2, FS_EmptySet
<1>4. next_id \in 1 .. MaxId + 1 BY DEF TypeInv, TypeOK
<1>5. next_id + Cardinality(Into) <= MaxId + 1 BY DEF TypeInv, IdBound
<1>6. next_id \in 1 .. MaxId BY <1>1, <1>3, <1>4, <1>5, MaxIdAssumption
<1> QED BY <1>6, MaxIdAssumption DEF Id

\* A step that puts no thread past a slot check keeps the bound, also when it takes an id
\* that was left.
LEMMA IdBoundKept ==
  ASSUME TypeInv, Into' \subseteq Into,
         next_id' = next_id \/ (IdsLeft /\ next_id' = next_id + 1)
  PROVE IdBound'
<1>1. Into \subseteq Id BY DEF Into
<1>2. Cardinality(Into) \in Nat /\ Cardinality(Into') \in Nat BY <1>1, IdsFinite
<1>3. Cardinality(Into') <= Cardinality(Into) BY <1>1, IdsSubset
<1>4. next_id \in Int BY DEF TypeInv, TypeOK
<1>5. next_id' + Cardinality(Into) <= MaxId + 1
  <2>1. CASE next_id' = next_id BY <2>1 DEF TypeInv, IdBound
  <2>2. CASE IdsLeft /\ next_id' = next_id + 1
    BY <1>2, <1>4, <2>2, FreshId, MaxIdAssumption DEF TypeInv
  <2> QED BY <2>1, <2>2
<1> QED BY <1>2, <1>3, <1>4, <1>5, MaxIdAssumption DEF IdBound

\* A thread that passes a slot check reserves an id ...
LEMMA IdBoundReserved ==
  ASSUME TypeInv, IdsLeft, NEW t \in Id, Into' = Into \cup {t}, next_id' = next_id
  PROVE IdBound'
<1>1. Into \subseteq Id BY DEF Into
<1>2. Cardinality(Into) \in Nat /\ IsFiniteSet(Into) BY <1>1, IdsFinite
<1>3. Cardinality(Into') \in {Cardinality(Into), Cardinality(Into) + 1}
  BY <1>2, FS_AddElement
<1>4. next_id + Cardinality(Into) <= MaxId BY FreshId DEF TypeInv
<1>5. next_id \in Int BY DEF TypeInv, TypeOK
<1> QED BY <1>2, <1>3, <1>4, <1>5, MaxIdAssumption DEF IdBound

\* ... and takes it.
LEMMA IdBoundTaken ==
  ASSUME TypeInv, NEW t \in Id, At(t, "into"), Into' \subseteq Into \ {t},
         next_id' = next_id + 1
  PROVE IdBound'
<1>1. Into \subseteq Id /\ t \in Into BY DEF Into
<1>2. /\ Cardinality(Into) \in Nat /\ IsFiniteSet(Into)
      /\ Cardinality(Into') \in Nat /\ Cardinality(Into \ {t}) \in Nat
  BY <1>1, IdsFinite
<1>3. Cardinality(Into \ {t}) = Cardinality(Into) - 1 BY <1>1, <1>2, FS_RemoveElement
<1>4. Cardinality(Into') <= Cardinality(Into \ {t}) BY <1>1, IdsSubset
<1>5. next_id \in Int BY DEF TypeInv, TypeOK
<1> QED BY <1>2, <1>3, <1>4, <1>5, MaxIdAssumption DEF IdBound, TypeInv

-----------------------------------------------------------------------------
(* What the actions assign.                                                *)

\* A thread's record stays one when a single field of it is assigned.
LEMMA ThreadField ==
  ASSUME NEW f \in [Id -> ThreadRecord], NEW t \in Id
  PROVE /\ \A r \in ThreadRecord : [f EXCEPT ![t] = r] \in [Id -> ThreadRecord]
        /\ \A x \in Pcs : [f EXCEPT ![t].pc = x] \in [Id -> ThreadRecord]
        /\ \A x \in Id : /\ [f EXCEPT ![t].arg = x] \in [Id -> ThreadRecord]
                         /\ [f EXCEPT ![t].child = x] \in [Id -> ThreadRecord]
        /\ \A x \in SUBSET Id : [f EXCEPT ![t].todo = x] \in [Id -> ThreadRecord]
        /\ \A x \in Seq(Id) : [f EXCEPT ![t].due = x] \in [Id -> ThreadRecord]
        /\ \A x \in BOOLEAN : [f EXCEPT ![t].stop = x] \in [Id -> ThreadRecord]
<1>1. \A r \in ThreadRecord : [f EXCEPT ![t] = r] \in [Id -> ThreadRecord] OBVIOUS
<1>2. \A x \in Pcs : [f EXCEPT ![t].pc = x] \in [Id -> ThreadRecord] BY DEF ThreadRecord
<1>3. \A x \in Id : [f EXCEPT ![t].arg = x] \in [Id -> ThreadRecord] BY DEF ThreadRecord
<1>4. \A x \in Id : [f EXCEPT ![t].child = x] \in [Id -> ThreadRecord] BY DEF ThreadRecord
<1>5. \A x \in SUBSET Id : [f EXCEPT ![t].todo = x] \in [Id -> ThreadRecord]
  BY DEF ThreadRecord
<1>6. \A x \in Seq(Id) : [f EXCEPT ![t].due = x] \in [Id -> ThreadRecord]
  BY DEF ThreadRecord
<1>7. \A x \in BOOLEAN : [f EXCEPT ![t].stop = x] \in [Id -> ThreadRecord]
  BY DEF ThreadRecord
<1> QED BY <1>1, <1>2, <1>3, <1>4, <1>5, <1>6, <1>7

\* A thread that enters a native with an argument, or a later part of one.
LEMMA ThreadEnters ==
  ASSUME TypeOK, NEW t \in Id, NEW p \in Pcs, NEW s \in Id
  PROVE [th EXCEPT ![t].pc = p, ![t].arg = s] \in [Id -> ThreadRecord]
<1> DEFINE f == [th EXCEPT ![t].pc = p]
<1>1. th \in [Id -> ThreadRecord] BY DEF TypeOK
<1>2. f \in [Id -> ThreadRecord] BY <1>1, ThreadField
<1> HIDE DEF f
<1>3. [f EXCEPT ![t].arg = s] \in [Id -> ThreadRecord] BY <1>2, ThreadField
<1> QED BY <1>3 DEF f

\* One field of a record alone.
LEMMA RecordField ==
  ASSUME NEW r \in ThreadRecord
  PROVE /\ \A x \in Pcs : [r EXCEPT !.pc = x] \in ThreadRecord
        /\ \A x \in Id : /\ [r EXCEPT !.arg = x] \in ThreadRecord
                         /\ [r EXCEPT !.child = x] \in ThreadRecord
        /\ \A x \in SUBSET Id : [r EXCEPT !.todo = x] \in ThreadRecord
        /\ \A x \in BOOLEAN : [r EXCEPT !.faulted = x] \in ThreadRecord
<1>1. \A x \in Pcs : [r EXCEPT !.pc = x] \in ThreadRecord BY DEF ThreadRecord
<1>2. \A x \in Id : [r EXCEPT !.arg = x] \in ThreadRecord BY DEF ThreadRecord
<1>3. \A x \in Id : [r EXCEPT !.child = x] \in ThreadRecord BY DEF ThreadRecord
<1>4. \A x \in SUBSET Id : [r EXCEPT !.todo = x] \in ThreadRecord BY DEF ThreadRecord
<1>5. \A x \in BOOLEAN : [r EXCEPT !.faulted = x] \in ThreadRecord BY DEF ThreadRecord
<1> QED BY <1>1, <1>2, <1>3, <1>4, <1>5

\* A thread that comes back to its program, or goes into an epilogue.
LEMMA ThreadLeaves ==
  ASSUME TypeOK, NEW t \in Id
  PROVE /\ Returned(t) \in ThreadRecord
        /\ \A x \in Pcs : [Returned(t) EXCEPT !.pc = x] \in ThreadRecord
        /\ \A x \in BOOLEAN : Unwound(t, x) \in ThreadRecord
<1> DEFINE a == [th[t] EXCEPT !.pc = "run"]
           b == [a EXCEPT !.arg = Root]
           c == [b EXCEPT !.child = Root]
<1>1. "run" \in Pcs /\ Root \in Id /\ {} \in SUBSET Id /\ Unwind(t) \in Pcs
  BY MaxIdAssumption DEF Pcs, Id, Root, Unwind
<1>2. th[t] \in ThreadRecord BY DEF TypeOK
<1>3. a \in ThreadRecord BY <1>1, <1>2, RecordField
<1> HIDE DEF a
<1>4. b \in ThreadRecord BY <1>1, <1>3, RecordField
<1> HIDE DEF b
<1>5. c \in ThreadRecord BY <1>1, <1>4, RecordField
<1> HIDE DEF c
<1>6. [c EXCEPT !.todo = {}] \in ThreadRecord BY <1>1, <1>5, RecordField
<1>7. Returned(t) \in ThreadRecord BY <1>6 DEF Returned, a, b, c
<1>8. \A x \in Pcs : [Returned(t) EXCEPT !.pc = x] \in ThreadRecord
  BY <1>7, RecordField
<1>9. ASSUME NEW x \in BOOLEAN PROVE Unwound(t, x) \in ThreadRecord
  <2> DEFINE d == [Returned(t) EXCEPT !.pc = Unwind(t)]
  <2>1. d \in ThreadRecord BY <1>1, <1>8
  <2> HIDE DEF d
  <2>2. [d EXCEPT !.faulted = x] \in ThreadRecord BY <2>1, RecordField
  <2> QED BY <2>2 DEF Unwound, d
<1> QED BY <1>7, <1>8, <1>9

\* A report that is asked for or made.
LEMMA CountedUp ==
  ASSUME NEW f \in [Id -> [Id -> Nat]], NEW a \in Id, NEW b \in Id
  PROVE [f EXCEPT ![a][b] = @ + 1] \in [Id -> [Id -> Nat]]
<1>1. f[a][b] + 1 \in Nat OBVIOUS
<1>2. [f[a] EXCEPT ![b] = f[a][b] + 1] \in [Id -> Nat] BY <1>1
<1> QED BY <1>2

\* An inbox that is registered.
LEMMA AddMailboxType ==
  ASSUME TypeOK, next_id \in Id, NEW owner \in Id \cup {NO_OWNER}, AddMailbox(owner)
  PROVE mailboxes' \subseteq Id /\ mb' \in [Id -> MailboxOf(Id)]
<1>1. NewMailbox(owner) \in MailboxOf(Id) BY NewMailboxType
<1>2. Stop \in MailOf(Id) BY DEF Stop, MailOf
<1>3. Release(Put(NewMailbox(owner), Stop)) \in MailboxOf(Id) BY <1>1, <1>2, PutType, EndType
<1> QED BY <1>1, <1>3 DEF AddMailbox, TypeOK

\* The record of a new isolate.
LEMMA NewIsolateType ==
  ASSUME TypeOK, NEW t \in Id, next_id \in Id, next_id \in 1 .. MaxId,
         NEW k \in Kinds, NEW box \in Id, NewIsolate(t, k, box)
  PROVE /\ next_id' \in 1 .. MaxId + 1 /\ kind' \in [Id -> Kinds]
        /\ iso' \in [Id -> IsolateRecord] /\ th' \in [Id -> ThreadRecord]
<1>1. next_id' \in 1 .. MaxId + 1 /\ kind' \in [Id -> Kinds]
  BY MaxIdAssumption DEF NewIsolate, TakeId, TypeOK
<1>2. iso' \in [Id -> IsolateRecord]
  <2> DEFINE f == [iso EXCEPT ![next_id].starter = t]
  <2>1. f \in [Id -> IsolateRecord] BY DEF TypeOK, IsolateRecord
  <2> HIDE DEF f
  <2>2. [f EXCEPT ![next_id].mailbox = box] \in [Id -> IsolateRecord]
    BY <2>1 DEF IsolateRecord
  <2> QED BY <2>2 DEF NewIsolate, f
<1>3. th' \in [Id -> ThreadRecord]
  <2> DEFINE f == [th EXCEPT ![t].pc = "thread"]
             g == [f EXCEPT ![t].child = next_id]
  <2>1. "thread" \in Pcs /\ "born" \in Pcs BY DEF Pcs
  <2>2. f \in [Id -> ThreadRecord] BY <2>1, ThreadField DEF TypeOK
  <2> HIDE DEF f
  <2>3. g \in [Id -> ThreadRecord] BY <2>2, ThreadField
  <2> HIDE DEF g
  <2>4. [g EXCEPT ![next_id].pc = "born"] \in [Id -> ThreadRecord] BY <2>1, <2>3, ThreadField
  <2> QED BY <2>4 DEF NewIsolate, f, g
<1> QED BY <1>1, <1>2, <1>3

-----------------------------------------------------------------------------
(* Types: one step per action.                                             *)

\* Starting isolates.
LEMMA SpawnTypes ==
  ASSUME TypeInv, NEW t \in Id, NEW b \in Id,
         \/ SpawnActor(t) \/ SpawnTask(t) \/ SpawnIntoCheck(t, b) \/ SpawnIntoTake(t)
         \/ SpawnThread(t) \/ SpawnThreadFails(t) \/ SpawnRegister(t)
         \/ JoinTask(t, b) \/ JoinReturns(t)
  PROVE TypeOK'
<1> USE DEF TypeInv, history
<1>0. Root \in Id /\ "actor" \in Kinds /\ "task" \in Kinds
  BY MaxIdAssumption DEF Root, Id, Kinds
<1>1. CASE SpawnActor(t)
  <2>1. next_id \in Id /\ next_id \in 1 .. MaxId BY <1>1, FreshId DEF SpawnActor
  <2>2. NewIsolate(t, "actor", next_id) /\ AddMailbox(next_id) BY <1>1 DEF SpawnActor
  <2>3. mailboxes' \subseteq Id /\ mb' \in [Id -> MailboxOf(Id)] BY <2>1, <2>2, AddMailboxType
  <2>4. /\ next_id' \in 1 .. MaxId + 1 /\ kind' \in [Id -> Kinds]
        /\ iso' \in [Id -> IsolateRecord] /\ th' \in [Id -> ThreadRecord]
    BY <1>0, <2>1, <2>2, NewIsolateType
  <2> QED BY <1>1, <2>3, <2>4 DEF SpawnActor, TypeOK
<1>2. CASE SpawnTask(t)
  <2>1. next_id \in Id /\ next_id \in 1 .. MaxId BY <1>2, FreshId DEF SpawnTask
  <2>2. NewIsolate(t, "task", Root) BY <1>2 DEF SpawnTask
  <2>3. /\ next_id' \in 1 .. MaxId + 1 /\ kind' \in [Id -> Kinds]
        /\ iso' \in [Id -> IsolateRecord] /\ th' \in [Id -> ThreadRecord]
    BY <1>0, <2>1, <2>2, NewIsolateType
  <2> QED BY <1>2, <2>3 DEF SpawnTask, TypeOK
<1>3. CASE SpawnIntoCheck(t, b)
  <2>1. "into" \in Pcs BY DEF Pcs
  <2> QED BY <1>3, <2>1, ThreadEnters DEF SpawnIntoCheck, TypeOK
<1>4. CASE SpawnIntoTake(t)
  <2>1. next_id \in Id /\ next_id \in 1 .. MaxId BY <1>4, FreshIdInto DEF SpawnIntoTake
  <2>2. th[t].arg \in Id BY DEF TypeOK, ThreadRecord
  <2>3. NewIsolate(t, "actor", th[t].arg) BY <1>4 DEF SpawnIntoTake
  <2>4. /\ next_id' \in 1 .. MaxId + 1 /\ kind' \in [Id -> Kinds]
        /\ iso' \in [Id -> IsolateRecord] /\ th' \in [Id -> ThreadRecord]
    BY <1>0, <2>1, <2>2, <2>3, NewIsolateType
  <2>5. mb' \in [Id -> MailboxOf(Id)]
    <3>1. mb \in [Id -> MailboxOf(Id)] BY DEF TypeOK
    <3>2. [mb[th[t].arg] EXCEPT !.owner = next_id] \in MailboxOf(Id)
      BY <2>1, <2>2, <3>1, MailboxField
    <3> QED BY <1>4, <2>2, <3>1, <3>2 DEF SpawnIntoTake
  <2> QED BY <1>4, <2>4, <2>5 DEF SpawnIntoTake, TypeOK
<1>5. CASE SpawnThread(t)
  <2> DEFINE f == [th EXCEPT ![t].pc = "register"]
  <2>1. "register" \in Pcs /\ "run" \in Pcs BY DEF Pcs
  <2>2. th[t].child \in Id BY DEF TypeOK, ThreadRecord
  <2>3. f \in [Id -> ThreadRecord] BY <2>1, ThreadField DEF TypeOK
  <2> HIDE DEF f
  <2>4. [f EXCEPT ![th[t].child].pc = "run"] \in [Id -> ThreadRecord]
    BY <2>1, <2>2, <2>3, ThreadField
  <2> QED BY <1>5, <2>4 DEF SpawnThread, TypeOK, f
<1>6. CASE SpawnThreadFails(t)
  <2> DEFINE c == th[t].child
             box == iso[c].mailbox
             f == [th EXCEPT ![t] = Unwound(t, TRUE)]
  <2>1. c \in Id /\ box \in Id BY DEF TypeOK, ThreadRecord, IsolateRecord
  <2>2. mb[box] \in MailboxOf(Id) BY <2>1 DEF TypeOK
  <2>3. Vacate(mb[box]) \in MailboxOf(Id) /\ Close(mb[box]) \in MailboxOf(Id)
    BY <2>2, EndType
  <2>4. mailboxes' \subseteq Id /\ mb' \in [Id -> MailboxOf(Id)]
    BY <1>6, <2>1, <2>3 DEF SpawnThreadFails, TypeOK
  <2>5. "done" \in Pcs BY DEF Pcs
  <2>6. f \in [Id -> ThreadRecord] BY ThreadLeaves, ThreadField DEF TypeOK
  <2> HIDE DEF f
  <2>7. [f EXCEPT ![c].pc = "done"] \in [Id -> ThreadRecord] BY <2>1, <2>5, <2>6, ThreadField
  <2>8. th' \in [Id -> ThreadRecord] BY <1>6, <2>7 DEF SpawnThreadFails, f
  <2> QED BY <1>6, <2>4, <2>8 DEF SpawnThreadFails, TypeOK
<1>7. CASE SpawnRegister(t)
  <2>1. th[t].child \in Id BY DEF TypeOK, ThreadRecord
  <2>2. Returned(t) \in ThreadRecord BY ThreadLeaves
  <2> QED BY <1>7, <2>1, <2>2 DEF SpawnRegister, TypeOK
<1>8. CASE JoinTask(t, b)
  <2>1. "join" \in Pcs BY DEF Pcs
  <2>2. iso' \in [Id -> IsolateRecord]
    <3>1. [iso EXCEPT ![b].claimed = TRUE] \in [Id -> IsolateRecord]
      BY DEF TypeOK, IsolateRecord
    <3> QED BY <1>8, <3>1 DEF JoinTask
  <2> QED BY <1>8, <2>1, <2>2, ThreadEnters DEF JoinTask, TypeOK
<1>9. CASE JoinReturns(t)
  <2>1. th[t].arg \in Id BY DEF TypeOK, ThreadRecord
  <2>2. iso' \in [Id -> IsolateRecord]
    <3>1. [iso EXCEPT ![th[t].arg].joined = TRUE] \in [Id -> IsolateRecord]
      BY <2>1 DEF TypeOK, IsolateRecord
    <3> QED BY <1>9, <3>1 DEF JoinReturns
  <2>3. Returned(t) \in ThreadRecord BY ThreadLeaves
  <2> QED BY <1>9, <2>2, <2>3 DEF JoinReturns, TypeOK
<1> QED BY <1>1, <1>2, <1>3, <1>4, <1>5, <1>6, <1>7, <1>8, <1>9

\* Addresses.
LEMMA AddressTypes ==
  ASSUME TypeInv, NEW t \in Id, NEW b \in Id,
         \/ NewSlot(t) \/ ReleaseSlot(t, b) \/ ReleaseErase(t) \/ ReleaseClose(t)
         \/ ReleaseRetire(t) \/ NewInbox(t) \/ CloseInbox(t, b) \/ CloseInboxDone(t)
  PROVE TypeOK'
<1> USE DEF TypeInv, history
<1>a. th[t].arg \in Id /\ mb[th[t].arg] \in MailboxOf(Id) BY DEF TypeOK, ThreadRecord
<1>b. Close(mb[th[t].arg]) \in MailboxOf(Id) /\ Retire(mb[th[t].arg]) \in MailboxOf(Id)
  BY <1>a, EndType
<1>c. Returned(t) \in ThreadRecord BY ThreadLeaves
<1>d. {"slot", "inbox"} \subseteq Kinds BY DEF Kinds
<1>e. {"rel_erase", "rel_close", "rel_retire", "close_inbox"} \subseteq Pcs BY DEF Pcs
<1>1. CASE NewSlot(t)
  <2>1. next_id \in Id /\ next_id \in 1 .. MaxId BY <1>1, FreshId DEF NewSlot
  <2>2. mailboxes' \subseteq Id /\ mb' \in [Id -> MailboxOf(Id)]
    BY <1>1, <2>1, AddMailboxType DEF NewSlot
  <2>3. next_id' \in 1 .. MaxId + 1 /\ kind' \in [Id -> Kinds]
    BY <1>1, <1>d, <2>1, MaxIdAssumption DEF NewSlot, TakeId, TypeOK
  <2> QED BY <1>1, <2>2, <2>3 DEF NewSlot, TypeOK
<1>2. CASE ReleaseSlot(t, b)
  BY <1>2, <1>e, ThreadEnters DEF ReleaseSlot, TypeOK
<1>3. CASE ReleaseErase(t)
  BY <1>3, <1>e, ThreadField DEF ReleaseErase, TypeOK
<1>4. CASE ReleaseClose(t)
  BY <1>4, <1>a, <1>b, <1>e, ThreadField DEF ReleaseClose, TypeOK
<1>5. CASE ReleaseRetire(t)
  BY <1>5, <1>a, <1>b, <1>c DEF ReleaseRetire, TypeOK
<1>6. CASE NewInbox(t)
  <2>1. next_id \in Id /\ next_id \in 1 .. MaxId BY <1>6, FreshId DEF NewInbox
  <2>2. mailboxes' \subseteq Id /\ mb' \in [Id -> MailboxOf(Id)]
    BY <1>6, <2>1, AddMailboxType DEF NewInbox
  <2>3. next_id' \in 1 .. MaxId + 1 /\ kind' \in [Id -> Kinds]
    BY <1>6, <1>d, <2>1, MaxIdAssumption DEF NewInbox, TakeId, TypeOK
  <2> QED BY <1>6, <2>2, <2>3 DEF NewInbox, TypeOK
<1>7. CASE CloseInbox(t, b)
  BY <1>7, <1>e, ThreadEnters DEF CloseInbox, TypeOK
<1>8. CASE CloseInboxDone(t)
  BY <1>8, <1>a, <1>b, <1>c DEF CloseInboxDone, TypeOK
<1> QED BY <1>1, <1>2, <1>3, <1>4, <1>5, <1>6, <1>7, <1>8

\* Mail.
LEMMA MailTypes ==
  ASSUME TypeInv, NEW t \in Id, NEW b \in Id, NEW c \in Id,
         \/ Send(t, b) \/ Receive(t, b) \/ StopActor(t, b) \/ StopList(t) \/ StopPut(t, b)
         \/ Monitor(t, b, c) \/ MonitorGone(t, b, c)
  PROVE TypeOK'
<1> USE DEF TypeInv, history
<1>a. /\ mb \in [Id -> MailboxOf(Id)] /\ th \in [Id -> ThreadRecord]
      /\ \A x \in Id : mb[x] \in MailboxOf(Id) /\ mb[x].owner \in Id \cup {NO_OWNER}
  BY DEF TypeOK, MailboxOf
<1>b. Stop \in MailOf(Id) /\ Msg(mb[b].owner) \in MailOf(Id) /\ Exited(c, "gone") \in MailOf(Id)
  BY <1>a DEF Stop, Msg, Exited, MailOf
<1>c. Returned(t) \in ThreadRecord /\ {"stop_list", "stop_put"} \subseteq Pcs
  BY ThreadLeaves DEF Pcs
<1>1. CASE Send(t, b)
  <2>1. Offer(mb[b], Msg(mb[b].owner), Capacity) \in MailboxOf(Id)
    BY <1>a, <1>b, OfferType
  <2> QED BY <1>1, <2>1 DEF Send, TypeOK
<1>2. CASE Receive(t, b)
  <2> DEFINE stop == th[t].stop \/ TakenKind(mb[b]) = "stop"
  <2>1. Take(mb[b]) \in MailboxOf(Id) BY <1>a, TakeType
  <2>2. mb' \in [Id -> MailboxOf(Id)] BY <1>2, <1>a, <2>1 DEF Receive
  <2>3. stop \in BOOLEAN OBVIOUS
  <2>4. [th EXCEPT ![t].stop = stop] \in [Id -> ThreadRecord] BY <1>a, <2>3, ThreadField
  <2>5. th' \in [Id -> ThreadRecord] BY <1>2, <2>4 DEF Receive
  <2> QED BY <1>2, <2>2, <2>5 DEF Receive, TypeOK
<1>3. CASE StopActor(t, b)
  <2>1. mb[b].owner \in Id BY <1>3, <1>a DEF StopActor
  <2> QED BY <1>3, <1>c, <2>1, ThreadEnters DEF StopActor, TypeOK
<1>4. CASE StopList(t)
  <2> DEFINE boxes == MailboxesOf(th[t].arg)
             r == [th[t] EXCEPT !.pc = "stop_put"]
  <2>1. boxes \in SUBSET Id BY DEF MailboxesOf, TypeOK
  <2>2. r \in ThreadRecord BY <1>a, <1>c, RecordField
  <2> HIDE DEF r, boxes
  <2>3. [r EXCEPT !.todo = boxes] \in ThreadRecord BY <2>1, <2>2, RecordField
  <2>4. [th[t] EXCEPT !.pc = "stop_put", !.todo = boxes] \in ThreadRecord BY <2>3 DEF r
  <2>5. th' \in [Id -> ThreadRecord] BY <1>4, <1>a, <1>c, <2>4 DEF StopList, boxes
  <2> QED BY <1>4, <2>5 DEF StopList, TypeOK
<1>5. CASE StopPut(t, b)
  <2>1. Put(mb[b], Stop) \in MailboxOf(Id) BY <1>a, <1>b, PutType
  <2>2. mb' \in [Id -> MailboxOf(Id)] BY <1>5, <1>a, <2>1 DEF StopPut
  <2>3. th[t].todo \ {b} \in SUBSET Id BY <1>a DEF ThreadRecord
  <2>4. [th[t] EXCEPT !.todo = th[t].todo \ {b}] \in ThreadRecord
    BY <1>a, <2>3, RecordField
  <2> DEFINE left == th[t].todo \ {b}
             r == IF left = {} THEN Returned(t) ELSE [th[t] EXCEPT !.todo = left]
  <2>6. r \in ThreadRecord BY <1>c, <2>4
  <2>7. th' = [th EXCEPT ![t] = r] BY <1>5, <1>a DEF StopPut
  <2> HIDE DEF r
  <2>5. th' \in [Id -> ThreadRecord] BY <1>a, <2>6, <2>7, ThreadField
  <2> QED BY <1>5, <2>2, <2>5 DEF StopPut, TypeOK
<1>6. CASE Monitor(t, b, c)
  <2> DEFINE a == mb[c].owner
  <2>1. a \in Id
    <3>1. a > 0 BY <1>6 DEF Monitor, Watchable
    <3> QED BY <1>a, <3>1 DEF NO_OWNER
  <2>2. iso \in [Id -> IsolateRecord] BY DEF TypeOK
  <2> DEFINE w == Append(iso[a].watchers, b)
  <2>3. iso' = [iso EXCEPT ![a].watchers = w] /\ asked' = [asked EXCEPT ![a][b] = @ + 1]
    BY <1>6, <2>1, <2>2 DEF Monitor
  <2> HIDE DEF a
  <2>4. iso[a].watchers \in Seq(Id) BY <2>1, <2>2 DEF IsolateRecord
  <2>7. w \in Seq(Id) BY <2>4
  <2> HIDE DEF w
  <2>5. iso' \in [Id -> IsolateRecord] BY <2>1, <2>2, <2>3, <2>7 DEF IsolateRecord
  <2>6. asked' \in [Id -> [Id -> Nat]] BY <2>1, <2>3, CountedUp DEF TypeOK
  <2>10. requests' = requests + 1 BY <1>6 DEF Monitor
  <2>8. requests' \in Nat BY <2>10 DEF TypeOK
  <2>9. UNCHANGED <<next_id, kind, mailboxes, mb, isolates, stopping, th, told>>
    BY <1>6 DEF Monitor
  <2> QED BY <2>5, <2>6, <2>8, <2>9 DEF TypeOK
<1>7. CASE MonitorGone(t, b, c)
  <2>1. Put(mb[b], Exited(c, "gone")) \in MailboxOf(Id) BY <1>a, <1>b, PutType
  <2>2. mb' \in [Id -> MailboxOf(Id)] BY <1>7, <1>a, <2>1 DEF MonitorGone
  <2>3. asked' \in [Id -> [Id -> Nat]] /\ told' \in [Id -> [Id -> Nat]]
    BY <1>7 DEF MonitorGone, TypeOK
  <2> QED BY <1>7, <2>2, <2>3 DEF MonitorGone, TypeOK
<1> QED BY <1>1, <1>2, <1>3, <1>4, <1>5, <1>6, <1>7

\* The end of an isolate.
LEMMA EndTypes ==
  ASSUME TypeInv, NEW t \in Id, NEW b \in Id,
         \/ Return(t) \/ Fault(t) \/ EndErase(t) \/ EndClose(t, b) \/ EndTellStarter(t)
         \/ EndMark(t) \/ EndReport(t) \/ EndFinish(t)
  PROVE TypeOK'
<1> USE DEF TypeInv, history
<1>a. /\ mb \in [Id -> MailboxOf(Id)] /\ th \in [Id -> ThreadRecord]
      /\ \A x \in Id : mb[x] \in MailboxOf(Id)
      /\ iso \in [Id -> IsolateRecord]
  BY DEF TypeOK
<1>b. \A x \in {"fault", "normal"} : Exited(t, x) \in MailOf(Id) BY DEF Exited, MailOf
<1>c. {"close", "mark", "report", "done"} \subseteq Pcs BY DEF Pcs
<1>d. \A x \in BOOLEAN : Unwound(t, x) \in ThreadRecord BY ThreadLeaves
<1>1. CASE Return(t) BY <1>1, <1>a, <1>d DEF Return, TypeOK
<1>2. CASE Fault(t) BY <1>2, <1>a, <1>d DEF Fault, TypeOK
<1>3. CASE EndErase(t)
  <2> DEFINE f == [th EXCEPT ![t].pc = "close"]
  <2>1. MailboxesOf(t) \in SUBSET Id BY DEF MailboxesOf, TypeOK
  <2>2. f \in [Id -> ThreadRecord] BY <1>a, <1>c, ThreadField
  <2> HIDE DEF f
  <2>3. [f EXCEPT ![t].todo = MailboxesOf(t)] \in [Id -> ThreadRecord]
    BY <2>1, <2>2, ThreadField
  <2>4. th' \in [Id -> ThreadRecord] BY <1>3, <2>3 DEF EndErase, f
  <2> QED BY <1>3, <2>4 DEF EndErase, TypeOK
<1>4. CASE EndClose(t, b)
  <2>1. Vacate(mb[b]) \in MailboxOf(Id) /\ Close(mb[b]) \in MailboxOf(Id)
    BY <1>a, EndType
  <2>2. mb' \in [Id -> MailboxOf(Id)] BY <1>4, <1>a, <2>1 DEF EndClose
  <2>3. th[t].todo \ {b} \in SUBSET Id BY <1>a DEF ThreadRecord
  <2>4. [th EXCEPT ![t].todo = th[t].todo \ {b}] \in [Id -> ThreadRecord]
    BY <1>a, <2>3, ThreadField
  <2>5. th' \in [Id -> ThreadRecord] BY <1>4, <2>4 DEF EndClose
  <2> QED BY <1>4, <2>2, <2>5 DEF EndClose, TypeOK
<1>5. CASE EndTellStarter(t)
  <2>1. \A x \in Id : Put(mb[x], Exited(t, "fault")) \in MailboxOf(Id)
    BY <1>a, <1>b, PutType
  <2>2. mb' \in [Id -> MailboxOf(Id)] BY <1>5, <1>a, <2>1 DEF EndTellStarter
  <2>3. th' \in [Id -> ThreadRecord] BY <1>5, <1>a, <1>c, ThreadField DEF EndTellStarter
  <2> QED BY <1>5, <2>2, <2>3 DEF EndTellStarter, TypeOK
<1>6. CASE EndMark(t)
  <2> DEFINE f == [th EXCEPT ![t].pc = "report"]
             g == [iso EXCEPT ![t].ended = TRUE]
  <2>1. iso[t].watchers \in Seq(Id) BY <1>a DEF IsolateRecord
  <2>2. f \in [Id -> ThreadRecord] BY <1>a, <1>c, ThreadField
  <2>3. g \in [Id -> IsolateRecord] BY <1>a DEF IsolateRecord
  <2> HIDE DEF f, g
  <2>4. [f EXCEPT ![t].due = iso[t].watchers] \in [Id -> ThreadRecord]
    BY <2>1, <2>2, ThreadField
  <2>5. [g EXCEPT ![t].watchers = <<>>] \in [Id -> IsolateRecord]
    <3>1. <<>> \in Seq(Id) OBVIOUS
    <3> QED BY <2>3, <3>1 DEF IsolateRecord
  <2>6. th' \in [Id -> ThreadRecord] BY <1>6, <2>4 DEF EndMark, f
  <2>7. iso' \in [Id -> IsolateRecord] BY <1>6, <2>5 DEF EndMark, g
  <2> QED BY <1>6, <2>6, <2>7 DEF EndMark, TypeOK
<1>7. CASE EndReport(t)
  <2> DEFINE h == Head(th[t].due)
             reason == IF th[t].faulted THEN "fault" ELSE "normal"
             news == IF h \in mailboxes THEN Put(mb[h], Exited(t, reason)) ELSE mb[h]
  <2>1. th[t].due \in Seq(Id) /\ th[t].due # <<>> BY <1>7, <1>a DEF EndReport, ThreadRecord
  <2>2. h \in Id /\ Tail(th[t].due) \in Seq(Id) BY <2>1
  <2>3. Put(mb[h], Exited(t, reason)) \in MailboxOf(Id) BY <1>a, <1>b, <2>2, PutType
  <2>8. news \in MailboxOf(Id) BY <1>a, <2>2, <2>3
  <2>9. mb' = [mb EXCEPT ![h] = news] BY <1>7, <1>a, <2>2 DEF EndReport
  <2>4. mb' \in [Id -> MailboxOf(Id)] BY <1>a, <2>2, <2>8, <2>9
  <2>5. [th EXCEPT ![t].due = Tail(th[t].due)] \in [Id -> ThreadRecord]
    BY <1>a, <2>2, ThreadField
  <2>6. th' \in [Id -> ThreadRecord] BY <1>7, <2>5 DEF EndReport
  <2>10. told' = [told EXCEPT ![t][h] = @ + 1] BY <1>7 DEF EndReport
  <2> HIDE DEF h
  <2>7. told' \in [Id -> [Id -> Nat]] BY <2>2, <2>10, CountedUp DEF TypeOK
  <2> QED BY <1>7, <2>4, <2>6, <2>7 DEF EndReport, TypeOK
<1>8. CASE EndFinish(t) BY <1>8, <1>a, <1>c, ThreadField DEF EndFinish, TypeOK
<1> QED BY <1>1, <1>2, <1>3, <1>4, <1>5, <1>6, <1>7, <1>8

\* The end of the world.
LEMMA WorldTypes ==
  ASSUME TypeInv, World
  PROVE TypeOK'
<1> USE DEF TypeInv, history
<1>a. Root \in Id BY MaxIdAssumption DEF Root, Id
<1>b. /\ mb \in [Id -> MailboxOf(Id)] /\ th \in [Id -> ThreadRecord]
      /\ \A x \in Id : mb[x] \in MailboxOf(Id)
  BY DEF TypeOK
<1>c. {"world_join", "world_wait", "gone"} \subseteq Pcs BY DEF Pcs
<1>d. [Returned(Root) EXCEPT !.pc = "world_join"] \in ThreadRecord
  BY <1>a, <1>c, ThreadLeaves
<1>1. CASE WorldStop
  <2>1. Stop \in MailOf(Id) BY DEF Stop, MailOf
  <2>2. \A x \in Id : Put(mb[x], Stop) \in MailboxOf(Id) BY <1>b, <2>1, PutType
  <2>3. \A x \in Id : Release(mb[x]) \in MailboxOf(Id) /\ Release(Put(mb[x], Stop)) \in MailboxOf(Id)
    BY <1>b, <2>2, EndType
  <2>4. mb' \in [Id -> MailboxOf(Id)] BY <1>1, <1>b, <2>3 DEF WorldStop
  <2> QED BY <1>1, <1>a, <1>b, <1>d, <2>4 DEF WorldStop, TypeOK
<1>2. ASSUME NEW i \in Id, WorldPick(i) PROVE TypeOK'
  BY <1>2, <1>a, <1>c, ThreadEnters DEF WorldPick, TypeOK
<1>3. CASE WorldJoined
  <2>1. th[Root].arg \in Id BY <1>a, <1>b DEF ThreadRecord
  <2>2. [iso EXCEPT ![th[Root].arg].joined = TRUE] \in [Id -> IsolateRecord]
    BY <2>1 DEF TypeOK, IsolateRecord
  <2>3. iso' \in [Id -> IsolateRecord] BY <1>3, <2>2 DEF WorldJoined
  <2> QED BY <1>3, <1>a, <1>b, <1>d, <2>3 DEF WorldJoined, TypeOK
<1>4. CASE WorldGone
  <2>1. \A x \in Id : Close(mb[x]) \in MailboxOf(Id) BY <1>b, EndType
  <2>2. mb' \in [Id -> MailboxOf(Id)] BY <1>4, <1>b, <2>1 DEF WorldGone
  <2> QED BY <1>4, <1>a, <1>b, <1>c, <2>2, ThreadField DEF WorldGone, TypeOK
<1> QED BY <1>1, <1>2, <1>3, <1>4 DEF World

-----------------------------------------------------------------------------
(* Lives.                                                                  *)

Pc(t) == th[t].pc
Child(t) == th[t].child
Started(i) == kind[i] \in {"actor", "task"}

\* Only isolates and the root have a thread.
ThreadsHaveIsolates ==
  /\ kind[Root] = "root"
  /\ \A t \in Id : Pc(t) # "none" => t = Root \/ Started(t)

\* Joined is who has ended.
JoinedHaveEnded == \A i \in Id : iso[i].joined => Pc(i) = "done"

\* A thread that starts an isolate: the record is younger, has one starter, and no thread
\* of its own before it is made.
Starting(t) == Pc(t) \in {"thread", "register"}

StartersAreOlder == \A t \in Id : Starting(t) => t < Child(t)

UnmadeHaveOneStarter ==
  \A t \in Id : Pc(t) = "thread" =>
    /\ Started(Child(t)) /\ Pc(Child(t)) = "born"
    /\ \A u \in Id : Pc(u) = "thread" /\ Child(u) = Child(t) => u = t

\* The ids that are not given out yet.
FreshIdsAreUnused == \A i \in Id : i >= next_id => kind[i] = "none" /\ Pc(i) = "none"

LifeInv ==
  /\ ThreadsHaveIsolates
  /\ JoinedHaveEnded
  /\ StartersAreOlder
  /\ UnmadeHaveOneStarter
  /\ FreshIdsAreUnused
  /\ StartersStand
  /\ WorldOutlivesIsolates

-----------------------------------------------------------------------------
(* What an assignment to a thread does to where it is and what it starts.  *)

\* An assignment to a field of one thread leaves the other fields and the other threads.
LEMMA ThreadReads ==
  ASSUME NEW f \in [Id -> ThreadRecord], NEW t \in Id, NEW x \in Id
  PROVE /\ \A r : [f EXCEPT ![t] = r][x] = IF x = t THEN r ELSE f[x]
        /\ \A p : /\ [f EXCEPT ![t].pc = p][x].pc = IF x = t THEN p ELSE f[x].pc
                  /\ [f EXCEPT ![t].pc = p][x].child = f[x].child
        /\ \A s : /\ [f EXCEPT ![t].arg = s][x].pc = f[x].pc
                  /\ [f EXCEPT ![t].arg = s][x].child = f[x].child
        /\ \A s : /\ [f EXCEPT ![t].todo = s][x].pc = f[x].pc
                  /\ [f EXCEPT ![t].todo = s][x].child = f[x].child
        /\ \A s : /\ [f EXCEPT ![t].due = s][x].pc = f[x].pc
                  /\ [f EXCEPT ![t].due = s][x].child = f[x].child
        /\ \A s : /\ [f EXCEPT ![t].stop = s][x].pc = f[x].pc
                  /\ [f EXCEPT ![t].stop = s][x].child = f[x].child
        /\ \A s : /\ [f EXCEPT ![t].child = s][x].pc = f[x].pc
                  /\ [f EXCEPT ![t].child = s][x].child = IF x = t THEN s ELSE f[x].child
BY DEF ThreadRecord

\* The same for the records of the isolates.
LEMMA RecordReads ==
  ASSUME NEW r \in ThreadRecord
  PROVE /\ \A p : [r EXCEPT !.pc = p].pc = p
        /\ \A s : /\ [r EXCEPT !.arg = s].pc = r.pc
                  /\ [r EXCEPT !.child = s].pc = r.pc
                  /\ [r EXCEPT !.todo = s].pc = r.pc
                  /\ [r EXCEPT !.faulted = s].pc = r.pc
BY DEF ThreadRecord

\* A thread that comes back to its program is there, one that leaves it is where Unwind says.
LEMMA LeavesAt ==
  ASSUME TypeOK, NEW t \in Id
  PROVE /\ Returned(t).pc = "run"
        /\ \A p \in Pcs : [Returned(t) EXCEPT !.pc = p].pc = p
        /\ \A x \in BOOLEAN : Unwound(t, x).pc = Unwind(t)
<1> DEFINE a == [th[t] EXCEPT !.pc = "run"]
           b == [a EXCEPT !.arg = Root]
           c == [b EXCEPT !.child = Root]
<1>1. "run" \in Pcs /\ Root \in Id /\ {} \in SUBSET Id /\ Unwind(t) \in Pcs
  BY MaxIdAssumption DEF Pcs, Id, Root, Unwind
<1>2. th[t] \in ThreadRecord BY DEF TypeOK
<1>3. a \in ThreadRecord /\ a.pc = "run" BY <1>1, <1>2, RecordField, RecordReads
<1> HIDE DEF a
<1>4. b \in ThreadRecord /\ b.pc = "run" BY <1>1, <1>3, RecordField, RecordReads
<1> HIDE DEF b
<1>5. c \in ThreadRecord /\ c.pc = "run" BY <1>1, <1>4, RecordField, RecordReads
<1> HIDE DEF c
<1>6. [c EXCEPT !.todo = {}].pc = "run" BY <1>5, RecordReads
<1>7. Returned(t).pc = "run" BY <1>6 DEF Returned, a, b, c
<1>8. \A p \in Pcs : [Returned(t) EXCEPT !.pc = p].pc = p
  BY ThreadLeaves, RecordReads
<1>9. ASSUME NEW x \in BOOLEAN PROVE Unwound(t, x).pc = Unwind(t)
  <2> DEFINE d == [Returned(t) EXCEPT !.pc = Unwind(t)]
  <2>1. d \in ThreadRecord /\ d.pc = Unwind(t) BY <1>1, <1>8, ThreadLeaves
  <2> HIDE DEF d
  <2>2. [d EXCEPT !.faulted = x].pc = Unwind(t) BY <2>1, RecordReads
  <2> QED BY <2>2 DEF Unwound, d
<1> QED BY <1>7, <1>8, <1>9

-----------------------------------------------------------------------------
(* Most steps take one thread from a place outside the start of isolates   *)
(* to another one, and join at most who has ended.                         *)

\* The places where a thread neither starts an isolate nor is over.
Settled == Pcs \ {"none", "born", "into", "thread", "register", "done", "gone"}

\* Thread t alone goes on.
Moves(t) ==
  /\ Pc(t) \in Settled
  /\ Pc(t)' \in Settled \cup {"into", "done"}
  /\ \A x \in Id \ {t} : Pc(x)' = Pc(x) /\ Child(x)' = Child(x)

\* It does not reserve an id on its way.
Goes(t) == Moves(t) /\ Pc(t)' # "into"

\* No record is registered, and joined is marked only of who has ended.
RecordsStay ==
  /\ isolates' = isolates
  /\ \A x \in Id : (iso[x].joined)' => iso[x].joined \/ Pc(x) = "done"

\* An id that is taken names an address.
IdsStay ==
  \/ next_id' = next_id /\ kind' = kind
  \/ IdsLeft /\ (TakeId("slot") \/ TakeId("inbox"))

Ordinary(t) == Goes(t) /\ RecordsStay /\ IdsStay

\* The shapes of such a step.
LEMMA GoesBy ==
  ASSUME TypeOK, NEW t \in Id, Pc(t) \in Settled, NEW p \in Settled \cup {"done"}
  PROVE /\ th' = th => Goes(t)
        /\ th' = [th EXCEPT ![t].pc = p] => Goes(t)
        /\ \A s \in Id : th' = [th EXCEPT ![t].pc = p, ![t].arg = s] => Goes(t)
        /\ \A s \in SUBSET Id : th' = [th EXCEPT ![t].pc = p, ![t].todo = s] => Goes(t)
        /\ \A s \in Seq(Id) : th' = [th EXCEPT ![t].pc = p, ![t].due = s] => Goes(t)
        /\ \A s \in SUBSET Id : th' = [th EXCEPT ![t].todo = s] => Goes(t)
        /\ \A s \in Seq(Id) : th' = [th EXCEPT ![t].due = s] => Goes(t)
        /\ \A s \in BOOLEAN : th' = [th EXCEPT ![t].stop = s] => Goes(t)
        /\ \A r \in ThreadRecord :
             r.pc = p /\ th' = [th EXCEPT ![t] = r] => Goes(t)
<1> DEFINE f == [th EXCEPT ![t].pc = p]
<1>0. Pc(t) # "into" /\ p # "into" BY DEF Settled
<1>1. th \in [Id -> ThreadRecord] /\ p \in Pcs BY DEF TypeOK, Settled, Pcs
<1>2. f \in [Id -> ThreadRecord] BY <1>1, ThreadField
<1>3. \A x \in Id : f[x].pc = (IF x = t THEN p ELSE th[x].pc) /\ f[x].child = th[x].child
  BY <1>1, ThreadReads
<1>4. CASE th' = th BY <1>4, <1>0 DEF Goes, Moves, Pc, Child
<1>5. CASE th' = f BY <1>3, <1>5, <1>0 DEF Goes, Moves, Pc, Child
<1>6. ASSUME NEW s \in Id, th' = [th EXCEPT ![t].pc = p, ![t].arg = s] PROVE Goes(t)
  <2>1. th' = [f EXCEPT ![t].arg = s] BY <1>6
  <2> HIDE DEF f
  <2> QED BY <1>2, <1>3, <2>1, ThreadReads, <1>0 DEF Goes, Moves, Pc, Child
<1>7. ASSUME NEW s \in SUBSET Id, th' = [th EXCEPT ![t].pc = p, ![t].todo = s] PROVE Goes(t)
  <2>1. th' = [f EXCEPT ![t].todo = s] BY <1>7
  <2> HIDE DEF f
  <2> QED BY <1>2, <1>3, <2>1, ThreadReads, <1>0 DEF Goes, Moves, Pc, Child
<1>8. ASSUME NEW s \in Seq(Id), th' = [th EXCEPT ![t].pc = p, ![t].due = s] PROVE Goes(t)
  <2>1. th' = [f EXCEPT ![t].due = s] BY <1>8
  <2> HIDE DEF f
  <2> QED BY <1>2, <1>3, <2>1, ThreadReads, <1>0 DEF Goes, Moves, Pc, Child
<1>9. ASSUME NEW s, \/ th' = [th EXCEPT ![t].todo = s] \/ th' = [th EXCEPT ![t].due = s]
                    \/ th' = [th EXCEPT ![t].stop = s]
      PROVE Goes(t)
  <2>1. ASSUME NEW x \in Id PROVE th'[x].pc = th[x].pc /\ th'[x].child = th[x].child
    <3>1. CASE th' = [th EXCEPT ![t].todo = s] BY <1>1, <3>1, ThreadReads
    <3>2. CASE th' = [th EXCEPT ![t].due = s] BY <1>1, <3>2, ThreadReads
    <3>3. CASE th' = [th EXCEPT ![t].stop = s] BY <1>1, <3>3, ThreadReads
    <3> QED BY <1>9, <3>1, <3>2, <3>3
  <2> QED BY <2>1, <1>0 DEF Goes, Moves, Pc, Child
<1>10. ASSUME NEW r \in ThreadRecord, r.pc = p, th' = [th EXCEPT ![t] = r] PROVE Goes(t)
  BY <1>1, <1>10, ThreadReads, <1>0 DEF Goes, Moves, Pc, Child
<1> QED BY <1>4, <1>5, <1>6, <1>7, <1>8, <1>9, <1>10

\* The places named by the actions.
LEMMA SettledPlaces ==
  ASSUME NEW t \in Id
  PROVE /\ {"run", "join", "close_inbox", "rel_erase", "rel_close", "rel_retire",
            "stop_list", "stop_put", "erase", "close", "mark", "report", "leave",
            "world_join", "world_wait"} \subseteq Settled
        /\ Unwind(t) \in Settled \cup {"done"}
BY DEF Settled, Pcs, Unwind

\* What joining and marking leave of the records.
LEMMA RecordsStayBy ==
  ASSUME TypeOK, isolates' = isolates
  PROVE /\ iso' = iso => RecordsStay
        /\ \A x \in Id : \A s : iso' = [iso EXCEPT ![x].claimed = s] => RecordsStay
        /\ \A x \in Id : \A s : iso' = [iso EXCEPT ![x].watchers = s] => RecordsStay
        /\ \A x \in Id : \A s : iso' = [iso EXCEPT ![x].ended = TRUE, ![x].watchers = s] => RecordsStay
        /\ \A x \in Id : Pc(x) = "done" /\ iso' = [iso EXCEPT ![x].joined = TRUE] => RecordsStay
<1>1. iso \in [Id -> IsolateRecord] BY DEF TypeOK
<1>2. ASSUME iso' = iso PROVE RecordsStay BY <1>2 DEF RecordsStay
<1>3. ASSUME NEW x \in Id, NEW s,
             \/ iso' = [iso EXCEPT ![x].claimed = s] \/ iso' = [iso EXCEPT ![x].watchers = s]
      PROVE RecordsStay
  BY <1>1, <1>3 DEF RecordsStay, IsolateRecord
<1>4. ASSUME NEW x \in Id, NEW s,
             iso' = [iso EXCEPT ![x].ended = TRUE, ![x].watchers = s]
      PROVE RecordsStay
  <2> DEFINE g == [iso EXCEPT ![x].ended = TRUE]
  <2>1. g \in [Id -> IsolateRecord] /\ \A y \in Id : g[y].joined = iso[y].joined
    BY <1>1 DEF IsolateRecord
  <2>2. iso' = [g EXCEPT ![x].watchers = s] BY <1>4
  <2> HIDE DEF g
  <2> QED BY <2>1, <2>2 DEF RecordsStay, IsolateRecord
<1>5. ASSUME NEW x \in Id, Pc(x) = "done", iso' = [iso EXCEPT ![x].joined = TRUE]
      PROVE RecordsStay
  BY <1>1, <1>5 DEF RecordsStay, IsolateRecord
<1> QED BY <1>2, <1>3, <1>4, <1>5

\* The actions of that kind: natives that join, address and stop isolates, ...
LEMMA NativesAreOrdinary ==
  ASSUME TypeInv, NEW t \in Id, NEW b \in Id,
         \/ JoinTask(t, b) \/ JoinReturns(t)
         \/ NewSlot(t) \/ ReleaseSlot(t, b) \/ ReleaseErase(t) \/ ReleaseClose(t)
         \/ ReleaseRetire(t) \/ NewInbox(t) \/ CloseInbox(t, b) \/ CloseInboxDone(t)
  PROVE Ordinary(t)
<1> USE SettledPlaces DEF TypeInv, At, Calling
<1>a. /\ TypeOK /\ th[t].arg \in Id BY DEF TypeOK, ThreadRecord
<1>b. Returned(t) \in ThreadRecord /\ Returned(t).pc = "run" BY ThreadLeaves, LeavesAt
<1>1. CASE JoinTask(t, b)
  <2>1. Goes(t) BY <1>1, GoesBy DEF JoinTask, Pc
  <2>2. RecordsStay BY <1>1, RecordsStayBy DEF JoinTask
  <2> QED BY <1>1, <2>1, <2>2 DEF JoinTask, Ordinary, IdsStay
<1>2. CASE JoinReturns(t)
  <2>1. Goes(t) BY <1>2, <1>b, GoesBy DEF JoinReturns, Pc
  <2>2. RecordsStay BY <1>2, <1>a, RecordsStayBy DEF JoinReturns, Pc
  <2> QED BY <1>2, <2>1, <2>2 DEF JoinReturns, Ordinary, IdsStay
<1>3. CASE NewSlot(t)
  <2>1. Goes(t) BY <1>3, GoesBy DEF NewSlot, Pc
  <2> QED BY <1>3, <2>1, RecordsStayBy DEF NewSlot, Ordinary, IdsStay
<1>4. CASE ReleaseSlot(t, b)
  <2>1. Goes(t) BY <1>4, GoesBy DEF ReleaseSlot, Pc
  <2> QED BY <1>4, <2>1, RecordsStayBy DEF ReleaseSlot, Ordinary, IdsStay
<1>5. CASE ReleaseErase(t)
  <2>1. Goes(t) BY <1>5, GoesBy DEF ReleaseErase, Pc
  <2> QED BY <1>5, <2>1, RecordsStayBy DEF ReleaseErase, Ordinary, IdsStay
<1>6. CASE ReleaseClose(t)
  <2>1. Goes(t) BY <1>6, GoesBy DEF ReleaseClose, Pc
  <2> QED BY <1>6, <2>1, RecordsStayBy DEF ReleaseClose, Ordinary, IdsStay
<1>7. CASE ReleaseRetire(t)
  <2>1. Goes(t) BY <1>7, <1>b, GoesBy DEF ReleaseRetire, Pc
  <2> QED BY <1>7, <2>1, RecordsStayBy DEF ReleaseRetire, Ordinary, IdsStay
<1>8. CASE NewInbox(t)
  <2>1. Goes(t) BY <1>8, GoesBy DEF NewInbox, Pc
  <2> QED BY <1>8, <2>1, RecordsStayBy DEF NewInbox, Ordinary, IdsStay
<1>9. CASE CloseInbox(t, b)
  <2>1. Goes(t) BY <1>9, GoesBy DEF CloseInbox, Pc
  <2> QED BY <1>9, <2>1, RecordsStayBy DEF CloseInbox, Ordinary, IdsStay
<1>10. CASE CloseInboxDone(t)
  <2>1. Goes(t) BY <1>10, <1>b, GoesBy DEF CloseInboxDone, Pc
  <2> QED BY <1>10, <2>1, RecordsStayBy DEF CloseInboxDone, Ordinary, IdsStay
<1> QED BY <1>1, <1>2, <1>3, <1>4, <1>5, <1>6, <1>7, <1>8, <1>9, <1>10

\* ... mail, ...
LEMMA MailIsOrdinary ==
  ASSUME TypeInv, NEW t \in Id, NEW b \in Id, NEW c \in Id,
         \/ Send(t, b) \/ Receive(t, b) \/ StopActor(t, b) \/ StopList(t) \/ StopPut(t, b)
         \/ Monitor(t, b, c) \/ MonitorGone(t, b, c)
  PROVE Ordinary(t)
<1> USE SettledPlaces DEF TypeInv, At, Calling
<1>a. /\ th \in [Id -> ThreadRecord] /\ iso \in [Id -> IsolateRecord]
      /\ \A x \in Id : mb[x].owner \in Id \cup {NO_OWNER}
  BY DEF TypeOK, MailboxOf
<1>b. Returned(t) \in ThreadRecord /\ Returned(t).pc = "run" BY ThreadLeaves, LeavesAt
<1>c. th[t] \in ThreadRecord /\ "stop_put" \in Pcs BY <1>a DEF Pcs
<1>1. CASE Send(t, b)
  <2>1. Goes(t) BY <1>1, GoesBy DEF Send, Pc
  <2> QED BY <1>1, <2>1, RecordsStayBy DEF Send, Ordinary, IdsStay
<1>2. CASE Receive(t, b)
  <2> DEFINE stop == th[t].stop \/ TakenKind(mb[b]) = "stop"
  <2>1. stop \in BOOLEAN /\ th' = [th EXCEPT ![t].stop = stop] BY <1>2 DEF Receive
  <2> HIDE DEF stop
  <2>2. Goes(t) BY <1>2, <2>1, GoesBy DEF Receive, Pc
  <2> QED BY <1>2, <2>2, RecordsStayBy DEF Receive, Ordinary, IdsStay
<1>3. CASE StopActor(t, b)
  <2>1. mb[b].owner \in Id BY <1>3, <1>a DEF StopActor
  <2>2. Goes(t) BY <1>3, <2>1, GoesBy DEF StopActor, Pc
  <2> QED BY <1>3, <2>2, RecordsStayBy DEF StopActor, Ordinary, IdsStay
<1>4. CASE StopList(t)
  <2> DEFINE boxes == MailboxesOf(th[t].arg)
             s == [th[t] EXCEPT !.pc = "stop_put"]
             r == [s EXCEPT !.todo = boxes]
  <2>1. boxes \in SUBSET Id BY DEF MailboxesOf, TypeOK
  <2>2. th' = [th EXCEPT ![t] = IF boxes = {} THEN Returned(t) ELSE r]
    BY <1>4, <1>a DEF StopList
  <2> HIDE DEF boxes
  <2>3. s \in ThreadRecord /\ s.pc = "stop_put" BY <1>c, RecordField, RecordReads
  <2> HIDE DEF s
  <2>4. r \in ThreadRecord /\ r.pc = "stop_put" BY <2>1, <2>3, RecordField, RecordReads
  <2> HIDE DEF r
  <2>5. Goes(t)
    <3>1. CASE boxes = {} BY <1>4, <1>b, <2>2, <3>1, GoesBy DEF StopList, Pc
    <3>2. CASE boxes # {} BY <1>4, <2>2, <2>4, <3>2, GoesBy DEF StopList, Pc
    <3> QED BY <3>1, <3>2
  <2> QED BY <1>4, <2>5, RecordsStayBy DEF StopList, Ordinary, IdsStay
<1>5. CASE StopPut(t, b)
  <2> DEFINE left == th[t].todo \ {b}
             r == [th[t] EXCEPT !.todo = left]
  <2>1. left \in SUBSET Id BY <1>c DEF ThreadRecord
  <2>2. th' = [th EXCEPT ![t] = IF left = {} THEN Returned(t) ELSE r]
    BY <1>5, <1>a DEF StopPut
  <2> HIDE DEF left
  <2>3. r \in ThreadRecord /\ r.pc = th[t].pc BY <1>c, <2>1, RecordField, RecordReads
  <2> HIDE DEF r
  <2>4. th[t].pc = "stop_put" BY <1>5 DEF StopPut
  <2>5. Goes(t)
    <3>1. CASE left = {} BY <1>b, <2>2, <2>4, <3>1, GoesBy DEF Pc
    <3>2. CASE left # {} BY <2>2, <2>3, <2>4, <3>2, GoesBy DEF Pc
    <3> QED BY <3>1, <3>2
  <2> QED BY <1>5, <2>5, RecordsStayBy DEF StopPut, Ordinary, IdsStay
<1>6. CASE Monitor(t, b, c)
  <2> DEFINE a == mb[c].owner
             w == Append(iso[a].watchers, b)
  <2>1. a \in Id
    <3>1. a > 0 BY <1>6 DEF Monitor, Watchable
    <3> QED BY <1>a, <3>1 DEF NO_OWNER
  <2>2. iso' = [iso EXCEPT ![a].watchers = w] BY <1>6, <1>a, <2>1 DEF Monitor
  <2>3. UNCHANGED <<next_id, kind, isolates, th>> /\ Calling(t, "monitor") BY <1>6 DEF Monitor
  <2> HIDE DEF a, w
  <2>4. Goes(t) BY <2>3, GoesBy DEF Pc
  <2>5. RecordsStay BY <2>1, <2>2, <2>3, RecordsStayBy
  <2> QED BY <2>3, <2>4, <2>5 DEF Ordinary, IdsStay
<1>7. CASE MonitorGone(t, b, c)
  <2>1. Goes(t) BY <1>7, GoesBy DEF MonitorGone, Pc
  <2> QED BY <1>7, <2>1, RecordsStayBy DEF MonitorGone, Ordinary, IdsStay
<1> QED BY <1>1, <1>2, <1>3, <1>4, <1>5, <1>6, <1>7

\* ... the end of a program and of an isolate, ...
LEMMA EndsAreOrdinary ==
  ASSUME TypeInv, NEW t \in Id, NEW b \in Id,
         \/ Return(t) \/ Fault(t) \/ EndErase(t) \/ EndClose(t, b) \/ EndTellStarter(t)
         \/ EndMark(t) \/ EndReport(t) \/ EndFinish(t)
  PROVE Ordinary(t)
<1> USE SettledPlaces DEF TypeInv, At, Calling
<1>a. th \in [Id -> ThreadRecord] /\ th[t] \in ThreadRecord /\ iso[t] \in IsolateRecord
  BY DEF TypeOK
<1>b. \A x \in BOOLEAN : Unwound(t, x) \in ThreadRecord /\ Unwound(t, x).pc = Unwind(t)
  BY ThreadLeaves, LeavesAt
<1>1. CASE Return(t)
  <2>1. Goes(t) BY <1>1, <1>b, GoesBy DEF Return, Pc
  <2> QED BY <1>1, <2>1, RecordsStayBy DEF Return, Ordinary, IdsStay
<1>2. CASE Fault(t)
  <2>1. Goes(t) BY <1>2, <1>b, GoesBy DEF Fault, Pc
  <2> QED BY <1>2, <2>1, RecordsStayBy DEF Fault, Ordinary, IdsStay
<1>3. CASE EndErase(t)
  <2>1. MailboxesOf(t) \in SUBSET Id BY DEF MailboxesOf, TypeOK
  <2>2. Goes(t) BY <1>3, <2>1, GoesBy DEF EndErase, Pc
  <2> QED BY <1>3, <2>2, RecordsStayBy DEF EndErase, Ordinary, IdsStay
<1>4. CASE EndClose(t, b)
  <2> DEFINE left == th[t].todo \ {b}
  <2>1. left \in SUBSET Id /\ th' = [th EXCEPT ![t].todo = left]
    BY <1>4, <1>a DEF EndClose, ThreadRecord
  <2> HIDE DEF left
  <2>2. Goes(t) BY <1>4, <2>1, GoesBy DEF EndClose, Pc
  <2> QED BY <1>4, <2>2, RecordsStayBy DEF EndClose, Ordinary, IdsStay
<1>5. CASE EndTellStarter(t)
  <2>1. Goes(t) BY <1>5, GoesBy DEF EndTellStarter, Pc
  <2> QED BY <1>5, <2>1, RecordsStayBy DEF EndTellStarter, Ordinary, IdsStay
<1>6. CASE EndMark(t)
  <2>1. iso[t].watchers \in Seq(Id) BY <1>a DEF IsolateRecord
  <2>2. Goes(t) BY <1>6, <2>1, GoesBy DEF EndMark, Pc
  <2>3. RecordsStay BY <1>6, RecordsStayBy DEF EndMark
  <2> QED BY <1>6, <2>2, <2>3 DEF EndMark, Ordinary, IdsStay
<1>7. CASE EndReport(t)
  <2> DEFINE left == Tail(th[t].due)
  <2>1. th[t].due \in Seq(Id) /\ th[t].due # <<>> BY <1>7, <1>a DEF EndReport, ThreadRecord
  <2>2. left \in Seq(Id) BY <2>1
  <2>3. th' = [th EXCEPT ![t].due = left] BY <1>7, <1>a DEF EndReport
  <2> HIDE DEF left
  <2>4. Goes(t) BY <1>7, <2>2, <2>3, GoesBy DEF EndReport, Pc
  <2> QED BY <1>7, <2>4, RecordsStayBy DEF EndReport, Ordinary, IdsStay
<1>8. CASE EndFinish(t)
  <2>1. Goes(t) BY <1>8, GoesBy DEF EndFinish, Pc
  <2> QED BY <1>8, <2>1, RecordsStayBy DEF EndFinish, Ordinary, IdsStay
<1> QED BY <1>1, <1>2, <1>3, <1>4, <1>5, <1>6, <1>7, <1>8

\* ... and the joins of the destructor.
LEMMA JoinsAreOrdinary ==
  ASSUME TypeInv, WorldStop \/ (\E i \in Id : WorldPick(i)) \/ WorldJoined
  PROVE Ordinary(Root)
<1> USE SettledPlaces DEF TypeInv, At, Calling
<1>a. Root \in Id BY MaxIdAssumption DEF Root, Id
<1>b. th[Root].arg \in Id BY <1>a DEF TypeOK, ThreadRecord
<1>c. {"world_join", "leave"} \subseteq Pcs BY DEF Pcs
<1> DEFINE r == [Returned(Root) EXCEPT !.pc = "world_join"]
<1>d. r \in ThreadRecord /\ r.pc = "world_join" BY <1>a, <1>c, ThreadLeaves, LeavesAt
<1>1. CASE WorldStop
  <2>1. th' = [th EXCEPT ![Root] = r] /\ Pc(Root) \in {"run", "leave"}
    BY <1>1 DEF WorldStop, Pc
  <2> HIDE DEF r
  <2>2. Goes(Root) BY <1>a, <1>d, <2>1, GoesBy
  <2> QED BY <1>1, <2>2, RecordsStayBy DEF WorldStop, Ordinary, IdsStay
<1>2. ASSUME NEW i \in Id, WorldPick(i) PROVE Ordinary(Root)
  <2>1. Goes(Root) BY <1>2, <1>a, GoesBy DEF WorldPick, Pc
  <2> QED BY <1>2, <2>1, RecordsStayBy DEF WorldPick, Ordinary, IdsStay
<1>3. CASE WorldJoined
  <2>1. th' = [th EXCEPT ![Root] = r] /\ Pc(Root) = "world_wait" BY <1>3 DEF WorldJoined, Pc
  <2> HIDE DEF r
  <2>2. Goes(Root) BY <1>a, <1>d, <2>1, GoesBy
  <2>3. RecordsStay BY <1>3, <1>b, RecordsStayBy DEF WorldJoined, Pc
  <2> QED BY <1>3, <2>2, <2>3 DEF WorldJoined, Ordinary, IdsStay
<1> QED BY <1>1, <1>2, <1>3

-----------------------------------------------------------------------------
(* The ids that are left.                                                  *)

\* An ordinary step reserves no id, and takes one only if it is left.
LEMMA OrdinaryIdBound ==
  ASSUME TypeInv, NEW t \in Id, Ordinary(t)
  PROVE IdBound'
<1>1. Into' \subseteq Into BY DEF Into, At, Ordinary, Goes, Moves, Pc
<1>2. next_id' = next_id \/ (IdsLeft /\ next_id' = next_id + 1)
  BY DEF Ordinary, IdsStay, TakeId
<1> QED BY <1>1, <1>2, IdBoundKept

\* The slot check reserves an id, and is else like an ordinary step.
LEMMA SpawnIntoCheckMoves ==
  ASSUME TypeInv, NEW t \in Id, NEW s \in Id, SpawnIntoCheck(t, s)
  PROVE Moves(t) /\ RecordsStay /\ IdsStay /\ IdBound'
<1> DEFINE f == [th EXCEPT ![t].pc = "into"]
<1>1. th \in [Id -> ThreadRecord] /\ "into" \in Pcs BY DEF TypeInv, TypeOK, Pcs
<1>2. f \in [Id -> ThreadRecord] BY <1>1, ThreadField
<1>3. \A x \in Id : f[x].pc = (IF x = t THEN "into" ELSE th[x].pc) /\ f[x].child = th[x].child
  BY <1>1, ThreadReads
<1>4. th' = [f EXCEPT ![t].arg = s] BY DEF SpawnIntoCheck
<1> HIDE DEF f
<1>5. \A x \in Id : /\ th'[x].pc = (IF x = t THEN "into" ELSE th[x].pc)
                    /\ th'[x].child = th[x].child
  BY <1>2, <1>3, <1>4, ThreadReads
<1>6. Moves(t) BY <1>5, SettledPlaces DEF SpawnIntoCheck, Calling, At, Moves, Pc, Child
<1>7. RecordsStay /\ IdsStay
  BY RecordsStayBy DEF SpawnIntoCheck, IdsStay, TypeInv
<1>8. Into' = Into \cup {t} BY <1>5 DEF Into, At
<1>9. IdBound' BY <1>8, IdBoundReserved DEF SpawnIntoCheck
<1> QED BY <1>6, <1>7, <1>9

-----------------------------------------------------------------------------
(* The steps of starting an isolate, and the last one.                     *)

\* The record of isolate c is made by thread t.
Makes(t, c) ==
  /\ Pc(t) \in {"run", "into"} /\ c = next_id /\ next_id' = next_id + 1
  /\ \E k \in {"actor", "task"} : kind' = [kind EXCEPT ![c] = k]
  /\ isolates' = isolates
  /\ \A x \in Id : (iso[x].joined)' = iso[x].joined
  /\ \A x \in Id \ {t, c} : Pc(x)' = Pc(x) /\ Child(x)' = Child(x)
  /\ Pc(t)' = "thread" /\ Child(t)' = c
  /\ Pc(c)' = "born"

\* Its record and its thread's place, as NewIsolate leaves them.
LEMMA NewIsolateMakes ==
  ASSUME TypeInv, NEW t \in Id, NEW c \in Id, NEW k \in {"actor", "task"}, NEW box \in Id,
         c = next_id, t # c,
         Pc(t) \in {"run", "into"}, NewIsolate(t, k, box), isolates' = isolates
  PROVE Makes(t, c)
<1> DEFINE f == [th EXCEPT ![t].pc = "thread"]
           g == [f EXCEPT ![t].child = c]
           h == [iso EXCEPT ![c].starter = t]
<1>1. /\ th \in [Id -> ThreadRecord] /\ iso \in [Id -> IsolateRecord]
      /\ "thread" \in Pcs
  BY DEF TypeInv, TypeOK, Pcs
<1>2. /\ f \in [Id -> ThreadRecord]
      /\ \A x \in Id : /\ f[x].pc = (IF x = t THEN "thread" ELSE th[x].pc)
                       /\ f[x].child = th[x].child
  BY <1>1, ThreadField, ThreadReads
<1>3. th' = [g EXCEPT ![c].pc = "born"] BY DEF NewIsolate
<1> HIDE DEF f
<1>4. /\ g \in [Id -> ThreadRecord]
      /\ \A x \in Id : /\ g[x].pc = f[x].pc
                       /\ g[x].child = (IF x = t THEN c ELSE f[x].child)
  <2>1. g \in [Id -> ThreadRecord] BY <1>2, ThreadField
  <2>2. ASSUME NEW x \in Id
        PROVE g[x].pc = f[x].pc /\ g[x].child = (IF x = t THEN c ELSE f[x].child)
    BY <1>2, ThreadReads
  <2> QED BY <2>1, <2>2
<1> HIDE DEF g
<1>5. \A x \in Id : /\ th'[x].pc = (IF x = c THEN "born" ELSE g[x].pc)
                    /\ th'[x].child = g[x].child
  BY <1>3, <1>4, ThreadReads
<1>6. /\ h \in [Id -> IsolateRecord] /\ \A x \in Id : h[x].joined = iso[x].joined
      /\ iso' = [h EXCEPT ![c].mailbox = box]
  BY <1>1 DEF IsolateRecord, NewIsolate
<1> HIDE DEF h
<1>7. \A x \in Id : iso'[x].joined = iso[x].joined BY <1>6 DEF IsolateRecord
<1>8. next_id' = next_id + 1 /\ kind' = [kind EXCEPT ![c] = k]
  BY DEF NewIsolate, TakeId
<1>9. \A x \in Id \ {t, c} : Pc(x)' = Pc(x) /\ Child(x)' = Child(x)
  BY <1>2, <1>4, <1>5 DEF Pc, Child
<1>10. Pc(t)' = "thread" /\ Child(t)' = c /\ Pc(c)' = "born"
  BY <1>2, <1>4, <1>5 DEF Pc, Child
<1> QED BY <1>7, <1>8, <1>9, <1>10 DEF Makes

\* The thread of record c is made by thread t ...
Made(t, c) ==
  /\ Pc(t) = "thread" /\ c = Child(t)
  /\ next_id' = next_id /\ kind' = kind /\ isolates' = isolates /\ iso' = iso
  /\ \A x \in Id \ {t, c} : Pc(x)' = Pc(x) /\ Child(x)' = Child(x)
  /\ Pc(t)' = "register" /\ Child(t)' = c
  /\ Pc(c)' = "run"

\* ... or refused ...
Refused(t, c) ==
  /\ Pc(t) = "thread" /\ c = Child(t)
  /\ next_id' = next_id /\ kind' = kind /\ isolates' = isolates /\ iso' = iso
  /\ \A x \in Id \ {t, c} : Pc(x)' = Pc(x) /\ Child(x)' = Child(x)
  /\ Pc(t)' \in Settled \cup {"done"}
  /\ Pc(c)' = "done"

\* ... and the record is registered.
Registers(t, c) ==
  /\ Pc(t) = "register" /\ c = Child(t)
  /\ next_id' = next_id /\ kind' = kind /\ isolates' = isolates \cup {c} /\ iso' = iso
  /\ \A x \in Id \ {t} : Pc(x)' = Pc(x) /\ Child(x)' = Child(x)
  /\ Pc(t)' = "run"

\* The last step of the world.
Ends ==
  /\ Pc(Root) = "world_join" /\ \A i \in isolates : iso[i].joined
  /\ next_id' = next_id /\ kind' = kind /\ isolates' = isolates /\ iso' = iso
  /\ \A x \in Id \ {Root} : Pc(x)' = Pc(x) /\ Child(x)' = Child(x)
  /\ Pc(Root)' = "gone"

\* The actions take those steps.
LEMMA ThreadMadeOrRefused ==
  ASSUME TypeInv, NEW t \in Id, NEW c \in Id, c = Child(t), t # c
  PROVE /\ SpawnThread(t) => Made(t, c)
        /\ SpawnThreadFails(t) => Refused(t, c)
        /\ SpawnRegister(t) => Registers(t, c)
<1>1. /\ th \in [Id -> ThreadRecord] /\ {"register", "run", "done"} \subseteq Pcs
      /\ th[t].child = c
  BY DEF TypeInv, TypeOK, Pcs, Child
<1>2. ASSUME SpawnThread(t) PROVE Made(t, c)
  <2> DEFINE f == [th EXCEPT ![t].pc = "register"]
  <2>1. /\ f \in [Id -> ThreadRecord]
        /\ \A x \in Id : /\ f[x].pc = (IF x = t THEN "register" ELSE th[x].pc)
                         /\ f[x].child = th[x].child
    BY <1>1, ThreadField, ThreadReads
  <2>2. th' = [f EXCEPT ![c].pc = "run"] BY <1>1, <1>2 DEF SpawnThread
  <2> HIDE DEF f
  <2>3. \A x \in Id : /\ th'[x].pc = (IF x = c THEN "run" ELSE f[x].pc)
                      /\ th'[x].child = f[x].child
    BY <2>1, <2>2, ThreadReads
  <2>4. \A x \in Id \ {t, c} : Pc(x)' = Pc(x) /\ Child(x)' = Child(x)
    BY <2>1, <2>3 DEF Pc, Child
  <2>5. Pc(t)' = "register" /\ Child(t)' = c /\ Pc(c)' = "run"
    BY <1>1, <2>1, <2>3 DEF Pc, Child
  <2> QED BY <1>2, <2>4, <2>5 DEF SpawnThread, Made, Pc, At
<1>3. ASSUME SpawnThreadFails(t) PROVE Refused(t, c)
  <2> DEFINE f == [th EXCEPT ![t] = Unwound(t, TRUE)]
  <2>1. Unwound(t, TRUE) \in ThreadRecord /\ Unwound(t, TRUE).pc = Unwind(t)
    BY ThreadLeaves, LeavesAt DEF TypeInv
  <2>2. /\ f \in [Id -> ThreadRecord]
        /\ \A x \in Id : f[x] = (IF x = t THEN Unwound(t, TRUE) ELSE th[x])
    <3>1. f \in [Id -> ThreadRecord] BY <1>1, <2>1, ThreadField
    <3>2. \A x \in Id : f[x] = (IF x = t THEN Unwound(t, TRUE) ELSE th[x]) BY <1>1
    <3> QED BY <3>1, <3>2
  <2>3. th' = [f EXCEPT ![c].pc = "done"] BY <1>1, <1>3 DEF SpawnThreadFails
  <2> HIDE DEF f
  <2>4. \A x \in Id : /\ th'[x].pc = (IF x = c THEN "done" ELSE f[x].pc)
                      /\ th'[x].child = f[x].child
    BY <2>2, <2>3, ThreadReads
  <2>5. \A x \in Id \ {t, c} : Pc(x)' = Pc(x) /\ Child(x)' = Child(x)
    BY <2>2, <2>4 DEF Pc, Child
  <2>6. Pc(t)' = Unwind(t) /\ Pc(c)' = "done"
    BY <2>1, <2>2, <2>4 DEF Pc
  <2>7. Pc(t)' \in Settled \cup {"done"} BY <2>6, SettledPlaces
  <2>8. Pc(t) = "thread" /\ UNCHANGED <<next_id, kind, isolates, iso>>
    BY <1>3 DEF SpawnThreadFails, Pc, At
  <2> QED BY <2>5, <2>6, <2>7, <2>8 DEF Refused
<1>4. ASSUME SpawnRegister(t) PROVE Registers(t, c)
  <2>1. Returned(t) \in ThreadRecord /\ Returned(t).pc = "run"
    BY ThreadLeaves, LeavesAt DEF TypeInv
  <2>2. \A x \in Id : th'[x] = (IF x = t THEN Returned(t) ELSE th[x])
    BY <1>1, <1>4, ThreadReads DEF SpawnRegister
  <2> QED BY <1>1, <1>4, <2>1, <2>2 DEF SpawnRegister, Registers, Pc, Child, At
<1> QED BY <1>2, <1>3, <1>4

\* When the destructor has found nothing to join, nobody is left that lives.
LEMMA GoneEnds ==
  ASSUME TypeInv, WorldGone
  PROVE Ends
<1>1. Root \in Id BY MaxIdAssumption DEF Root, Id
<1>2. th \in [Id -> ThreadRecord] BY DEF TypeInv, TypeOK
<1>3. \A x \in Id : /\ th'[x].pc = (IF x = Root THEN "gone" ELSE th[x].pc)
                    /\ th'[x].child = th[x].child
  BY <1>1, <1>2, ThreadReads DEF WorldGone
<1> QED BY <1>1, <1>3 DEF WorldGone, Ends, Pc, Child, At

-----------------------------------------------------------------------------
(* The invariant is kept: one lemma per kind of step, one step in it per   *)
(* conjunct.                                                               *)

\* Who is alive, by where its thread is.
LEMMA AliveAt ==
  ASSUME NEW i \in Id
  PROVE Alive(i) <=> Started(i) /\ Pc(i) \notin {"none", "done"}
BY DEF Alive, Started, Pc

\* The root never starts out of the world's last state, and who goes on there lives.
LEMMA NobodyGoesOn ==
  ASSUME LifeInv, NEW t \in Id, Pc(t) \notin {"none", "done", "gone"}
  PROVE Pc(Root) # "gone"
<1> SUFFICES ASSUME Pc(Root) = "gone" PROVE FALSE OBVIOUS
<1>1. t # Root /\ Started(t) BY DEF LifeInv, ThreadsHaveIsolates
<1>2. Alive(t) BY <1>1, AliveAt
<1>3. ~Alive(t) BY DEF LifeInv, WorldOutlivesIsolates, At, Pc
<1> QED BY <1>2, <1>3

\* Addresses are no isolates.
LEMMA KindsKept ==
  ASSUME TypeInv, LifeInv, IdsStay
  PROVE /\ \A x \in Id : (Started(x))' <=> Started(x)
        /\ \A x \in Id : x >= next_id' => x >= next_id /\ kind'[x] = "none"
        /\ kind'[Root] = "root"
<1>1. next_id \in Nat /\ next_id >= 1 /\ Id \subseteq Nat /\ kind \in [Id -> Kinds]
  BY MaxIdAssumption DEF TypeInv, TypeOK, Id
<1>2. Root \in Id /\ kind[Root] = "root" /\ Root < next_id
  BY <1>1, MaxIdAssumption DEF Root, Id, LifeInv, ThreadsHaveIsolates
<1>3. \A x \in Id : x >= next_id => kind[x] = "none" BY DEF LifeInv, FreshIdsAreUnused
<1>4. CASE next_id' = next_id /\ kind' = kind BY <1>1, <1>2, <1>3, <1>4 DEF Started
<1>5. ASSUME NEW k \in {"slot", "inbox"}, TakeId(k)
      PROVE /\ \A x \in Id : (Started(x))' <=> Started(x)
            /\ \A x \in Id : x >= next_id' => x >= next_id /\ kind'[x] = "none"
            /\ kind'[Root] = "root"
  <2>1. \A x \in Id : kind'[x] = IF x = next_id THEN k ELSE kind[x] BY <1>1, <1>5 DEF TakeId
  <2>2. next_id' = next_id + 1 BY <1>5 DEF TakeId
  <2> QED BY <1>1, <1>2, <1>3, <2>1, <2>2 DEF Started
<1> QED BY <1>4, <1>5 DEF IdsStay

\* A step that starts nobody and ends nobody keeps the invariant, where it only moves a
\* thread that stays clear of the start of another.
LEMMA MovesKeepLife ==
  ASSUME TypeInv, LifeInv, NEW t \in Id, Moves(t), RecordsStay, IdsStay
  PROVE LifeInv'
<1>1. /\ Pc(t) \notin {"none", "born", "thread", "register", "done", "gone"}
      /\ Pc(t)' \notin {"none", "born", "thread", "register", "gone"}
  BY DEF Moves, Settled
<1>2. \A x \in Id \ {t} : Pc(x)' = Pc(x) /\ Child(x)' = Child(x) BY DEF Moves
<1>3. Root \in Id /\ \A x \in Id : Child(x) \in Id
  BY MaxIdAssumption DEF Root, Id, Child, TypeInv, TypeOK, ThreadRecord
<1>4. Pc(Root) # "gone" BY <1>1, NobodyGoesOn
<1>5. ThreadsHaveIsolates'
  BY <1>1, <1>2, KindsKept DEF LifeInv, ThreadsHaveIsolates
<1>6. JoinedHaveEnded'
  BY <1>1, <1>2 DEF LifeInv, JoinedHaveEnded, RecordsStay
<1>7. StartersAreOlder'
  BY <1>1, <1>2 DEF LifeInv, StartersAreOlder, Starting
<1>8. UnmadeHaveOneStarter'
  <2> SUFFICES ASSUME NEW u \in Id, Pc(u)' = "thread"
               PROVE /\ Started(Child(u))' /\ Pc(Child(u))' = "born"
                     /\ \A v \in Id : Pc(v)' = "thread" /\ Child(v)' = Child(u)' => v = u
    BY DEF UnmadeHaveOneStarter
  <2>1. u # t /\ Pc(u) = "thread" /\ Child(u)' = Child(u) BY <1>1, <1>2
  <2>2. PICK c \in Id : c = Child(u) BY <1>3
  <2>3. Started(c) /\ Pc(c) = "born" BY <2>1, <2>2 DEF LifeInv, UnmadeHaveOneStarter
  <2>4. c # t BY <1>1, <2>3
  <2>5. (Started(c))' /\ Pc(c)' = "born" BY <1>2, <2>3, <2>4, KindsKept
  <2>6. Started(Child(u))' /\ Pc(Child(u))' = "born" BY <2>1, <2>2, <2>5 DEF Started, Pc
  <2>7. ASSUME NEW v \in Id, Pc(v)' = "thread", Child(v)' = Child(u)' PROVE v = u
    <3>1. v # t /\ Pc(v) = "thread" /\ Child(v)' = Child(v) BY <1>1, <1>2, <2>7
    <3> QED BY <2>1, <2>7, <3>1 DEF LifeInv, UnmadeHaveOneStarter
  <2> QED BY <2>6, <2>7
<1>9. FreshIdsAreUnused'
  BY <1>1, <1>2, KindsKept DEF LifeInv, FreshIdsAreUnused
<1>10. StartersStand'
  <2> SUFFICES ASSUME NEW i \in Id, Alive(i)', i \notin isolates'
               PROVE \E u \in Id : u < i /\ Starting(u)' /\ Child(u)' = i
    BY DEF StartersStand, Starting, Pc, Child
  <2>1. Alive(i) BY <1>1, <1>2, AliveAt, KindsKept DEF Alive, Started, Pc
  <2>2. PICK u \in Id : u < i /\ Starting(u) /\ Child(u) = i
    BY <2>1 DEF LifeInv, StartersStand, RecordsStay, Starting, Pc, Child
  <2>3. u # t BY <1>1, <2>2 DEF Starting
  <2> QED BY <1>2, <2>2, <2>3 DEF Starting
<1>11. WorldOutlivesIsolates'
  <2>1. Pc(Root)' # "gone" BY <1>1, <1>2, <1>3, <1>4
  <2> QED BY <2>1 DEF WorldOutlivesIsolates, At, Pc
<1> QED BY <1>5, <1>6, <1>7, <1>8, <1>9, <1>10, <1>11 DEF LifeInv

\* A new record is the youngest, and its starter stands behind it.
LEMMA MakesKeepsLife ==
  ASSUME TypeInv, LifeInv, NEW t \in Id, NEW c \in Id, Makes(t, c)
  PROVE LifeInv'
<1>1. next_id \in Nat /\ Id \subseteq Nat /\ Root \in Id /\ kind \in [Id -> Kinds]
  BY MaxIdAssumption DEF TypeInv, TypeOK, Id, Root
<1>2. /\ c = next_id /\ next_id' = next_id + 1 /\ isolates' = isolates
      /\ Pc(t) \in {"run", "into"} /\ Pc(t)' = "thread" /\ Child(t)' = c /\ Pc(c)' = "born"
      /\ \A x \in Id : (iso[x].joined)' = iso[x].joined
      /\ \A x \in Id \ {t, c} : Pc(x)' = Pc(x) /\ Child(x)' = Child(x)
  BY DEF Makes
<1>3. kind[c] = "none" /\ Pc(c) = "none" BY <1>1, <1>2 DEF LifeInv, FreshIdsAreUnused
<1>4. t < c
  <2>1. ~ (t >= next_id) BY <1>2 DEF LifeInv, FreshIdsAreUnused
  <2> QED BY <1>1, <1>2, <2>1
<1>5. c # Root /\ t # c BY <1>1, <1>3, <1>4 DEF LifeInv, ThreadsHaveIsolates
<1>6. PICK k \in {"actor", "task"} : kind' = [kind EXCEPT ![c] = k] BY DEF Makes
<1>7. /\ \A x \in Id \ {c} : kind'[x] = kind[x] /\ ((Started(x))' <=> Started(x))
      /\ (Started(c))'
  BY <1>1, <1>6 DEF Started
<1>8. Pc(Root) # "gone" BY <1>2, NobodyGoesOn
<1>9. \A x \in Id : Child(x) \in Id BY DEF Child, TypeInv, TypeOK, ThreadRecord
<1>10. ThreadsHaveIsolates'
  <2>1. kind'[Root] = "root" BY <1>1, <1>5, <1>7 DEF LifeInv, ThreadsHaveIsolates
  <2>2. ASSUME NEW x \in Id, Pc(x)' # "none" PROVE x = Root \/ (Started(x))'
    <3>1. CASE x = c BY <1>7, <3>1
    <3>2. CASE x # c
      <4>1. Pc(x) # "none" BY <1>2, <2>2, <3>2
      <4> QED BY <1>7, <3>2, <4>1 DEF LifeInv, ThreadsHaveIsolates
    <3> QED BY <3>1, <3>2
  <2> QED BY <2>1, <2>2 DEF ThreadsHaveIsolates
<1>11. JoinedHaveEnded'
  BY <1>2, <1>3 DEF LifeInv, JoinedHaveEnded
<1>12. StartersAreOlder'
  BY <1>2, <1>4 DEF LifeInv, StartersAreOlder, Starting
<1>13. UnmadeHaveOneStarter'
  <2> SUFFICES ASSUME NEW u \in Id, Pc(u)' = "thread"
               PROVE /\ Started(Child(u))' /\ Pc(Child(u))' = "born"
                     /\ \A v \in Id : Pc(v)' = "thread" /\ Child(v)' = Child(u)' => v = u
    BY DEF UnmadeHaveOneStarter
  <2>1. CASE u = t
    <3>1. Started(Child(u))' /\ Pc(Child(u))' = "born" BY <1>2, <1>7, <2>1 DEF Started, Pc
    <3>2. ASSUME NEW v \in Id, Pc(v)' = "thread", Child(v)' = Child(u)', v # u PROVE FALSE
      <4>1. Pc(v) = "thread" /\ Child(v) = c BY <1>2, <2>1, <3>2
      <4> QED BY <1>3, <4>1 DEF LifeInv, UnmadeHaveOneStarter
    <3> QED BY <3>1, <3>2
  <2>2. CASE u # t
    <3>1. Pc(u) = "thread" /\ Child(u)' = Child(u) BY <1>2, <2>2
    <3>2. PICK d \in Id : d = Child(u) BY <1>9
    <3>3. Started(d) /\ Pc(d) = "born" BY <3>1, <3>2 DEF LifeInv, UnmadeHaveOneStarter
    <3>4. d # t /\ d # c BY <1>2, <1>3, <3>3
    <3>5. (Started(d))' /\ Pc(d)' = "born" BY <1>2, <1>7, <3>3, <3>4
    <3>6. Started(Child(u))' /\ Pc(Child(u))' = "born"
      BY <3>1, <3>2, <3>5 DEF Started, Pc
    <3>7. ASSUME NEW v \in Id, Pc(v)' = "thread", Child(v)' = Child(u)' PROVE v = u
      <4>1. v # t BY <1>2, <3>1, <3>2, <3>4, <3>7
      <4>2. Pc(v) = "thread" /\ Child(v)' = Child(v) BY <1>2, <3>7, <4>1
      <4> QED BY <3>1, <3>7, <4>2 DEF LifeInv, UnmadeHaveOneStarter
    <3> QED BY <3>6, <3>7
  <2> QED BY <2>1, <2>2
<1>14. FreshIdsAreUnused'
  <2> SUFFICES ASSUME NEW i \in Id, i >= next_id' PROVE kind'[i] = "none" /\ Pc(i)' = "none"
    BY DEF FreshIdsAreUnused
  <2>1. i \in Nat /\ i >= next_id /\ i # c BY <1>1, <1>2
  <2>2. kind[i] = "none" /\ Pc(i) = "none" BY <2>1 DEF LifeInv, FreshIdsAreUnused
  <2> QED BY <1>2, <1>7, <2>1, <2>2
<1>15. StartersStand'
  <2> SUFFICES ASSUME NEW i \in Id, Alive(i)', i \notin isolates'
               PROVE \E u \in Id : u < i /\ Starting(u)' /\ Child(u)' = i
    BY DEF StartersStand, Starting, Pc, Child
  <2>1. CASE i = c BY <1>2, <1>4, <2>1 DEF Starting
  <2>2. CASE i # c
    <3>1. Alive(i) BY <1>2, <1>7, <2>2, AliveAt DEF Alive, Started, Pc
    <3>2. PICK u \in Id : u < i /\ Starting(u) /\ Child(u) = i
      BY <1>2, <3>1 DEF LifeInv, StartersStand, Starting, Pc, Child
    <3>3. u # t /\ u # c BY <1>2, <1>3, <3>2 DEF Starting
    <3> QED BY <1>2, <3>2, <3>3 DEF Starting
  <2> QED BY <2>1, <2>2
<1>16. WorldOutlivesIsolates'
  <2>1. Pc(Root)' # "gone" BY <1>1, <1>2, <1>5, <1>8
  <2> QED BY <2>1 DEF WorldOutlivesIsolates, At, Pc
<1> QED BY <1>10, <1>11, <1>12, <1>13, <1>14, <1>15, <1>16 DEF LifeInv

\* The starter and the record are two, and the record is an isolate that is not joined.
LEMMA StarterOf ==
  ASSUME TypeInv, LifeInv, NEW t \in Id, Starting(t)
  PROVE /\ Child(t) \in Id /\ t < Child(t) /\ t # Child(t)
        /\ Pc(Root) # "gone"
        /\ Pc(t) = "thread" => /\ Started(Child(t)) /\ Pc(Child(t)) = "born"
                               /\ ~iso[Child(t)].joined
<1>1. Child(t) \in Id /\ Id \subseteq Nat
  BY MaxIdAssumption DEF Child, TypeInv, TypeOK, ThreadRecord, Id
<1>2. t < Child(t) BY DEF LifeInv, StartersAreOlder
<1>3. Pc(Root) # "gone" BY NobodyGoesOn DEF Starting
<1>4. Pc(t) = "thread" => /\ Started(Child(t)) /\ Pc(Child(t)) = "born"
                          /\ ~iso[Child(t)].joined
  BY <1>1 DEF LifeInv, UnmadeHaveOneStarter, JoinedHaveEnded
<1> QED BY <1>1, <1>2, <1>3, <1>4

\* The thread of the child is made, or refused and the child with it: its starter stands
\* until it has registered it, or the child is gone.
LEMMA MadeOrRefusedKeepsLife ==
  ASSUME TypeInv, LifeInv, NEW t \in Id, NEW c \in Id, Made(t, c) \/ Refused(t, c)
  PROVE LifeInv'
<1>1. /\ Pc(t) = "thread" /\ c = Child(t)
      /\ next_id' = next_id /\ kind' = kind /\ isolates' = isolates /\ iso' = iso
      /\ \A x \in Id \ {t, c} : Pc(x)' = Pc(x) /\ Child(x)' = Child(x)
      /\ Pc(t)' \notin {"none", "born", "thread", "gone"}
      /\ Pc(c)' \in {"run", "done"}
  BY DEF Made, Refused, Settled
<1>2. /\ t < c /\ t # c /\ Pc(Root) # "gone"
      /\ Started(c) /\ Pc(c) = "born" /\ ~iso[c].joined
  BY <1>1, StarterOf DEF Starting
<1>3. Started(t) \/ t = Root BY <1>1 DEF LifeInv, ThreadsHaveIsolates
<1>4. Root \in Id /\ Id \subseteq Nat BY MaxIdAssumption DEF Root, Id
<1>5. \A x \in Id : (Started(x))' <=> Started(x) BY <1>1 DEF Started
<1>6. c # Root BY <1>2, <1>4 DEF LifeInv, ThreadsHaveIsolates, Started
<1>7. ThreadsHaveIsolates'
  BY <1>1, <1>2, <1>3, <1>5 DEF LifeInv, ThreadsHaveIsolates
<1>8. JoinedHaveEnded'
  BY <1>1, <1>2 DEF LifeInv, JoinedHaveEnded
<1>9. StartersAreOlder'
  <2> SUFFICES ASSUME NEW u \in Id, Starting(u)' PROVE u < Child(u)'
    BY DEF StartersAreOlder
  <2>1. u # c BY <1>1 DEF Starting
  <2>2. CASE u = t
    <3>1. Child(t)' = c BY <2>2 DEF Starting, Made, Refused, Settled
    <3> QED BY <1>2, <2>2, <3>1
  <2>3. CASE u # t BY <1>1, <2>1, <2>3 DEF LifeInv, StartersAreOlder, Starting
  <2> QED BY <2>2, <2>3
<1>10. UnmadeHaveOneStarter'
  <2> SUFFICES ASSUME NEW u \in Id, Pc(u)' = "thread"
               PROVE /\ Started(Child(u))' /\ Pc(Child(u))' = "born"
                     /\ \A v \in Id : Pc(v)' = "thread" /\ Child(v)' = Child(u)' => v = u
    BY DEF UnmadeHaveOneStarter
  <2>1. u # t /\ u # c /\ Pc(u) = "thread" /\ Child(u)' = Child(u) BY <1>1
  <2>2. PICK d \in Id : d = Child(u)
    BY DEF Child, TypeInv, TypeOK, ThreadRecord
  <2>3. Started(d) /\ Pc(d) = "born" /\ d # c
    BY <1>1, <2>1, <2>2 DEF LifeInv, UnmadeHaveOneStarter
  <2>4. d # t BY <1>1, <2>3
  <2>5. (Started(d))' /\ Pc(d)' = "born" BY <1>1, <1>5, <2>3, <2>4
  <2>6. Started(Child(u))' /\ Pc(Child(u))' = "born" BY <2>1, <2>2, <2>5 DEF Started, Pc
  <2>7. ASSUME NEW v \in Id, Pc(v)' = "thread", Child(v)' = Child(u)' PROVE v = u
    <3>1. Pc(v) = "thread" /\ Child(v)' = Child(v) BY <1>1, <2>7
    <3> QED BY <2>1, <2>7, <3>1 DEF LifeInv, UnmadeHaveOneStarter
  <2> QED BY <2>6, <2>7
<1>11. FreshIdsAreUnused'
  BY <1>1, <1>2 DEF LifeInv, FreshIdsAreUnused
<1>12. StartersStand'
  <2> SUFFICES ASSUME NEW i \in Id, Alive(i)', i \notin isolates'
               PROVE \E u \in Id : u < i /\ Starting(u)' /\ Child(u)' = i
    BY DEF StartersStand, Starting, Pc, Child
  <2>1. CASE i = c
    <3>1. Pc(c)' # "done" BY <2>1 DEF Alive, Pc
    <3>2. Starting(t)' /\ Child(t)' = c BY <3>1 DEF Made, Refused, Starting
    <3> QED BY <1>2, <2>1, <3>2
  <2>2. CASE i # c
    <3>1. Alive(i) BY <1>1, <1>5, <2>2, AliveAt DEF Alive, Started, Pc
    <3>2. PICK u \in Id : u < i /\ Starting(u) /\ Child(u) = i
      BY <1>1, <3>1 DEF LifeInv, StartersStand, Starting, Pc, Child
    <3>3. u # t /\ u # c BY <1>1, <1>2, <2>2, <3>2 DEF Starting
    <3> QED BY <1>1, <3>2, <3>3 DEF Starting
  <2> QED BY <2>1, <2>2
<1>13. WorldOutlivesIsolates'
  <2>1. Pc(Root)' # "gone" BY <1>1, <1>2, <1>4, <1>6
  <2> QED BY <2>1 DEF WorldOutlivesIsolates, At, Pc
<1> QED BY <1>7, <1>8, <1>9, <1>10, <1>11, <1>12, <1>13 DEF LifeInv

\* The record goes into the registry, where the destructor finds it from now on.
LEMMA RegistersKeepsLife ==
  ASSUME TypeInv, LifeInv, NEW t \in Id, NEW c \in Id, Registers(t, c)
  PROVE LifeInv'
<1>1. /\ Pc(t) = "register" /\ c = Child(t)
      /\ next_id' = next_id /\ kind' = kind /\ isolates' = isolates \cup {c} /\ iso' = iso
      /\ \A x \in Id \ {t} : Pc(x)' = Pc(x) /\ Child(x)' = Child(x)
      /\ Pc(t)' = "run"
  BY DEF Registers
<1>2. Root \in Id /\ Pc(Root) # "gone"
  BY <1>1, StarterOf, MaxIdAssumption DEF Starting, Root, Id
<1>3. \A x \in Id : (Started(x))' <=> Started(x) BY <1>1 DEF Started
<1>4. ThreadsHaveIsolates'
  BY <1>1, <1>3 DEF LifeInv, ThreadsHaveIsolates
<1>5. JoinedHaveEnded'
  BY <1>1 DEF LifeInv, JoinedHaveEnded
<1>6. StartersAreOlder'
  BY <1>1 DEF LifeInv, StartersAreOlder, Starting
<1>7. UnmadeHaveOneStarter'
  <2> SUFFICES ASSUME NEW u \in Id, Pc(u)' = "thread"
               PROVE /\ Started(Child(u))' /\ Pc(Child(u))' = "born"
                     /\ \A v \in Id : Pc(v)' = "thread" /\ Child(v)' = Child(u)' => v = u
    BY DEF UnmadeHaveOneStarter
  <2>1. u # t /\ Pc(u) = "thread" /\ Child(u)' = Child(u) BY <1>1
  <2>2. PICK d \in Id : d = Child(u)
    BY DEF Child, TypeInv, TypeOK, ThreadRecord
  <2>3. Started(d) /\ Pc(d) = "born" /\ d # t
    BY <1>1, <2>1, <2>2 DEF LifeInv, UnmadeHaveOneStarter
  <2>4. (Started(d))' /\ Pc(d)' = "born" BY <1>1, <1>3, <2>3
  <2>5. Started(Child(u))' /\ Pc(Child(u))' = "born" BY <2>1, <2>2, <2>4 DEF Started, Pc
  <2>6. ASSUME NEW v \in Id, Pc(v)' = "thread", Child(v)' = Child(u)' PROVE v = u
    <3>1. Pc(v) = "thread" /\ Child(v)' = Child(v) BY <1>1, <2>6
    <3> QED BY <2>1, <2>6, <3>1 DEF LifeInv, UnmadeHaveOneStarter
  <2> QED BY <2>5, <2>6
<1>8. FreshIdsAreUnused'
  BY <1>1 DEF LifeInv, FreshIdsAreUnused
<1>9. StartersStand'
  <2> SUFFICES ASSUME NEW i \in Id, Alive(i)', i \notin isolates'
               PROVE \E u \in Id : u < i /\ Starting(u)' /\ Child(u)' = i
    BY DEF StartersStand, Starting, Pc, Child
  <2>1. Alive(i) BY <1>1, <1>3, AliveAt DEF Alive, Started, Pc
  <2>2. PICK u \in Id : u < i /\ Starting(u) /\ Child(u) = i
    BY <1>1, <2>1 DEF LifeInv, StartersStand, Starting, Pc, Child
  <2>3. u # t BY <1>1, <2>2
  <2> QED BY <1>1, <2>2, <2>3 DEF Starting
<1>10. WorldOutlivesIsolates'
  <2>1. Pc(Root)' # "gone" BY <1>1, <1>2
  <2> QED BY <2>1 DEF WorldOutlivesIsolates, At, Pc
<1> QED BY <1>4, <1>5, <1>6, <1>7, <1>8, <1>9, <1>10 DEF LifeInv

\* The youngest chain of starters ends at an isolate that is registered: when all of these
\* are joined, nobody is left.
LEMMA EndsKeepsLife ==
  ASSUME TypeInv, LifeInv, Ends
  PROVE LifeInv'
<1>1. /\ Pc(Root) = "world_join" /\ \A i \in isolates : iso[i].joined
      /\ next_id' = next_id /\ kind' = kind /\ isolates' = isolates /\ iso' = iso
      /\ \A x \in Id \ {Root} : Pc(x)' = Pc(x) /\ Child(x)' = Child(x)
      /\ Pc(Root)' = "gone"
  BY DEF Ends
<1>2. Root \in Id /\ Id \subseteq Nat BY MaxIdAssumption DEF Root, Id
<1>3. ASSUME NEW j \in Id, Alive(j) PROVE FALSE
  <2> DEFINE T == {i \in Id : Alive(i)}
  <2>1. T \subseteq Nat /\ T # {} BY <1>2, <1>3
  <2> HIDE DEF T
  <2>2. PICK i \in T : \A y \in T : i <= y BY <2>1, LeastNatural
  <2>3. i \in Id /\ Alive(i) /\ \A y \in Id : Alive(y) => i <= y BY <2>2 DEF T
  <2>4. i \notin isolates
    BY <1>1, <2>3, AliveAt DEF LifeInv, JoinedHaveEnded
  <2>5. PICK u \in Id : u < i /\ Starting(u) /\ Child(u) = i
    BY <2>3, <2>4 DEF LifeInv, StartersStand, Starting, Pc, Child
  <2>6. u # Root /\ Started(u) BY <1>1, <2>5 DEF LifeInv, ThreadsHaveIsolates, Starting
  <2>7. Alive(u) BY <2>5, <2>6, AliveAt DEF Starting
  <2> QED BY <1>2, <2>3, <2>5, <2>7
<1>4. \A x \in Id : (Started(x))' <=> Started(x) BY <1>1 DEF Started
<1>5. kind[Root] = "root" /\ ~ Started(Root)
  BY DEF LifeInv, ThreadsHaveIsolates, Started
<1>6. \A x \in Id : ~Alive(x)'
  BY <1>1, <1>3, <1>4, <1>5, AliveAt DEF Alive, Started, Pc
<1>7. \A x \in Id : ~Starting(x)' /\ Pc(x)' # "thread"
  BY <1>1, <1>3, AliveAt DEF Starting, LifeInv, ThreadsHaveIsolates
<1>8. ThreadsHaveIsolates'
  BY <1>1, <1>4 DEF LifeInv, ThreadsHaveIsolates
<1>9. JoinedHaveEnded'
  BY <1>1 DEF LifeInv, JoinedHaveEnded
<1>10. StartersAreOlder' /\ UnmadeHaveOneStarter' /\ StartersStand'
  BY <1>6, <1>7 DEF StartersAreOlder, UnmadeHaveOneStarter, StartersStand
<1>11. FreshIdsAreUnused'
  BY <1>1, <1>2 DEF LifeInv, FreshIdsAreUnused
<1>12. WorldOutlivesIsolates' BY <1>6 DEF WorldOutlivesIsolates
<1> QED BY <1>8, <1>9, <1>10, <1>11, <1>12 DEF LifeInv

-----------------------------------------------------------------------------
(* Every step of the specification.                                        *)

Inv == TypeInv /\ LifeInv

(* At the start only the root stands, and no id but its own is out.        *)
LEMMA InitInv ==
  ASSUME Init
  PROVE Inv
<1>1. MaxId \in Nat /\ Root \in Id /\ Root = 0 /\ Id \subseteq Nat
  BY MaxIdAssumption DEF Root, Id
<1>2. \A i \in Id : /\ th[i].pc = (IF i = Root THEN "run" ELSE "none")
                    /\ kind[i] = (IF i = Root THEN "root" ELSE "none")
                    /\ ~ iso[i].joined
  BY DEF Init
<1>3. TypeOK
  <2>1. NewMailbox(Root) \in MailboxOf(Id) BY <1>1, NewMailboxType
  <2>2. <<>> \in Seq(Id) /\ {} \in SUBSET Id OBVIOUS
  <2>3. iso \in [Id -> IsolateRecord] BY <1>1, <2>2 DEF Init, IsolateRecord
  <2>4. {"run", "none"} \subseteq Pcs BY DEF Pcs
  <2>5. th \in [Id -> ThreadRecord] BY <1>1, <2>2, <2>4 DEF Init, ThreadRecord
  <2>6. kind \in [Id -> Kinds] BY DEF Init, Kinds
  <2>7. next_id \in 1 .. MaxId + 1 BY <1>1 DEF Init
  <2>8. asked \in [Id -> [Id -> Nat]] /\ told \in [Id -> [Id -> Nat]] BY DEF Init
  <2>9. mb \in [Id -> MailboxOf(Id)] BY <2>1 DEF Init
  <2>10. /\ mailboxes \subseteq Id /\ isolates \subseteq Id
         /\ stopping \in BOOLEAN /\ requests \in Nat
    BY <1>1 DEF Init
  <2> QED BY <2>3, <2>5, <2>6, <2>7, <2>8, <2>9, <2>10 DEF TypeOK
<1>4. IdBound
  <2>1. Into = {} BY <1>2 DEF Into, At
  <2>2. Cardinality(Into) = 0 BY <2>1, FS_EmptySet
  <2> QED BY <1>1, <2>2 DEF Init, IdBound
<1>5. LifeInv
  <2>1. \A i \in Id : ~ Alive(i) /\ ~ Starting(i) /\ Pc(i) \notin {"thread", "gone"}
    BY <1>2 DEF Alive, Starting, Pc
  <2>2. ThreadsHaveIsolates /\ JoinedHaveEnded
    BY <1>1, <1>2 DEF ThreadsHaveIsolates, JoinedHaveEnded, Pc
  <2>3. FreshIdsAreUnused BY <1>1, <1>2 DEF FreshIdsAreUnused, Pc, Init
  <2> QED BY <2>1, <2>2, <2>3 DEF LifeInv, StartersAreOlder, UnmadeHaveOneStarter,
                                  StartersStand, WorldOutlivesIsolates
<1> QED BY <1>3, <1>4, <1>5 DEF Inv, TypeInv

\* Steps with a thread that starts an isolate.
LEMMA StartKeepsInv ==
  ASSUME Inv, NEW t \in Id,
         \/ SpawnActor(t) \/ SpawnTask(t) \/ SpawnIntoTake(t)
         \/ SpawnThread(t) \/ SpawnThreadFails(t) \/ SpawnRegister(t)
  PROVE IdBound' /\ LifeInv'
<1>1. TypeInv /\ TypeOK /\ LifeInv /\ Root \in Id /\ th[t].arg \in Id
  <2>1. TypeInv /\ TypeOK /\ LifeInv BY DEF Inv, TypeInv
  <2>2. Root \in Id BY MaxIdAssumption DEF Root, Id
  <2>3. th[t].arg \in Id BY <2>1 DEF TypeOK, ThreadRecord
  <2> QED BY <2>1, <2>2, <2>3
<1>2. ASSUME NEW c \in Id, Makes(t, c) PROVE Into' \subseteq Into \ {t}
  BY <1>2 DEF Makes, Into, At, Pc
<1>3. Pc(t) # "none" => t # next_id BY <1>1 DEF LifeInv, FreshIdsAreUnused, TypeOK
<1>4. CASE SpawnActor(t)
  <2>1. /\ IdsLeft /\ next_id \in Id /\ Pc(t) = "run" /\ NewIsolate(t, "actor", next_id)
        /\ isolates' = isolates /\ next_id' = next_id + 1
    BY <1>1, <1>4, FreshId DEF SpawnActor, Calling, At, Pc, NewIsolate, TakeId
  <2>2. PICK c \in Id : c = next_id BY <2>1
  <2>3. Makes(t, c) BY <1>1, <1>3, <2>1, <2>2, NewIsolateMakes
  <2> QED BY <1>1, <1>2, <2>1, <2>3, IdBoundKept, MakesKeepsLife
<1>5. CASE SpawnTask(t)
  <2>1. /\ IdsLeft /\ next_id \in Id /\ Pc(t) = "run" /\ NewIsolate(t, "task", Root)
        /\ isolates' = isolates /\ next_id' = next_id + 1
    BY <1>1, <1>5, FreshId DEF SpawnTask, Calling, At, Pc, NewIsolate, TakeId
  <2>2. PICK c \in Id : c = next_id BY <2>1
  <2>3. Makes(t, c) BY <1>1, <1>3, <2>1, <2>2, NewIsolateMakes
  <2> QED BY <1>1, <1>2, <2>1, <2>3, IdBoundKept, MakesKeepsLife
<1>6. CASE SpawnIntoTake(t)
  <2>1. /\ next_id \in Id /\ Pc(t) = "into" /\ NewIsolate(t, "actor", th[t].arg)
        /\ isolates' = isolates /\ next_id' = next_id + 1
    BY <1>1, <1>6, FreshIdInto DEF SpawnIntoTake, At, Pc, NewIsolate, TakeId
  <2>2. PICK c \in Id : c = next_id BY <2>1
  <2>3. Makes(t, c) BY <1>1, <1>3, <2>1, <2>2, NewIsolateMakes
  <2> QED BY <1>1, <1>2, <2>1, <2>3, IdBoundTaken, MakesKeepsLife DEF At, Pc
<1>7. CASE SpawnThread(t) \/ SpawnThreadFails(t) \/ SpawnRegister(t)
  <2>1. Starting(t) BY <1>7 DEF SpawnThread, SpawnThreadFails, SpawnRegister, Starting, At, Pc
  <2>2. PICK c \in Id : c = Child(t) BY <1>1, <2>1, StarterOf
  <2>3. t # c BY <1>1, <2>1, <2>2, StarterOf
  <2>4. Made(t, c) \/ Refused(t, c) \/ Registers(t, c)
    BY <1>1, <1>7, <2>2, <2>3, ThreadMadeOrRefused
  <2>5. LifeInv' BY <1>1, <2>4, MadeOrRefusedKeepsLife, RegistersKeepsLife
  <2>6. Into' \subseteq Into /\ next_id' = next_id
    BY <2>4 DEF Made, Refused, Registers, Settled, Into, At, Pc
  <2> QED BY <1>1, <2>5, <2>6, IdBoundKept
<1> QED BY <1>4, <1>5, <1>6, <1>7

\* All steps.
LEMMA StepKeepsInv ==
  ASSUME Inv, [Next]_vars
  PROVE Inv'
<1>1. TypeInv /\ LifeInv /\ TypeOK BY DEF Inv, TypeInv
<1>2. Root \in Id BY MaxIdAssumption DEF Root, Id
<1>3. ASSUME NEW t \in Id, Ordinary(t) PROVE IdBound' /\ LifeInv'
  BY <1>1, <1>3, OrdinaryIdBound, MovesKeepLife DEF Ordinary, Goes
<1>4. ASSUME NEW t \in Id, Program(t) PROVE Inv'
  <2>1. CASE SpawnActor(t) \/ SpawnTask(t)
    BY <1>1, <1>2, <2>1, SpawnTypes, StartKeepsInv DEF Inv, TypeInv
  <2>2. CASE NewSlot(t) \/ NewInbox(t)
    BY <1>1, <1>2, <1>3, <2>2, AddressTypes, NativesAreOrdinary DEF Inv, TypeInv
  <2>3. ASSUME NEW b \in Id,
               \/ SpawnIntoCheck(t, b) \/ ReleaseSlot(t, b) \/ CloseInbox(t, b)
               \/ StopActor(t, b) \/ JoinTask(t, b) \/ Send(t, b) \/ Receive(t, b)
        PROVE Inv'
    <3>1. CASE SpawnIntoCheck(t, b)
      BY <1>1, <3>1, SpawnTypes, SpawnIntoCheckMoves, MovesKeepLife DEF Inv, TypeInv
    <3>2. CASE JoinTask(t, b)
      BY <1>1, <1>3, <3>2, SpawnTypes, NativesAreOrdinary DEF Inv, TypeInv
    <3>3. CASE ReleaseSlot(t, b) \/ CloseInbox(t, b)
      BY <1>1, <1>3, <3>3, AddressTypes, NativesAreOrdinary DEF Inv, TypeInv
    <3>4. CASE StopActor(t, b) \/ Send(t, b) \/ Receive(t, b)
      BY <1>1, <1>3, <3>4, MailTypes, MailIsOrdinary DEF Inv, TypeInv
    <3> QED BY <2>3, <3>1, <3>2, <3>3, <3>4
  <2>4. ASSUME NEW b \in Id, NEW c \in Id, Monitor(t, b, c) \/ MonitorGone(t, b, c)
        PROVE Inv'
    BY <1>1, <1>3, <2>4, MailTypes, MailIsOrdinary DEF Inv, TypeInv
  <2>5. CASE Return(t) \/ Fault(t)
    BY <1>1, <1>2, <1>3, <2>5, EndTypes, EndsAreOrdinary DEF Inv, TypeInv
  <2> QED BY <1>4, <2>1, <2>2, <2>3, <2>4, <2>5 DEF Program
<1>5. ASSUME NEW t \in Id, Runtime(t) PROVE Inv'
  <2>1. CASE SpawnIntoTake(t) \/ SpawnThread(t) \/ SpawnThreadFails(t) \/ SpawnRegister(t)
    BY <1>1, <1>2, <2>1, SpawnTypes, StartKeepsInv DEF Inv, TypeInv
  <2>2. CASE JoinReturns(t)
    BY <1>1, <1>2, <1>3, <2>2, SpawnTypes, NativesAreOrdinary DEF Inv, TypeInv
  <2>3. CASE \/ CloseInboxDone(t) \/ ReleaseErase(t) \/ ReleaseClose(t) \/ ReleaseRetire(t)
    BY <1>1, <1>2, <1>3, <2>3, AddressTypes, NativesAreOrdinary DEF Inv, TypeInv
  <2>4. CASE StopList(t) \/ \E b \in Id : StopPut(t, b)
    BY <1>1, <1>2, <1>3, <2>4, MailTypes, MailIsOrdinary DEF Inv, TypeInv
  <2>5. CASE \/ EndErase(t) \/ (\E b \in Id : EndClose(t, b)) \/ EndTellStarter(t)
             \/ EndMark(t) \/ EndReport(t) \/ EndFinish(t)
    BY <1>1, <1>2, <1>3, <2>5, EndTypes, EndsAreOrdinary DEF Inv, TypeInv
  <2> QED BY <1>5, <2>1, <2>2, <2>3, <2>4, <2>5 DEF Runtime
<1>6. ASSUME World PROVE Inv'
  <2>1. TypeOK' BY <1>1, <1>6, WorldTypes
  <2>2. CASE WorldStop \/ (\E i \in Id : WorldPick(i)) \/ WorldJoined
    BY <1>1, <1>2, <1>3, <2>1, <2>2, JoinsAreOrdinary DEF Inv, TypeInv
  <2>3. CASE WorldGone
    <3>1. Ends BY <1>1, <2>3, GoneEnds
    <3>2. Into' \subseteq Into /\ next_id' = next_id
      BY <1>2, <3>1 DEF Ends, Into, At, Pc
    <3>3. IdBound' BY <1>1, <3>2, IdBoundKept
    <3> QED BY <1>1, <2>1, <3>1, <3>3, EndsKeepsLife DEF Inv, TypeInv
  <2> QED BY <1>6, <2>2, <2>3 DEF World
<1>7. ASSUME UNCHANGED vars PROVE Inv'
  BY <1>1, <1>7 DEF vars, Inv, TypeInv, TypeOK, IdBound, Into, At, LifeInv,
     ThreadsHaveIsolates, JoinedHaveEnded, StartersAreOlder, UnmadeHaveOneStarter,
     FreshIdsAreUnused, StartersStand, WorldOutlivesIsolates, Starting, Started, Alive,
     Pc, Child
<1>8. CASE Next BY <1>4, <1>5, <1>6, <1>7, <1>8 DEF Next, Finished
<1> QED BY <1>7, <1>8

\* Every variable keeps to its type: no native, whatever it races, leaves a record, a queue
\* or a registry that another could not read.
THEOREM TypeCorrect == Spec => []TypeOK
<1>1. Inv => TypeOK BY DEF Inv, TypeInv
<1> QED BY <1>1, InitInv, StepKeepsInv, PTL DEF Spec

\* An isolate that lives and cannot be found in the registry has a starter that will put it
\* there (start_isolate).
THEOREM StartersAlwaysStand == Spec => []StartersStand
<1>1. Inv => StartersStand BY DEF Inv, LifeInv
<1> QED BY <1>1, InitInv, StepKeepsInv, PTL DEF Spec

\* When the destructor has found nothing left to join, no isolate lives (~World).
THEOREM WorldOutlives == Spec => []WorldOutlivesIsolates
<1>1. Inv => WorldOutlivesIsolates BY DEF Inv, LifeInv
<1> QED BY <1>1, InitInv, StepKeepsInv, PTL DEF Spec

-----------------------------------------------------------------------------
(* Counting the messages of a queue.                                       *)

Msgs(q) == {i \in 1 .. Len(q) : q[i].kind = "msg"}

LEMMA MsgsFinite ==
  ASSUME NEW q \in Seq(MailOf(Id))
  PROVE IsFiniteSet(Msgs(q)) /\ Cardinality(Msgs(q)) \in Nat
<1>1. Len(q) \in Nat OBVIOUS
<1>2. IsFiniteSet(1 .. Len(q)) BY <1>1, FS_Interval
<1>3. IsFiniteSet(Msgs(q)) BY <1>2, FS_Subset DEF Msgs
<1> QED BY <1>3, FS_CardinalityType

LEMMA MsgsEmpty == Cardinality(Msgs(<<>>)) = 0
<1>1. Msgs(<<>>) = {} BY DEF Msgs
<1> QED BY <1>1, FS_EmptySet

\* A mail at the end counts if it is a message.
LEMMA MsgsAppend ==
  ASSUME NEW q \in Seq(MailOf(Id)), NEW mail \in MailOf(Id)
  PROVE Cardinality(Msgs(Append(q, mail))) =
          IF mail.kind = "msg" THEN Cardinality(Msgs(q)) + 1 ELSE Cardinality(Msgs(q))
<1> DEFINE n == Len(q) + 1
<1>1. n \in Nat /\ Len(q) \in Nat OBVIOUS
<1>2. Len(Append(q, mail)) = n /\ Append(q, mail)[n] = mail OBVIOUS
<1>3. \A i \in 1 .. Len(q) : Append(q, mail)[i] = q[i] OBVIOUS
<1>4. Msgs(Append(q, mail)) = IF mail.kind = "msg" THEN Msgs(q) \cup {n} ELSE Msgs(q)
  BY <1>1, <1>2, <1>3 DEF Msgs
<1>5. n \notin Msgs(q) BY <1>1 DEF Msgs
<1> HIDE DEF n
<1> QED BY <1>4, <1>5, MsgsFinite, FS_AddElement

\* A message taken from the front is counted no more.
LEMMA MsgsTail ==
  ASSUME NEW q \in Seq(MailOf(Id)), q # <<>>
  PROVE Cardinality(Msgs(q)) =
          IF Head(q).kind = "msg" THEN Cardinality(Msgs(Tail(q))) + 1
          ELSE Cardinality(Msgs(Tail(q)))
<1> DEFINE later == Msgs(q) \ {1}
           f == [i \in Msgs(Tail(q)) |-> i + 1]
<1>1. Len(q) \in Nat \ {0} /\ Len(Tail(q)) = Len(q) - 1 OBVIOUS
<1>2. \A i \in 1 .. Len(Tail(q)) : Tail(q)[i] = q[i + 1] OBVIOUS
<1>3. Tail(q) \in Seq(MailOf(Id)) OBVIOUS
<1>4. f \in Bijection(Msgs(Tail(q)), later)
  <2>1. f \in [Msgs(Tail(q)) -> later] BY <1>1, <1>2 DEF Msgs
  <2>2. \A i, j \in Msgs(Tail(q)) : f[i] = f[j] => i = j BY <1>1 DEF Msgs
  <2>3. \A k \in later : \E i \in Msgs(Tail(q)) : f[i] = k
    <3>1. TAKE k \in later
    <3>2. k - 1 \in Msgs(Tail(q)) BY <1>1, <1>2 DEF Msgs
    <3>3. f[k - 1] = k BY <3>2 DEF Msgs
    <3> QED BY <3>2, <3>3
  <2> HIDE DEF f
  <2> QED BY <2>1, <2>2, <2>3, Zenon DEF Bijection, Injection, Surjection, IsInjective
<1>5. ExistsBijection(Msgs(Tail(q)), later) BY <1>4, Zenon DEF ExistsBijection
<1>6. Cardinality(later) = Cardinality(Msgs(Tail(q)))
  BY <1>3, <1>5, MsgsFinite, FS_Bijection
<1>7. IsFiniteSet(Msgs(q)) /\ Cardinality(Msgs(q)) \in Nat BY MsgsFinite
<1>8. 1 \in Msgs(q) <=> Head(q).kind = "msg" BY <1>1 DEF Msgs
<1>9. Cardinality(later) =
        IF 1 \in Msgs(q) THEN Cardinality(Msgs(q)) - 1 ELSE Cardinality(Msgs(q))
  BY <1>7, FS_RemoveElement
<1> QED BY <1>6, <1>7, <1>8, <1>9

-----------------------------------------------------------------------------
(* The count of an inbox, through each of its methods.                     *)

Counted(b) ==
  /\ b.messages = Cardinality(Msgs(b.q))
  /\ Capacity # 0 => b.messages <= Capacity

CountedAll == \A b \in Id : Counted(mb[b])

LEMMA NewIsCounted ==
  ASSUME NEW owner
  PROVE Counted(NewMailbox(owner))
BY MsgsEmpty, CapacityAssumption DEF Counted, NewMailbox

\* System mail.
LEMMA PutKeepsCounted ==
  ASSUME NEW b \in MailboxOf(Id), NEW mail \in MailOf(Id), mail.kind # "msg", Counted(b)
  PROVE Counted(Put(b, mail))
<1>1. b.q \in Seq(MailOf(Id)) BY DEF MailboxOf
<1>2. Put(b, mail).messages = b.messages /\ Put(b, mail).q \in {b.q, Append(b.q, mail)}
  BY DEF MailboxOf, Put
<1> QED BY <1>1, <1>2, MsgsAppend DEF Counted

\* A message, which a full inbox does not take.
LEMMA OfferKeepsCounted ==
  ASSUME NEW b \in MailboxOf(Id), NEW mail \in MailOf(Id), mail.kind = "msg", Counted(b)
  PROVE Counted(Offer(b, mail, Capacity))
<1>1. b.q \in Seq(MailOf(Id)) /\ b.messages \in Int BY DEF MailboxOf
<1>2. CASE OfferAnswer(b, Capacity) = "SENT"
  <2>1. Capacity # 0 => b.messages + 1 <= Capacity
    BY <1>1, <1>2, CapacityAssumption DEF OfferAnswer, Full
  <2>2. /\ Push(b, mail).messages = b.messages + 1
        /\ Push(b, mail).q = Append(b.q, mail)
    BY DEF MailboxOf, Push
  <2> QED BY <1>1, <1>2, <2>1, <2>2, MsgsAppend DEF Counted, Offer
<1>3. CASE OfferAnswer(b, Capacity) # "SENT" BY <1>3 DEF Offer
<1> QED BY <1>2, <1>3

LEMMA TakeKeepsCounted ==
  ASSUME NEW b \in MailboxOf(Id), Counted(b)
  PROVE Counted(Take(b))
<1>1. b.q \in Seq(MailOf(Id)) /\ b.messages \in Int BY DEF MailboxOf
<1>2. CASE b.q = <<>> BY <1>2 DEF Take
<1>3. CASE b.q # <<>>
  <2>1. /\ Take(b).messages = IF Head(b.q).kind = "msg" THEN b.messages - 1 ELSE b.messages
        /\ Take(b).q = Tail(b.q)
    BY <1>3 DEF MailboxOf, Take
  <2>2. Tail(b.q) \in Seq(MailOf(Id)) BY <1>1, <1>3
  <2>3. Cardinality(Msgs(Tail(b.q))) \in Nat BY <2>2, MsgsFinite
  <2> QED BY <1>1, <1>3, <2>1, <2>3, MsgsTail, CapacityAssumption DEF Counted
<1> QED BY <1>2, <1>3

\* What drops the queue drops the count with it.
LEMMA EndKeepsCounted ==
  ASSUME NEW b \in MailboxOf(Id), Counted(b)
  PROVE /\ Counted(Close(b)) /\ Counted(Release(b))
        /\ Counted(Vacate(b)) /\ Counted(Retire(b))
        /\ \A o \in Id : Counted([b EXCEPT !.owner = o])
<1>1. Close(b).messages = 0 /\ Close(b).q = <<>> BY DEF MailboxOf, Close
<1>2. Release(b).messages = b.messages /\ Release(b).q = b.q BY DEF MailboxOf, Release
<1>3. Vacate(b).messages = 0 /\ Vacate(b).q = <<>> BY DEF MailboxOf, Vacate
<1>4. Retire(b).messages = 0 /\ Retire(b).q \in {<<>>, <<Stop>>} BY DEF MailboxOf, Retire
<1>5. Cardinality(Msgs(<<Stop>>)) = 0
  <2>1. Msgs(<<Stop>>) = {} BY DEF Msgs, Stop
  <2> QED BY <2>1, FS_EmptySet
<1>6. ASSUME NEW o \in Id PROVE Counted([b EXCEPT !.owner = o])
  <2>1. [b EXCEPT !.owner = o].messages = b.messages /\ [b EXCEPT !.owner = o].q = b.q
    BY DEF MailboxOf
  <2> QED BY <2>1 DEF Counted
<1>7. Counted(Close(b)) BY <1>1, MsgsEmpty, CapacityAssumption DEF Counted
<1>8. Counted(Release(b)) BY <1>2 DEF Counted
<1>9. Counted(Vacate(b)) BY <1>3, MsgsEmpty, CapacityAssumption DEF Counted
<1>10. Counted(Retire(b)) BY <1>4, <1>5, MsgsEmpty, CapacityAssumption DEF Counted
<1> QED BY <1>6, <1>7, <1>8, <1>9, <1>10

LEMMA SystemMail ==
  /\ Stop \in MailOf(Id) /\ Stop.kind # "msg"
  /\ \A a \in Id : \A r \in {"gone", "fault", "normal"} :
       Exited(a, r) \in MailOf(Id) /\ Exited(a, r).kind # "msg"
  /\ \A o \in Id \cup {NO_OWNER} : Msg(o) \in MailOf(Id) /\ Msg(o).kind = "msg"
BY DEF Stop, Exited, Msg, MailOf

LEMMA CountedAt ==
  ASSUME TypeOK, CountedAll, NEW b \in Id, NEW x, Counted(x), mb' = [mb EXCEPT ![b] = x]
  PROVE CountedAll'
BY DEF TypeOK, CountedAll

\* An inbox at its birth.
LEMMA AddMailboxKeepsCounted ==
  ASSUME TypeOK, CountedAll, next_id \in Id, NEW owner \in Id \cup {NO_OWNER},
         AddMailbox(owner)
  PROVE CountedAll'
<1> DEFINE b == NewMailbox(owner)
<1>1. b \in MailboxOf(Id) /\ Counted(b) BY NewMailboxType, NewIsCounted
<1> HIDE DEF b
<1>2. Put(b, Stop) \in MailboxOf(Id) /\ Counted(Put(b, Stop))
  BY <1>1, SystemMail, PutType, PutKeepsCounted
<1>3. Counted(Release(Put(b, Stop))) BY <1>2, EndKeepsCounted
<1> QED BY <1>1, <1>3, CountedAt DEF AddMailbox, b

\* Every step.
LEMMA StepKeepsCounted ==
  ASSUME Inv, CountedAll, [Next]_vars
  PROVE CountedAll'
<1>1. TypeInv /\ TypeOK /\ mb \in [Id -> MailboxOf(Id)] /\ mailboxes \subseteq Id
  BY DEF Inv, TypeInv, TypeOK
<1>2. \A b \in Id : mb[b] \in MailboxOf(Id) /\ Counted(mb[b]) BY <1>1 DEF CountedAll
<1>3. \A t \in Id : th[t].arg \in Id /\ th[t].child \in Id /\ th[t].todo \subseteq Id
  BY <1>1 DEF TypeOK, ThreadRecord
<1>4. Root \in Id BY MaxIdAssumption DEF Root, Id
<1>5. CASE mb' = mb BY <1>5 DEF CountedAll
<1>6. ASSUME NEW t \in Id, Program(t) PROVE CountedAll'
  <2>1. CASE SpawnActor(t)
    BY <1>1, <2>1, FreshId, AddMailboxKeepsCounted DEF SpawnActor
  <2>2. CASE NewSlot(t)
    BY <1>1, <2>2, FreshId, AddMailboxKeepsCounted DEF NewSlot
  <2>3. CASE NewInbox(t)
    BY <1>1, <2>3, FreshId, AddMailboxKeepsCounted DEF NewInbox
  <2>4. CASE SpawnTask(t) \/ Return(t) \/ Fault(t)
    BY <1>5, <2>4 DEF SpawnTask, Return, Fault
  <2>5. ASSUME NEW b \in Id, Send(t, b) PROVE CountedAll'
    <3>1. Msg(mb[b].owner) \in MailOf(Id) /\ Msg(mb[b].owner).kind = "msg"
      BY <1>2, SystemMail DEF MailboxOf
    <3> QED BY <1>1, <1>2, <2>5, <3>1, OfferKeepsCounted, CountedAt DEF Send
  <2>6. ASSUME NEW b \in Id, Receive(t, b) PROVE CountedAll'
    BY <1>1, <1>2, <2>6, TakeKeepsCounted, CountedAt DEF Receive
  <2>7. ASSUME NEW b \in Id, \/ SpawnIntoCheck(t, b) \/ ReleaseSlot(t, b)
                             \/ CloseInbox(t, b) \/ StopActor(t, b) \/ JoinTask(t, b)
        PROVE CountedAll'
    BY <1>5, <2>7 DEF SpawnIntoCheck, ReleaseSlot, CloseInbox, StopActor, JoinTask
  <2>8. ASSUME NEW b \in Id, NEW c \in Id, Monitor(t, b, c) \/ MonitorGone(t, b, c)
        PROVE CountedAll'
    BY <1>1, <1>2, <1>5, <2>8, SystemMail, PutKeepsCounted, CountedAt
       DEF Monitor, MonitorGone
  <2> QED BY <1>6, <2>1, <2>2, <2>3, <2>4, <2>5, <2>6, <2>7, <2>8 DEF Program
<1>7. ASSUME NEW t \in Id, Runtime(t) PROVE CountedAll'
  <2>1. CASE SpawnIntoTake(t)
    <3>1. next_id \in Id /\ th[t].arg \in Id BY <1>1, <1>3, <2>1, FreshIdInto DEF SpawnIntoTake
    <3> QED BY <1>1, <1>2, <2>1, <3>1, EndKeepsCounted, CountedAt DEF SpawnIntoTake
  <2>2. CASE SpawnThreadFails(t)
    <3>1. iso[th[t].child].mailbox \in Id BY <1>1, <1>3 DEF TypeOK, IsolateRecord
    <3> QED BY <1>1, <1>2, <1>5, <2>2, <3>1, EndKeepsCounted, CountedAt
            DEF SpawnThreadFails
  <2>3. CASE \/ SpawnThread(t) \/ SpawnRegister(t) \/ JoinReturns(t) \/ ReleaseErase(t)
             \/ StopList(t) \/ EndErase(t) \/ EndMark(t) \/ EndFinish(t)
    BY <1>5, <2>3 DEF SpawnThread, SpawnRegister, JoinReturns, ReleaseErase, StopList,
       EndErase, EndMark, EndFinish
  <2>4. CASE CloseInboxDone(t) \/ ReleaseClose(t) \/ ReleaseRetire(t)
    BY <1>1, <1>2, <1>3, <2>4, EndKeepsCounted, CountedAt
       DEF CloseInboxDone, ReleaseClose, ReleaseRetire
  <2>5. ASSUME NEW b \in Id, StopPut(t, b) PROVE CountedAll'
    BY <1>1, <1>2, <2>5, SystemMail, PutKeepsCounted, CountedAt DEF StopPut
  <2>6. ASSUME NEW b \in Id, EndClose(t, b) PROVE CountedAll'
    BY <1>1, <1>2, <2>6, EndKeepsCounted, CountedAt DEF EndClose
  <2>7. CASE EndTellStarter(t)
    <3>1. \A b \in Id : mb'[b] \in {mb[b], Put(mb[b], Exited(t, "fault"))}
      BY <1>1, <2>7 DEF EndTellStarter
    <3>2. \A b \in Id : Counted(Put(mb[b], Exited(t, "fault")))
      BY <1>2, SystemMail, PutKeepsCounted
    <3> QED BY <1>2, <3>1, <3>2 DEF CountedAll
  <2>8. CASE EndReport(t)
    <3> DEFINE b == Head(th[t].due)
               r == IF th[t].faulted THEN "fault" ELSE "normal"
    <3>1. b \in Id
      <4>1. th[t].due \in Seq(Id) /\ th[t].due # <<>>
        BY <1>1, <2>8 DEF EndReport, TypeOK, ThreadRecord
      <4> QED BY <4>1
    <3>2. Exited(t, r) \in MailOf(Id) /\ Exited(t, r).kind # "msg" BY SystemMail
    <3>3. mb' = [mb EXCEPT ![b] = IF b \in mailboxes THEN Put(mb[b], Exited(t, r)) ELSE mb[b]]
      BY <2>8 DEF EndReport
    <3> HIDE DEF b, r
    <3>4. Counted(Put(mb[b], Exited(t, r))) BY <1>2, <3>1, <3>2, PutKeepsCounted
    <3> QED BY <1>1, <1>2, <3>1, <3>3, <3>4, CountedAt
  <2> QED BY <1>7, <2>1, <2>2, <2>3, <2>4, <2>5, <2>6, <2>7, <2>8 DEF Runtime
<1>8. ASSUME World PROVE CountedAll'
  <2>1. CASE WorldStop
    <3>1. \A b \in Id : /\ Put(mb[b], Stop) \in MailboxOf(Id)
                        /\ Counted(Put(mb[b], Stop))
      BY <1>2, SystemMail, PutType, PutKeepsCounted
    <3>2. \A b \in Id : Counted(Release(Put(mb[b], Stop))) /\ Counted(Release(mb[b]))
      BY <1>2, <3>1, EndKeepsCounted
    <3>3. \A b \in Id : mb'[b] \in {mb[b], Release(mb[b]), Release(Put(mb[b], Stop))}
      BY <2>1 DEF WorldStop
    <3> QED BY <1>2, <3>2, <3>3 DEF CountedAll
  <2>2. CASE (\E i \in Id : WorldPick(i)) \/ WorldJoined
    BY <1>5, <2>2 DEF WorldPick, WorldJoined
  <2>3. CASE WorldGone
    <3>1. \A b \in Id : mb'[b] \in {mb[b], Close(mb[b])} BY <2>3 DEF WorldGone
    <3> QED BY <1>2, <3>1, EndKeepsCounted DEF CountedAll
  <2> QED BY <1>8, <2>1, <2>2, <2>3 DEF World
<1>9. CASE UNCHANGED vars BY <1>5, <1>9 DEF vars
<1> QED BY <1>6, <1>7, <1>8, <1>9 DEF Next, Finished

\* The count of an inbox is the number of messages queued, and never above its capacity,
\* through every close, vacate, retire and take-over (Mailbox::put to Mailbox::retire).
THEOREM MessagesAlwaysCounted == Spec => []MessagesCounted
<1>1. Init => CountedAll
  <2> SUFFICES ASSUME Init PROVE CountedAll OBVIOUS
  <2>1. \A b \in Id : mb[b] = NewMailbox(Root) BY DEF Init
  <2> QED BY <2>1, NewIsCounted DEF CountedAll
<1>2. CountedAll => MessagesCounted
  BY DEF CountedAll, Counted, Msgs, MessagesCounted
<1> QED BY <1>1, <1>2, InitInv, StepKeepsInv, StepKeepsCounted, PTL DEF Spec

-----------------------------------------------------------------------------
(* The end reaches every inbox of an actor.                                *)

Arg(t) == th[t].arg

\* An actor from its birth to the end of its program.
Lives(a) ==
  kind[a] = "actor" /\ Pc(a) \notin {"none", "erase", "close", "mark", "report", "done"}

\* An open inbox that is not a slot holds the Stop it was ever given, and has been given
\* one when the world ends, unless the root reads it.
Informed(x, ending) ==
  /\ ~x.dead
  /\ x.stopped => StopHeld(x)
  /\ ending /\ x.owner # Root => StopHeld(x)

InboxesAreInformed ==
  \A b \in mailboxes : kind[b] # "none" /\ (kind[b] # "slot" => Informed(mb[b], stopping))

\* The main inbox of an actor is a slot, or its own and open.
HasInbox(a) ==
  \/ kind[iso[a].mailbox] = "slot"
  \/ iso[a].mailbox = a /\ a \in mailboxes /\ mb[a].owner = a

ActorsHaveInboxes == \A a \in Id : Lives(a) => HasInbox(a)

\* What a thread is about to close is a slot, or cannot be found any more.
ClosesInPrivate(t) ==
  /\ Pc(t) = "close_inbox" => Arg(t) \notin mailboxes /\ kind[Arg(t)] # "none"
  /\ Pc(t) \in {"into", "rel_erase", "rel_close", "rel_retire"} => kind[Arg(t)] = "slot"
  /\ Pc(t) = "close" =>
       \A b \in th[t].todo : kind[b] # "none" /\ (kind[b] # "slot" => b \notin mailboxes)

MailInv ==
  /\ InboxesAreInformed
  /\ ActorsHaveInboxes
  /\ \A t \in Id : ClosesInPrivate(t)

-----------------------------------------------------------------------------
(* What a method does to Stop.                                             *)

\* From x to y an inbox keeps its owner and its Stop, and is not closed.
Keeps(x, y) ==
  /\ y.owner = x.owner /\ y.dead = x.dead
  /\ StopHeld(x) => StopHeld(y)
  /\ y.stopped => x.stopped \/ StopHeld(y)

LEMMA AppendKeepsStop ==
  ASSUME NEW q \in Seq(MailOf(Id)), NEW mail \in MailOf(Id),
         (\E i \in 1 .. Len(q) : q[i].kind = "stop") \/ mail.kind = "stop"
  PROVE \E i \in 1 .. Len(Append(q, mail)) : Append(q, mail)[i].kind = "stop"
<1>1. Len(q) \in Nat /\ Len(Append(q, mail)) = Len(q) + 1 OBVIOUS
<1>2. Append(q, mail)[Len(q) + 1] = mail OBVIOUS
<1>3. \A i \in 1 .. Len(q) : Append(q, mail)[i] = q[i] OBVIOUS
<1> QED BY <1>1, <1>2, <1>3

LEMMA PutKeeps ==
  ASSUME NEW b \in MailboxOf(Id), NEW mail \in MailOf(Id)
  PROVE Keeps(b, Put(b, mail))
<1>1. CASE b.dead \/ (mail.kind = "stop" /\ b.stopped) BY <1>1 DEF Put, Keeps
<1>2. CASE ~(b.dead \/ (mail.kind = "stop" /\ b.stopped))
  <2>1. b.q \in Seq(MailOf(Id)) BY DEF MailboxOf
  <2>2. /\ Put(b, mail).owner = b.owner /\ Put(b, mail).dead = b.dead
        /\ Put(b, mail).q = Append(b.q, mail) /\ Put(b, mail).stop_seen = b.stop_seen
        /\ Put(b, mail).stopped => b.stopped \/ mail.kind = "stop"
    BY <1>2 DEF Put, MailboxOf
  <2> QED BY <2>1, <2>2, AppendKeepsStop DEF Keeps, StopHeld
<1> QED BY <1>1, <1>2

\* Stop itself is held afterwards.
LEMMA PutStopInforms ==
  ASSUME NEW b \in MailboxOf(Id), ~b.dead, b.stopped => StopHeld(b)
  PROVE StopHeld(Put(b, Stop))
<1>1. CASE b.stopped BY <1>1 DEF Put, Stop
<1>2. CASE ~b.stopped
  <2>1. b.q \in Seq(MailOf(Id)) BY DEF MailboxOf
  <2>2. Put(b, Stop).q = Append(b.q, Stop) BY <1>2 DEF Put, MailboxOf
  <2>3. Stop \in MailOf(Id) /\ Stop.kind = "stop" BY DEF Stop, MailOf
  <2> QED BY <2>1, <2>2, <2>3, AppendKeepsStop DEF StopHeld
<1> QED BY <1>1, <1>2

LEMMA OfferKeeps ==
  ASSUME NEW b \in MailboxOf(Id), NEW mail \in MailOf(Id)
  PROVE Keeps(b, Offer(b, mail, Capacity))
<1>1. b.q \in Seq(MailOf(Id)) BY DEF MailboxOf
<1>2. /\ Push(b, mail).owner = b.owner /\ Push(b, mail).dead = b.dead
      /\ Push(b, mail).q = Append(b.q, mail) /\ Push(b, mail).stop_seen = b.stop_seen
      /\ Push(b, mail).stopped = b.stopped
  BY DEF Push, MailboxOf
<1> QED BY <1>1, <1>2, AppendKeepsStop DEF Keeps, StopHeld, Offer

\* A Stop that is taken has been seen.
LEMMA TakeKeeps ==
  ASSUME NEW b \in MailboxOf(Id)
  PROVE Keeps(b, Take(b))
<1>1. CASE b.q = <<>> BY <1>1 DEF Take, Keeps
<1>2. CASE b.q # <<>>
  <2>1. b.q \in Seq(MailOf(Id)) BY DEF MailboxOf
  <2>2. /\ Take(b).owner = b.owner /\ Take(b).dead = b.dead
        /\ Take(b).stopped = b.stopped /\ Take(b).q = Tail(b.q)
    BY <1>2 DEF Take, MailboxOf
  <2>3. b.stop_seen \/ Head(b.q).kind = "stop" => Take(b).stop_seen
    BY <1>2 DEF Take, MailboxOf
  <2>4. Len(b.q) \in Nat \ {0} /\ Len(Tail(b.q)) = Len(b.q) - 1 /\ Head(b.q) = b.q[1]
    BY <1>2, <2>1
  <2>5. \A i \in 2 .. Len(b.q) : i - 1 \in 1 .. Len(Tail(b.q)) /\ Tail(b.q)[i - 1] = b.q[i]
    BY <1>2, <2>1, <2>4
  <2>6. ASSUME NEW i \in 1 .. Len(b.q), b.q[i].kind = "stop" PROVE StopHeld(Take(b))
    <3>1. CASE i = 1 BY <2>3, <2>4, <2>6, <3>1 DEF StopHeld
    <3>2. CASE i # 1
      <4>1. i \in 2 .. Len(b.q) BY <2>4, <3>2
      <4> QED BY <2>2, <2>5, <2>6, <4>1 DEF StopHeld
    <3> QED BY <3>1, <3>2
  <2>7. StopHeld(b) => StopHeld(Take(b)) BY <2>3, <2>6 DEF StopHeld
  <2> QED BY <2>2, <2>7 DEF Keeps
<1> QED BY <1>1, <1>2

LEMMA ReleaseKeeps ==
  ASSUME NEW b \in MailboxOf(Id)
  PROVE Keeps(b, Release(b))
<1>1. /\ Release(b).owner = b.owner /\ Release(b).dead = b.dead
      /\ Release(b).q = b.q /\ Release(b).stop_seen = b.stop_seen
      /\ Release(b).stopped = b.stopped
  BY DEF Release, MailboxOf
<1> QED BY <1>1 DEF Keeps, StopHeld

LEMMA KeepsReflexive == \A x : Keeps(x, x)
BY DEF Keeps

\* An inbox at its birth.
LEMMA BornInformed ==
  ASSUME NEW owner \in Id \cup {NO_OWNER}
  PROVE LET b == NewMailbox(owner) IN
        /\ Informed(b, FALSE) /\ b.owner = owner
        /\ owner = Root => Informed(b, TRUE)
        /\ Informed(Release(Put(b, Stop)), TRUE)
        /\ Release(Put(b, Stop)).owner = owner
<1> DEFINE b == NewMailbox(owner)
           c == Put(b, Stop)
<1>1. b \in MailboxOf(Id) BY NewMailboxType
<1>2. ~b.dead /\ ~b.stopped /\ b.owner = owner BY DEF NewMailbox
<1> HIDE DEF b
<1>3. c \in MailboxOf(Id) /\ Keeps(b, c) /\ StopHeld(c)
  BY <1>1, <1>2, SystemMail, PutType, PutKeeps, PutStopInforms
<1> HIDE DEF c
<1>4. Keeps(c, Release(c)) BY <1>3, ReleaseKeeps
<1>5. Informed(b, FALSE) /\ (owner = Root => Informed(b, TRUE)) BY <1>2 DEF Informed
<1>6. Informed(Release(c), TRUE) /\ Release(c).owner = owner
  BY <1>2, <1>3, <1>4 DEF Keeps, Informed
<1> QED BY <1>2, <1>5, <1>6 DEF b, c

-----------------------------------------------------------------------------
(* Steps.                                                                  *)

Lively(p) == p \notin {"none", "erase", "close", "mark", "report", "done"}

Private == {"close_inbox", "into", "rel_erase", "rel_close", "rel_retire", "close"}

\* An inbox that was open keeps its Stop; one that is new is born informed.
BoxesKept ==
  \A b \in mailboxes' :
    \/ b \in mailboxes /\ (kind[b] # "slot" => Keeps(mb[b], mb'[b]))
    \/ /\ kind[b] = "none" /\ kind'[b] # "none"
       /\ kind'[b] # "slot" => Informed(mb'[b], stopping)

\* The general form of a step before, or after, the end of the world is announced.
LEMMA MailKept ==
  ASSUME Inv, MailInv, stopping' = stopping, BoxesKept, mailboxes' \subseteq Id,
         \A i \in Id : kind[i] # "none" => kind'[i] = kind[i],
         \A a \in Id : Lives(a)' =>
           \/ HasInbox(a)'
           \/ /\ Lives(a) /\ iso'[a].mailbox = iso[a].mailbox
              /\ a \in mailboxes /\ mb[a].owner = a => a \in mailboxes',
         \A u \in Id : th'[u] = th[u] \/ ClosesInPrivate(u)'
  PROVE MailInv'
<1>1. /\ \A b \in mailboxes : kind[b] # "none" /\ (kind[b] # "slot" => Informed(mb[b], stopping))
      /\ mailboxes \subseteq Id
  BY DEF Inv, TypeInv, TypeOK, MailInv, InboxesAreInformed
<1>2. InboxesAreInformed'
  <2> SUFFICES ASSUME NEW b \in mailboxes'
               PROVE kind'[b] # "none" /\ (kind'[b] # "slot" => Informed(mb'[b], stopping))
    BY DEF InboxesAreInformed
  <2>1. CASE b \in mailboxes /\ (kind[b] # "slot" => Keeps(mb[b], mb'[b]))
    BY <1>1, <2>1 DEF Keeps, Informed
  <2> QED BY <2>1 DEF BoxesKept
<1>3. ActorsHaveInboxes'
  <2> SUFFICES ASSUME NEW a \in Id, Lives(a)', ~HasInbox(a)' PROVE FALSE
    BY DEF ActorsHaveInboxes
  <2>1. /\ Lives(a) /\ iso'[a].mailbox = iso[a].mailbox /\ HasInbox(a)
        /\ a \in mailboxes /\ mb[a].owner = a => a \in mailboxes'
    BY DEF MailInv, ActorsHaveInboxes
  <2>2. kind[a] = "actor" BY <2>1 DEF Lives
  <2>3. iso[a].mailbox \in Id BY DEF Inv, TypeInv, TypeOK, IsolateRecord
  <2>4. CASE kind[iso[a].mailbox] = "slot" BY <2>1, <2>3, <2>4 DEF HasInbox
  <2>5. CASE iso[a].mailbox = a /\ a \in mailboxes /\ mb[a].owner = a
    <3>1. Keeps(mb[a], mb'[a]) BY <2>1, <2>2, <2>5 DEF BoxesKept
    <3> QED BY <2>1, <2>5, <3>1 DEF HasInbox, Keeps
  <2> QED BY <2>1, <2>4, <2>5 DEF HasInbox
<1>4. ASSUME NEW u \in Id, th'[u] = th[u] PROVE ClosesInPrivate(u)'
  <2>1. ClosesInPrivate(u) BY DEF MailInv
  <2>2. Arg(u) \in Id /\ th[u].todo \subseteq Id
    BY DEF Inv, TypeInv, TypeOK, ThreadRecord, Arg
  <2>3. \A b \in Id : kind[b] # "none" /\ b \notin mailboxes => b \notin mailboxes'
    BY DEF BoxesKept
  <2> QED BY <1>4, <2>1, <2>2, <2>3 DEF ClosesInPrivate, Pc, Arg
<1> QED BY <1>2, <1>3, <1>4 DEF MailInv

\* The usual step: of one thread, whose actor is not brought back to life, and nothing new.
LEMMA OneThread ==
  ASSUME Inv, MailInv, NEW t \in Id, stopping' = stopping, kind' = kind,
         mailboxes' \subseteq mailboxes,
         \A b \in mailboxes' : kind[b] # "slot" => Keeps(mb[b], mb'[b]),
         \A a \in Id : iso'[a].mailbox = iso[a].mailbox,
         \A a \in Id : Lives(a)' /\ a \in mailboxes /\ mb[a].owner = a => a \in mailboxes',
         \A u \in Id : u # t => th'[u] = th[u],
         Lively(Pc(t)) \/ ~Lively(Pc(t)'),
         Pc(t)' \in Private => ClosesInPrivate(t)'
  PROVE MailInv'
<1>1. \A a \in Id : Lives(a)' => Lives(a) BY DEF Lives, Lively, Pc
<1>2. \A u \in Id : th'[u] = th[u] \/ ClosesInPrivate(u)'
  BY DEF ClosesInPrivate, Private
<1>3. mailboxes' \subseteq Id /\ BoxesKept BY DEF Inv, TypeInv, TypeOK, BoxesKept
<1> QED BY <1>1, <1>2, <1>3, MailKept

\* What an assignment to a thread leaves it at: the fields ClosesInPrivate asks for.
LEMMA ThreadArgs ==
  ASSUME NEW f \in [Id -> ThreadRecord], NEW t \in Id, NEW p \in Pcs, NEW s \in Id,
         NEW boxes \in SUBSET Id
  PROVE /\ [f EXCEPT ![t].pc = p, ![t].arg = s][t].pc = p
        /\ [f EXCEPT ![t].pc = p, ![t].arg = s][t].arg = s
        /\ [f EXCEPT ![t].pc = p, ![t].todo = boxes][t].pc = p
        /\ [f EXCEPT ![t].pc = p, ![t].todo = boxes][t].todo = boxes
        /\ [f EXCEPT ![t].todo = boxes][t].pc = f[t].pc
        /\ [f EXCEPT ![t].todo = boxes][t].todo = boxes
        /\ [f EXCEPT ![t].pc = p][t].pc = p
        /\ [f EXCEPT ![t].pc = p][t].arg = f[t].arg
BY DEF ThreadRecord

\* Steps that touch no inbox: natives that look, joins, returns and faults.
LEMMA LooksKeepMail ==
  ASSUME Inv, MailInv, NEW t \in Id, NEW b \in Id,
         \/ SpawnIntoCheck(t, b) \/ JoinTask(t, b) \/ ReleaseSlot(t, b) \/ StopActor(t, b)
         \/ StopList(t) \/ Return(t) \/ Fault(t) \/ JoinReturns(t) \/ SpawnRegister(t)
         \/ EndMark(t) \/ EndFinish(t)
  PROVE MailInv'
<1>1. /\ th \in [Id -> ThreadRecord] /\ iso \in [Id -> IsolateRecord]
      /\ mailboxes \subseteq Id /\ TypeOK
  BY DEF Inv, TypeInv, TypeOK
<1>2. /\ stopping' = stopping /\ kind' = kind /\ mailboxes' = mailboxes /\ mb' = mb
  BY DEF SpawnIntoCheck, JoinTask, ReleaseSlot, StopActor, StopList, Return, Fault,
     JoinReturns, SpawnRegister, EndMark, EndFinish
<1>3. \A u \in Id : u # t => th'[u] = th[u]
  BY <1>1 DEF SpawnIntoCheck, JoinTask, ReleaseSlot, StopActor, StopList, Return, Fault,
     JoinReturns, SpawnRegister, EndMark, EndFinish
<1>4. \A a \in Id : iso'[a].mailbox = iso[a].mailbox
  <2>1. CASE JoinTask(t, b) BY <1>1, <2>1 DEF JoinTask, IsolateRecord
  <2>2. CASE JoinReturns(t) BY <1>1, <2>2 DEF JoinReturns, IsolateRecord
  <2>3. CASE EndMark(t)
    <3>1. iso' = [iso EXCEPT ![t] = [iso[t] EXCEPT !.ended = TRUE, !.watchers = <<>>]]
      BY <1>1, <2>3 DEF EndMark
    <3>2. [iso[t] EXCEPT !.ended = TRUE, !.watchers = <<>>].mailbox = iso[t].mailbox
      BY <1>1 DEF IsolateRecord
    <3> QED BY <1>1, <3>1, <3>2
  <2>4. CASE iso' = iso BY <2>4
  <2> QED BY <2>1, <2>2, <2>3, <2>4 DEF SpawnIntoCheck, ReleaseSlot, StopActor, StopList,
      Return, Fault, SpawnRegister, EndFinish
<1>5. /\ Lively(Pc(t)) \/ ~Lively(Pc(t)')
      /\ Pc(t)' \in Private => ClosesInPrivate(t)'
  <2>1. CASE SpawnIntoCheck(t, b)
    <3>1. Lively(Pc(t)) /\ Pc(t)' = "into" /\ Arg(t)' = b /\ kind[b] = "slot"
      BY <1>1, <2>1, ThreadArgs DEF SpawnIntoCheck, Calling, At, Pc, Arg, Lively, Pcs
    <3> QED BY <1>2, <3>1 DEF ClosesInPrivate
  <2>2. CASE ReleaseSlot(t, b)
    <3>1. Lively(Pc(t)) /\ Pc(t)' = "rel_erase" /\ Arg(t)' = b /\ kind[b] = "slot"
      BY <1>1, <2>2, ThreadArgs DEF ReleaseSlot, Calling, At, Pc, Arg, Lively, Pcs
    <3> QED BY <1>2, <3>1 DEF ClosesInPrivate
  <2>3. CASE JoinTask(t, b)
    <3>1. Lively(Pc(t)) /\ Pc(t)' = "join"
      BY <1>1, <2>3, ThreadArgs DEF JoinTask, Calling, At, Pc, Lively, Pcs
    <3> QED BY <3>1 DEF Private
  <2>4. CASE StopActor(t, b)
    <3>1. mb[b].owner \in Id
      BY <2>4 DEF StopActor, Inv, TypeInv, TypeOK, MailboxOf
    <3>2. Lively(Pc(t)) /\ Pc(t)' = "stop_list"
      BY <1>1, <2>4, <3>1, ThreadArgs DEF StopActor, Calling, At, Pc, Lively, Pcs
    <3> QED BY <3>2 DEF Private
  <2>5. CASE StopList(t)
    <3> DEFINE boxes == MailboxesOf(th[t].arg)
    <3>1. Lively(Pc(t)) BY <2>5 DEF StopList, At, Pc, Lively
    <3>2. th'[t] = IF boxes = {} THEN Returned(t)
                   ELSE [th[t] EXCEPT !.pc = "stop_put", !.todo = boxes]
      BY <1>1, <2>5 DEF StopList
    <3> HIDE DEF boxes
    <3>3. [th[t] EXCEPT !.pc = "stop_put", !.todo = boxes].pc = "stop_put"
      BY <1>1 DEF ThreadRecord
    <3>4. Returned(t).pc = "run" BY <1>1, LeavesAt
    <3>5. Pc(t)' \in {"run", "stop_put"} BY <3>2, <3>3, <3>4 DEF Pc
    <3> QED BY <3>1, <3>5 DEF Private
  <2>6. CASE Return(t) \/ Fault(t)
    <3>1. Lively(Pc(t)) BY <2>6 DEF Return, Fault, Calling, At, Pc, Lively
    <3>2. Pc(t)' = Unwind(t)
      <4>1. th'[t] \in {Unwound(t, TRUE), Unwound(t, FALSE)}
        BY <1>1, <2>6 DEF Return, Fault
      <4> QED BY <1>1, <4>1, LeavesAt DEF Pc
    <3> QED BY <3>1, <3>2 DEF Unwind, Private
  <2>7. CASE JoinReturns(t) \/ SpawnRegister(t)
    <3>1. Lively(Pc(t)) BY <2>7 DEF JoinReturns, SpawnRegister, At, Pc, Lively
    <3>2. Pc(t)' = "run" BY <1>1, <2>7, LeavesAt DEF JoinReturns, SpawnRegister, Pc
    <3> QED BY <3>1, <3>2 DEF Private
  <2>8. CASE EndMark(t) \/ EndFinish(t)
    <3>1. Pc(t)' \in {"report", "done"}
      BY <1>1, <2>8 DEF EndMark, EndFinish, Pc, ThreadRecord
    <3> QED BY <3>1 DEF Private, Lively
  <2> QED BY <2>1, <2>2, <2>3, <2>4, <2>5, <2>6, <2>7, <2>8
<1> QED BY <1>1, <1>2, <1>3, <1>4, <1>5, KeepsReflexive, OneThread

\* Mail that is queued or taken: no inbox loses its Stop.
LEMMA MailKeepsStop ==
  ASSUME TypeOK, NEW t \in Id, NEW b \in Id, NEW c \in Id,
         \/ Send(t, b) \/ Receive(t, b) \/ StopPut(t, b) \/ Monitor(t, b, c)
         \/ MonitorGone(t, b, c) \/ EndTellStarter(t) \/ EndReport(t)
  PROVE \A x \in Id : Keeps(mb[x], mb'[x])
<1>1. mb \in [Id -> MailboxOf(Id)] BY DEF TypeOK
<1>2. CASE Send(t, b)
  <2>1. Msg(mb[b].owner) \in MailOf(Id) BY <1>1, SystemMail DEF MailboxOf
  <2>2. Keeps(mb[b], Offer(mb[b], Msg(mb[b].owner), Capacity))
    BY <1>1, <2>1, OfferKeeps
  <2> QED BY <1>1, <1>2, <2>2, KeepsReflexive DEF Send
<1>3. CASE Receive(t, b)
  <2>1. Keeps(mb[b], Take(mb[b])) BY <1>1, TakeKeeps
  <2> QED BY <1>1, <1>3, <2>1, KeepsReflexive DEF Receive
<1>4. CASE StopPut(t, b)
  <2>1. Keeps(mb[b], Put(mb[b], Stop)) BY <1>1, SystemMail, PutKeeps
  <2> QED BY <1>1, <1>4, <2>1, KeepsReflexive DEF StopPut
<1>5. CASE MonitorGone(t, b, c)
  <2>1. Keeps(mb[b], Put(mb[b], Exited(c, "gone"))) BY <1>1, SystemMail, PutKeeps
  <2> QED BY <1>1, <1>5, <2>1, KeepsReflexive DEF MonitorGone
<1>6. CASE EndTellStarter(t)
  <2>1. \A x \in Id : mb'[x] \in {mb[x], Put(mb[x], Exited(t, "fault"))}
    BY <1>1, <1>6 DEF EndTellStarter
  <2>2. \A x \in Id : Keeps(mb[x], Put(mb[x], Exited(t, "fault")))
    BY <1>1, SystemMail, PutKeeps
  <2> QED BY <2>1, <2>2, KeepsReflexive
<1>7. CASE EndReport(t)
  <2> DEFINE y == Head(th[t].due)
             r == IF th[t].faulted THEN "fault" ELSE "normal"
  <2>1. mb' = [mb EXCEPT ![y] = IF y \in mailboxes THEN Put(mb[y], Exited(t, r)) ELSE mb[y]]
    BY <1>7 DEF EndReport
  <2>2. Exited(t, r) \in MailOf(Id) BY SystemMail
  <2> HIDE DEF y, r
  <2>3. \A x \in Id : mb'[x] \in {mb[x], Put(mb[x], Exited(t, r))} BY <1>1, <2>1
  <2>4. \A x \in Id : Keeps(mb[x], Put(mb[x], Exited(t, r))) BY <1>1, <2>2, PutKeeps
  <2> QED BY <2>3, <2>4, KeepsReflexive
<1>8. CASE Monitor(t, b, c) BY <1>8, KeepsReflexive DEF Monitor
<1> QED BY <1>2, <1>3, <1>4, <1>5, <1>6, <1>7, <1>8

\* Steps that put mail into inboxes, or take it out.
LEMMA MailKeepsMail ==
  ASSUME Inv, MailInv, NEW t \in Id, NEW b \in Id, NEW c \in Id,
         \/ Send(t, b) \/ Receive(t, b) \/ StopPut(t, b) \/ Monitor(t, b, c)
         \/ MonitorGone(t, b, c) \/ EndTellStarter(t) \/ EndReport(t)
  PROVE MailInv'
<1>1. /\ th \in [Id -> ThreadRecord] /\ iso \in [Id -> IsolateRecord]
      /\ mb \in [Id -> MailboxOf(Id)] /\ mailboxes \subseteq Id /\ TypeOK
  BY DEF Inv, TypeInv, TypeOK
<1>2. stopping' = stopping /\ kind' = kind /\ mailboxes' = mailboxes
  BY DEF Send, Receive, StopPut, Monitor, MonitorGone, EndTellStarter, EndReport
<1>3. \A u \in Id : u # t => th'[u] = th[u]
  BY <1>1 DEF Send, Receive, StopPut, Monitor, MonitorGone, EndTellStarter, EndReport
<1>4. \A a \in Id : iso'[a].mailbox = iso[a].mailbox
  <2>1. CASE Monitor(t, b, c) BY <1>1, <2>1 DEF Monitor, IsolateRecord
  <2>2. CASE iso' = iso BY <2>2
  <2> QED BY <2>1, <2>2 DEF Send, Receive, StopPut, MonitorGone, EndTellStarter, EndReport
<1>5. \A x \in Id : Keeps(mb[x], mb'[x]) BY <1>1, MailKeepsStop
<1>6. /\ Lively(Pc(t)) \/ ~Lively(Pc(t)')
      /\ Pc(t)' \in Private => ClosesInPrivate(t)'
  <2>1. CASE Send(t, b) \/ Monitor(t, b, c) \/ MonitorGone(t, b, c)
    BY <2>1 DEF Send, Monitor, MonitorGone, Calling, At, Pc, Lively, Private
  <2>2. CASE Receive(t, b)
    <3>1. Pc(t) = "run" BY <2>2 DEF Receive, Calling, At, Pc
    <3>2. Pc(t)' = "run" BY <1>1, <2>2, <3>1, ThreadReads DEF Receive, Pc
    <3> QED BY <3>1, <3>2 DEF Lively, Private
  <2>3. CASE StopPut(t, b)
    <3>1. Pc(t) = "stop_put" BY <2>3 DEF StopPut, At, Pc
    <3> DEFINE left == th[t].todo \ {b}
    <3>2. th'[t] \in {Returned(t), [th[t] EXCEPT !.todo = left]} BY <1>1, <2>3 DEF StopPut
    <3> HIDE DEF left
    <3>3. [th[t] EXCEPT !.todo = left].pc = "stop_put" BY <1>1, <3>1, RecordReads DEF Pc
    <3>4. Pc(t)' \in {"run", "stop_put"} BY <1>1, <3>2, <3>3, LeavesAt DEF Pc
    <3> QED BY <3>1, <3>4 DEF Lively, Private
  <2>4. CASE EndTellStarter(t)
    <3>1. Pc(t)' = "mark" BY <1>1, <2>4 DEF EndTellStarter, Pc, ThreadRecord
    <3> QED BY <3>1 DEF Lively, Private
  <2>5. CASE EndReport(t)
    <3>1. Pc(t) = "report" BY <2>5 DEF EndReport, At, Pc
    <3>2. Pc(t)' = "report" BY <1>1, <2>5, <3>1, ThreadReads DEF EndReport, Pc
    <3> QED BY <3>1, <3>2 DEF Lively, Private
  <2> QED BY <2>1, <2>2, <2>3, <2>4, <2>5
<1> QED BY <1>1, <1>2, <1>3, <1>4, <1>5, <1>6, OneThread

\* Steps that close an inbox, or end or empty a slot.
LEMMA ClosesKeepMail ==
  ASSUME Inv, MailInv, NEW t \in Id, NEW b \in Id,
         \/ CloseInbox(t, b) \/ CloseInboxDone(t) \/ ReleaseErase(t) \/ ReleaseClose(t)
         \/ ReleaseRetire(t) \/ EndErase(t) \/ EndClose(t, b)
  PROVE MailInv'
<1>1. /\ th \in [Id -> ThreadRecord] /\ iso \in [Id -> IsolateRecord]
      /\ mb \in [Id -> MailboxOf(Id)] /\ mailboxes \subseteq Id /\ TypeOK
  BY DEF Inv, TypeInv, TypeOK
<1>2. stopping' = stopping /\ kind' = kind /\ iso' = iso /\ mailboxes' \subseteq mailboxes
  BY DEF CloseInbox, CloseInboxDone, ReleaseErase, ReleaseClose, ReleaseRetire, EndErase,
     EndClose
<1>3. \A u \in Id : u # t => th'[u] = th[u]
  BY <1>1 DEF CloseInbox, CloseInboxDone, ReleaseErase, ReleaseClose, ReleaseRetire,
     EndErase, EndClose
<1>4. ClosesInPrivate(t) BY DEF MailInv
<1>5. \A x \in mailboxes' : kind[x] # "slot" => Keeps(mb[x], mb'[x])
  <2>1. CASE CloseInboxDone(t)
    <3>1. Arg(t) \notin mailboxes BY <1>4, <2>1 DEF CloseInboxDone, ClosesInPrivate, At, Pc
    <3> QED BY <1>1, <2>1, <3>1, KeepsReflexive DEF CloseInboxDone, Arg
  <2>2. CASE ReleaseClose(t) \/ ReleaseRetire(t)
    <3>1. kind[Arg(t)] = "slot"
      BY <1>4, <2>2 DEF ReleaseClose, ReleaseRetire, ClosesInPrivate, At, Pc
    <3> QED BY <1>1, <2>2, <3>1, KeepsReflexive DEF ReleaseClose, ReleaseRetire, Arg
  <2>3. CASE EndClose(t, b)
    <3>1. kind[b] # "slot" => b \notin mailboxes
      BY <1>4, <2>3 DEF EndClose, ClosesInPrivate, At, Pc
    <3> QED BY <1>1, <2>3, <3>1, KeepsReflexive DEF EndClose
  <2>4. CASE mb' = mb BY <2>4, KeepsReflexive
  <2> QED BY <2>1, <2>2, <2>3, <2>4 DEF CloseInbox, ReleaseErase, EndErase
<1>6. /\ Lively(Pc(t)) \/ ~Lively(Pc(t)')
      /\ Pc(t)' \in Private => ClosesInPrivate(t)'
  <2>1. CASE CloseInbox(t, b)
    <3>1. Lively(Pc(t)) /\ Pc(t)' = "close_inbox" /\ Arg(t)' = b /\ b \notin mailboxes'
      BY <1>1, <2>1, ThreadArgs DEF CloseInbox, Calling, At, Pc, Arg, Lively, Pcs
    <3>2. b \in mailboxes /\ kind[b] = "inbox" BY <2>1 DEF CloseInbox, Own
    <3> QED BY <1>2, <3>1, <3>2 DEF ClosesInPrivate
  <2>2. CASE CloseInboxDone(t) \/ ReleaseRetire(t)
    <3>1. Lively(Pc(t)) BY <2>2 DEF CloseInboxDone, ReleaseRetire, At, Pc, Lively
    <3>2. Pc(t)' = "run" BY <1>1, <2>2, LeavesAt DEF CloseInboxDone, ReleaseRetire, Pc
    <3> QED BY <3>1, <3>2 DEF Private
  <2>3. CASE ReleaseErase(t) \/ ReleaseClose(t)
    <3>1. Lively(Pc(t)) /\ kind[Arg(t)] = "slot"
      BY <1>4, <2>3 DEF ReleaseErase, ReleaseClose, ClosesInPrivate, At, Pc, Lively
    <3>2. PICK p \in {"rel_close", "rel_retire"} : th' = [th EXCEPT ![t].pc = p]
      BY <2>3 DEF ReleaseErase, ReleaseClose
    <3>3. Pc(t)' = p /\ Arg(t)' = Arg(t)
      BY <1>1, <3>2, ThreadArgs DEF Pc, Arg, Pcs
    <3> QED BY <1>2, <3>1, <3>3 DEF ClosesInPrivate
  <2>4. CASE EndErase(t)
    <3>1. MailboxesOf(t) \in SUBSET Id BY <1>1 DEF MailboxesOf
    <3>2. Pc(t)' = "close" /\ th'[t].todo = MailboxesOf(t)
      BY <1>1, <2>4, <3>1, ThreadArgs DEF EndErase, Pc, Pcs
    <3>3. \A x \in MailboxesOf(t) : /\ kind[x] # "none"
                                    /\ kind[x] # "slot" => x \notin mailboxes'
      BY <2>4 DEF EndErase, MailboxesOf, MailInv, InboxesAreInformed
    <3> QED BY <1>2, <3>2, <3>3 DEF ClosesInPrivate, Lively
  <2>5. CASE EndClose(t, b)
    <3> DEFINE left == th[t].todo \ {b}
    <3>1. Pc(t) = "close" BY <2>5 DEF EndClose, At, Pc
    <3>2. left \in SUBSET Id BY <1>1 DEF ThreadRecord
    <3>3. th' = [th EXCEPT ![t].todo = left] BY <2>5 DEF EndClose
    <3> HIDE DEF left
    <3>4. Pc(t)' = "close" /\ th'[t].todo = left
      BY <1>1, <3>1, <3>2, <3>3, ThreadArgs DEF Pc
    <3>5. \A x \in left : kind[x] # "none" /\ (kind[x] # "slot" => x \notin mailboxes)
      BY <1>4, <3>1 DEF ClosesInPrivate, left
    <3> QED BY <1>2, <3>1, <3>4, <3>5 DEF ClosesInPrivate, Lively
  <2> QED BY <2>1, <2>2, <2>3, <2>4, <2>5
<1>7. ASSUME NEW a \in Id, Lives(a)', a \in mailboxes, mb[a].owner = a PROVE a \in mailboxes'
  <2>1. kind[a] = "actor" BY <1>2, <1>7 DEF Lives
  <2>2. CASE CloseInbox(t, b)
    <3>1. kind[b] = "inbox" BY <2>2 DEF CloseInbox, Own
    <3> QED BY <1>7, <2>1, <2>2, <3>1 DEF CloseInbox
  <2>3. CASE ReleaseErase(t)
    <3>1. kind[Arg(t)] = "slot" BY <1>4, <2>3 DEF ReleaseErase, ClosesInPrivate, At, Pc
    <3> QED BY <1>7, <2>1, <2>3, <3>1 DEF ReleaseErase, Arg
  <2>4. CASE EndErase(t)
    <3>1. Pc(t)' = "close"
      <4>1. MailboxesOf(t) \in SUBSET Id BY <1>1 DEF MailboxesOf
      <4> QED BY <1>1, <2>4, <4>1, ThreadArgs DEF EndErase, Pc, Pcs
    <3>2. a # t BY <1>7, <3>1 DEF Lives
    <3> QED BY <1>7, <2>4, <3>2 DEF EndErase
  <2>5. CASE mailboxes' = mailboxes BY <1>7, <2>5
  <2> QED BY <2>2, <2>3, <2>4, <2>5 DEF CloseInboxDone, ReleaseClose, ReleaseRetire, EndClose
<1> QED BY <1>2, <1>3, <1>5, <1>6, <1>7, OneThread

\* A new isolate: its starter and it are in no critical moment of an inbox, the others stay.
LEMMA NewIsolateKeeps ==
  ASSUME Inv, MailInv, NEW t \in Id, NEW c \in Id, NEW k \in {"actor", "task"}, NEW box \in Id,
         c = next_id, Pc(t) \in {"run", "into"}, NewIsolate(t, k, box), isolates' = isolates
  PROVE /\ kind[c] = "none" /\ kind'[c] = k /\ iso'[c].mailbox = box
        /\ \A i \in Id : kind[i] # "none" => kind'[i] = kind[i]
        /\ \A u \in Id : th'[u] = th[u] \/ ClosesInPrivate(u)'
        /\ \A a \in Id : Lives(a)' /\ a # c =>
             Lives(a) /\ iso'[a].mailbox = iso[a].mailbox
<1>1. /\ th \in [Id -> ThreadRecord] /\ iso \in [Id -> IsolateRecord]
      /\ kind \in [Id -> Kinds] /\ TypeInv
  BY DEF Inv, TypeInv, TypeOK
<1>2. c \in Nat /\ kind[c] = "none" /\ Pc(c) = "none"
  BY MaxIdAssumption DEF Inv, LifeInv, FreshIdsAreUnused, Id
<1>3. t # c BY <1>2
<1>4. Makes(t, c) BY <1>1, <1>3, NewIsolateMakes
<1>5. kind' = [kind EXCEPT ![c] = k] BY DEF NewIsolate, TakeId
<1>6. \A u \in Id : u \notin {t, c} => th'[u] = th[u] BY <1>1 DEF NewIsolate
<1>7. ClosesInPrivate(t)' /\ ClosesInPrivate(c)' BY <1>4 DEF Makes, ClosesInPrivate
<1>8. \A a \in Id : iso'[a].mailbox = IF a = c THEN box ELSE iso[a].mailbox
  <2> DEFINE h == [iso EXCEPT ![c].starter = t]
  <2>1. h \in [Id -> IsolateRecord] /\ \A a \in Id : h[a].mailbox = iso[a].mailbox
    BY <1>1 DEF IsolateRecord
  <2>2. iso' = [h EXCEPT ![c].mailbox = box] BY DEF NewIsolate
  <2> HIDE DEF h
  <2> QED BY <2>1, <2>2 DEF IsolateRecord
<1>9. ASSUME NEW a \in Id, Lives(a)', a # c PROVE Lives(a)
  BY <1>1, <1>4, <1>5, <1>9 DEF Makes, Lives
<1> QED BY <1>1, <1>2, <1>5, <1>6, <1>7, <1>8, <1>9

\* A new inbox that is not a slot is informed.
LEMMA AddMailboxInforms ==
  ASSUME Inv, NEW c \in Id, c = next_id, NEW owner \in Id \cup {NO_OWNER}, AddMailbox(owner)
  PROVE /\ mailboxes' = mailboxes \cup {c} /\ \A b \in Id : b # c => mb'[b] = mb[b]
        /\ Informed(mb'[c], stopping) /\ mb'[c].owner = owner
<1>1. mb \in [Id -> MailboxOf(Id)] /\ stopping \in BOOLEAN BY DEF Inv, TypeInv, TypeOK
<1> DEFINE b == NewMailbox(owner)
           d == Release(Put(b, Stop))
<1>2. /\ Informed(b, FALSE) /\ b.owner = owner /\ (owner = Root => Informed(b, TRUE))
      /\ Informed(d, TRUE) /\ d.owner = owner
  BY BornInformed
<1>3. mb' = [mb EXCEPT ![c] = IF stopping /\ owner # Root THEN d ELSE b]
  BY DEF AddMailbox
<1> HIDE DEF b, d
<1>4. CASE stopping /\ owner # Root BY <1>1, <1>2, <1>3, <1>4 DEF AddMailbox
<1>5. CASE ~(stopping /\ owner # Root) BY <1>1, <1>2, <1>3, <1>5 DEF AddMailbox
<1> QED BY <1>4, <1>5

\* Isolates, slots and inboxes that are made.
LEMMA MakingKeepsMail ==
  ASSUME Inv, MailInv, NEW t \in Id,
         SpawnActor(t) \/ SpawnTask(t) \/ SpawnIntoTake(t) \/ NewSlot(t) \/ NewInbox(t)
  PROVE MailInv'
<1>1. /\ TypeInv /\ TypeOK /\ mailboxes \subseteq Id /\ mb \in [Id -> MailboxOf(Id)]
      /\ kind \in [Id -> Kinds] /\ th \in [Id -> ThreadRecord]
  BY DEF Inv, TypeInv, TypeOK
<1>2. next_id \in Id
  <2>1. CASE SpawnActor(t) \/ SpawnTask(t) \/ NewSlot(t) \/ NewInbox(t)
    BY <1>1, <2>1, FreshId DEF SpawnActor, SpawnTask, NewSlot, NewInbox
  <2>2. CASE SpawnIntoTake(t) BY <1>1, <2>2, FreshIdInto DEF SpawnIntoTake
  <2> QED BY <2>1, <2>2
<1>3. PICK c \in Id : c = next_id BY <1>2
<1>4. kind[c] = "none"
  BY <1>3, MaxIdAssumption DEF Inv, LifeInv, FreshIdsAreUnused, Id
<1>5. CASE SpawnActor(t)
  <2>1. NewIsolate(t, "actor", c) /\ AddMailbox(c) /\ Pc(t) = "run"
    BY <1>3, <1>5 DEF SpawnActor, Calling, At, Pc
  <2>2. isolates' = isolates /\ stopping' = stopping BY <1>5 DEF SpawnActor
  <2>3. /\ kind'[c] = "actor" /\ iso'[c].mailbox = c
        /\ \A i \in Id : kind[i] # "none" => kind'[i] = kind[i]
        /\ \A u \in Id : th'[u] = th[u] \/ ClosesInPrivate(u)'
        /\ \A a \in Id : Lives(a)' /\ a # c => Lives(a) /\ iso'[a].mailbox = iso[a].mailbox
    BY <1>3, <2>1, <2>2, NewIsolateKeeps
  <2>4. /\ mailboxes' = mailboxes \cup {c} /\ \A b \in Id : b # c => mb'[b] = mb[b]
        /\ Informed(mb'[c], stopping) /\ mb'[c].owner = c
    BY <1>3, <2>1, AddMailboxInforms
  <2>5. c \notin mailboxes BY <1>4 DEF MailInv, InboxesAreInformed
  <2>6. BoxesKept /\ mailboxes' \subseteq Id
    BY <1>1, <1>4, <2>3, <2>4, <2>5, KeepsReflexive DEF BoxesKept
  <2>7. HasInbox(c)' BY <2>3, <2>4 DEF HasInbox
  <2> QED BY <2>2, <2>3, <2>4, <2>6, <2>7, MailKept
<1>6. CASE SpawnTask(t)
  <2>1. NewIsolate(t, "task", Root) /\ Pc(t) = "run" BY <1>6 DEF SpawnTask, Calling, At, Pc
  <2>2. /\ isolates' = isolates /\ stopping' = stopping /\ mailboxes' = mailboxes
        /\ mb' = mb /\ Root \in Id
    BY <1>6, MaxIdAssumption DEF SpawnTask, Root, Id
  <2>3. /\ kind'[c] = "task"
        /\ \A i \in Id : kind[i] # "none" => kind'[i] = kind[i]
        /\ \A u \in Id : th'[u] = th[u] \/ ClosesInPrivate(u)'
        /\ \A a \in Id : Lives(a)' /\ a # c => Lives(a) /\ iso'[a].mailbox = iso[a].mailbox
    BY <1>3, <2>1, <2>2, NewIsolateKeeps
  <2>4. ~Lives(c)' BY <2>3 DEF Lives
  <2>5. BoxesKept BY <2>2, KeepsReflexive DEF BoxesKept
  <2> QED BY <1>1, <2>2, <2>3, <2>4, <2>5, MailKept
<1>7. CASE SpawnIntoTake(t)
  <2> DEFINE s == Arg(t)
  <2>1. s \in Id /\ Pc(t) = "into" /\ kind[s] = "slot"
    BY <1>1, <1>7 DEF SpawnIntoTake, At, Pc, Arg, ThreadRecord, MailInv, ClosesInPrivate
  <2>2. NewIsolate(t, "actor", s) BY <1>7 DEF SpawnIntoTake, Arg
  <2>3. /\ isolates' = isolates /\ stopping' = stopping /\ mailboxes' = mailboxes
        /\ mb' = [mb EXCEPT ![s].owner = c]
    BY <1>3, <1>7 DEF SpawnIntoTake, Arg
  <2> HIDE DEF s
  <2>4. /\ kind'[c] = "actor" /\ iso'[c].mailbox = s
        /\ \A i \in Id : kind[i] # "none" => kind'[i] = kind[i]
        /\ \A u \in Id : th'[u] = th[u] \/ ClosesInPrivate(u)'
        /\ \A a \in Id : Lives(a)' /\ a # c => Lives(a) /\ iso'[a].mailbox = iso[a].mailbox
    BY <1>3, <2>1, <2>2, <2>3, NewIsolateKeeps
  <2>5. BoxesKept BY <1>1, <2>1, <2>3, KeepsReflexive DEF BoxesKept
  <2>6. HasInbox(c)' BY <2>1, <2>4 DEF HasInbox
  <2> QED BY <1>1, <2>3, <2>4, <2>5, <2>6, MailKept
<1>8. CASE NewSlot(t) \/ NewInbox(t)
  <2>1. PICK k \in {"slot", "inbox"}, owner \in Id \cup {NO_OWNER} :
          TakeId(k) /\ AddMailbox(owner)
    BY <1>8 DEF NewSlot, NewInbox
  <2>2. stopping' = stopping /\ iso' = iso /\ th' = th BY <1>8 DEF NewSlot, NewInbox, history
  <2>3. kind' = [kind EXCEPT ![c] = k] BY <1>3, <2>1 DEF TakeId
  <2>4. /\ mailboxes' = mailboxes \cup {c} /\ \A b \in Id : b # c => mb'[b] = mb[b]
        /\ Informed(mb'[c], stopping)
    BY <1>3, <2>1, AddMailboxInforms
  <2>5. c \notin mailboxes BY <1>4 DEF MailInv, InboxesAreInformed
  <2>6. BoxesKept /\ mailboxes' \subseteq Id
    BY <1>1, <1>4, <2>3, <2>4, <2>5, KeepsReflexive DEF BoxesKept
  <2>7. \A i \in Id : kind[i] # "none" => kind'[i] = kind[i] BY <1>1, <1>4, <2>3
  <2>8. \A a \in Id : Lives(a)' => Lives(a) BY <1>1, <2>2, <2>3 DEF Lives, Pc
  <2> QED BY <2>2, <2>4, <2>6, <2>7, <2>8, MailKept
<1> QED BY <1>5, <1>6, <1>7, <1>8

\* The thread of a new isolate is made, or refused: then the inbox is withdrawn with it.
LEMMA ThreadKeepsMail ==
  ASSUME Inv, MailInv, NEW t \in Id, SpawnThread(t) \/ SpawnThreadFails(t)
  PROVE MailInv'
<1>1. /\ TypeInv /\ TypeOK /\ LifeInv /\ th \in [Id -> ThreadRecord]
      /\ mailboxes \subseteq Id /\ mb \in [Id -> MailboxOf(Id)]
      /\ iso \in [Id -> IsolateRecord]
  BY DEF Inv, TypeInv, TypeOK
<1>2. Pc(t) = "thread" BY DEF SpawnThread, SpawnThreadFails, At, Pc
<1>3. PICK c \in Id : /\ c = Child(t) /\ t # c
                      /\ Started(c) /\ Pc(c) = "born"
  BY <1>1, <1>2, StarterOf DEF Starting
<1>4. /\ stopping' = stopping /\ kind' = kind /\ iso' = iso
  BY DEF SpawnThread, SpawnThreadFails
<1>5. Made(t, c) \/ Refused(t, c) BY <1>1, <1>3, ThreadMadeOrRefused
<1>6. /\ \A u \in Id \ {t, c} : th'[u] = th[u]
      /\ Pc(t)' \in {"register", Unwind(t)} /\ Pc(c)' \in {"run", "done"}
      /\ SpawnThreadFails(t) => Pc(c)' = "done"
  <2>1. CASE SpawnThread(t)
    <3>1. Made(t, c) BY <1>1, <1>3, <2>1, ThreadMadeOrRefused
    <3>2. \A u \in Id \ {t, c} : th'[u] = th[u] BY <1>1, <1>3, <2>1 DEF SpawnThread, Child
    <3>3. ~SpawnThreadFails(t)
      <4>1. SpawnThreadFails(t) => Refused(t, c) BY <1>1, <1>3, ThreadMadeOrRefused
      <4> QED BY <3>1, <4>1 DEF Made, Refused
    <3> QED BY <3>1, <3>2, <3>3 DEF Made
  <2>2. CASE SpawnThreadFails(t)
    <3>1. Pc(c)' = "done" BY <1>1, <1>3, <2>2, ThreadMadeOrRefused DEF Refused
    <3>2. th' = [th EXCEPT ![t] = Unwound(t, TRUE), ![c].pc = "done"]
      BY <1>3, <2>2 DEF SpawnThreadFails, Child
    <3>3. \A u \in Id \ {t, c} : th'[u] = th[u] BY <1>1, <3>2
    <3>4. th'[t] = Unwound(t, TRUE) BY <1>1, <1>3, <3>2
    <3>5. Pc(t)' = Unwind(t) BY <1>1, <3>4, LeavesAt DEF Pc
    <3> QED BY <3>1, <3>3, <3>5
  <2> QED BY <2>1, <2>2
<1>7. \A u \in Id : th'[u] = th[u] \/ ClosesInPrivate(u)'
  <2>1. Pc(t)' \notin Private /\ Pc(c)' \notin Private BY <1>6 DEF Private, Unwind
  <2> QED BY <1>6, <2>1 DEF ClosesInPrivate, Private
<1>8. \A a \in Id : Lives(a)' => Lives(a)
  BY <1>2, <1>3, <1>4, <1>6 DEF Lives, Pc
<1>9. CASE mailboxes' = mailboxes /\ mb' = mb
  <2>1. BoxesKept BY <1>9, KeepsReflexive DEF BoxesKept
  <2> QED BY <1>1, <1>4, <1>7, <1>8, <1>9, <2>1, MailKept
<1>10. CASE SpawnThreadFails(t) /\ kind[c] # "task"
  <2> DEFINE b == iso[c].mailbox
  <2>1. Lives(c) BY <1>3, <1>10 DEF Lives, Started
  <2>2. HasInbox(c) BY <2>1 DEF MailInv, ActorsHaveInboxes
  <2>3. b \in Id BY <1>1 DEF IsolateRecord
  <2>4. IF kind[b] = "slot" THEN mb' = [mb EXCEPT ![b] = Vacate(mb[b])] /\ mailboxes' = mailboxes
        ELSE mb' = [mb EXCEPT ![b] = Close(mb[b])] /\ mailboxes' = mailboxes \ {b}
    BY <1>3, <1>10 DEF SpawnThreadFails, Child
  <2>5. kind[b] # "slot" => b = c BY <2>2 DEF HasInbox
  <2> HIDE DEF b
  <2>6. BoxesKept /\ mailboxes' \subseteq Id
    BY <1>1, <2>3, <2>4, KeepsReflexive DEF BoxesKept
  <2>7. ~Lives(c)' BY <1>6, <1>10 DEF Lives
  <2>8. \A a \in Id : a \in mailboxes /\ a # c => a \in mailboxes' BY <2>4, <2>5
  <2> QED BY <1>4, <1>7, <1>8, <2>6, <2>7, <2>8, MailKept
<1> QED BY <1>3, <1>9, <1>10 DEF SpawnThread, SpawnThreadFails, Child

\* The end of the world is announced to every inbox that is registered; one that comes later
\* is born with it.
LEMMA StopKeepsMail ==
  ASSUME Inv, MailInv, WorldStop
  PROVE MailInv'
<1>1. /\ TypeOK /\ th \in [Id -> ThreadRecord] /\ mailboxes \subseteq Id
      /\ mb \in [Id -> MailboxOf(Id)] /\ stopping \in BOOLEAN
  BY DEF Inv, TypeInv, TypeOK
<1>2. Root \in Id /\ kind[Root] = "root"
  BY MaxIdAssumption DEF Root, Id, Inv, LifeInv, ThreadsHaveIsolates
<1>3. /\ stopping' = TRUE /\ kind' = kind /\ iso' = iso /\ mailboxes' = mailboxes
      /\ \A u \in Id \ {Root} : th'[u] = th[u]
  BY <1>1 DEF WorldStop
<1>4. Pc(Root)' = "world_join"
  <2>1. th'[Root] = [Returned(Root) EXCEPT !.pc = "world_join"]
    BY <1>1, <1>2 DEF WorldStop
  <2>2. "world_join" \in Pcs BY DEF Pcs
  <2> QED BY <1>1, <1>2, <2>1, <2>2, LeavesAt DEF Pc
<1>5. \A b \in mailboxes : mb'[b].owner = mb[b].owner
  <2> SUFFICES ASSUME NEW b \in mailboxes PROVE mb'[b].owner = mb[b].owner OBVIOUS
  <2> DEFINE x == IF mb[b].owner # Root THEN Put(mb[b], Stop) ELSE mb[b]
  <2>1. x \in MailboxOf(Id) /\ Keeps(mb[b], x)
    BY <1>1, SystemMail, PutType, PutKeeps, KeepsReflexive
  <2>2. mb'[b] = Release(x) BY <1>1 DEF WorldStop
  <2> HIDE DEF x
  <2> QED BY <2>1, <2>2, ReleaseKeeps DEF Keeps
<1>6. InboxesAreInformed'
  <2> SUFFICES ASSUME NEW b \in mailboxes, kind[b] # "slot" PROVE Informed(mb'[b], TRUE)
    BY <1>3 DEF MailInv, InboxesAreInformed
  <2> DEFINE x == IF mb[b].owner # Root THEN Put(mb[b], Stop) ELSE mb[b]
  <2>1. Informed(mb[b], stopping) BY DEF MailInv, InboxesAreInformed
  <2>2. x \in MailboxOf(Id) /\ Keeps(mb[b], x)
    BY <1>1, SystemMail, PutType, PutKeeps, KeepsReflexive
  <2>3. mb[b].owner # Root => StopHeld(x)
    BY <1>1, <2>1, PutStopInforms DEF Informed
  <2>4. mb'[b] = Release(x) BY <1>1 DEF WorldStop
  <2> HIDE DEF x
  <2>5. Keeps(x, Release(x)) BY <2>2, ReleaseKeeps
  <2> QED BY <2>1, <2>2, <2>3, <2>4, <2>5 DEF Keeps, Informed
<1>7. ActorsHaveInboxes'
  <2> SUFFICES ASSUME NEW a \in Id, Lives(a)' PROVE HasInbox(a)' BY DEF ActorsHaveInboxes
  <2>1. a # Root BY <1>2, <1>3 DEF Lives
  <2>2. HasInbox(a) BY <1>3, <2>1 DEF Lives, Pc, MailInv, ActorsHaveInboxes
  <2> QED BY <1>3, <1>5, <2>2 DEF HasInbox
<1>8. \A u \in Id : ClosesInPrivate(u)'
  <2> SUFFICES ASSUME NEW u \in Id PROVE ClosesInPrivate(u)' OBVIOUS
  <2>1. CASE u = Root BY <1>4, <2>1 DEF ClosesInPrivate
  <2>2. CASE u # Root BY <1>3, <2>2 DEF ClosesInPrivate, Pc, Arg, MailInv
  <2> QED BY <2>1, <2>2
<1> QED BY <1>6, <1>7, <1>8 DEF MailInv

\* The joins of the destructor, and the close of the root's own inboxes.
LEMMA JoinsKeepMail ==
  ASSUME Inv, MailInv, (\E i \in Id : WorldPick(i)) \/ WorldJoined \/ WorldGone
  PROVE MailInv'
<1>1. /\ TypeOK /\ th \in [Id -> ThreadRecord] /\ iso \in [Id -> IsolateRecord]
      /\ mailboxes \subseteq Id /\ mb \in [Id -> MailboxOf(Id)]
  BY DEF Inv, TypeInv, TypeOK
<1>2. Root \in Id /\ kind[Root] = "root"
  BY MaxIdAssumption DEF Root, Id, Inv, LifeInv, ThreadsHaveIsolates
<1>3. stopping' = stopping /\ kind' = kind BY DEF WorldPick, WorldJoined, WorldGone
<1>4. \A u \in Id : u # Root => th'[u] = th[u]
  BY <1>1 DEF WorldPick, WorldJoined, WorldGone
<1>5. \A a \in Id : iso'[a].mailbox = iso[a].mailbox
  <2>1. CASE WorldJoined BY <1>1, <2>1 DEF WorldJoined, IsolateRecord
  <2>2. CASE iso' = iso BY <2>2
  <2> QED BY <2>1, <2>2 DEF WorldPick, WorldGone
<1>6. /\ mailboxes' \subseteq mailboxes
      /\ \A b \in mailboxes' : mb'[b] = mb[b]
      /\ \A b \in mailboxes : mb[b].owner # Root => b \in mailboxes'
  BY <1>1 DEF WorldPick, WorldJoined, WorldGone, MailboxesOf
<1>7. Lively(Pc(Root)) BY DEF WorldPick, WorldJoined, WorldGone, At, Pc, Lively
<1>8. Pc(Root)' \in {"world_wait", "world_join", "gone"}
  <2>1. {"world_wait", "world_join", "gone"} \subseteq Pcs BY DEF Pcs
  <2>2. ASSUME NEW i \in Id, WorldPick(i) PROVE Pc(Root)' = "world_wait"
    <3>1. th' = [th EXCEPT ![Root].pc = "world_wait", ![Root].arg = i]
      BY <2>2 DEF WorldPick
    <3>2. [th EXCEPT ![Root].pc = "world_wait", ![Root].arg = i][Root].pc = "world_wait"
      BY <1>1, <1>2, <2>1, ThreadArgs
    <3> QED BY <3>1, <3>2 DEF Pc
  <2>3. CASE WorldJoined
    BY <1>1, <1>2, <2>1, <2>3, LeavesAt DEF WorldJoined, Pc
  <2>4. CASE WorldGone BY <1>1, <1>2, <2>4, ThreadReads DEF WorldGone, Pc
  <2> QED BY <2>2, <2>3, <2>4
<1>9. Pc(Root)' \notin Private BY <1>8 DEF Private
<1>10. \A a \in Id : Lives(a)' /\ a \in mailboxes /\ mb[a].owner = a => a \in mailboxes'
  BY <1>2, <1>3, <1>6 DEF Lives
<1>11. \A b \in mailboxes' : kind[b] # "slot" => Keeps(mb[b], mb'[b])
  BY <1>6, KeepsReflexive
<1> QED BY <1>2, <1>3, <1>4, <1>5, <1>6, <1>7, <1>9, <1>10, <1>11, OneThread

\* Every step.
LEMMA StepKeepsMailInv ==
  ASSUME Inv, MailInv, [Next]_vars
  PROVE MailInv'
<1>1. Root \in Id BY MaxIdAssumption DEF Root, Id
<1>2. ASSUME NEW t \in Id, Program(t) PROVE MailInv'
  BY <1>1, <1>2, MakingKeepsMail, LooksKeepMail, MailKeepsMail, ClosesKeepMail DEF Program
<1>3. ASSUME NEW t \in Id, Runtime(t) PROVE MailInv'
  BY <1>1, <1>3, MakingKeepsMail, LooksKeepMail, MailKeepsMail, ClosesKeepMail,
     ThreadKeepsMail
     DEF Runtime
<1>4. ASSUME World PROVE MailInv' BY <1>4, StopKeepsMail, JoinsKeepMail DEF World
<1>5. ASSUME UNCHANGED vars PROVE MailInv'
  BY <1>5 DEF vars, MailInv, InboxesAreInformed, ActorsHaveInboxes, ClosesInPrivate,
     Lives, HasInbox, Pc, Arg
<1> QED BY <1>2, <1>3, <1>4, <1>5 DEF Next, Finished

LEMMA InitMailInv ==
  ASSUME Init
  PROVE MailInv
<1>1. Root \in Id BY MaxIdAssumption DEF Root, Id
<1>2. mb[Root] = NewMailbox(Root) /\ kind[Root] = "root" /\ ~stopping
  BY <1>1 DEF Init
<1>3. InboxesAreInformed
  <2>1. Informed(NewMailbox(Root), FALSE) BY <1>1, BornInformed
  <2> QED BY <1>2, <2>1 DEF Init, InboxesAreInformed, Informed
<1>4. \A a \in Id : ~Lives(a) BY DEF Init, Lives
<1>5. \A t \in Id : Pc(t) \in {"run", "none"} BY DEF Init, Pc
<1> QED BY <1>3, <1>4, <1>5 DEF MailInv, ActorsHaveInboxes, ClosesInPrivate

\* Stop is held in the inboxes of its own that a running actor can receive from.
LEMMA InformedActors ==
  ASSUME Inv, MailInv
  PROVE NoActorMissesTheEnd
<1> SUFFICES ASSUME stopping, NEW a \in Id, Running(a), NEW b \in Own(a), kind[b] # "slot"
             PROVE StopHeld(mb[b])
  BY DEF NoActorMissesTheEnd
<1>1. a # Root
  BY MaxIdAssumption DEF Running, Inv, LifeInv, ThreadsHaveIsolates, Root, Id
<1>2. HasInbox(a) BY DEF Running, Lives, Pc, MailInv, ActorsHaveInboxes
<1>3. b \in mailboxes /\ mb[b].owner = a BY <1>2 DEF Own, Running, HasInbox
<1> QED BY <1>1, <1>3 DEF MailInv, InboxesAreInformed, Informed

\* Whoever runs while its world ends holds Stop in every inbox of its own, also in one made,
\* or born with its actor, after the destructor's pass (~World, add_mailbox_locked).
THEOREM NoActorEverMissesTheEnd == Spec => []NoActorMissesTheEnd
<1>1. Init => Inv /\ MailInv BY InitInv, InitMailInv
<1>2. Inv /\ MailInv /\ [Next]_vars => (Inv /\ MailInv)'
  BY StepKeepsInv, StepKeepsMailInv
<1>3. Inv /\ MailInv => NoActorMissesTheEnd BY InformedActors
<1> QED BY <1>1, <1>2, <1>3, PTL DEF Spec

-----------------------------------------------------------------------------
(* The reports: who is told of an end finds no inbox of the dead actor,    *)
(* and each request to be told is answered once.                           *)
(*                                                                         *)
(* Both follow an actor through its epilogue.  No open inbox has an owner  *)
(* that is past its closes, so a request always finds one that has not     *)
(* taken its watchers yet, and a report is made by one that has.           *)

-----------------------------------------------------------------------------
(* What a queue holds, through each method of an inbox.                    *)

Mails(q) == {q[i] : i \in 1 .. Len(q)}

LEMMA MailsOf ==
  ASSUME NEW q \in Seq(MailOf(Id))
  PROVE /\ Mails(q) \subseteq MailOf(Id)
        /\ \A mail \in MailOf(Id) : Mails(Append(q, mail)) = Mails(q) \cup {mail}
        /\ q # <<>> => Mails(Tail(q)) \subseteq Mails(q)
<1>1. Len(q) \in Nat /\ \A i \in 1 .. Len(q) : q[i] \in MailOf(Id) OBVIOUS
<1>2. ASSUME NEW mail \in MailOf(Id)
      PROVE Mails(Append(q, mail)) = Mails(q) \cup {mail}
  <2>1. Len(Append(q, mail)) = Len(q) + 1 /\ Append(q, mail)[Len(q) + 1] = mail OBVIOUS
  <2>2. \A i \in 1 .. Len(q) : Append(q, mail)[i] = q[i] OBVIOUS
  <2>3. 1 .. Len(q) + 1 = (1 .. Len(q)) \cup {Len(q) + 1} BY <1>1
  <2> QED BY <2>1, <2>2, <2>3 DEF Mails
<1>3. ASSUME q # <<>> PROVE Mails(Tail(q)) \subseteq Mails(q)
  <2>1. Len(q) \in Nat \ {0} /\ Len(Tail(q)) = Len(q) - 1 BY <1>3
  <2>2. \A i \in 1 .. Len(Tail(q)) : i + 1 \in 1 .. Len(q) /\ Tail(q)[i] = q[i + 1]
    BY <1>3, <2>1
  <2> QED BY <2>2 DEF Mails
<1> QED BY <1>1, <1>2, <1>3 DEF Mails

LEMMA MailsEmpty == Mails(<<>>) = {} /\ \A x : Mails(<<x>>) = {x}
<1>1. 1 .. Len(<<>>) = {} OBVIOUS
<1>2. ASSUME NEW x PROVE Mails(<<x>>) = {x}
  <2>1. Len(<<x>>) = 1 /\ <<x>>[1] = x OBVIOUS
  <2>2. 1 .. Len(<<x>>) = {1} BY <2>1
  <2> QED BY <2>1, <2>2 DEF Mails
<1> QED BY <1>1, <1>2 DEF Mails

\* From x to y an inbox keeps its owner, and gets no other mail than new.
Gains(x, y, new) ==
  /\ y.owner = x.owner
  /\ Mails(y.q) \subseteq Mails(x.q) \cup new

\* From x to y an inbox gets no mail, and it may be a slot that loses owner and mail.
Drops(x, y) ==
  /\ y.owner = x.owner \/ (y.owner = NO_OWNER /\ y.q = <<>>)
  /\ Mails(y.q) \subseteq Mails(x.q)

LEMMA GainsByMethods ==
  ASSUME NEW b \in MailboxOf(Id)
  PROVE /\ \A new : Gains(b, b, new)
        /\ \A mail \in MailOf(Id) : /\ Gains(b, Put(b, mail), {mail})
                                    /\ Gains(b, Offer(b, mail, Capacity), {mail})
        /\ Gains(b, Take(b), {}) /\ Gains(b, Close(b), {}) /\ Gains(b, Release(b), {})
        /\ Gains(b, Retire(b), {Stop})
        /\ Drops(b, b) /\ Drops(b, Close(b)) /\ Drops(b, Vacate(b))
<1>1. b.q \in Seq(MailOf(Id)) BY DEF MailboxOf
<1>2. \A new : Gains(b, b, new) BY DEF Gains
<1>3. ASSUME NEW mail \in MailOf(Id)
      PROVE Gains(b, Put(b, mail), {mail}) /\ Gains(b, Offer(b, mail, Capacity), {mail})
  <2>1. /\ Put(b, mail).owner = b.owner /\ Put(b, mail).q \in {b.q, Append(b.q, mail)}
        /\ Push(b, mail).owner = b.owner /\ Push(b, mail).q = Append(b.q, mail)
    BY DEF Put, Push, MailboxOf
  <2>2. Offer(b, mail, Capacity) \in {b, Push(b, mail)} BY DEF Offer
  <2>3. Mails(Append(b.q, mail)) = Mails(b.q) \cup {mail} BY <1>1, MailsOf
  <2>4. Gains(b, Put(b, mail), {mail}) BY <2>1, <2>3 DEF Gains
  <2>5. Gains(b, Push(b, mail), {mail}) BY <2>1, <2>3 DEF Gains
  <2> QED BY <1>2, <2>2, <2>4, <2>5
<1>4. Gains(b, Take(b), {})
  <2>1. CASE b.q = <<>> BY <1>2, <2>1 DEF Take
  <2>2. CASE b.q # <<>>
    <3>1. Take(b).owner = b.owner /\ Take(b).q = Tail(b.q) BY <2>2 DEF Take, MailboxOf
    <3> QED BY <1>1, <2>2, <3>1, MailsOf DEF Gains
  <2> QED BY <2>1, <2>2
<1>5. /\ Close(b).owner = b.owner /\ Close(b).q = <<>>
      /\ Release(b).owner = b.owner /\ Release(b).q = b.q
      /\ Vacate(b).owner = NO_OWNER /\ Vacate(b).q = <<>>
      /\ Retire(b).owner = b.owner /\ Retire(b).q \in {<<>>, <<Stop>>}
  BY DEF Close, Release, Vacate, Retire, MailboxOf
<1> QED BY <1>2, <1>3, <1>4, <1>5, MailsEmpty DEF Gains, Drops

-----------------------------------------------------------------------------
(* What most steps have in common: one thread goes on in its program, or   *)
(* in the destructor, and no id is given out.                              *)

\* Where a thread is in its program, a native or the destructor.
Busy == Pcs \ {"none", "born", "erase", "close", "mark", "report", "done"}

GoesOn(t) ==
  /\ \A u \in Id : u # t => th'[u] = th[u]
  /\ Pc(t) \in Busy
  /\ \/ Pc(t)' \in Busy
     \/ kind[t] = "task" /\ Pc(t)' = "done"
     \/ kind[t] = "actor" /\ Pc(t)' = "erase"
  /\ th'[t].due = th[t].due
  /\ kind' = kind /\ mailboxes' \subseteq mailboxes
  /\ \A a \in Id : iso'[a].mailbox = iso[a].mailbox

\* A thread that comes back to its program, or leaves it, still owes what it owed.
LEMMA LeavesDue ==
  ASSUME TypeOK, NEW t \in Id
  PROVE /\ Returned(t).due = th[t].due
        /\ \A p \in Pcs : [Returned(t) EXCEPT !.pc = p].due = th[t].due
        /\ \A x \in BOOLEAN : Unwound(t, x).due = th[t].due
<1> DEFINE r == Returned(t)
<1>1. th[t] \in ThreadRecord BY DEF TypeOK
<1>2. r.due = th[t].due BY <1>1 DEF Returned, ThreadRecord
<1>3. r \in ThreadRecord BY ThreadLeaves
<1>4. Unwind(t) \in Pcs BY DEF Unwind, Pcs
<1> HIDE DEF r
<1>5. \A p \in Pcs : [r EXCEPT !.pc = p].due = r.due BY <1>3 DEF ThreadRecord
<1>6. \A p \in Pcs : \A x \in BOOLEAN : [r EXCEPT !.pc = p, !.faulted = x].due = r.due
  BY <1>3 DEF ThreadRecord
<1> QED BY <1>2, <1>4, <1>5, <1>6 DEF Unwound, r

\* The shapes of such a step.
LEMMA GoesOnBy ==
  ASSUME TypeOK, NEW t \in Id, Pc(t) \in Busy, NEW p \in Busy,
         kind' = kind, mailboxes' \subseteq mailboxes,
         \A a \in Id : iso'[a].mailbox = iso[a].mailbox
  PROVE /\ th' = th => GoesOn(t)
        /\ th' = [th EXCEPT ![t].pc = p] => GoesOn(t)
        /\ \A s \in Id : th' = [th EXCEPT ![t].pc = p, ![t].arg = s] => GoesOn(t)
        /\ \A s \in BOOLEAN : th' = [th EXCEPT ![t].stop = s] => GoesOn(t)
        /\ \A r \in ThreadRecord :
             r.pc = p /\ r.due = th[t].due /\ th' = [th EXCEPT ![t] = r] => GoesOn(t)
        /\ th' = [th EXCEPT ![t] = Returned(t)] => GoesOn(t)
<1>1. th \in [Id -> ThreadRecord] /\ p \in Pcs BY DEF TypeOK, Busy
<1>2. ASSUME NEW r \in ThreadRecord, r.pc = p, r.due = th[t].due, th' = [th EXCEPT ![t] = r]
      PROVE GoesOn(t)
  BY <1>1, <1>2 DEF GoesOn, Pc
<1>3. ASSUME th' = th PROVE GoesOn(t) BY <1>3 DEF GoesOn, Pc
<1>4. ASSUME th' = [th EXCEPT ![t].pc = p] PROVE GoesOn(t)
  BY <1>1, <1>4 DEF GoesOn, Pc, ThreadRecord
<1>5. ASSUME NEW s \in Id, th' = [th EXCEPT ![t].pc = p, ![t].arg = s] PROVE GoesOn(t)
  <2>1. [th EXCEPT ![t].pc = p, ![t].arg = s][t].pc = p BY <1>1, ThreadArgs
  <2>2. [th EXCEPT ![t].pc = p, ![t].arg = s][t].due = th[t].due BY <1>1 DEF ThreadRecord
  <2> QED BY <1>1, <1>5, <2>1, <2>2 DEF GoesOn, Pc
<1>6. ASSUME NEW s \in BOOLEAN, th' = [th EXCEPT ![t].stop = s] PROVE GoesOn(t)
  BY <1>1, <1>6 DEF GoesOn, Pc, ThreadRecord
<1>7. ASSUME th' = [th EXCEPT ![t] = Returned(t)] PROVE GoesOn(t)
  <2>1. Returned(t).pc = "run" /\ Returned(t).due = th[t].due BY LeavesAt, LeavesDue
  <2>2. "run" \in Busy BY DEF Busy, Pcs
  <2> QED BY <1>1, <1>7, <2>1, <2>2 DEF GoesOn, Pc
<1> QED BY <1>2, <1>3, <1>4, <1>5, <1>6, <1>7

\* What a program does outside the start of isolates and the making of inboxes, ...
Native(t, b, c) ==
  \/ SpawnIntoCheck(t, b) \/ SpawnRegister(t) \/ JoinTask(t, b) \/ JoinReturns(t)
  \/ ReleaseSlot(t, b) \/ ReleaseErase(t) \/ ReleaseClose(t) \/ ReleaseRetire(t)
  \/ CloseInbox(t, b) \/ CloseInboxDone(t) \/ Send(t, b) \/ Receive(t, b)
  \/ StopActor(t, b) \/ StopList(t) \/ StopPut(t, b)
  \/ Monitor(t, b, c) \/ MonitorGone(t, b, c) \/ Return(t) \/ Fault(t)

LEMMA BusyPlaces ==
  {"run", "into", "thread", "register", "join", "close_inbox", "rel_erase", "rel_close",
   "rel_retire", "stop_list", "stop_put", "leave", "world_join", "world_wait", "gone"} \subseteq Busy
BY DEF Busy, Pcs

LEMMA NativesGoOn ==
  ASSUME Inv, NEW t \in Id, NEW b \in Id, NEW c \in Id, Native(t, b, c)
  PROVE GoesOn(t)
<1>1. /\ TypeOK /\ th \in [Id -> ThreadRecord] /\ iso \in [Id -> IsolateRecord]
      /\ th[t] \in ThreadRecord /\ th[t].arg \in Id
  BY DEF Inv, TypeInv, TypeOK, ThreadRecord
<1> USE BusyPlaces DEF At, Calling, Pc
<1>2. CASE SpawnIntoCheck(t, b) BY <1>1, <1>2, GoesOnBy DEF SpawnIntoCheck
<1>3. CASE SpawnRegister(t) BY <1>1, <1>3, GoesOnBy DEF SpawnRegister
<1>4. CASE JoinTask(t, b)
  <2>1. \A a \in Id : iso'[a].mailbox = iso[a].mailbox
    BY <1>1, <1>4 DEF JoinTask, IsolateRecord
  <2> QED BY <1>1, <1>4, <2>1, GoesOnBy DEF JoinTask
<1>5. CASE JoinReturns(t)
  <2>1. \A a \in Id : iso'[a].mailbox = iso[a].mailbox
    BY <1>1, <1>5 DEF JoinReturns, IsolateRecord
  <2> QED BY <1>1, <1>5, <2>1, GoesOnBy DEF JoinReturns
<1>6. CASE ReleaseSlot(t, b) BY <1>1, <1>6, GoesOnBy DEF ReleaseSlot
<1>7. CASE ReleaseErase(t) \/ ReleaseClose(t) \/ ReleaseRetire(t)
  BY <1>1, <1>7, GoesOnBy DEF ReleaseErase, ReleaseClose, ReleaseRetire
<1>8. CASE CloseInbox(t, b) BY <1>1, <1>8, GoesOnBy DEF CloseInbox
<1>9. CASE CloseInboxDone(t) BY <1>1, <1>9, GoesOnBy DEF CloseInboxDone
<1>10. CASE Send(t, b) BY <1>1, <1>10, GoesOnBy DEF Send
<1>11. CASE Receive(t, b)
  <2> DEFINE stop == th[t].stop \/ TakenKind(mb[b]) = "stop"
  <2>1. stop \in BOOLEAN /\ th' = [th EXCEPT ![t].stop = stop] BY <1>11 DEF Receive
  <2> HIDE DEF stop
  <2> QED BY <1>1, <1>11, <2>1, GoesOnBy DEF Receive
<1>12. CASE StopActor(t, b)
  <2>1. mb[b].owner \in Id BY <1>1, <1>12 DEF StopActor, TypeOK, MailboxOf
  <2> QED BY <1>1, <1>12, <2>1, GoesOnBy DEF StopActor
<1>13. CASE StopList(t)
  <2> DEFINE boxes == MailboxesOf(th[t].arg)
             r == [th[t] EXCEPT !.pc = "stop_put", !.todo = boxes]
  <2>1. boxes \in SUBSET Id BY <1>1 DEF MailboxesOf, TypeOK
  <2>2. th' = [th EXCEPT ![t] = IF boxes = {} THEN Returned(t) ELSE r]
    BY <1>1, <1>13 DEF StopList
  <2> HIDE DEF boxes
  <2>3. r \in ThreadRecord /\ r.pc = "stop_put" /\ r.due = th[t].due
    BY <1>1, <2>1 DEF ThreadRecord, Pcs
  <2> HIDE DEF r
  <2> QED BY <1>1, <1>13, <2>2, <2>3, GoesOnBy DEF StopList
<1>14. CASE StopPut(t, b)
  <2> DEFINE left == th[t].todo \ {b}
             r == [th[t] EXCEPT !.todo = left]
  <2>1. left \in SUBSET Id BY <1>1 DEF ThreadRecord
  <2>2. th' = [th EXCEPT ![t] = IF left = {} THEN Returned(t) ELSE r]
    BY <1>1, <1>14 DEF StopPut
  <2> HIDE DEF left
  <2>3. r \in ThreadRecord /\ r.pc = th[t].pc /\ r.due = th[t].due
    BY <1>1, <2>1 DEF ThreadRecord
  <2> HIDE DEF r
  <2> QED BY <1>1, <1>14, <2>2, <2>3, GoesOnBy DEF StopPut
<1>15. CASE Monitor(t, b, c)
  <2>1. \A a \in Id : iso'[a].mailbox = iso[a].mailbox
    BY <1>1, <1>15 DEF Monitor, IsolateRecord
  <2> QED BY <1>1, <1>15, <2>1, GoesOnBy DEF Monitor
<1>16. CASE MonitorGone(t, b, c) BY <1>1, <1>16, GoesOnBy DEF MonitorGone
<1>17. CASE Return(t) \/ Fault(t)
  <2>1. PICK x \in BOOLEAN : th' = [th EXCEPT ![t] = Unwound(t, x)]
    BY <1>17 DEF Return, Fault
  <2>2. Unwound(t, x).pc = Unwind(t) /\ Unwound(t, x).due = th[t].due
    BY <1>1, LeavesAt, LeavesDue
  <2>3. Pc(t) = "run" BY <1>17 DEF Return, Fault
  <2>4. t = Root \/ Started(t) BY <2>3 DEF Inv, LifeInv, ThreadsHaveIsolates
  <2>5. \/ Unwind(t) \in Busy
        \/ kind[t] = "task" /\ Unwind(t) = "done"
        \/ kind[t] = "actor" /\ Unwind(t) = "erase"
    BY <2>4 DEF Unwind, Started
  <2> QED BY <1>1, <1>17, <2>1, <2>2, <2>5 DEF Return, Fault, GoesOn
<1> QED BY <1>2, <1>3, <1>4, <1>5, <1>6, <1>7, <1>8, <1>9, <1>10, <1>11, <1>12, <1>13,
       <1>14, <1>15, <1>16, <1>17 DEF Native

-----------------------------------------------------------------------------
(* The mail those steps queue.                                             *)

\* What says that an actor has ended, by a run of its epilogue.
IsReport(mail) == mail.kind = "exited" /\ mail.reason \in {"fault", "normal"}

\* Mail to inbox x that reports no end, a message among it sent to its owner.
News(x) ==
  {mail \in MailOf(Id) : ~IsReport(mail) /\ (mail.kind = "msg" => mail.of = x.owner)}

MailGained == \A b \in Id : Gains(mb[b], mb'[b], News(mb[b]))

LEMMA GainsMore ==
  ASSUME NEW x, NEW y, NEW z, NEW few, NEW many, few \subseteq many
  PROVE /\ Gains(x, y, few) => Gains(x, y, many)
        /\ Gains(x, y, many) /\ Gains(y, z, many) => Gains(x, z, many)
BY DEF Gains

LEMMA NewsIs ==
  ASSUME NEW x \in MailboxOf(Id)
  PROVE /\ Stop \in News(x) /\ Msg(x.owner) \in News(x)
        /\ \A a \in Id : Exited(a, "gone") \in News(x)
<1>1. x.owner \in Id \cup {NO_OWNER} BY DEF MailboxOf
<1>2. Stop \in News(x) BY SystemMail DEF News, IsReport, Stop
<1>3. Msg(x.owner) \in News(x) BY <1>1, SystemMail DEF News, IsReport, Msg
<1>4. ASSUME NEW a \in Id PROVE Exited(a, "gone") \in News(x)
  BY <1>4, SystemMail DEF News, IsReport, Exited
<1> QED BY <1>2, <1>3, <1>4

\* One inbox that a method changes.
LEMMA GainedAt ==
  ASSUME TypeOK, NEW b \in Id, NEW y, mb' = [mb EXCEPT ![b] = y],
         Gains(mb[b], y, News(mb[b]))
  PROVE MailGained
<1>1. mb \in [Id -> MailboxOf(Id)] BY DEF TypeOK
<1> QED BY <1>1, GainsByMethods DEF MailGained

LEMMA NativesMail ==
  ASSUME Inv, NEW t \in Id, NEW b \in Id, NEW c \in Id, Native(t, b, c)
  PROVE MailGained
<1>1. /\ TypeOK /\ mb \in [Id -> MailboxOf(Id)] /\ th[t] \in ThreadRecord
      /\ th[t].arg \in Id
  BY DEF Inv, TypeInv, TypeOK, ThreadRecord
<1>2. \A x \in Id : News(mb[x]) \subseteq MailOf(Id) BY DEF News
<1>3. CASE mb' = mb BY <1>1, <1>3, GainsByMethods DEF MailGained
<1>4. ASSUME NEW x \in Id, NEW mail \in News(mb[x])
      PROVE /\ Gains(mb[x], Put(mb[x], mail), News(mb[x]))
            /\ Gains(mb[x], Offer(mb[x], mail, Capacity), News(mb[x]))
  <2>1. mb[x] \in MailboxOf(Id) /\ mail \in MailOf(Id) /\ {mail} \subseteq News(mb[x])
    BY <1>1, <1>2
  <2>2. Gains(mb[x], Put(mb[x], mail), {mail}) /\ Gains(mb[x], Offer(mb[x], mail, Capacity), {mail})
    BY <2>1, GainsByMethods
  <2> QED BY <2>1, <2>2, GainsMore
<1>5. ASSUME NEW x \in Id
      PROVE /\ Gains(mb[x], Take(mb[x]), News(mb[x])) /\ Gains(mb[x], Close(mb[x]), News(mb[x]))
            /\ Gains(mb[x], Retire(mb[x]), News(mb[x]))
  <2>1. {} \subseteq News(mb[x]) /\ {Stop} \subseteq News(mb[x]) BY <1>1, NewsIs
  <2> QED BY <1>1, <2>1, GainsByMethods, GainsMore
<1>6. CASE Send(t, b) BY <1>1, <1>4, <1>6, NewsIs, GainedAt DEF Send
<1>7. CASE Receive(t, b) BY <1>1, <1>5, <1>7, GainedAt DEF Receive
<1>8. CASE StopPut(t, b) BY <1>1, <1>4, <1>8, NewsIs, GainedAt DEF StopPut
<1>9. CASE MonitorGone(t, b, c) BY <1>1, <1>4, <1>9, NewsIs, GainedAt DEF MonitorGone
<1>10. CASE CloseInboxDone(t) \/ ReleaseClose(t) \/ ReleaseRetire(t)
  BY <1>1, <1>5, <1>10, GainedAt DEF CloseInboxDone, ReleaseClose, ReleaseRetire
<1> QED BY <1>3, <1>6, <1>7, <1>8, <1>9, <1>10
        DEF Native, SpawnIntoCheck, SpawnRegister, JoinTask, JoinReturns, ReleaseSlot,
        ReleaseErase, CloseInbox, StopActor, StopList, Monitor, Return, Fault

\* The destructor goes on like a native of the root.
LEMMA WorldGoesOn ==
  ASSUME Inv, World
  PROVE GoesOn(Root) /\ MailGained
<1>1. /\ TypeOK /\ mb \in [Id -> MailboxOf(Id)] /\ Root \in Id
      /\ th \in [Id -> ThreadRecord] /\ iso \in [Id -> IsolateRecord]
  <2>1. Root \in Id BY MaxIdAssumption DEF Root, Id
  <2> QED BY <2>1 DEF Inv, TypeInv, TypeOK
<1> USE BusyPlaces DEF At, Calling, Pc
<1>2. \A p \in Busy : /\ [Returned(Root) EXCEPT !.pc = p] \in ThreadRecord
                      /\ [Returned(Root) EXCEPT !.pc = p].pc = p
                      /\ [Returned(Root) EXCEPT !.pc = p].due = th[Root].due
  BY <1>1, ThreadLeaves, LeavesAt, LeavesDue DEF Busy
<1>3. ASSUME mb' = mb PROVE MailGained BY <1>1, <1>3, GainsByMethods DEF MailGained
<1>4. CASE WorldStop
  <2>1. GoesOn(Root) BY <1>1, <1>2, <1>4, GoesOnBy DEF WorldStop
  <2>2. ASSUME NEW b \in Id
        PROVE /\ Gains(mb[b], mb[b], News(mb[b])) /\ Gains(mb[b], Release(mb[b]), News(mb[b]))
              /\ Gains(mb[b], Release(Put(mb[b], Stop)), News(mb[b]))
    <3>1. Stop \in MailOf(Id) /\ {Stop} \subseteq News(mb[b]) /\ {} \subseteq News(mb[b])
      BY <1>1, NewsIs, SystemMail
    <3>2. Put(mb[b], Stop) \in MailboxOf(Id) BY <1>1, <3>1, PutType
    <3>3. Gains(mb[b], Put(mb[b], Stop), {Stop}) BY <1>1, <3>1, GainsByMethods
    <3>4. Gains(mb[b], Put(mb[b], Stop), News(mb[b])) BY <3>1, <3>3, GainsMore
    <3>5. Gains(Put(mb[b], Stop), Release(Put(mb[b], Stop)), News(mb[b]))
      BY <3>1, <3>2, GainsByMethods, GainsMore
    <3>6. Gains(mb[b], Release(Put(mb[b], Stop)), News(mb[b])) BY <3>4, <3>5, GainsMore
    <3>7. Gains(mb[b], Release(mb[b]), News(mb[b])) BY <1>1, <3>1, GainsByMethods, GainsMore
    <3> QED BY <1>1, <3>6, <3>7, GainsByMethods
  <2>3. \A b \in Id : mb'[b] \in {mb[b], Release(mb[b]), Release(Put(mb[b], Stop))}
    BY <1>4 DEF WorldStop
  <2> QED BY <2>1, <2>2, <2>3 DEF MailGained
<1>5. ASSUME NEW i \in Id, WorldPick(i) PROVE GoesOn(Root) /\ MailGained
  BY <1>1, <1>3, <1>5, GoesOnBy DEF WorldPick
<1>6. CASE WorldJoined
  <2>1. \A a \in Id : iso'[a].mailbox = iso[a].mailbox
    BY <1>1, <1>6 DEF WorldJoined, IsolateRecord
  <2> QED BY <1>1, <1>2, <1>3, <1>6, <2>1, GoesOnBy DEF WorldJoined
<1>7. CASE WorldGone
  <2>1. GoesOn(Root) BY <1>1, <1>7, GoesOnBy DEF WorldGone
  <2>2. \A b \in Id : mb'[b] \in {mb[b], Close(mb[b])} BY <1>7 DEF WorldGone
  <2>3. ASSUME NEW b \in Id PROVE Gains(mb[b], Close(mb[b]), News(mb[b]))
    <3>1. {} \subseteq News(mb[b]) OBVIOUS
    <3> QED BY <1>1, <3>1, GainsByMethods, GainsMore
  <2> QED BY <1>1, <2>1, <2>2, <2>3, GainsByMethods DEF MailGained
<1> QED BY <1>4, <1>5, <1>6, <1>7 DEF World

-----------------------------------------------------------------------------
(* Who is reported has no inbox left.                                      *)

\* Where an actor has closed what it owned.
Late == {"mark", "report", "done"}

EndsAreOfActors ==
  \A t \in Id : Pc(t) \in {"erase", "close", "mark", "report"} => kind[t] = "actor"

\* What an isolate must be for inbox b to be open in its name.
MayOwn(a, b) ==
  \/ a \in {NO_OWNER, Root}
  \/ /\ kind[a] = "actor" /\ Pc(a) \notin Late \cup {"none"}
     /\ Pc(a) = "born" => b = iso[a].mailbox
     /\ Pc(a) = "close" => b \in th[a].todo

OwnersLive == \A b \in mailboxes : MayOwn(mb[b].owner, b)

HasEnded(a) == a \in Id /\ kind[a] = "actor" /\ Pc(a) \in Late

ReportsAreLate ==
  \A b \in Id : \A mail \in Mails(mb[b].q) : IsReport(mail) => HasEnded(mail.of)

GoneInv ==
  /\ EndsAreOfActors
  /\ OwnersLive
  /\ ReportsAreLate

\* What keeps the reports true: nobody comes back from its end, and a new report is true.
LEMMA ReportsKept ==
  ASSUME ReportsAreLate,
         \A a \in Id : kind[a] = "actor" => kind'[a] = "actor",
         \A a \in Id : Pc(a) \in Late => Pc(a)' \in Late,
         \A b \in Id : \A mail \in Mails(mb'[b].q) :
           IsReport(mail) => mail \in Mails(mb[b].q) \/ HasEnded(mail.of)'
  PROVE ReportsAreLate'
<1> SUFFICES ASSUME NEW b \in Id, NEW mail \in Mails(mb'[b].q), IsReport(mail)
             PROVE HasEnded(mail.of)'
  BY DEF ReportsAreLate, IsReport
<1>1. CASE mail \in Mails(mb[b].q)
  <2>1. HasEnded(mail.of) BY <1>1 DEF ReportsAreLate
  <2> QED BY <2>1 DEF HasEnded, Pc
<1> QED BY <1>1

\* The natives, and the destructor.
LEMMA GoesOnKeepsGone ==
  ASSUME Inv, GoneInv, NEW t \in Id, GoesOn(t), MailGained
  PROVE GoneInv'
<1>1. \A u \in Id : u # t => th'[u] = th[u] BY DEF GoesOn
<1>2. Pc(t) \notin {"none", "born", "close", "mark", "report", "done"} BY DEF GoesOn, Busy
<1>3. /\ Pc(t)' \notin {"none", "born", "close", "mark", "report"}
      /\ Pc(t)' = "done" => kind[t] = "task"
      /\ Pc(t)' = "erase" => kind[t] = "actor"
  BY DEF GoesOn, Busy
<1>4. mailboxes \subseteq Id /\ mb \in [Id -> MailboxOf(Id)] BY DEF Inv, TypeInv, TypeOK
<1>5. EndsAreOfActors' BY <1>1, <1>3 DEF GoneInv, EndsAreOfActors, GoesOn, Pc
<1>6. OwnersLive'
  <2> SUFFICES ASSUME NEW b \in mailboxes', mb'[b].owner # NO_OWNER
               PROVE MayOwn(mb[b].owner, b)'
    BY DEF OwnersLive, MayOwn
  <2>1. b \in mailboxes /\ b \in Id BY <1>4 DEF GoesOn
  <2>2. PICK a : a = mb[b].owner /\ a \in Id /\ a = mb'[b].owner
    BY <1>4, <2>1 DEF MailGained, Gains, MailboxOf
  <2>3. MayOwn(a, b) BY <2>1, <2>2 DEF GoneInv, OwnersLive
  <2>4. CASE a = t BY <1>2, <1>3, <2>2, <2>3, <2>4 DEF MayOwn, GoesOn, Late, Pc
  <2>5. CASE a # t BY <1>1, <2>2, <2>3, <2>5 DEF MayOwn, GoesOn, Pc
  <2> QED BY <2>4, <2>5
<1>7. ReportsAreLate'
  <2>1. \A a \in Id : Pc(a) \in Late => Pc(a)' \in Late BY <1>1, <1>2 DEF Pc, Late
  <2>2. \A b \in Id : \A mail \in Mails(mb'[b].q) : IsReport(mail) => mail \in Mails(mb[b].q)
    BY DEF MailGained, Gains, News
  <2> QED BY <2>1, <2>2, ReportsKept DEF GoneInv, GoesOn
<1> QED BY <1>5, <1>6, <1>7 DEF GoneInv

\* An inbox that is made holds Stop or nothing.
LEMMA AddMailboxMail ==
  ASSUME Inv, NEW c \in Id, c = next_id, NEW owner \in Id \cup {NO_OWNER}, AddMailbox(owner)
  PROVE Mails(mb'[c].q) \subseteq {Stop}
<1>1. mb \in [Id -> MailboxOf(Id)] BY DEF Inv, TypeInv, TypeOK
<1> DEFINE b == NewMailbox(owner)
           d == Release(Put(b, Stop))
<1>2. b.q = <<>> /\ d.q = <<Stop>>
  <2>1. Append(<<>>, Stop) = <<Stop>> OBVIOUS
  <2>2. b.q = <<>> /\ Put(b, Stop).q = Append(<<>>, Stop) BY DEF NewMailbox, Put, Stop
  <2>3. d.q = Put(b, Stop).q BY DEF Release, Put, NewMailbox
  <2> QED BY <2>1, <2>2, <2>3
<1>3. mb' = [mb EXCEPT ![c] = IF stopping /\ owner # Root THEN d ELSE b] BY DEF AddMailbox
<1> HIDE DEF b, d
<1>4. mb'[c].q \in {<<>>, <<Stop>>} BY <1>1, <1>2, <1>3
<1> QED BY <1>4, MailsEmpty

\* What a step that gives out id c leaves alone: thread t may come to the start of c.
Grows(t, c) ==
  /\ kind[c] = "none" /\ Pc(c) = "none" /\ Pc(t) \in {"run", "into"} /\ t # c
  /\ \A i \in Id : i # c => kind'[i] = kind[i]
  /\ \A u \in Id : u \notin {t, c} => th'[u] = th[u]
  /\ \A u \in Id : u # c => iso'[u].mailbox = iso[u].mailbox
  /\ \/ Pc(t)' = Pc(t) /\ Pc(c)' = "none"
     \/ Pc(t)' = "thread" /\ Pc(c)' = "born"
  /\ isolates' = isolates

LEMMA NewIsolateGrows ==
  ASSUME Inv, NEW t \in Id, NEW c \in Id, NEW k \in {"actor", "task"}, NEW box \in Id,
         c = next_id, Pc(t) \in {"run", "into"}, NewIsolate(t, k, box), isolates' = isolates
  PROVE /\ Grows(t, c) /\ kind'[c] = k /\ iso'[c].mailbox = box
        /\ Pc(t)' = "thread" /\ Pc(c)' = "born"
<1>1. /\ th \in [Id -> ThreadRecord] /\ iso \in [Id -> IsolateRecord]
      /\ kind \in [Id -> Kinds] /\ TypeInv
  BY DEF Inv, TypeInv, TypeOK
<1>2. c \in Nat /\ kind[c] = "none" /\ Pc(c) = "none"
  BY MaxIdAssumption DEF Inv, LifeInv, FreshIdsAreUnused, Id
<1>3. t # c BY <1>2
<1>4. Makes(t, c) BY <1>1, <1>3, NewIsolateMakes
<1>5. kind' = [kind EXCEPT ![c] = k] BY DEF NewIsolate, TakeId
<1>6. \A u \in Id : u \notin {t, c} => th'[u] = th[u] BY <1>1 DEF NewIsolate
<1>7. \A a \in Id : iso'[a].mailbox = IF a = c THEN box ELSE iso[a].mailbox
  <2> DEFINE h == [iso EXCEPT ![c].starter = t]
  <2>1. h \in [Id -> IsolateRecord] /\ \A a \in Id : h[a].mailbox = iso[a].mailbox
    BY <1>1 DEF IsolateRecord
  <2>2. iso' = [h EXCEPT ![c].mailbox = box] BY DEF NewIsolate
  <2> HIDE DEF h
  <2> QED BY <2>1, <2>2 DEF IsolateRecord
<1> QED BY <1>1, <1>2, <1>3, <1>4, <1>5, <1>6, <1>7 DEF Makes, Grows

\* The slots and inboxes that are made.
LEMMA AddressGrows ==
  ASSUME Inv, NEW t \in Id, NEW c \in Id, c = next_id, NewSlot(t) \/ NewInbox(t)
  PROVE Grows(t, c) /\ Pc(t)' = Pc(t) /\ th' = th /\ iso' = iso
<1>1. kind \in [Id -> Kinds] BY DEF Inv, TypeInv, TypeOK
<1>2. c \in Nat /\ kind[c] = "none" /\ Pc(c) = "none"
  BY MaxIdAssumption DEF Inv, LifeInv, FreshIdsAreUnused, Id
<1>3. Pc(t) = "run" BY DEF NewSlot, NewInbox, Calling, At, Pc
<1>4. th' = th /\ iso' = iso /\ isolates' = isolates BY DEF NewSlot, NewInbox
<1>5. \A i \in Id : i # c => kind'[i] = kind[i] BY <1>1 DEF NewSlot, NewInbox, TakeId
<1> QED BY <1>2, <1>3, <1>4, <1>5 DEF Grows, Pc

\* An id that is given out ends nobody, and what was open stays with its owner.
LEMMA GrowsKeepsGone ==
  ASSUME Inv, GoneInv, NEW t \in Id, NEW c \in Id, Grows(t, c), mailboxes' \subseteq Id,
         \A b \in mailboxes' :
           (b \in mailboxes /\ mb'[b].owner = mb[b].owner) \/ MayOwn(mb[b].owner, b)',
         \A b \in Id : Mails(mb'[b].q) \subseteq Mails(mb[b].q) \cup {Stop}
  PROVE GoneInv'
<1>1. /\ mailboxes \subseteq Id /\ mb \in [Id -> MailboxOf(Id)] /\ kind[c] = "none"
      /\ Pc(c) = "none" /\ Pc(t) \in {"run", "into"} /\ t # c
      /\ Pc(t)' \in {"run", "into", "thread"} /\ Pc(c)' \in {"none", "born"}
      /\ \A i \in Id : i # c => kind'[i] = kind[i]
      /\ \A u \in Id : u \notin {t, c} => th'[u] = th[u]
      /\ \A u \in Id : u # c => iso'[u].mailbox = iso[u].mailbox
  BY DEF Inv, TypeInv, TypeOK, Grows
<1>2. EndsAreOfActors'
  <2> SUFFICES ASSUME NEW u \in Id, Pc(u)' \in {"erase", "close", "mark", "report"}
               PROVE kind'[u] = "actor"
    BY DEF EndsAreOfActors
  <2>1. u \notin {t, c} BY <1>1
  <2> QED BY <1>1, <2>1 DEF GoneInv, EndsAreOfActors, Pc
<1>3. OwnersLive'
  <2> SUFFICES ASSUME NEW b \in mailboxes', b \in mailboxes, mb'[b].owner = mb[b].owner
               PROVE MayOwn(mb[b].owner, b)'
    BY DEF OwnersLive
  <2>1. PICK a \in Id \cup {NO_OWNER} : a = mb[b].owner BY <1>1 DEF MailboxOf
  <2>2. MayOwn(a, b) BY <2>1 DEF GoneInv, OwnersLive
  <2>3. MayOwn(a, b)' BY <1>1, <2>1, <2>2 DEF MayOwn, Pc, Late
  <2> QED BY <2>1, <2>3
<1>4. ReportsAreLate'
  <2>1. /\ \A a \in Id : kind[a] = "actor" => kind'[a] = "actor"
        /\ \A a \in Id : Pc(a) \in Late => Pc(a)' \in Late
    BY <1>1 DEF Late, Pc
  <2>2. ~IsReport(Stop) BY DEF IsReport, Stop
  <2> QED BY <2>1, <2>2, ReportsKept DEF GoneInv
<1> QED BY <1>2, <1>3, <1>4 DEF GoneInv

LEMMA MakingKeepsGone ==
  ASSUME Inv, MailInv, GoneInv, NEW t \in Id,
         SpawnActor(t) \/ SpawnTask(t) \/ SpawnIntoTake(t) \/ NewSlot(t) \/ NewInbox(t)
  PROVE GoneInv'
<1>1. /\ TypeInv /\ TypeOK /\ mailboxes \subseteq Id /\ mb \in [Id -> MailboxOf(Id)]
      /\ kind \in [Id -> Kinds] /\ th \in [Id -> ThreadRecord]
  BY DEF Inv, TypeInv, TypeOK
<1>2. next_id \in Id
  <2>1. CASE SpawnActor(t) \/ SpawnTask(t) \/ NewSlot(t) \/ NewInbox(t)
    BY <1>1, <2>1, FreshId DEF SpawnActor, SpawnTask, NewSlot, NewInbox
  <2>2. CASE SpawnIntoTake(t) BY <1>1, <2>2, FreshIdInto DEF SpawnIntoTake
  <2> QED BY <2>1, <2>2
<1>3. PICK c \in Id : c = next_id BY <1>2
<1>4. CASE SpawnActor(t)
  <2>1. NewIsolate(t, "actor", c) /\ AddMailbox(c) /\ Pc(t) = "run" /\ isolates' = isolates
    BY <1>3, <1>4 DEF SpawnActor, Calling, At, Pc
  <2>2. Grows(t, c) /\ kind'[c] = "actor" /\ iso'[c].mailbox = c /\ Pc(c)' = "born"
    BY <1>3, <2>1, NewIsolateGrows
  <2>3. /\ mailboxes' = mailboxes \cup {c} /\ \A b \in Id : b # c => mb'[b] = mb[b]
        /\ mb'[c].owner = c /\ Mails(mb'[c].q) \subseteq {Stop}
    BY <1>3, <2>1, AddMailboxInforms, AddMailboxMail
  <2>4. MayOwn(mb[c].owner, c)' BY <2>2, <2>3 DEF MayOwn, Late
  <2>5. \A b \in mailboxes' :
          (b \in mailboxes /\ mb'[b].owner = mb[b].owner) \/ MayOwn(mb[b].owner, b)'
    BY <1>1, <2>3, <2>4
  <2> QED BY <1>1, <2>2, <2>3, <2>5, GrowsKeepsGone
<1>5. CASE SpawnTask(t)
  <2>1. NewIsolate(t, "task", Root) /\ Pc(t) = "run" /\ isolates' = isolates /\ Root \in Id
    BY <1>5, MaxIdAssumption DEF SpawnTask, Calling, At, Pc, Root, Id
  <2>2. Grows(t, c) BY <1>3, <2>1, NewIsolateGrows
  <2> QED BY <1>1, <1>5, <2>2, GrowsKeepsGone DEF SpawnTask
<1>6. CASE SpawnIntoTake(t)
  <2>1. PICK s \in Id : s = Arg(t) BY <1>1 DEF Arg, ThreadRecord
  <2>2. NewIsolate(t, "actor", s) /\ Pc(t) = "into" /\ isolates' = isolates
    BY <1>6, <2>1 DEF SpawnIntoTake, Arg, At, Pc
  <2>3. Grows(t, c) /\ kind'[c] = "actor" /\ iso'[c].mailbox = s /\ Pc(c)' = "born"
    BY <1>3, <2>2, NewIsolateGrows
  <2>4. mb' = [mb EXCEPT ![s].owner = c] /\ mailboxes' = mailboxes
    BY <1>3, <1>6, <2>1 DEF SpawnIntoTake, Arg
  <2>5. /\ \A b \in Id : mb'[b].owner = (IF b = s THEN c ELSE mb[b].owner)
        /\ \A b \in Id : mb'[b].q = mb[b].q
    BY <1>1, <2>4 DEF MailboxOf
  <2>6. MayOwn(mb[s].owner, s)' BY <2>3, <2>5 DEF MayOwn, Late
  <2>7. \A b \in mailboxes' :
          (b \in mailboxes /\ mb'[b].owner = mb[b].owner) \/ MayOwn(mb[b].owner, b)'
    BY <1>1, <2>4, <2>5, <2>6
  <2> QED BY <1>1, <2>3, <2>4, <2>5, <2>7, GrowsKeepsGone
<1>7. CASE NewSlot(t) \/ NewInbox(t)
  <2>1. Grows(t, c) /\ th' = th BY <1>3, <1>7, AddressGrows
  <2>2. PICK owner \in Id \cup {NO_OWNER} :
          AddMailbox(owner) /\ (owner # NO_OWNER => owner = t /\ kind[t] # "task")
    BY <1>7 DEF NewSlot, NewInbox
  <2>3. /\ mailboxes' = mailboxes \cup {c} /\ \A b \in Id : b # c => mb'[b] = mb[b]
        /\ mb'[c].owner = owner /\ Mails(mb'[c].q) \subseteq {Stop}
    BY <1>3, <2>2, AddMailboxInforms, AddMailboxMail
  <2>4. Pc(t) = "run" /\ Pc(t)' = "run"
    BY <1>7, <2>1 DEF NewSlot, NewInbox, Calling, At, Pc
  <2>5. t = Root \/ kind[t] \in {"actor", "task"}
    BY <2>4 DEF Inv, LifeInv, ThreadsHaveIsolates, Started
  <2>6. kind'[t] = kind[t] BY <2>1 DEF Grows
  <2>7. MayOwn(mb[c].owner, c)' BY <2>2, <2>3, <2>4, <2>5, <2>6 DEF MayOwn, Late
  <2>8. \A b \in mailboxes' :
          (b \in mailboxes /\ mb'[b].owner = mb[b].owner) \/ MayOwn(mb[b].owner, b)'
    BY <1>1, <2>3, <2>7
  <2> QED BY <1>1, <2>1, <2>3, <2>8, GrowsKeepsGone
<1> QED BY <1>4, <1>5, <1>6, <1>7

\* The thread of a new isolate is made, or refused.
ThreadStep(t, c) ==
  /\ Pc(t) = "thread" /\ Pc(c) = "born" /\ Started(c) /\ t # c
  /\ \A u \in Id \ {t, c} : th'[u] = th[u]
  /\ kind' = kind /\ iso' = iso /\ isolates' = isolates

LEMMA ThreadSteps ==
  ASSUME Inv, NEW t \in Id, SpawnThread(t) \/ SpawnThreadFails(t)
  PROVE \E c \in Id :
          /\ c = th[t].child /\ ThreadStep(t, c)
          /\ SpawnThread(t) => /\ Pc(t)' = "register" /\ Pc(c)' = "run" /\ Child(t)' = c
                               /\ mb' = mb /\ mailboxes' = mailboxes
          /\ SpawnThreadFails(t) => Pc(t)' = Unwind(t) /\ Pc(c)' = "done"
<1>1. TypeInv /\ TypeOK /\ LifeInv /\ th \in [Id -> ThreadRecord]
  BY DEF Inv, TypeInv, TypeOK
<1>2. Pc(t) = "thread" BY DEF SpawnThread, SpawnThreadFails, At, Pc
<1>3. PICK c \in Id : c = Child(t) /\ t # c /\ Started(c) /\ Pc(c) = "born"
  BY <1>1, <1>2, StarterOf DEF Starting
<1>4. CASE SpawnThread(t)
  <2>1. Made(t, c) BY <1>1, <1>3, <1>4, ThreadMadeOrRefused
  <2>2. \A u \in Id \ {t, c} : th'[u] = th[u] BY <1>1, <1>3, <1>4 DEF SpawnThread, Child
  <2>3. ~SpawnThreadFails(t)
    <3>1. SpawnThreadFails(t) => Refused(t, c) BY <1>1, <1>3, ThreadMadeOrRefused
    <3> QED BY <2>1, <3>1 DEF Made, Refused
  <2> QED BY <1>2, <1>3, <1>4, <2>1, <2>2, <2>3 DEF Made, ThreadStep, SpawnThread, Child
<1>5. CASE SpawnThreadFails(t)
  <2>1. Refused(t, c) BY <1>1, <1>3, <1>5, ThreadMadeOrRefused
  <2>2. th' = [th EXCEPT ![t] = Unwound(t, TRUE), ![c].pc = "done"]
    BY <1>3, <1>5 DEF SpawnThreadFails, Child
  <2>3. \A u \in Id \ {t, c} : th'[u] = th[u] BY <1>1, <2>2
  <2>4. th'[t] = Unwound(t, TRUE) BY <1>1, <1>3, <2>2
  <2>5. Pc(t)' = Unwind(t) BY <1>1, <2>4, LeavesAt DEF Pc
  <2>6. ~SpawnThread(t)
    <3>1. SpawnThread(t) => Made(t, c) BY <1>1, <1>3, ThreadMadeOrRefused
    <3> QED BY <2>1, <3>1 DEF Made, Refused
  <2> QED BY <1>2, <1>3, <1>5, <2>1, <2>3, <2>5, <2>6 DEF Refused, ThreadStep, Child
<1> QED BY <1>4, <1>5

\* The inbox of a refused actor is withdrawn or vacated.
LEMMA RefusedInbox ==
  ASSUME TypeOK, NEW t \in Id, NEW c \in Id, c = th[t].child, SpawnThreadFails(t)
  PROVE /\ mailboxes' \subseteq mailboxes /\ \A x \in Id : Drops(mb[x], mb'[x])
        /\ kind[c] # "task" =>
             LET b == iso[c].mailbox IN
             IF kind[b] = "slot" THEN mb'[b].owner = NO_OWNER ELSE b \notin mailboxes'
<1>1. mb \in [Id -> MailboxOf(Id)] /\ iso[c].mailbox \in Id BY DEF TypeOK, IsolateRecord
<1>2. CASE kind[c] = "task" BY <1>1, <1>2, GainsByMethods DEF SpawnThreadFails
<1>3. CASE kind[c] # "task"
  <2>1. PICK b \in Id : b = iso[c].mailbox BY <1>1
  <2>2. IF kind[b] = "slot" THEN mb' = [mb EXCEPT ![b] = Vacate(mb[b])] /\ mailboxes' = mailboxes
        ELSE mb' = [mb EXCEPT ![b] = Close(mb[b])] /\ mailboxes' = mailboxes \ {b}
    BY <1>3, <2>1 DEF SpawnThreadFails
  <2>3. \A x \in Id : Drops(mb[x], mb'[x]) BY <1>1, <2>2, GainsByMethods
  <2>4. Vacate(mb[b]).owner = NO_OWNER BY <1>1 DEF Vacate, MailboxOf
  <2> QED BY <1>1, <2>1, <2>2, <2>3, <2>4
<1> QED BY <1>2, <1>3

LEMMA ThreadKeepsGone ==
  ASSUME Inv, GoneInv, NEW t \in Id, SpawnThread(t) \/ SpawnThreadFails(t)
  PROVE GoneInv'
<1>1. /\ TypeOK /\ mailboxes \subseteq Id /\ mb \in [Id -> MailboxOf(Id)]
      /\ kind[Root] = "root" /\ (t = Root \/ Started(t) \/ Pc(t) = "none")
  BY DEF Inv, TypeInv, TypeOK, LifeInv, ThreadsHaveIsolates
<1>2. PICK c \in Id :
        /\ c = th[t].child /\ ThreadStep(t, c)
        /\ SpawnThread(t) => /\ Pc(t)' = "register" /\ Pc(c)' = "run"
                             /\ mb' = mb /\ mailboxes' = mailboxes
        /\ SpawnThreadFails(t) => Pc(t)' = Unwind(t) /\ Pc(c)' = "done"
  BY ThreadSteps
<1>3. /\ Pc(t) = "thread" /\ Pc(c) = "born" /\ t # c /\ kind' = kind /\ iso' = iso
      /\ \A u \in Id \ {t, c} : th'[u] = th[u]
      /\ kind[c] # "task" => kind[c] = "actor"
  BY <1>2 DEF ThreadStep, Started
<1>4. /\ Pc(t)' \in {"register", "leave", "done", "erase"}
      /\ Pc(t)' = "erase" => kind[t] = "actor"
      /\ Pc(t)' = "done" => kind[t] = "task"
      /\ Pc(c)' \in {"run", "done"}
  BY <1>1, <1>2, <1>3 DEF Unwind, Started
<1>5. /\ mailboxes' \subseteq mailboxes /\ \A x \in Id : Drops(mb[x], mb'[x])
  BY <1>1, <1>2, RefusedInbox, GainsByMethods
<1>6. EndsAreOfActors' BY <1>3, <1>4 DEF GoneInv, EndsAreOfActors, Pc
<1>7. OwnersLive'
  <2> SUFFICES ASSUME NEW b \in mailboxes', mb'[b].owner # NO_OWNER
               PROVE MayOwn(mb[b].owner, b)'
    BY DEF OwnersLive, MayOwn
  <2>1. b \in mailboxes /\ b \in Id BY <1>1, <1>5
  <2>2. PICK a \in Id : a = mb[b].owner /\ a = mb'[b].owner
    BY <1>1, <1>5, <2>1 DEF Drops, MailboxOf
  <2>3. MayOwn(a, b) BY <2>1, <2>2 DEF GoneInv, OwnersLive
  <2>4. CASE a = t BY <1>3, <1>4, <2>2, <2>3, <2>4 DEF MayOwn, Late
  <2>5. CASE a = c /\ SpawnThread(t) BY <1>2, <1>3, <2>2, <2>3, <2>5 DEF MayOwn, Late
  <2>6. CASE a = c /\ SpawnThreadFails(t)
    <3>1. kind[c] = "root" \/ b = iso[c].mailbox BY <1>1, <1>3, <2>3, <2>6 DEF MayOwn, NO_OWNER, Id
    <3>2. kind[c] = "actor" BY <1>1, <1>2, <2>3, <2>6, MaxIdAssumption
      DEF MayOwn, NO_OWNER, Id, ThreadStep, Started
    <3> QED BY <1>1, <1>2, <2>2, <2>6, <3>1, <3>2, RefusedInbox
  <2>7. CASE a \notin {t, c} BY <1>3, <2>2, <2>3, <2>7 DEF MayOwn, Pc
  <2> QED BY <2>4, <2>5, <2>6, <2>7
<1>8. ReportsAreLate'
  <2>1. \A a \in Id : Pc(a) \in Late => Pc(a)' \in Late BY <1>3 DEF Pc, Late
  <2> QED BY <1>3, <1>5, <2>1, ReportsKept DEF GoneInv, Drops
<1> QED BY <1>6, <1>7, <1>8 DEF GoneInv

\* A step of one thread in its epilogue.
Epilogue(t) ==
  /\ \A u \in Id : u # t => th'[u] = th[u]
  /\ kind' = kind /\ isolates' = isolates /\ mailboxes' \subseteq mailboxes
  /\ \A a \in Id : iso'[a].mailbox = iso[a].mailbox
  /\ \/ Pc(t) = "erase" /\ Pc(t)' = "close"
     \/ Pc(t) = "close" /\ Pc(t)' \in {"close", "mark"}
     \/ Pc(t) = "mark" /\ Pc(t)' = "report"
     \/ Pc(t) = "report" /\ Pc(t)' \in {"report", "done"}

LEMMA EndsStep ==
  ASSUME Inv, NEW t \in Id, NEW b \in Id,
         \/ EndErase(t) \/ EndClose(t, b) \/ EndTellStarter(t)
         \/ EndMark(t) \/ EndReport(t) \/ EndFinish(t)
  PROVE Epilogue(t)
<1>1. /\ th \in [Id -> ThreadRecord] /\ iso \in [Id -> IsolateRecord]
      /\ mailboxes \subseteq Id
  BY DEF Inv, TypeInv, TypeOK
<1>2. CASE EndErase(t)
  BY <1>1, <1>2 DEF EndErase, Epilogue, At, Pc, ThreadRecord
<1>3. CASE EndClose(t, b)
  BY <1>1, <1>3 DEF EndClose, Epilogue, At, Pc, ThreadRecord
<1>4. CASE EndTellStarter(t)
  BY <1>1, <1>4 DEF EndTellStarter, Epilogue, At, Pc, ThreadRecord
<1>5. CASE EndMark(t)
  <2>1. \A a \in Id : iso'[a].mailbox = iso[a].mailbox BY <1>1, <1>5 DEF EndMark, IsolateRecord
  <2> DEFINE w == iso[t].watchers
  <2>2. w \in Seq(Id) BY <1>1 DEF IsolateRecord
  <2>3. th' = [th EXCEPT ![t].pc = "report", ![t].due = w] BY <1>5 DEF EndMark
  <2> HIDE DEF w
  <2>4. Pc(t)' = "report" /\ \A u \in Id : u # t => th'[u] = th[u]
    BY <1>1, <2>2, <2>3 DEF Pc, ThreadRecord
  <2> QED BY <1>5, <2>1, <2>4 DEF EndMark, Epilogue, At, Pc
<1>6. CASE EndReport(t)
  <2> DEFINE w == Tail(th[t].due)
  <2>1. th' = [th EXCEPT ![t].due = w] BY <1>6 DEF EndReport
  <2> HIDE DEF w
  <2>2. Pc(t)' = Pc(t) /\ \A u \in Id : u # t => th'[u] = th[u]
    BY <1>1, <2>1 DEF Pc, ThreadRecord
  <2> QED BY <1>6, <2>2 DEF EndReport, Epilogue, At, Pc
<1>7. CASE EndFinish(t)
  BY <1>1, <1>7 DEF EndFinish, Epilogue, At, Pc, ThreadRecord
<1> QED BY <1>2, <1>3, <1>4, <1>5, <1>6, <1>7

\* An epilogue closes what it owns before it passes on, and reports itself only.
LEMMA EpilogueKeepsGone ==
  ASSUME Inv, GoneInv, NEW t \in Id, Epilogue(t),
         \A x \in Id : mb'[x].owner \in {mb[x].owner, NO_OWNER},
         \A x \in Id : Mails(mb'[x].q) \subseteq Mails(mb[x].q)
           \cup (IF Pc(t)' \in Late THEN {Exited(t, r) : r \in {"fault", "normal"}} ELSE {}),
         \A b \in mailboxes' : mb[b].owner = t /\ mb'[b].owner = t =>
           Pc(t)' = "close" /\ b \in th'[t].todo
  PROVE GoneInv'
<1>1. /\ mailboxes \subseteq Id /\ mb \in [Id -> MailboxOf(Id)]
      /\ \A u \in Id : u # t => th'[u] = th[u]
      /\ kind' = kind /\ mailboxes' \subseteq mailboxes
      /\ \A a \in Id : iso'[a].mailbox = iso[a].mailbox
  BY DEF Inv, TypeInv, TypeOK, Epilogue
<1>2. kind[t] = "actor" BY DEF Epilogue, GoneInv, EndsAreOfActors
<1>3. EndsAreOfActors' BY <1>1, <1>2 DEF GoneInv, EndsAreOfActors, Pc
<1>4. OwnersLive'
  <2> SUFFICES ASSUME NEW b \in mailboxes', mb'[b].owner # NO_OWNER
               PROVE MayOwn(mb[b].owner, b)'
    BY DEF OwnersLive, MayOwn
  <2>1. b \in mailboxes /\ b \in Id BY <1>1
  <2>2. PICK a \in Id : a = mb[b].owner /\ a = mb'[b].owner
    BY <1>1, <2>1 DEF MailboxOf
  <2>3. MayOwn(a, b) BY <2>1, <2>2 DEF GoneInv, OwnersLive
  <2>4. CASE a = t BY <1>1, <1>2, <2>2, <2>4 DEF MayOwn, Late
  <2>5. CASE a # t BY <1>1, <2>2, <2>3, <2>5 DEF MayOwn, Pc
  <2> QED BY <2>4, <2>5
<1>5. ReportsAreLate'
  <2>1. \A a \in Id : Pc(a) \in Late => Pc(a)' \in Late BY <1>1 DEF Pc, Late, Epilogue
  <2>2. \A r : Pc(t)' \in Late => HasEnded(Exited(t, r).of)'
    BY <1>1, <1>2 DEF HasEnded, Exited
  <2> QED BY <1>1, <2>1, <2>2, ReportsKept DEF GoneInv
<1> QED BY <1>3, <1>4, <1>5 DEF GoneInv

LEMMA EndsKeepGone ==
  ASSUME Inv, MailInv, GoneInv, NEW t \in Id, NEW b \in Id,
         \/ EndErase(t) \/ EndClose(t, b) \/ EndTellStarter(t)
         \/ EndMark(t) \/ EndReport(t) \/ EndFinish(t)
  PROVE GoneInv'
<1>1. /\ mailboxes \subseteq Id /\ mb \in [Id -> MailboxOf(Id)] /\ TypeOK
      /\ th \in [Id -> ThreadRecord] /\ th[t] \in ThreadRecord
  BY DEF Inv, TypeInv, TypeOK
<1>2. Epilogue(t) BY EndsStep
<1>3. mailboxes' \subseteq mailboxes /\ \A x \in mailboxes' : MayOwn(mb[x].owner, x)
  BY <1>2 DEF Epilogue, GoneInv, OwnersLive
<1>4. Pc(t) # "none" BY <1>2 DEF Epilogue
<1>5. t # Root /\ t # NO_OWNER
  BY <1>2, MaxIdAssumption DEF Epilogue, GoneInv, EndsAreOfActors, Inv, LifeInv,
     ThreadsHaveIsolates, NO_OWNER, Id
<1>6. CASE EndErase(t)
  <2>1. Pc(t)' = "close" /\ th'[t].todo = MailboxesOf(t)
    <3>1. MailboxesOf(t) \in SUBSET Id BY <1>1 DEF MailboxesOf
    <3> QED BY <1>1, <1>6, <3>1, ThreadArgs DEF EndErase, Pc, Pcs
  <2> QED BY <1>1, <1>2, <1>3, <1>6, <2>1, EpilogueKeepsGone DEF EndErase, MailboxesOf
<1>7. CASE EndClose(t, b)
  <2>1. Pc(t) = "close" /\ b \in th[t].todo BY <1>7 DEF EndClose, At, Pc
  <2>2. Pc(t)' = "close" /\ th'[t].todo = th[t].todo \ {b}
    <3>1. th[t].todo \ {b} \in SUBSET Id BY <1>1 DEF ThreadRecord
    <3> QED BY <1>1, <1>7, <2>1, <3>1, ThreadArgs DEF EndClose, Pc, Pcs
  <2>3. mb' = [mb EXCEPT ![b] = IF kind[b] = "slot" THEN Vacate(mb[b]) ELSE Close(mb[b])]
    BY <1>7 DEF EndClose
  <2>4. \A x \in Id : Drops(mb[x], mb'[x]) BY <1>1, <2>3, GainsByMethods
  <2>5. kind[b] # "slot" => b \notin mailboxes BY <2>1 DEF MailInv, ClosesInPrivate
  <2>6. kind[b] = "slot" => mb'[b].owner = NO_OWNER BY <1>1, <2>3 DEF Vacate, MailboxOf
  <2>7. ASSUME NEW x \in mailboxes', mb[x].owner = t, mb'[x].owner = t
        PROVE x \in th'[t].todo
    <3>1. x \in th[t].todo BY <1>3, <1>5, <2>1, <2>7 DEF MayOwn
    <3>2. x # b BY <1>3, <1>5, <2>5, <2>6, <2>7
    <3> QED BY <2>2, <3>1, <3>2
  <2> QED BY <1>2, <2>2, <2>4, <2>7, EpilogueKeepsGone DEF Drops
<1>8. CASE EndTellStarter(t)
  <2>1. Pc(t) = "close" /\ th[t].todo = {} BY <1>8 DEF EndTellStarter, At, Pc
  <2>2. Pc(t)' \in Late BY <1>1, <1>8 DEF EndTellStarter, Pc, ThreadRecord, Late
  <2>3. Exited(t, "fault") \in MailOf(Id) BY SystemMail
  <2>4. \A x \in Id : mb'[x] \in {mb[x], Put(mb[x], Exited(t, "fault"))}
    BY <1>1, <1>8 DEF EndTellStarter
  <2>5. \A x \in Id : Gains(mb[x], mb'[x], {Exited(t, "fault")})
    BY <1>1, <2>3, <2>4, GainsByMethods
  <2>6. \A x \in mailboxes' : mb[x].owner # t BY <1>3, <1>5, <2>1 DEF MayOwn
  <2> QED BY <1>2, <2>2, <2>5, <2>6, EpilogueKeepsGone DEF Gains
<1>9. CASE EndMark(t) \/ EndReport(t) \/ EndFinish(t)
  <2>1. Pc(t) \in Late BY <1>9 DEF EndMark, EndReport, EndFinish, At, Pc, Late
  <2>2. Pc(t)' \in Late BY <1>2, <2>1 DEF Epilogue, Late
  <2>3. \A x \in mailboxes' : mb[x].owner # t BY <1>3, <1>5, <2>1 DEF MayOwn
  <2>4. CASE EndReport(t)
    <3> DEFINE y == Head(th[t].due)
    <3>1. PICK r \in {"fault", "normal"} :
            mb' = [mb EXCEPT ![y] = IF y \in mailboxes THEN Put(mb[y], Exited(t, r)) ELSE mb[y]]
      BY <2>4 DEF EndReport
    <3>2. Exited(t, r) \in MailOf(Id) BY SystemMail
    <3> HIDE DEF y
    <3>3. \A x \in Id : mb'[x] \in {mb[x], Put(mb[x], Exited(t, r))} BY <1>1, <3>1
    <3>4. \A x \in Id : Gains(mb[x], mb'[x], {Exited(t, r)})
      BY <1>1, <3>2, <3>3, GainsByMethods
    <3> QED BY <1>2, <2>2, <2>3, <3>4, EpilogueKeepsGone DEF Gains
  <2>5. CASE mb' = mb BY <1>2, <2>2, <2>3, <2>5, EpilogueKeepsGone
  <2> QED BY <1>9, <2>4, <2>5 DEF EndMark, EndFinish
<1> QED BY <1>6, <1>7, <1>8, <1>9

LEMMA StepKeepsGone ==
  ASSUME Inv, MailInv, GoneInv, [Next]_vars
  PROVE GoneInv'
<1>1. Root \in Id BY MaxIdAssumption DEF Root, Id
<1>2. ASSUME NEW t \in Id, NEW b \in Id, NEW c \in Id, Native(t, b, c) PROVE GoneInv'
  BY <1>2, NativesGoOn, NativesMail, GoesOnKeepsGone
<1>3. ASSUME NEW t \in Id, Program(t) PROVE GoneInv'
  BY <1>1, <1>2, <1>3, MakingKeepsGone DEF Program, Native
<1>4. ASSUME NEW t \in Id, Runtime(t) PROVE GoneInv'
  BY <1>1, <1>2, <1>4, MakingKeepsGone, ThreadKeepsGone, EndsKeepGone DEF Runtime, Native
<1>5. ASSUME World PROVE GoneInv' BY <1>1, <1>5, WorldGoesOn, GoesOnKeepsGone
<1>6. ASSUME UNCHANGED vars PROVE GoneInv'
  BY <1>6 DEF vars, GoneInv, EndsAreOfActors, OwnersLive, MayOwn, ReportsAreLate, HasEnded, Pc
<1> QED BY <1>3, <1>4, <1>5, <1>6 DEF Next, Finished

LEMMA InitGone ==
  ASSUME Init
  PROVE GoneInv
<1>1. Root \in Id BY MaxIdAssumption DEF Root, Id
<1>2. \A t \in Id : Pc(t) \in {"run", "none"} BY DEF Init, Pc
<1>3. \A b \in Id : mb[b].owner = Root /\ Mails(mb[b].q) = {}
  BY MailsEmpty DEF Init, NewMailbox
<1> QED BY <1>1, <1>2, <1>3
        DEF GoneInv, EndsAreOfActors, OwnersLive, MayOwn, ReportsAreLate, Init

\* Whoever reads that an actor ended finds no open inbox of it, in whatever order its
\* epilogue, its watchers and the natives of others interleave (run_isolate).
THEOREM ReportedAreGone == Spec => []ReportedActorIsGone
<1>1. Init => Inv /\ MailInv /\ GoneInv BY InitInv, InitMailInv, InitGone
<1>2. Inv /\ MailInv /\ GoneInv /\ [Next]_vars => (Inv /\ MailInv /\ GoneInv)'
  BY StepKeepsInv, StepKeepsMailInv, StepKeepsGone
<1>3. ASSUME Inv, GoneInv PROVE ReportedActorIsGone
  <2> SUFFICES ASSUME NEW b \in Id, NEW i \in 1 .. Len(mb[b].q), IsReport(mb[b].q[i]),
                      NEW x \in mailboxes, mb[x].owner = mb[b].q[i].of
               PROVE FALSE
    BY DEF ReportedActorIsGone, IsReport
  <2>1. HasEnded(mb[b].q[i].of) BY <1>3 DEF GoneInv, ReportsAreLate, Mails
  <2>2. PICK a \in Id : a = mb[b].q[i].of /\ kind[a] = "actor" /\ Pc(a) \in Late
    BY <2>1 DEF HasEnded
  <2>3. MayOwn(a, x) BY <1>3, <2>2 DEF GoneInv, OwnersLive
  <2>4. a # NO_OWNER /\ a # Root
    BY <1>3, <2>2, MaxIdAssumption DEF Inv, LifeInv, ThreadsHaveIsolates, NO_OWNER, Id
  <2> QED BY <2>2, <2>3, <2>4 DEF MayOwn
<1> QED BY <1>1, <1>2, <1>3, PTL DEF Spec

-----------------------------------------------------------------------------
(* Who can be found in the registry has a thread.                          *)

\* A record is registered, and only registered, after its thread was made.
Registered ==
  /\ \A i \in isolates : Pc(i) \notin {"none", "born"}
  /\ \A i \in Id : Pc(i) = "register" => Pc(Child(i)) \notin {"none", "born"}

LEMMA MovesKeepRegistered ==
  ASSUME Inv, Registered, NEW t \in Id, Moves(t), isolates' = isolates
  PROVE Registered'
<1>1. /\ Pc(t)' \notin {"none", "born", "register"}
      /\ \A x \in Id \ {t} : Pc(x)' = Pc(x) /\ Child(x)' = Child(x)
      /\ isolates \subseteq Id /\ \A x \in Id : Child(x) \in Id
  BY DEF Moves, Settled, Inv, TypeInv, TypeOK, Child, ThreadRecord
<1>2. \A i \in isolates : Pc(i)' \notin {"none", "born"} BY <1>1 DEF Registered
<1>3. ASSUME NEW i \in Id, Pc(i)' = "register" PROVE Pc(Child(i))' \notin {"none", "born"}
  <2>1. PICK d \in Id : d = Child(i) BY <1>1
  <2>2. Pc(d) \notin {"none", "born"} /\ d = Child(i)' BY <1>1, <1>3, <2>1 DEF Registered
  <2>3. Pc(d)' \notin {"none", "born"} BY <1>1, <2>2
  <2> QED BY <2>2, <2>3 DEF Pc
<1> QED BY <1>2, <1>3 DEF Registered

LEMMA MakesKeepsRegistered ==
  ASSUME Inv, Registered, NEW t \in Id, NEW c \in Id, Makes(t, c)
  PROVE Registered'
<1>1. /\ Pc(t)' = "thread" /\ Pc(c)' = "born" /\ isolates' = isolates
      /\ \A x \in Id \ {t, c} : Pc(x)' = Pc(x) /\ Child(x)' = Child(x)
      /\ isolates \subseteq Id /\ \A x \in Id : Child(x) \in Id
  BY DEF Makes, Inv, TypeInv, TypeOK, Child, ThreadRecord
<1>2. Pc(c) = "none"
  BY MaxIdAssumption DEF Makes, Inv, LifeInv, FreshIdsAreUnused, Id
<1>3. \A i \in isolates : Pc(i)' \notin {"none", "born"} BY <1>1, <1>2 DEF Registered
<1>4. ASSUME NEW i \in Id, Pc(i)' = "register" PROVE Pc(Child(i))' \notin {"none", "born"}
  <2>1. PICK d \in Id : d = Child(i) BY <1>1
  <2>2. i \notin {t, c} BY <1>1, <1>4
  <2>3. Pc(d) \notin {"none", "born"} /\ d = Child(i)' BY <1>1, <1>4, <2>1, <2>2 DEF Registered
  <2>4. Pc(d)' \notin {"none", "born"} BY <1>1, <1>2, <2>3
  <2> QED BY <2>3, <2>4 DEF Pc
<1> QED BY <1>1, <1>3, <1>4 DEF Registered

LEMMA ThreadsKeepRegistered ==
  ASSUME Inv, Registered, NEW t \in Id, NEW c \in Id, t # c,
         Made(t, c) \/ Refused(t, c) \/ Registers(t, c)
  PROVE Registered'
<1>1. /\ isolates \subseteq Id /\ \A x \in Id : Child(x) \in Id
      /\ isolates' = isolates \/ (Registers(t, c) /\ isolates' = isolates \cup {c})
      /\ \A x \in Id \ {t, c} : Pc(x)' = Pc(x) /\ Child(x)' = Child(x)
      /\ Pc(t)' \notin {"none", "born"}
      /\ Pc(t)' = "register" => Made(t, c)
  BY DEF Made, Refused, Registers, Settled, Inv, TypeInv, TypeOK, Child, ThreadRecord
<1>2. Pc(c)' \notin {"none", "born"} /\ (Pc(c)' = "register" => Child(c)' = Child(c) /\ Pc(c) = "register")
  <2>1. CASE Registers(t, c) BY <2>1 DEF Registers, Registered
  <2>2. CASE Made(t, c) \/ Refused(t, c) BY <2>2 DEF Made, Refused
  <2> QED BY <2>1, <2>2
<1>3. \A i \in Id : Pc(i) \notin {"none", "born"} => Pc(i)' \notin {"none", "born"}
  BY <1>1, <1>2
<1>4. \A i \in isolates' : Pc(i)' \notin {"none", "born"} BY <1>1, <1>2, <1>3 DEF Registered
<1>5. ASSUME NEW i \in Id, Pc(i)' = "register" PROVE Pc(Child(i))' \notin {"none", "born"}
  <2>1. CASE i = t
    <3>1. Child(i)' = c BY <1>1, <1>5, <2>1 DEF Made
    <3> QED BY <1>2, <3>1 DEF Pc
  <2>2. CASE i # t
    <3>1. PICK d \in Id : d = Child(i) BY <1>1
    <3>2. Pc(d) \notin {"none", "born"} /\ d = Child(i)'
      BY <1>1, <1>2, <1>5, <2>2, <3>1 DEF Registered
    <3>3. Pc(d)' \notin {"none", "born"} BY <1>3, <3>2
    <3> QED BY <3>2, <3>3 DEF Pc
  <2> QED BY <2>1, <2>2
<1> QED BY <1>4, <1>5 DEF Registered

LEMMA StepKeepsRegistered ==
  ASSUME Inv, Registered, [Next]_vars
  PROVE Registered'
<1>1. /\ TypeInv /\ TypeOK /\ LifeInv /\ Root \in Id /\ \A t \in Id : th[t].arg \in Id
  <2>1. TypeInv /\ TypeOK /\ LifeInv BY DEF Inv, TypeInv
  <2>2. Root \in Id BY MaxIdAssumption DEF Root, Id
  <2> QED BY <2>1, <2>2 DEF TypeOK, ThreadRecord
<1>2. ASSUME NEW t \in Id, Ordinary(t) PROVE Registered'
  BY <1>2, MovesKeepRegistered DEF Ordinary, Goes, RecordsStay
<1>3. ASSUME NEW t \in Id, SpawnActor(t) \/ SpawnTask(t) \/ SpawnIntoTake(t) PROVE Registered'
  <2>1. next_id \in Id
    BY <1>1, <1>3, FreshId, FreshIdInto DEF SpawnActor, SpawnTask, SpawnIntoTake
  <2>2. PICK k \in {"actor", "task"}, box \in Id : NewIsolate(t, k, box)
    BY <1>1, <1>3, <2>1 DEF SpawnActor, SpawnTask, SpawnIntoTake
  <2>3. Pc(t) \in {"run", "into"} /\ isolates' = isolates
    BY <1>3 DEF SpawnActor, SpawnTask, SpawnIntoTake, Calling, At, Pc
  <2>4. PICK c \in Id : c = next_id BY <2>1
  <2>5. t # c BY <1>1, <2>3, <2>4 DEF LifeInv, FreshIdsAreUnused, TypeOK
  <2>6. Makes(t, c) BY <1>1, <2>2, <2>3, <2>4, <2>5, NewIsolateMakes
  <2> QED BY <2>6, MakesKeepsRegistered
<1>4. ASSUME NEW t \in Id, SpawnThread(t) \/ SpawnThreadFails(t) \/ SpawnRegister(t)
      PROVE Registered'
  <2>1. Starting(t) BY <1>4 DEF SpawnThread, SpawnThreadFails, SpawnRegister, Starting, At, Pc
  <2>2. PICK c \in Id : c = Child(t) /\ t # c BY <1>1, <2>1, StarterOf
  <2>3. Made(t, c) \/ Refused(t, c) \/ Registers(t, c)
    BY <1>1, <1>4, <2>2, ThreadMadeOrRefused
  <2> QED BY <2>2, <2>3, ThreadsKeepRegistered
<1>5. ASSUME NEW t \in Id, NEW b \in Id, NEW c \in Id,
             \/ JoinTask(t, b) \/ JoinReturns(t) \/ NewSlot(t) \/ ReleaseSlot(t, b)
             \/ ReleaseErase(t) \/ ReleaseClose(t) \/ ReleaseRetire(t) \/ NewInbox(t)
             \/ CloseInbox(t, b) \/ CloseInboxDone(t)
             \/ Send(t, b) \/ Receive(t, b) \/ StopActor(t, b) \/ StopList(t)
             \/ StopPut(t, b) \/ Monitor(t, b, c) \/ MonitorGone(t, b, c)
             \/ Return(t) \/ Fault(t) \/ EndErase(t) \/ EndClose(t, b) \/ EndTellStarter(t)
             \/ EndMark(t) \/ EndReport(t) \/ EndFinish(t)
      PROVE Registered'
  BY <1>1, <1>2, <1>5, NativesAreOrdinary, MailIsOrdinary, EndsAreOrdinary
<1>6. ASSUME NEW t \in Id, NEW b \in Id, SpawnIntoCheck(t, b) PROVE Registered'
  BY <1>1, <1>6, SpawnIntoCheckMoves, MovesKeepRegistered DEF RecordsStay
<1>7. ASSUME World PROVE Registered'
  <2>1. CASE WorldStop \/ (\E i \in Id : WorldPick(i)) \/ WorldJoined
    BY <1>1, <1>2, <2>1, JoinsAreOrdinary
  <2>2. CASE WorldGone
    <3>1. Ends BY <1>1, <2>2, GoneEnds
    <3>2. isolates \subseteq Id /\ \A x \in Id : Child(x) \in Id
      BY <1>1 DEF TypeOK, Child, ThreadRecord
    <3>3. /\ isolates' = isolates /\ Pc(Root)' = "gone"
          /\ \A x \in Id \ {Root} : Pc(x)' = Pc(x) /\ Child(x)' = Child(x)
      BY <3>1 DEF Ends
    <3>4. ASSUME NEW i \in Id, Pc(i)' = "register" PROVE Pc(Child(i))' \notin {"none", "born"}
      <4>1. PICK d \in Id : d = Child(i) BY <3>2
      <4>2. Pc(d) \notin {"none", "born"} /\ d = Child(i)' BY <3>3, <3>4, <4>1 DEF Registered
      <4>3. Pc(d)' \notin {"none", "born"} BY <3>3, <4>2
      <4> QED BY <4>2, <4>3 DEF Pc
    <3> QED BY <3>2, <3>3, <3>4 DEF Registered
  <2> QED BY <1>7, <2>1, <2>2 DEF World
<1>8. ASSUME UNCHANGED vars PROVE Registered' BY <1>8 DEF vars, Registered, Pc, Child
<1>9. ASSUME NEW t \in Id, Program(t) PROVE Registered'
  BY <1>1, <1>3, <1>5, <1>6, <1>9 DEF Program
<1>10. ASSUME NEW t \in Id, Runtime(t) PROVE Registered'
  BY <1>1, <1>3, <1>4, <1>5, <1>10 DEF Runtime
<1> QED BY <1>7, <1>8, <1>9, <1>10 DEF Next, Finished

-----------------------------------------------------------------------------
(* How often an inbox occurs in a list of watchers.                        *)

Places(s, b) == {i \in 1 .. Len(s) : s[i] = b}
Occ(s, b) == Cardinality(Places(s, b))

LEMMA PlacesFinite ==
  ASSUME NEW s \in Seq(Id), NEW b
  PROVE IsFiniteSet(Places(s, b)) /\ Occ(s, b) \in Nat
<1>1. Len(s) \in Nat OBVIOUS
<1>2. IsFiniteSet(1 .. Len(s)) BY <1>1, FS_Interval
<1>3. IsFiniteSet(Places(s, b)) BY <1>2, FS_Subset DEF Places
<1> QED BY <1>3, FS_CardinalityType DEF Occ

LEMMA OccEmpty == \A b : Occ(<<>>, b) = 0
<1>1. \A b : Places(<<>>, b) = {} BY DEF Places
<1> QED BY <1>1, FS_EmptySet DEF Occ

LEMMA OccAppend ==
  ASSUME NEW s \in Seq(Id), NEW x \in Id, NEW b \in Id
  PROVE Occ(Append(s, x), b) = IF x = b THEN Occ(s, b) + 1 ELSE Occ(s, b)
<1> DEFINE n == Len(s) + 1
<1>1. n \in Nat /\ Len(s) \in Nat OBVIOUS
<1>2. Len(Append(s, x)) = n /\ Append(s, x)[n] = x OBVIOUS
<1>3. \A i \in 1 .. Len(s) : Append(s, x)[i] = s[i] OBVIOUS
<1>4. Places(Append(s, x), b) = IF x = b THEN Places(s, b) \cup {n} ELSE Places(s, b)
  BY <1>1, <1>2, <1>3 DEF Places
<1>5. n \notin Places(s, b) BY <1>1 DEF Places
<1> HIDE DEF n
<1> QED BY <1>4, <1>5, PlacesFinite, FS_AddElement DEF Occ

LEMMA OccTail ==
  ASSUME NEW s \in Seq(Id), s # <<>>, NEW b \in Id
  PROVE Occ(s, b) = IF Head(s) = b THEN Occ(Tail(s), b) + 1 ELSE Occ(Tail(s), b)
<1> DEFINE later == Places(s, b) \ {1}
           f == [i \in Places(Tail(s), b) |-> i + 1]
<1>1. Len(s) \in Nat \ {0} /\ Len(Tail(s)) = Len(s) - 1 OBVIOUS
<1>2. \A i \in 1 .. Len(Tail(s)) : Tail(s)[i] = s[i + 1] OBVIOUS
<1>3. Tail(s) \in Seq(Id) OBVIOUS
<1>4. f \in Bijection(Places(Tail(s), b), later)
  <2>1. f \in [Places(Tail(s), b) -> later] BY <1>1, <1>2 DEF Places
  <2>2. \A i, j \in Places(Tail(s), b) : f[i] = f[j] => i = j BY <1>1 DEF Places
  <2>3. \A k \in later : \E i \in Places(Tail(s), b) : f[i] = k
    <3>1. TAKE k \in later
    <3>2. k - 1 \in Places(Tail(s), b) BY <1>1, <1>2 DEF Places
    <3>3. f[k - 1] = k BY <3>2 DEF Places
    <3> QED BY <3>2, <3>3
  <2> HIDE DEF f
  <2> QED BY <2>1, <2>2, <2>3, Zenon DEF Bijection, Injection, Surjection, IsInjective
<1>5. ExistsBijection(Places(Tail(s), b), later) BY <1>4, Zenon DEF ExistsBijection
<1>6. Cardinality(later) = Occ(Tail(s), b)
  BY <1>3, <1>5, PlacesFinite, FS_Bijection DEF Occ
<1>7. IsFiniteSet(Places(s, b)) /\ Occ(s, b) \in Nat BY PlacesFinite
<1>8. 1 \in Places(s, b) <=> Head(s) = b BY <1>1 DEF Places
<1>9. Cardinality(later) = IF 1 \in Places(s, b) THEN Occ(s, b) - 1 ELSE Occ(s, b)
  BY <1>7, FS_RemoveElement DEF Occ
<1> QED BY <1>6, <1>7, <1>8, <1>9

-----------------------------------------------------------------------------
(* The ledger of the reports: each one asked for was made, or is owed by   *)
(* the actor's record or by its epilogue.                                  *)

\* Who can still take a request, and will take its watchers on its way out.
Answers(a) == kind[a] = "actor" /\ Pc(a) \notin {"none", "born", "report", "done"}

Owed ==
  \A a \in Id : /\ iso[a].watchers # <<>> => Answers(a)
                /\ th[a].due # <<>> => Pc(a) = "report"

Balance ==
  \A a, b \in Id : asked[a][b] = told[a][b] + Occ(iso[a].watchers, b) + Occ(th[a].due, b)

LedgerInv == Owed /\ Balance

\* No request is added, none answered.
LedgerStays ==
  /\ \A a \in Id : iso'[a].watchers = iso[a].watchers /\ th'[a].due = th[a].due
  /\ asked' = asked /\ told' = told

LEMMA LedgerKept ==
  ASSUME LedgerInv, LedgerStays,
         \A a \in Id : Answers(a) => Answers(a)',
         \A a \in Id : Pc(a) = "report" => Pc(a)' = "report" \/ th[a].due = <<>>
  PROVE LedgerInv'
<1>1. Owed'
  <2> SUFFICES ASSUME NEW a \in Id
               PROVE /\ iso'[a].watchers # <<>> => Answers(a)'
                     /\ th'[a].due # <<>> => Pc(a)' = "report"
    BY Zenon DEF Owed
  <2>1. /\ iso[a].watchers # <<>> => Answers(a)
        /\ th[a].due # <<>> => Pc(a) = "report"
    BY DEF LedgerInv, Owed
  <2>2. iso'[a].watchers = iso[a].watchers /\ th'[a].due = th[a].due BY DEF LedgerStays
  <2> QED BY <2>1, <2>2
<1>2. Balance' BY DEF LedgerInv, LedgerStays, Balance
<1> QED BY <1>1, <1>2 DEF LedgerInv

LEMMA NativesKeepLedger ==
  ASSUME Inv, LedgerInv, NEW t \in Id, NEW b \in Id, NEW c \in Id, Native(t, b, c),
         ~Monitor(t, b, c), ~MonitorGone(t, b, c)
  PROVE LedgerInv'
<1>1. GoesOn(t) BY NativesGoOn
<1>2. iso \in [Id -> IsolateRecord] /\ th[t].arg \in Id
  BY DEF Inv, TypeInv, TypeOK, ThreadRecord
<1>3. asked' = asked /\ told' = told
  BY DEF Native, SpawnIntoCheck, SpawnRegister, JoinTask, JoinReturns, ReleaseSlot,
     ReleaseErase, ReleaseClose, ReleaseRetire, CloseInbox, CloseInboxDone, Send, Receive,
     StopActor, StopList, StopPut, Return, Fault, history
<1>4. \A a \in Id : iso'[a].watchers = iso[a].watchers
  <2>1. CASE iso' = iso BY <2>1
  <2>2. CASE JoinTask(t, b) BY <1>2, <2>2 DEF JoinTask, IsolateRecord
  <2>3. CASE JoinReturns(t) BY <1>2, <2>3 DEF JoinReturns, IsolateRecord
  <2> QED BY <2>1, <2>2, <2>3
          DEF Native, SpawnIntoCheck, SpawnRegister, ReleaseSlot, ReleaseErase, ReleaseClose,
          ReleaseRetire, CloseInbox, CloseInboxDone, Send, Receive, StopActor, StopList,
          StopPut, Return, Fault
<1>5. LedgerStays BY <1>1, <1>3, <1>4 DEF LedgerStays, GoesOn
<1>6. /\ \A a \in Id : Answers(a) => Answers(a)'
      /\ \A a \in Id : Pc(a) = "report" => Pc(a)' = "report"
  BY <1>1 DEF GoesOn, Busy, Answers, Pc
<1> QED BY <1>5, <1>6, LedgerKept

LEMMA WorldKeepsLedger ==
  ASSUME Inv, LedgerInv, World
  PROVE LedgerInv'
<1>1. GoesOn(Root) BY WorldGoesOn
<1>2. iso \in [Id -> IsolateRecord] BY DEF Inv, TypeInv, TypeOK
<1>3. asked' = asked /\ told' = told
  BY DEF World, WorldStop, WorldPick, WorldJoined, WorldGone, history
<1>4. \A a \in Id : iso'[a].watchers = iso[a].watchers
  <2>1. CASE WorldJoined BY <1>2, <2>1 DEF WorldJoined, IsolateRecord
  <2> QED BY <2>1 DEF World, WorldStop, WorldPick, WorldGone
<1>5. LedgerStays BY <1>1, <1>3, <1>4 DEF LedgerStays, GoesOn
<1>6. /\ \A a \in Id : Answers(a) => Answers(a)'
      /\ \A a \in Id : Pc(a) = "report" => Pc(a)' = "report"
  BY <1>1 DEF GoesOn, Busy, Answers, Pc
<1> QED BY <1>5, <1>6, LedgerKept

\* The records and threads that are made owe nothing.
LEMMA MakingKeepsLedger ==
  ASSUME Inv, LedgerInv, NEW t \in Id,
         SpawnActor(t) \/ SpawnTask(t) \/ SpawnIntoTake(t) \/ NewSlot(t) \/ NewInbox(t)
  PROVE LedgerInv'
<1>1. /\ TypeInv /\ TypeOK /\ th \in [Id -> ThreadRecord] /\ iso \in [Id -> IsolateRecord]
      /\ \A u \in Id : th[u] \in ThreadRecord /\ th[u].arg \in Id
  BY DEF Inv, TypeInv, TypeOK, ThreadRecord
<1>2. next_id \in Id
  <2>1. CASE SpawnActor(t) \/ SpawnTask(t) \/ NewSlot(t) \/ NewInbox(t)
    BY <1>1, <2>1, FreshId DEF SpawnActor, SpawnTask, NewSlot, NewInbox
  <2>2. CASE SpawnIntoTake(t) BY <1>1, <2>2, FreshIdInto DEF SpawnIntoTake
  <2> QED BY <2>1, <2>2
<1>3. PICK c \in Id : c = next_id BY <1>2
<1>4. asked' = asked /\ told' = told
  BY DEF SpawnActor, SpawnTask, SpawnIntoTake, NewSlot, NewInbox, history
<1>5. ASSUME Grows(t, c) PROVE /\ \A a \in Id : Answers(a) => Answers(a)'
                               /\ \A a \in Id : Pc(a) = "report" => Pc(a)' = "report"
  BY <1>5 DEF Grows, Answers, Pc
<1>6. CASE NewSlot(t) \/ NewInbox(t)
  <2>1. Grows(t, c) /\ th' = th /\ iso' = iso BY <1>3, <1>6, AddressGrows
  <2>2. LedgerStays BY <1>4, <2>1 DEF LedgerStays
  <2> QED BY <1>5, <2>1, <2>2, LedgerKept
<1>7. CASE SpawnActor(t) \/ SpawnTask(t) \/ SpawnIntoTake(t)
  <2>1. Root \in Id BY MaxIdAssumption DEF Root, Id
  <2>2. PICK k \in {"actor", "task"}, box \in Id : NewIsolate(t, k, box)
    BY <1>1, <1>2, <1>7, <2>1 DEF SpawnActor, SpawnTask, SpawnIntoTake
  <2>3. Pc(t) \in {"run", "into"} /\ isolates' = isolates
    BY <1>7 DEF SpawnActor, SpawnTask, SpawnIntoTake, Calling, At, Pc
  <2>4. Grows(t, c) BY <1>3, <2>2, <2>3, NewIsolateGrows
  <2>5. \A a \in Id : iso'[a].watchers = iso[a].watchers
    <3> DEFINE h == [iso EXCEPT ![c].starter = t]
    <3>1. h \in [Id -> IsolateRecord] /\ \A a \in Id : h[a].watchers = iso[a].watchers
      BY <1>1 DEF IsolateRecord
    <3>2. iso' = [h EXCEPT ![c].mailbox = box] BY <1>3, <2>2 DEF NewIsolate
    <3> HIDE DEF h
    <3> QED BY <3>1, <3>2 DEF IsolateRecord
  <2>6. \A a \in Id : th'[a].due = th[a].due
    <3> DEFINE f == [th EXCEPT ![t].pc = "thread"]
               g == [f EXCEPT ![t].child = c]
    <3>1. f \in [Id -> ThreadRecord] /\ \A a \in Id : f[a].due = th[a].due
      BY <1>1 DEF ThreadRecord, Pcs
    <3>2. th' = [g EXCEPT ![c].pc = "born"] BY <1>3, <2>2 DEF NewIsolate
    <3> HIDE DEF f
    <3>3. g \in [Id -> ThreadRecord] /\ \A a \in Id : g[a].due = f[a].due
      <4>1. g \in [Id -> ThreadRecord] BY <3>1, ThreadField
      <4>2. \A a \in Id : g[a].due = f[a].due BY <3>1 DEF ThreadRecord
      <4> QED BY <4>1, <4>2
    <3> HIDE DEF g
    <3>4. \A a \in Id : th'[a].due = g[a].due BY <3>2, <3>3 DEF ThreadRecord
    <3> QED BY <3>1, <3>3, <3>4
  <2>7. LedgerStays BY <1>4, <2>5, <2>6 DEF LedgerStays
  <2> QED BY <1>5, <2>4, <2>7, LedgerKept
<1> QED BY <1>6, <1>7

LEMMA ThreadKeepsLedger ==
  ASSUME Inv, LedgerInv, NEW t \in Id, SpawnThread(t) \/ SpawnThreadFails(t)
  PROVE LedgerInv'
<1>1. /\ TypeOK /\ th \in [Id -> ThreadRecord] /\ (t = Root \/ Started(t) \/ Pc(t) = "none")
  BY DEF Inv, TypeInv, TypeOK, LifeInv, ThreadsHaveIsolates
<1>2. PICK c \in Id :
        /\ c = th[t].child /\ ThreadStep(t, c)
        /\ SpawnThread(t) => Pc(t)' = "register" /\ Pc(c)' = "run"
        /\ SpawnThreadFails(t) => Pc(t)' = Unwind(t) /\ Pc(c)' = "done"
  BY ThreadSteps
<1>3. /\ Pc(t) = "thread" /\ Pc(c) = "born" /\ t # c /\ kind' = kind /\ iso' = iso
      /\ \A u \in Id \ {t, c} : th'[u] = th[u]
  BY <1>2 DEF ThreadStep
<1>4. th'[t].due = th[t].due /\ th'[c].due = th[c].due
  <2>1. CASE SpawnThread(t)
    <3> DEFINE f == [th EXCEPT ![t].pc = "register"]
    <3>1. f \in [Id -> ThreadRecord] /\ \A a \in Id : f[a].due = th[a].due
      BY <1>1 DEF ThreadRecord, Pcs
    <3>2. th' = [f EXCEPT ![c].pc = "run"] BY <1>2, <2>1 DEF SpawnThread
    <3> HIDE DEF f
    <3> QED BY <3>1, <3>2 DEF ThreadRecord
  <2>2. CASE SpawnThreadFails(t)
    <3>1. th' = [th EXCEPT ![t] = Unwound(t, TRUE), ![c].pc = "done"]
      BY <1>2, <2>2 DEF SpawnThreadFails
    <3>2. th'[t] = Unwound(t, TRUE) /\ th'[c] = [th[c] EXCEPT !.pc = "done"]
      BY <1>1, <1>3, <3>1
    <3>3. Unwound(t, TRUE).due = th[t].due BY <1>1, LeavesDue
    <3> QED BY <1>1, <3>2, <3>3 DEF ThreadRecord
  <2> QED BY <2>1, <2>2
<1>5. LedgerStays
  BY <1>3, <1>4 DEF LedgerStays, SpawnThread, SpawnThreadFails, history
<1>6. Pc(t)' \in {"register", "leave", "done", "erase"} /\ (Pc(t)' = "done" => kind[t] # "actor")
  BY <1>1, <1>2, <1>3 DEF Unwind, Started
<1>7. /\ \A a \in Id : Answers(a) => Answers(a)'
      /\ \A a \in Id : Pc(a) = "report" => Pc(a)' = "report"
  BY <1>3, <1>6 DEF Answers, Pc
<1> QED BY <1>5, <1>7, LedgerKept

\* A request finds an actor that has not taken its watchers, or is answered at once.
LEMMA MonitorKeepsLedger ==
  ASSUME Inv, GoneInv, Registered, LedgerInv, NEW t \in Id, NEW b \in Id, NEW c \in Id,
         Monitor(t, b, c) \/ MonitorGone(t, b, c)
  PROVE LedgerInv'
<1>1. /\ iso \in [Id -> IsolateRecord] /\ \A x \in Id : iso[x].watchers \in Seq(Id)
      /\ asked \in [Id -> [Id -> Nat]] /\ told \in [Id -> [Id -> Nat]]
      /\ \A x \in Id : th[x].due \in Seq(Id) /\ mb[x].owner \in Id \cup {NO_OWNER}
  BY DEF Inv, TypeInv, TypeOK, IsolateRecord, ThreadRecord, MailboxOf
<1>2. th' = th /\ kind' = kind BY DEF Monitor, MonitorGone
<1>3. \A x \in Id : Answers(x)' <=> Answers(x) BY <1>2 DEF Answers, Pc
<1>4. CASE Monitor(t, b, c)
  <2> DEFINE a == mb[c].owner
  <2>1. a \in Id /\ a \in isolates /\ MayOwn(a, c) /\ a # Root /\ a # NO_OWNER
    <3>1. c \in mailboxes /\ a > 0 /\ a \in isolates BY <1>4 DEF Monitor, Watchable
    <3>2. a \in Id \cup {NO_OWNER} BY <1>1
    <3>3. MayOwn(a, c) BY <3>1 DEF GoneInv, OwnersLive
    <3> QED BY <3>1, <3>2, <3>3 DEF NO_OWNER, Root
  <2>2. /\ iso' = [iso EXCEPT ![a].watchers = Append(@, b)] /\ told' = told
        /\ asked' = [asked EXCEPT ![a][b] = @ + 1]
    BY <1>4 DEF Monitor
  <2> HIDE DEF a
  <2>3. Answers(a) BY <2>1 DEF MayOwn, Registered, Answers, Late
  <2>4. Append(iso[a].watchers, b) \in Seq(Id) BY <1>1, <2>1
  <2>5. /\ iso'[a].watchers = Append(iso[a].watchers, b)
        /\ \A x \in Id : x # a => iso'[x].watchers = iso[x].watchers
    BY <1>1, <2>1, <2>2, <2>4 DEF IsolateRecord
  <2>6. Owed'
    <3> SUFFICES ASSUME NEW x \in Id
                 PROVE /\ iso'[x].watchers # <<>> => Answers(x)'
                       /\ th'[x].due # <<>> => Pc(x)' = "report"
      BY Zenon DEF Owed
    <3> QED BY <1>2, <1>3, <2>3, <2>5 DEF LedgerInv, Owed, Pc
  <2>7. Balance'
    <3> SUFFICES ASSUME NEW x \in Id, NEW y \in Id
                 PROVE asked'[x][y] = told'[x][y] + Occ(iso'[x].watchers, y) + Occ(th'[x].due, y)
      BY DEF Balance
    <3>1. /\ asked[x][y] = told[x][y] + Occ(iso[x].watchers, y) + Occ(th[x].due, y)
          /\ asked[x][y] \in Nat /\ told[x][y] \in Nat
          /\ Occ(iso[x].watchers, y) \in Nat /\ Occ(th[x].due, y) \in Nat
      BY <1>1, PlacesFinite DEF LedgerInv, Balance
    <3>2. asked'[x][y] = IF x = a /\ y = b THEN asked[x][y] + 1 ELSE asked[x][y]
      BY <1>1, <2>1, <2>2
    <3>3. Occ(iso'[x].watchers, y) =
            IF x = a /\ y = b THEN Occ(iso[x].watchers, y) + 1 ELSE Occ(iso[x].watchers, y)
      <4>1. CASE x = a
        <5>1. Occ(Append(iso[a].watchers, b), y) =
                IF b = y THEN Occ(iso[a].watchers, y) + 1 ELSE Occ(iso[a].watchers, y)
          BY <1>1, <2>1, OccAppend
        <5> QED BY <2>5, <4>1, <5>1
      <4>2. CASE x # a BY <2>5, <4>2
      <4> QED BY <4>1, <4>2
    <3> QED BY <1>2, <2>2, <3>1, <3>2, <3>3
  <2> QED BY <2>6, <2>7 DEF LedgerInv
<1>5. CASE MonitorGone(t, b, c)
  <2>1. /\ iso' = iso /\ asked' = [asked EXCEPT ![c][b] = @ + 1]
        /\ told' = [told EXCEPT ![c][b] = @ + 1]
    BY <1>5 DEF MonitorGone
  <2>2. Owed' BY <1>2, <1>3, <2>1 DEF LedgerInv, Owed, Pc
  <2>3. Balance'
    <3> SUFFICES ASSUME NEW x \in Id, NEW y \in Id
                 PROVE asked'[x][y] = told'[x][y] + Occ(iso'[x].watchers, y) + Occ(th'[x].due, y)
      BY DEF Balance
    <3>1. /\ asked[x][y] = told[x][y] + Occ(iso[x].watchers, y) + Occ(th[x].due, y)
          /\ asked[x][y] \in Nat /\ told[x][y] \in Nat
          /\ Occ(iso[x].watchers, y) \in Nat /\ Occ(th[x].due, y) \in Nat
      BY <1>1, PlacesFinite DEF LedgerInv, Balance
    <3>2. /\ asked'[x][y] = IF x = c /\ y = b THEN asked[x][y] + 1 ELSE asked[x][y]
          /\ told'[x][y] = IF x = c /\ y = b THEN told[x][y] + 1 ELSE told[x][y]
      BY <1>1, <2>1
    <3> QED BY <1>2, <2>1, <3>1, <3>2
  <2> QED BY <2>2, <2>3 DEF LedgerInv
<1> QED BY <1>4, <1>5

\* The watchers become reports that are due, and each due report is made.
LEMMA EndsKeepLedger ==
  ASSUME Inv, LedgerInv, NEW t \in Id, NEW b \in Id,
         \/ EndErase(t) \/ EndClose(t, b) \/ EndTellStarter(t)
         \/ EndMark(t) \/ EndReport(t) \/ EndFinish(t)
  PROVE LedgerInv'
<1>1. /\ th \in [Id -> ThreadRecord] /\ iso \in [Id -> IsolateRecord]
      /\ asked \in [Id -> [Id -> Nat]] /\ told \in [Id -> [Id -> Nat]]
      /\ \A x \in Id : th[x].due \in Seq(Id) /\ iso[x].watchers \in Seq(Id)
      /\ \A x \in Id : th[x] \in ThreadRecord
      /\ MailboxesOf(t) \in SUBSET Id
  BY DEF Inv, TypeInv, TypeOK, IsolateRecord, ThreadRecord, MailboxesOf
<1>2. /\ Epilogue(t) /\ kind' = kind /\ \A u \in Id : u # t => th'[u] = th[u]
  BY EndsStep DEF Epilogue
<1>3. \A x, y \in Id :
        /\ asked[x][y] = told[x][y] + Occ(iso[x].watchers, y) + Occ(th[x].due, y)
        /\ asked[x][y] \in Nat /\ told[x][y] \in Nat
        /\ Occ(iso[x].watchers, y) \in Nat /\ Occ(th[x].due, y) \in Nat
  BY <1>1, PlacesFinite DEF LedgerInv, Balance
<1>4. CASE EndErase(t) \/ EndClose(t, b) \/ EndTellStarter(t)
  <2>1. iso' = iso /\ asked' = asked /\ told' = told
    BY <1>4 DEF EndErase, EndClose, EndTellStarter, history
  <2>2. th'[t].due = th[t].due
    <3>1. CASE EndErase(t) BY <1>1, <3>1 DEF EndErase, ThreadRecord
    <3>2. CASE EndClose(t, b) BY <1>1, <3>2 DEF EndClose, ThreadRecord
    <3>3. CASE EndTellStarter(t) BY <1>1, <3>3 DEF EndTellStarter, ThreadRecord
    <3> QED BY <1>4, <3>1, <3>2, <3>3
  <2>3. Pc(t) \in {"erase", "close"} /\ Pc(t)' \in {"close", "mark"}
    BY <1>2, <1>4 DEF Epilogue, EndErase, EndClose, EndTellStarter, At, Pc
  <2>4. LedgerStays BY <1>2, <2>1, <2>2 DEF LedgerStays
  <2> QED BY <1>2, <2>3, <2>4, LedgerKept DEF Answers, Pc
<1>5. CASE EndMark(t)
  <2> DEFINE w == iso[t].watchers
  <2>1. Pc(t) = "mark" /\ Pc(t)' = "report" /\ th[t].due = <<>>
    BY <1>2, <1>5 DEF Epilogue, EndMark, At, Pc, LedgerInv, Owed
  <2>2. w \in Seq(Id) /\ th' = [th EXCEPT ![t].pc = "report", ![t].due = w] BY <1>1, <1>5 DEF EndMark
  <2>3. iso' = [iso EXCEPT ![t].ended = TRUE, ![t].watchers = <<>>] BY <1>5 DEF EndMark
  <2>4. asked' = asked /\ told' = told BY <1>5 DEF EndMark, history
  <2> HIDE DEF w
  <2>5. th'[t].due = w BY <1>1, <2>2 DEF ThreadRecord
  <2>6. iso'[t].watchers = <<>> /\ \A x \in Id : x # t => iso'[x].watchers = iso[x].watchers
    BY <1>1, <2>3 DEF IsolateRecord
  <2>7. Owed'
    <3> SUFFICES ASSUME NEW x \in Id
                 PROVE /\ iso'[x].watchers # <<>> => Answers(x)'
                       /\ th'[x].due # <<>> => Pc(x)' = "report"
      BY Zenon DEF Owed
    <3> QED BY <1>2, <2>1, <2>6 DEF LedgerInv, Owed, Answers, Pc
  <2>8. Balance'
    <3> SUFFICES ASSUME NEW x \in Id, NEW y \in Id
                 PROVE asked'[x][y] = told'[x][y] + Occ(iso'[x].watchers, y) + Occ(th'[x].due, y)
      BY DEF Balance
    <3>1. CASE x = t
      <4>1. Occ(iso'[x].watchers, y) = 0 /\ Occ(th[x].due, y) = 0
        BY <2>1, <2>6, <3>1, OccEmpty
      <4>2. Occ(th'[x].due, y) = Occ(iso[x].watchers, y) BY <2>5, <3>1 DEF w
      <4> QED BY <1>3, <2>4, <4>1, <4>2
    <3>2. CASE x # t BY <1>2, <1>3, <2>4, <2>6, <3>2
    <3> QED BY <3>1, <3>2
  <2> QED BY <2>7, <2>8 DEF LedgerInv
<1>6. CASE EndReport(t)
  <2> DEFINE w == Tail(th[t].due)
             h == Head(th[t].due)
  <2>1. Pc(t) = "report" /\ th[t].due # <<>> /\ iso' = iso /\ asked' = asked
    BY <1>6 DEF EndReport, At, Pc
  <2>2. w \in Seq(Id) /\ h \in Id BY <1>1, <2>1
  <2>3. th' = [th EXCEPT ![t].due = w] /\ told' = [told EXCEPT ![t][h] = @ + 1]
    BY <1>6 DEF EndReport
  <2>4. \A y \in Id : Occ(th[t].due, y) = IF h = y THEN Occ(w, y) + 1 ELSE Occ(w, y)
    BY <1>1, <2>1, OccTail
  <2>5. \A y \in Id : Occ(w, y) \in Nat BY <2>2, PlacesFinite
  <2> HIDE DEF w, h
  <2>6. th'[t].due = w /\ Pc(t)' = "report"
    BY <1>1, <2>1, <2>2, <2>3 DEF ThreadRecord, Pc
  <2>7. Owed'
    <3> SUFFICES ASSUME NEW x \in Id
                 PROVE /\ iso'[x].watchers # <<>> => Answers(x)'
                       /\ th'[x].due # <<>> => Pc(x)' = "report"
      BY Zenon DEF Owed
    <3> QED BY <1>2, <2>1, <2>6 DEF LedgerInv, Owed, Answers, Pc
  <2>8. Balance'
    <3> SUFFICES ASSUME NEW x \in Id, NEW y \in Id
                 PROVE asked'[x][y] = told'[x][y] + Occ(iso'[x].watchers, y) + Occ(th'[x].due, y)
      BY DEF Balance
    <3>1. told'[x][y] = IF x = t /\ y = h THEN told[x][y] + 1 ELSE told[x][y]
      BY <1>1, <2>2, <2>3
    <3>2. Occ(th[x].due, y) =
            IF x = t /\ y = h THEN Occ(th'[x].due, y) + 1 ELSE Occ(th'[x].due, y)
      BY <1>2, <2>4, <2>6
    <3>3. Occ(th'[x].due, y) \in Nat BY <1>2, <1>3, <2>5, <2>6
    <3>4. asked'[x][y] = asked[x][y] /\ iso'[x].watchers = iso[x].watchers BY <2>1
    <3>5. asked'[x][y] = told[x][y] + Occ(iso[x].watchers, y) + Occ(th[x].due, y)
      BY <1>3, <3>4
    <3>6. told[x][y] \in Nat /\ Occ(iso[x].watchers, y) \in Nat BY <1>3
    <3> QED BY <3>1, <3>2, <3>3, <3>4, <3>5, <3>6
  <2> QED BY <2>7, <2>8 DEF LedgerInv
<1>7. CASE EndFinish(t)
  <2>1. /\ Pc(t) = "report" /\ th[t].due = <<>> /\ iso' = iso /\ asked' = asked /\ told' = told
    BY <1>7 DEF EndFinish, At, Pc, history
  <2>2. th'[t].due = th[t].due BY <1>1, <1>7 DEF EndFinish, ThreadRecord
  <2>3. LedgerStays BY <1>2, <2>1, <2>2 DEF LedgerStays
  <2> QED BY <1>2, <2>1, <2>3, LedgerKept DEF Answers, Pc
<1> QED BY <1>4, <1>5, <1>6, <1>7

LEMMA StepKeepsLedger ==
  ASSUME Inv, GoneInv, Registered, LedgerInv, [Next]_vars
  PROVE LedgerInv'
<1>1. Root \in Id BY MaxIdAssumption DEF Root, Id
<1>2. ASSUME NEW t \in Id, NEW b \in Id, NEW c \in Id, Native(t, b, c) PROVE LedgerInv'
  BY <1>2, NativesKeepLedger, MonitorKeepsLedger
<1>3. ASSUME NEW t \in Id, Program(t) PROVE LedgerInv'
  BY <1>1, <1>2, <1>3, MakingKeepsLedger DEF Program, Native
<1>4. ASSUME NEW t \in Id, Runtime(t) PROVE LedgerInv'
  BY <1>1, <1>2, <1>4, MakingKeepsLedger, ThreadKeepsLedger, EndsKeepLedger
     DEF Runtime, Native
<1>5. ASSUME World PROVE LedgerInv' BY <1>5, WorldKeepsLedger
<1>6. ASSUME UNCHANGED vars PROVE LedgerInv'
  BY <1>6 DEF vars, LedgerInv, Owed, Balance, Answers, Pc
<1> QED BY <1>3, <1>4, <1>5, <1>6 DEF Next, Finished

LEMMA InitLedger ==
  ASSUME Init
  PROVE Registered /\ LedgerInv
<1>1. Root \in Id BY MaxIdAssumption DEF Root, Id
<1>2. \A t \in Id : Pc(t) \in {"run", "none"} /\ th[t].due = <<>> /\ iso[t].watchers = <<>>
  BY DEF Init, Pc
<1>3. Registered BY <1>2 DEF Init, Registered
<1>4. Owed BY <1>2 DEF Owed
<1>5. \A a, b \in Id : asked[a][b] = 0 /\ told[a][b] = 0 BY DEF Init
<1>6. Balance BY <1>2, <1>5, OccEmpty DEF Balance
<1> QED BY <1>3, <1>4, <1>6 DEF LedgerInv

\* Each request to be told of an end is answered exactly once: by the epilogue that took it,
\* or at once, never by both and never by neither (rawMonitor, run_isolate).
THEOREM EachReportIsMadeOnce == Spec => []ExactlyOneReport
<1> DEFINE All == Inv /\ MailInv /\ GoneInv /\ Registered /\ LedgerInv
<1>1. Init => All BY InitInv, InitMailInv, InitGone, InitLedger
<1>2. All /\ [Next]_vars => All'
  BY StepKeepsInv, StepKeepsMailInv, StepKeepsGone, StepKeepsRegistered, StepKeepsLedger
<1>3. ASSUME All PROVE ExactlyOneReport
  <2> SUFFICES ASSUME NEW a \in Id, NEW b \in Id
               PROVE /\ told[a][b] <= asked[a][b]
                     /\ Pc(a) = "done" => told[a][b] = asked[a][b]
    BY DEF ExactlyOneReport, At, Pc
  <2>1. /\ iso[a].watchers \in Seq(Id) /\ th[a].due \in Seq(Id)
        /\ asked[a][b] \in Nat /\ told[a][b] \in Nat
    BY <1>3 DEF Inv, TypeInv, TypeOK, IsolateRecord, ThreadRecord
  <2>2. /\ asked[a][b] = told[a][b] + Occ(iso[a].watchers, b) + Occ(th[a].due, b)
        /\ Occ(iso[a].watchers, b) \in Nat /\ Occ(th[a].due, b) \in Nat
    BY <1>3, <2>1, PlacesFinite DEF LedgerInv, Balance
  <2>3. ASSUME Pc(a) = "done"
        PROVE Occ(iso[a].watchers, b) = 0 /\ Occ(th[a].due, b) = 0
    <3>1. iso[a].watchers = <<>> /\ th[a].due = <<>>
      BY <1>3, <2>3 DEF LedgerInv, Owed, Answers
    <3> QED BY <3>1, OccEmpty
  <2> QED BY <2>1, <2>2, <2>3
<1> QED BY <1>1, <1>2, <1>3, PTL DEF Spec

-----------------------------------------------------------------------------
(* Slots.                                                                  *)
(*                                                                         *)
(* rawSpawnInto looks at a slot under the slot's mutex and takes it under  *)
(* World::m without a second look.  So what a slot promises, it promises   *)
(* as long as no two threads are between the two at the same slot: the     *)
(* theorems have that as a hypothesis about the states of the behavior,    *)
(* and state it again as a condition on the programs.  The invariant ties  *)
(* the owner a slot shows to the one actor that holds it, from the take to *)
(* the vacate in its epilogue.                                             *)

\* No two threads have both found one slot empty and not taken it yet.
SpawnersTakeTurns ==
  \A t, u \in Id : Pc(t) = "into" /\ Pc(u) = "into" /\ Arg(t) = Arg(u) => t = u

\* Actor a was put into slot s, or is about to be run in it, and has not vacated it.
Holds(a, s) ==
  /\ kind[a] = "actor" /\ iso[a].mailbox = s /\ kind[s] = "slot"
  /\ Pc(a) \notin Late \cup {"none"}
  /\ Pc(a) = "close" => s \in th[a].todo

TakersFindItEmpty == \A t \in Id : Pc(t) = "into" => mb[Arg(t)].owner = NO_OWNER

HoldersOwn == \A a, s \in Id : Holds(a, s) => mb[s].owner = a

ClosesItsSlots ==
  \A a \in Id : Pc(a) = "close" =>
    \A s \in th[a].todo : kind[s] = "slot" => mb[s].owner = a

SlotsAreNotRoots == \A s \in Id : kind[s] = "slot" => mb[s].owner # Root

ActorsHaveAddresses ==
  \A a \in Id : kind[a] = "actor" => kind[iso[a].mailbox] # "none"

SlotInv ==
  /\ TakersFindItEmpty
  /\ HoldersOwn
  /\ ClosesItsSlots
  /\ SlotsAreNotRoots
  /\ ActorsHaveAddresses

-----------------------------------------------------------------------------
(* Steps that leave every owner alone.                                     *)

OwnersStay == \A b \in Id : mb'[b].owner = mb[b].owner

LEMMA SlotsKept ==
  ASSUME Inv, MailInv, SlotInv, NEW t \in Id,
         \A s \in Id : kind[s] = "slot" => mb'[s].owner = mb[s].owner,
         kind' = kind, \A a \in Id : iso'[a].mailbox = iso[a].mailbox,
         \A u \in Id : u # t => th'[u] = th[u],
         Pc(t)' = "into" =>
           /\ Arg(t)' \in Id /\ kind[Arg(t)'] = "slot" /\ mb[Arg(t)'].owner = NO_OWNER,
         \A s \in Id : Holds(t, s)' => Holds(t, s),
         Pc(t)' = "close" => \A s \in th'[t].todo : kind[s] = "slot" => s \in Id /\ mb[s].owner = t
  PROVE SlotInv'
<1>1. \A u \in Id : Arg(u) \in Id /\ th[u].todo \subseteq Id /\ iso[u].mailbox \in Id
  BY DEF Inv, TypeInv, TypeOK, Arg, ThreadRecord, IsolateRecord
<1>2. TakersFindItEmpty'
  <2> SUFFICES ASSUME NEW u \in Id, Pc(u)' = "into" PROVE mb'[Arg(u)'].owner = NO_OWNER
    BY DEF TakersFindItEmpty, Arg
  <2>1. CASE u = t BY <2>1
  <2>2. CASE u # t
    <3>1. Pc(u) = "into" /\ Arg(u)' = Arg(u) BY <2>2 DEF Pc, Arg
    <3>2. kind[Arg(u)] = "slot" BY <3>1 DEF MailInv, ClosesInPrivate
    <3> QED BY <1>1, <3>1, <3>2 DEF SlotInv, TakersFindItEmpty
  <2> QED BY <2>1, <2>2
<1>3. HoldersOwn'
  <2> SUFFICES ASSUME NEW a \in Id, NEW s \in Id, Holds(a, s)' PROVE mb'[s].owner = a
    BY Zenon DEF HoldersOwn
  <2>1. Holds(a, s)
    <3>1. CASE a = t BY <3>1
    <3>2. CASE a # t BY <3>2 DEF Holds, Pc
    <3> QED BY <3>1, <3>2
  <2>2. kind[s] = "slot" /\ mb[s].owner = a BY <2>1 DEF SlotInv, HoldersOwn, Holds
  <2> QED BY <2>2
<1>4. ClosesItsSlots'
  <2> SUFFICES ASSUME NEW a \in Id, Pc(a)' = "close", NEW s \in th'[a].todo, kind[s] = "slot"
               PROVE mb'[s].owner = a
    BY DEF ClosesItsSlots
  <2>1. CASE a = t BY <2>1
  <2>2. CASE a # t BY <1>1, <2>2 DEF SlotInv, ClosesItsSlots, Pc
  <2> QED BY <2>1, <2>2
<1>5. SlotsAreNotRoots' BY DEF SlotInv, SlotsAreNotRoots
<1>6. ActorsHaveAddresses' BY DEF SlotInv, ActorsHaveAddresses
<1> QED BY <1>2, <1>3, <1>4, <1>5, <1>6 DEF SlotInv

\* A native looks for a slot, or does not come near one.
LEMMA NativesAndInto ==
  ASSUME Inv, NEW t \in Id, NEW b \in Id, NEW c \in Id, Native(t, b, c), Pc(t)' = "into"
  PROVE /\ "spawnInto" \in Calls[t] /\ kind[b] = "slot" /\ b \in mailboxes
        /\ mb[b].owner = NO_OWNER /\ Arg(t)' = b
<1>1. TypeInv /\ LifeInv /\ TypeOK /\ th \in [Id -> ThreadRecord] /\ th[t].arg \in Id
  BY DEF Inv, TypeInv, TypeOK, ThreadRecord
<1>2. ~Ordinary(t) BY DEF Ordinary, Goes
<1>3. SpawnIntoCheck(t, b) \/ SpawnRegister(t)
  BY <1>1, <1>2, NativesAreOrdinary, MailIsOrdinary, EndsAreOrdinary DEF Native
<1>4. ~SpawnRegister(t)
  <2>1. SpawnRegister(t) => Pc(t)' = "run" BY <1>1, LeavesAt DEF SpawnRegister, Pc
  <2> QED BY <2>1
<1>5. SpawnIntoCheck(t, b) BY <1>3, <1>4
<1>6. Arg(t)' = b BY <1>1, <1>5, ThreadArgs DEF SpawnIntoCheck, Arg, Pcs
<1> QED BY <1>5, <1>6 DEF SpawnIntoCheck, Calling

LEMMA GoesOnKeepsSlots ==
  ASSUME Inv, MailInv, SlotInv, NEW t \in Id, GoesOn(t), MailGained,
         Pc(t)' = "into" =>
           /\ Arg(t)' \in Id /\ kind[Arg(t)'] = "slot" /\ mb[Arg(t)'].owner = NO_OWNER
  PROVE SlotInv'
<1>1. \A s \in Id : mb'[s].owner = mb[s].owner BY DEF MailGained, Gains
<1>2. /\ kind' = kind /\ \A a \in Id : iso'[a].mailbox = iso[a].mailbox
      /\ \A u \in Id : u # t => th'[u] = th[u]
      /\ Pc(t) \notin {"none", "close", "mark", "report", "done"} /\ Pc(t)' # "close"
  BY DEF GoesOn, Busy
<1>3. \A s \in Id : Holds(t, s)' => Holds(t, s) BY <1>2 DEF Holds, Late
<1> QED BY <1>1, <1>2, <1>3, SlotsKept

LEMMA NativesKeepSlots ==
  ASSUME Inv, MailInv, SlotInv, NEW t \in Id, NEW b \in Id, NEW c \in Id, Native(t, b, c)
  PROVE SlotInv'
BY NativesGoOn, NativesMail, NativesAndInto, GoesOnKeepsSlots

LEMMA WorldKeepsSlots ==
  ASSUME Inv, MailInv, SlotInv, World
  PROVE SlotInv'
<1>1. GoesOn(Root) /\ MailGained /\ Root \in Id
  BY WorldGoesOn, MaxIdAssumption DEF Root, Id
<1>2. Pc(Root)' # "into"
  <2>1. TypeInv /\ TypeOK BY DEF Inv, TypeInv
  <2>2. WorldGone => Pc(Root)' = "gone" BY <2>1, GoneEnds DEF Ends
  <2>3. ~WorldGone => Goes(Root) BY <2>1, JoinsAreOrdinary DEF World, Ordinary
  <2> QED BY <2>2, <2>3 DEF Goes
<1> QED BY <1>1, <1>2, GoesOnKeepsSlots

-----------------------------------------------------------------------------
(* Ids that are given out, and the slot that is taken.                     *)

LEMMA GrowsFacts ==
  ASSUME Inv, MailInv, SlotInv, NEW t \in Id, NEW c \in Id, Grows(t, c)
  PROVE /\ \A u \in Id : Arg(u) \in Id /\ th[u].todo \subseteq Id /\ iso[u].mailbox \in Id
        /\ \A u \in Id : Pc(u) = "into" => kind[Arg(u)] = "slot" /\ Arg(u) # c
        /\ \A u \in Id : Pc(u) = "close" => c \notin th[u].todo
        /\ \A u \in Id : kind[u] = "actor" => iso[u].mailbox # c
        /\ c # Root
<1>1. \A u \in Id : Arg(u) \in Id /\ th[u].todo \subseteq Id /\ iso[u].mailbox \in Id
  BY DEF Inv, TypeInv, TypeOK, Arg, ThreadRecord, IsolateRecord
<1>2. kind[c] = "none" /\ kind[Root] = "root"
  BY DEF Grows, Inv, LifeInv, ThreadsHaveIsolates
<1>3. \A u \in Id : Pc(u) = "into" => kind[Arg(u)] = "slot"
  BY DEF MailInv, ClosesInPrivate
<1>4. \A u \in Id : Pc(u) = "close" => c \notin th[u].todo
  BY <1>2 DEF MailInv, ClosesInPrivate
<1>5. \A u \in Id : kind[u] = "actor" => iso[u].mailbox # c
  BY <1>2 DEF SlotInv, ActorsHaveAddresses
<1> QED BY <1>1, <1>2, <1>3, <1>4, <1>5

LEMMA GrowsKeepsSlots ==
  ASSUME Inv, MailInv, SlotInv, NEW t \in Id, NEW c \in Id, Grows(t, c), Pc(t)' # "into",
         \A s \in Id : s # c => mb'[s].owner = mb[s].owner,
         kind'[c] = "slot" => mb'[c].owner # Root,
         kind'[c] = "actor" => kind'[iso'[c].mailbox] \notin {"none", "slot"}
  PROVE SlotInv'
<1>1. /\ \A u \in Id : Arg(u) \in Id /\ th[u].todo \subseteq Id /\ iso[u].mailbox \in Id
      /\ \A u \in Id : Pc(u) = "into" => kind[Arg(u)] = "slot" /\ Arg(u) # c
      /\ \A u \in Id : Pc(u) = "close" => c \notin th[u].todo
      /\ \A u \in Id : kind[u] = "actor" => iso[u].mailbox # c
  BY GrowsFacts
<1>2. /\ kind[c] = "none" /\ Pc(t) \in {"run", "into"} /\ t # c
      /\ \A i \in Id : i # c => kind'[i] = kind[i]
      /\ \A u \in Id : u \notin {t, c} => th'[u] = th[u]
      /\ \A u \in Id : u # c => iso'[u].mailbox = iso[u].mailbox
      /\ Pc(t)' \in {"run", "thread"} /\ Pc(c)' \in {"none", "born"}
  BY DEF Grows
<1>3. TakersFindItEmpty'
  <2> SUFFICES ASSUME NEW u \in Id, Pc(u)' = "into" PROVE mb'[Arg(u)'].owner = NO_OWNER
    BY DEF TakersFindItEmpty, Arg
  <2>1. Pc(u) = "into" /\ Arg(u)' = Arg(u) BY <1>2 DEF Pc, Arg
  <2> QED BY <1>1, <2>1 DEF SlotInv, TakersFindItEmpty
<1>4. HoldersOwn'
  <2> SUFFICES ASSUME NEW a \in Id, NEW s \in Id, Holds(a, s)' PROVE mb'[s].owner = a
    BY Zenon DEF HoldersOwn
  <2>1. a # c BY DEF Holds
  <2>2. kind[a] = "actor" /\ iso[a].mailbox = s /\ s # c /\ kind[s] = "slot"
    BY <1>1, <1>2, <2>1 DEF Holds
  <2>3. Holds(a, s)
    <3>1. CASE a = t BY <1>2, <2>2, <3>1 DEF Holds, Late
    <3>2. CASE a # t BY <1>2, <2>1, <2>2, <3>2 DEF Holds, Pc
    <3> QED BY <3>1, <3>2
  <2> QED BY <2>2, <2>3 DEF SlotInv, HoldersOwn
<1>5. ClosesItsSlots'
  <2> SUFFICES ASSUME NEW a \in Id, Pc(a)' = "close", NEW s \in th'[a].todo, kind'[s] = "slot"
               PROVE mb'[s].owner = a
    BY DEF ClosesItsSlots
  <2>1. a \notin {t, c} BY <1>2
  <2>2. Pc(a) = "close" /\ s \in th[a].todo BY <1>2, <2>1 DEF Pc
  <2>3. s \in Id /\ s # c BY <1>1, <2>2
  <2> QED BY <1>2, <2>2, <2>3 DEF SlotInv, ClosesItsSlots
<1>6. SlotsAreNotRoots' BY <1>2 DEF SlotInv, SlotsAreNotRoots
<1>7. ActorsHaveAddresses'
  <2> SUFFICES ASSUME NEW a \in Id, kind'[a] = "actor" PROVE kind'[iso'[a].mailbox] # "none"
    BY DEF ActorsHaveAddresses
  <2>1. CASE a = c BY <2>1
  <2>2. CASE a # c BY <1>1, <1>2, <2>2 DEF SlotInv, ActorsHaveAddresses
  <2> QED BY <2>1, <2>2
<1> QED BY <1>3, <1>4, <1>5, <1>6, <1>7 DEF SlotInv

\* The slot that is taken had no owner, and no other thread is about to take it.
LEMMA TakeKeepsSlots ==
  ASSUME Inv, MailInv, SlotInv, SpawnersTakeTurns, NEW t \in Id, NEW c \in Id, Grows(t, c),
         Pc(t) = "into", Pc(t)' = "thread", NEW s \in Id, s = Arg(t),
         kind'[c] = "actor", iso'[c].mailbox = s, mb' = [mb EXCEPT ![s].owner = c]
  PROVE SlotInv'
<1>1. /\ \A u \in Id : Arg(u) \in Id /\ th[u].todo \subseteq Id /\ iso[u].mailbox \in Id
      /\ \A u \in Id : Pc(u) = "into" => kind[Arg(u)] = "slot" /\ Arg(u) # c
      /\ \A u \in Id : Pc(u) = "close" => c \notin th[u].todo
      /\ \A u \in Id : kind[u] = "actor" => iso[u].mailbox # c
      /\ c # Root
  BY GrowsFacts
<1>2. /\ kind[c] = "none" /\ t # c
      /\ \A i \in Id : i # c => kind'[i] = kind[i]
      /\ \A u \in Id : u \notin {t, c} => th'[u] = th[u]
      /\ \A u \in Id : u # c => iso'[u].mailbox = iso[u].mailbox
      /\ Pc(c)' = "born"
  BY DEF Grows
<1>3. \A x \in Id : mb'[x].owner = IF x = s THEN c ELSE mb[x].owner
  <2>1. mb \in [Id -> MailboxOf(Id)] BY DEF Inv, TypeInv, TypeOK
  <2> QED BY <2>1 DEF MailboxOf
<1>4. mb[s].owner = NO_OWNER /\ kind[s] = "slot" /\ s # c /\ kind'[s] = "slot"
  BY <1>1, <1>2 DEF SlotInv, TakersFindItEmpty
<1>5. NO_OWNER \notin Id BY MaxIdAssumption DEF NO_OWNER, Id
<1>6. TakersFindItEmpty'
  <2> SUFFICES ASSUME NEW u \in Id, Pc(u)' = "into" PROVE mb'[Arg(u)'].owner = NO_OWNER
    BY DEF TakersFindItEmpty, Arg
  <2>1. u # t /\ Pc(u) = "into" /\ Arg(u)' = Arg(u) BY <1>2 DEF Pc, Arg
  <2>2. Arg(u) # s BY <2>1 DEF SpawnersTakeTurns
  <2> QED BY <1>1, <1>3, <2>1, <2>2 DEF SlotInv, TakersFindItEmpty
<1>7. HoldersOwn'
  <2> SUFFICES ASSUME NEW a \in Id, NEW x \in Id, Holds(a, x)' PROVE mb'[x].owner = a
    BY Zenon DEF HoldersOwn
  <2>1. CASE a = c BY <1>3, <2>1 DEF Holds
  <2>2. CASE a # c
    <3>1. kind[a] = "actor" /\ iso[a].mailbox = x /\ x # c /\ kind[x] = "slot"
      BY <1>1, <1>2, <2>2 DEF Holds
    <3>2. Holds(a, x)
      <4>1. CASE a = t BY <3>1, <4>1 DEF Holds, Late
      <4>2. CASE a # t BY <1>2, <2>2, <3>1, <4>2 DEF Holds, Pc
      <4> QED BY <4>1, <4>2
    <3>3. mb[x].owner = a BY <3>2 DEF SlotInv, HoldersOwn
    <3> QED BY <1>3, <1>4, <1>5, <3>3
  <2> QED BY <2>1, <2>2
<1>8. ClosesItsSlots'
  <2> SUFFICES ASSUME NEW a \in Id, Pc(a)' = "close", NEW x \in th'[a].todo, kind'[x] = "slot"
               PROVE mb'[x].owner = a
    BY DEF ClosesItsSlots
  <2>1. a \notin {t, c} BY <1>2
  <2>2. Pc(a) = "close" /\ x \in th[a].todo BY <1>2, <2>1 DEF Pc
  <2>3. x \in Id /\ x # c BY <1>1, <2>2
  <2>4. mb[x].owner = a BY <1>2, <2>2, <2>3 DEF SlotInv, ClosesItsSlots
  <2> QED BY <1>3, <1>4, <1>5, <2>3, <2>4
<1>9. SlotsAreNotRoots' BY <1>1, <1>2, <1>3 DEF SlotInv, SlotsAreNotRoots
<1>10. ActorsHaveAddresses'
  <2> SUFFICES ASSUME NEW a \in Id, kind'[a] = "actor" PROVE kind'[iso'[a].mailbox] # "none"
    BY DEF ActorsHaveAddresses
  <2>1. CASE a = c BY <1>4, <2>1
  <2>2. CASE a # c BY <1>1, <1>2, <2>2 DEF SlotInv, ActorsHaveAddresses
  <2> QED BY <2>1, <2>2
<1> QED BY <1>6, <1>7, <1>8, <1>9, <1>10 DEF SlotInv

LEMMA MakingKeepsSlots ==
  ASSUME Inv, MailInv, SlotInv, SpawnersTakeTurns, NEW t \in Id,
         SpawnActor(t) \/ SpawnTask(t) \/ SpawnIntoTake(t) \/ NewSlot(t) \/ NewInbox(t)
  PROVE SlotInv'
<1>1. /\ TypeInv /\ TypeOK /\ th \in [Id -> ThreadRecord] /\ kind \in [Id -> Kinds]
  BY DEF Inv, TypeInv, TypeOK
<1>2. next_id \in Id
  <2>1. CASE SpawnActor(t) \/ SpawnTask(t) \/ NewSlot(t) \/ NewInbox(t)
    BY <1>1, <2>1, FreshId DEF SpawnActor, SpawnTask, NewSlot, NewInbox
  <2>2. CASE SpawnIntoTake(t) BY <1>1, <2>2, FreshIdInto DEF SpawnIntoTake
  <2> QED BY <2>1, <2>2
<1>3. PICK c \in Id : c = next_id BY <1>2
<1>4. CASE SpawnActor(t)
  <2>1. NewIsolate(t, "actor", c) /\ AddMailbox(c) /\ Pc(t) = "run" /\ isolates' = isolates
    BY <1>3, <1>4 DEF SpawnActor, Calling, At, Pc
  <2>2. Grows(t, c) /\ kind'[c] = "actor" /\ iso'[c].mailbox = c /\ Pc(t)' = "thread"
    BY <1>3, <2>1, NewIsolateGrows
  <2>3. \A b \in Id : b # c => mb'[b] = mb[b] BY <1>3, <2>1, AddMailboxInforms
  <2> QED BY <2>2, <2>3, GrowsKeepsSlots
<1>5. CASE SpawnTask(t)
  <2>1. NewIsolate(t, "task", Root) /\ Pc(t) = "run" /\ isolates' = isolates /\ Root \in Id
    BY <1>5, MaxIdAssumption DEF SpawnTask, Calling, At, Pc, Root, Id
  <2>2. Grows(t, c) /\ kind'[c] = "task" /\ Pc(t)' = "thread"
    BY <1>3, <2>1, NewIsolateGrows
  <2> QED BY <1>5, <2>2, GrowsKeepsSlots DEF SpawnTask
<1>6. CASE SpawnIntoTake(t)
  <2>1. PICK s \in Id : s = Arg(t) BY <1>1 DEF Arg, ThreadRecord
  <2>2. NewIsolate(t, "actor", s) /\ Pc(t) = "into" /\ isolates' = isolates
    BY <1>6, <2>1 DEF SpawnIntoTake, Arg, At, Pc
  <2>3. Grows(t, c) /\ kind'[c] = "actor" /\ iso'[c].mailbox = s /\ Pc(t)' = "thread"
    BY <1>3, <2>2, NewIsolateGrows
  <2>4. mb' = [mb EXCEPT ![s].owner = c] BY <1>3, <1>6, <2>1 DEF SpawnIntoTake, Arg
  <2> QED BY <2>1, <2>2, <2>3, <2>4, TakeKeepsSlots
<1>7. CASE NewSlot(t) \/ NewInbox(t)
  <2>1. Grows(t, c) /\ Pc(t)' = Pc(t) BY <1>3, <1>7, AddressGrows
  <2>2. PICK k \in {"slot", "inbox"}, owner \in Id \cup {NO_OWNER} :
          TakeId(k) /\ AddMailbox(owner) /\ (k = "slot" => owner = NO_OWNER)
    BY <1>7 DEF NewSlot, NewInbox
  <2>3. kind'[c] = k BY <1>1, <1>3, <2>2 DEF TakeId
  <2>4. /\ \A b \in Id : b # c => mb'[b] = mb[b]
        /\ mb'[c].owner = owner
    BY <1>3, <2>2, AddMailboxInforms
  <2>5. Pc(t)' = "run" BY <1>7, <2>1 DEF NewSlot, NewInbox, Calling, At, Pc
  <2>6. NO_OWNER # Root BY DEF NO_OWNER, Root
  <2> QED BY <2>1, <2>2, <2>3, <2>4, <2>5, <2>6, GrowsKeepsSlots
<1> QED BY <1>4, <1>5, <1>6, <1>7

-----------------------------------------------------------------------------
(* Slots that lose their actor.                                            *)

\* Only isolate c loses slots, and it does not hold or close them afterwards.
LEMMA SlotsLost ==
  ASSUME Inv, MailInv, SlotInv, NEW c \in Id,
         kind' = kind, \A a \in Id : iso'[a].mailbox = iso[a].mailbox,
         \A s \in Id : kind[s] = "slot" =>
           \/ mb'[s].owner = mb[s].owner
           \/ mb'[s].owner = NO_OWNER /\ mb[s].owner = c,
         \A u \in Id : Pc(u)' = "into" => Pc(u) = "into" /\ Arg(u)' = Arg(u),
         \A a, s \in Id : Holds(a, s)' => Holds(a, s) /\ (a = c => mb'[s].owner = c),
         \A a \in Id : Pc(a)' = "close" => \A s \in th'[a].todo : kind[s] = "slot" =>
           s \in Id /\ mb[s].owner = a /\ (a = c => mb'[s].owner = c)
  PROVE SlotInv'
<1>1. TakersFindItEmpty'
  <2> SUFFICES ASSUME NEW u \in Id, Pc(u)' = "into" PROVE mb'[Arg(u)'].owner = NO_OWNER
    BY DEF TakersFindItEmpty, Arg
  <2>1. PICK s \in Id : s = Arg(u) BY DEF Inv, TypeInv, TypeOK, Arg, ThreadRecord
  <2>2. Pc(u) = "into" /\ Arg(u)' = s BY <2>1
  <2>3. kind[s] = "slot" BY <2>1, <2>2 DEF MailInv, ClosesInPrivate
  <2>4. mb[s].owner = NO_OWNER BY <2>1, <2>2 DEF SlotInv, TakersFindItEmpty
  <2> QED BY <2>2, <2>3, <2>4
<1>2. HoldersOwn'
  <2> SUFFICES ASSUME NEW a \in Id, NEW s \in Id, Holds(a, s)' PROVE mb'[s].owner = a
    BY Zenon DEF HoldersOwn
  <2>1. Holds(a, s) /\ (a = c => mb'[s].owner = c) OBVIOUS
  <2>2. kind[s] = "slot" /\ mb[s].owner = a BY <2>1 DEF SlotInv, HoldersOwn, Holds
  <2> QED BY <2>1, <2>2
<1>3. ClosesItsSlots'
  <2> SUFFICES ASSUME NEW a \in Id, Pc(a)' = "close", NEW s \in th'[a].todo, kind[s] = "slot"
               PROVE mb'[s].owner = a
    BY DEF ClosesItsSlots
  <2>1. s \in Id /\ mb[s].owner = a /\ (a = c => mb'[s].owner = c) OBVIOUS
  <2> QED BY <2>1
<1>4. SlotsAreNotRoots'
  <2>1. NO_OWNER # Root BY DEF NO_OWNER, Root
  <2> QED BY <2>1 DEF SlotInv, SlotsAreNotRoots
<1>5. ActorsHaveAddresses' BY DEF SlotInv, ActorsHaveAddresses
<1> QED BY <1>1, <1>2, <1>3, <1>4, <1>5 DEF SlotInv

\* A refused thread gives up the slot its actor was to have.
LEMMA ThreadKeepsSlots ==
  ASSUME Inv, MailInv, SlotInv, NEW t \in Id, SpawnThread(t) \/ SpawnThreadFails(t)
  PROVE SlotInv'
<1>1. /\ TypeOK /\ mb \in [Id -> MailboxOf(Id)] /\ \A a \in Id : iso[a].mailbox \in Id
      /\ \A a \in Id : th[a].todo \subseteq Id
      /\ t = Root \/ Started(t) \/ Pc(t) = "none"
  BY DEF Inv, TypeInv, TypeOK, LifeInv, ThreadsHaveIsolates, IsolateRecord, ThreadRecord
<1>2. PICK c \in Id :
        /\ c = th[t].child /\ ThreadStep(t, c)
        /\ SpawnThread(t) => Pc(t)' = "register" /\ Pc(c)' = "run" /\ mb' = mb
        /\ SpawnThreadFails(t) => Pc(t)' = Unwind(t) /\ Pc(c)' = "done"
  BY ThreadSteps
<1>3. /\ Pc(t) = "thread" /\ Pc(c) = "born" /\ t # c /\ kind' = kind /\ iso' = iso
      /\ \A u \in Id \ {t, c} : th'[u] = th[u]
      /\ Pc(t)' \in {"register", "leave", "done", "erase"} /\ Pc(c)' \in {"run", "done"}
  BY <1>2 DEF ThreadStep, Unwind
<1>4. \A s \in Id : kind[s] = "slot" =>
        \/ mb'[s].owner = mb[s].owner
        \/ mb'[s].owner = NO_OWNER /\ mb[s].owner = c
  <2>1. CASE mb' = mb BY <2>1
  <2>2. CASE SpawnThreadFails(t) /\ kind[c] # "task"
    <3>1. PICK b \in Id : b = iso[c].mailbox BY <1>1
    <3>2. mb' = [mb EXCEPT ![b] = IF kind[b] = "slot" THEN Vacate(mb[b]) ELSE Close(mb[b])]
      BY <1>2, <2>2, <3>1 DEF SpawnThreadFails
    <3>3. Vacate(mb[b]).owner = NO_OWNER /\ Close(mb[b]).owner = mb[b].owner
      BY <1>1 DEF Vacate, Close, MailboxOf
    <3>4. kind[c] = "actor" BY <1>2, <2>2 DEF ThreadStep, Started
    <3>5. kind[b] = "slot" => mb[b].owner = c
      BY <1>3, <3>1, <3>4 DEF SlotInv, HoldersOwn, Holds, Late
    <3> QED BY <1>1, <3>2, <3>3, <3>5
  <2> QED BY <1>2, <2>1, <2>2 DEF SpawnThreadFails
<1>5. \A u \in Id : Pc(u)' = "into" => Pc(u) = "into" /\ Arg(u)' = Arg(u)
  BY <1>3 DEF Pc, Arg
<1>6. ASSUME NEW a \in Id, NEW s \in Id, Holds(a, s)'
      PROVE Holds(a, s) /\ (a = c => mb'[s].owner = c)
  <2>1. CASE a = t BY <1>3, <1>6, <2>1 DEF Holds, Late
  <2>2. CASE a = c
    <3>1. Pc(c)' = "run" BY <1>3, <1>6, <2>2 DEF Holds, Late
    <3>2. mb' = mb BY <1>2, <3>1
    <3>3. Holds(c, s) BY <1>3, <1>6, <2>2 DEF Holds, Late
    <3> QED BY <2>2, <3>2, <3>3 DEF SlotInv, HoldersOwn
  <2>3. CASE a \notin {t, c} BY <1>3, <1>6, <2>3 DEF Holds, Pc
  <2> QED BY <2>1, <2>2, <2>3
<1>7. ASSUME NEW a \in Id, Pc(a)' = "close", NEW s \in th'[a].todo, kind[s] = "slot"
      PROVE s \in Id /\ mb[s].owner = a /\ (a = c => mb'[s].owner = c)
  <2>1. a \notin {t, c} BY <1>3, <1>7
  <2>2. Pc(a) = "close" /\ s \in th[a].todo BY <1>3, <1>7, <2>1 DEF Pc
  <2> QED BY <1>1, <1>7, <2>1, <2>2 DEF SlotInv, ClosesItsSlots
<1> QED BY <1>3, <1>4, <1>5, <1>6, <1>7, SlotsLost

\* An actor that ends vacates what it holds.
LEMMA EndsKeepSlots ==
  ASSUME Inv, MailInv, SlotInv, NEW t \in Id, NEW b \in Id,
         \/ EndErase(t) \/ EndClose(t, b) \/ EndTellStarter(t)
         \/ EndMark(t) \/ EndReport(t) \/ EndFinish(t)
  PROVE SlotInv'
<1>1. /\ mailboxes \subseteq Id /\ mb \in [Id -> MailboxOf(Id)]
      /\ th \in [Id -> ThreadRecord] /\ \A a \in Id : th[a].todo \subseteq Id
  BY DEF Inv, TypeInv, TypeOK, ThreadRecord
<1>2. /\ Epilogue(t) /\ \A u \in Id : u # t => th'[u] = th[u]
      /\ kind' = kind /\ \A a \in Id : iso'[a].mailbox = iso[a].mailbox
      /\ Pc(t)' \notin {"into", "none", "born"} /\ Pc(t) \notin {"none", "born"}
      /\ Pc(t) \in Late => Pc(t)' \in Late
  BY EndsStep DEF Epilogue, Late
<1>3. \A u \in Id : Pc(u)' = "into" => Pc(u) = "into" /\ Arg(u)' = Arg(u)
  BY <1>2 DEF Pc, Arg
<1>4. ASSUME NEW a \in Id, NEW s \in Id, Holds(a, s)', a # t PROVE Holds(a, s)
  BY <1>2, <1>4 DEF Holds, Pc
<1>5. ASSUME NEW a \in Id, Pc(a)' = "close", NEW s \in th'[a].todo, kind[s] = "slot", a # t
      PROVE s \in Id /\ mb[s].owner = a
  BY <1>1, <1>2, <1>5 DEF SlotInv, ClosesItsSlots, Pc
<1>6. CASE EndErase(t)
  <2>1. Pc(t)' = "close" /\ th'[t].todo = MailboxesOf(t)
    <3>1. MailboxesOf(t) \in SUBSET Id BY <1>1 DEF MailboxesOf
    <3> QED BY <1>1, <1>6, <3>1, ThreadArgs DEF EndErase, Pc, Pcs
  <2>2. mb' = mb /\ Pc(t) = "erase" BY <1>6 DEF EndErase, At, Pc
  <2>3. \A s \in th'[t].todo : s \in Id /\ mb[s].owner = t BY <1>1, <2>1 DEF MailboxesOf
  <2>4. ASSUME NEW s \in Id, Holds(t, s)' PROVE Holds(t, s) /\ mb'[s].owner = t
    <3>1. s \in th'[t].todo BY <2>1, <2>4 DEF Holds
    <3> QED BY <1>2, <2>2, <2>3, <2>4, <3>1 DEF Holds, Late
  <2> QED BY <1>2, <1>3, <1>4, <1>5, <2>2, <2>3, <2>4, SlotsLost
<1>7. CASE EndClose(t, b)
  <2>1. Pc(t) = "close" /\ b \in th[t].todo BY <1>7 DEF EndClose, At, Pc
  <2>2. Pc(t)' = "close" /\ th'[t].todo = th[t].todo \ {b}
    <3>1. th[t].todo \ {b} \in SUBSET Id BY <1>1
    <3> QED BY <1>1, <1>7, <2>1, <3>1, ThreadArgs DEF EndClose, Pc, Pcs
  <2>3. mb' = [mb EXCEPT ![b] = IF kind[b] = "slot" THEN Vacate(mb[b]) ELSE Close(mb[b])]
    BY <1>7 DEF EndClose
  <2>4. Vacate(mb[b]).owner = NO_OWNER /\ Close(mb[b]).owner = mb[b].owner
    BY <1>1 DEF Vacate, Close, MailboxOf
  <2>5. \A s \in th[t].todo : kind[s] = "slot" => s \in Id /\ mb[s].owner = t
    BY <1>1, <2>1 DEF SlotInv, ClosesItsSlots
  <2>6. \A s \in Id : kind[s] = "slot" =>
          mb'[s].owner = mb[s].owner \/ (mb'[s].owner = NO_OWNER /\ mb[s].owner = t)
    BY <1>1, <2>1, <2>3, <2>4, <2>5
  <2>7. \A s \in th'[t].todo : kind[s] = "slot" =>
          s \in Id /\ mb[s].owner = t /\ mb'[s].owner = t
    BY <1>1, <2>2, <2>3, <2>5
  <2>8. ASSUME NEW s \in Id, Holds(t, s)' PROVE Holds(t, s) /\ mb'[s].owner = t
    <3>1. s \in th'[t].todo /\ kind[s] = "slot" BY <1>2, <2>2, <2>8 DEF Holds
    <3>2. s \in th[t].todo BY <2>2, <3>1
    <3> QED BY <1>2, <2>1, <2>7, <2>8, <3>1, <3>2 DEF Holds, Late
  <2> QED BY <1>2, <1>3, <1>4, <1>5, <2>6, <2>7, <2>8, SlotsLost
<1>8. CASE EndTellStarter(t) \/ EndMark(t) \/ EndReport(t) \/ EndFinish(t)
  <2>1. Pc(t)' \in Late
    <3>1. CASE EndTellStarter(t)
      BY <1>1, <3>1 DEF EndTellStarter, Pc, ThreadRecord, Late
    <3>2. CASE EndMark(t) \/ EndReport(t) \/ EndFinish(t)
      BY <1>2, <3>2 DEF EndMark, EndReport, EndFinish, At, Pc, Late
    <3> QED BY <1>8, <3>1, <3>2
  <2>2. \A s \in Id : mb'[s].owner = mb[s].owner
    <3>1. \A x : \A mail : Put(mb[x], mail).owner = mb[x].owner \/ x \notin Id
      <4> SUFFICES ASSUME NEW x \in Id, NEW mail PROVE Put(mb[x], mail).owner = mb[x].owner
        OBVIOUS
      <4> QED BY <1>1 DEF Put, MailboxOf
    <3>2. CASE EndTellStarter(t) BY <1>1, <3>1, <3>2 DEF EndTellStarter
    <3>3. CASE EndReport(t)
      <4> DEFINE y == Head(th[t].due)
      <4>1. PICK r \in {"fault", "normal"} :
              mb' = [mb EXCEPT ![y] = IF y \in mailboxes THEN Put(mb[y], Exited(t, r)) ELSE mb[y]]
        BY <3>3 DEF EndReport
      <4> HIDE DEF y
      <4> QED BY <1>1, <3>1, <4>1
    <3>4. CASE EndMark(t) \/ EndFinish(t) BY <3>4 DEF EndMark, EndFinish
    <3> QED BY <1>8, <3>2, <3>3, <3>4
  <2>3. \A s \in Id : ~Holds(t, s)' BY <2>1 DEF Holds
  <2>4. Pc(t)' # "close" BY <2>1 DEF Late
  <2> QED BY <1>2, <1>3, <1>4, <1>5, <2>2, <2>3, <2>4, SlotsLost
<1> QED BY <1>6, <1>7, <1>8

LEMMA StepKeepsSlots ==
  ASSUME Inv, MailInv, SlotInv, SpawnersTakeTurns, [Next]_vars
  PROVE SlotInv'
<1>1. Root \in Id BY MaxIdAssumption DEF Root, Id
<1>2. ASSUME NEW t \in Id, NEW b \in Id, NEW c \in Id, Native(t, b, c) PROVE SlotInv'
  BY <1>2, NativesKeepSlots
<1>3. ASSUME NEW t \in Id, Program(t) PROVE SlotInv'
  BY <1>1, <1>2, <1>3, MakingKeepsSlots DEF Program, Native
<1>4. ASSUME NEW t \in Id, Runtime(t) PROVE SlotInv'
  BY <1>1, <1>2, <1>4, MakingKeepsSlots, ThreadKeepsSlots, EndsKeepSlots DEF Runtime, Native
<1>5. ASSUME World PROVE SlotInv' BY <1>5, WorldKeepsSlots
<1>6. ASSUME UNCHANGED vars PROVE SlotInv'
  BY <1>6 DEF vars, SlotInv, TakersFindItEmpty, HoldersOwn, Holds, ClosesItsSlots,
     SlotsAreNotRoots, ActorsHaveAddresses, Pc, Arg
<1> QED BY <1>3, <1>4, <1>5, <1>6 DEF Next, Finished

LEMMA InitSlots ==
  ASSUME Init
  PROVE SlotInv
<1>1. Root \in Id BY MaxIdAssumption DEF Root, Id
<1>2. \A t \in Id : Pc(t) \in {"run", "none"} /\ kind[t] \in {"none", "root"}
  BY DEF Init, Pc
<1> QED BY <1>2 DEF SlotInv, TakersFindItEmpty, HoldersOwn, Holds, ClosesItsSlots,
        SlotsAreNotRoots, ActorsHaveAddresses

\* Two running actors never receive from one inbox, as long as two threads that found one
\* slot empty do not both go on to take it (rawSpawnInto).
THEOREM OneActorInASlot == Spec /\ []SpawnersTakeTurns => []OneActorPerSlot
<1>1. Init => Inv /\ MailInv /\ SlotInv BY InitInv, InitMailInv, InitSlots
<1>2. Inv /\ MailInv /\ SlotInv /\ SpawnersTakeTurns /\ [Next]_vars => (Inv /\ MailInv /\ SlotInv)'
  BY StepKeepsInv, StepKeepsMailInv, StepKeepsSlots
<1>3. ASSUME Inv, MailInv, SlotInv PROVE OneActorPerSlot
  <2> SUFFICES ASSUME NEW a \in Id, NEW b \in Id, Running(a), Running(b),
                      iso[a].mailbox = iso[b].mailbox
               PROVE a = b
    BY DEF OneActorPerSlot
  <2>1. PICK s \in Id : s = iso[a].mailbox BY <1>3 DEF Inv, TypeInv, TypeOK, IsolateRecord
  <2>2. HasInbox(a) /\ HasInbox(b)
    BY <1>3 DEF Running, Lives, Pc, MailInv, ActorsHaveInboxes
  <2>3. CASE kind[s] = "slot"
    <3>1. Holds(a, s) /\ Holds(b, s) BY <2>1, <2>3 DEF Running, Holds, Late, Pc
    <3> QED BY <1>3, <3>1 DEF SlotInv, HoldersOwn
  <2>4. CASE kind[s] # "slot" BY <2>1, <2>2, <2>4 DEF HasInbox
  <2> QED BY <2>3, <2>4
<1> QED BY <1>1, <1>2, <1>3, PTL DEF Spec

-----------------------------------------------------------------------------
(* What an actor finds in its inbox.                                       *)

\* Every message that waits was sent to the owner the inbox has now, or to nobody.
Fresh(x) == \A mail \in Mails(x.q) : mail.kind = "msg" => mail.of \in {x.owner, NO_OWNER}

AllFresh == \A b \in Id : Fresh(mb[b])

\* From x to y an inbox is taken, which had no owner, with the queue it has.
Taken(x, y) == x.owner = NO_OWNER /\ y.q = x.q

\* All that a step may do to an inbox in use.
Changes(x, y) ==
  \/ Gains(x, y, News(x)) \/ Drops(x, y) \/ Taken(x, y)
  \/ \E a \in Id : Gains(x, y, {Exited(a, r) : r \in {"fault", "normal"}})

\* A step does one of these to an inbox in use, and leaves a new one fresh.
MailChanges == \A b \in Id : Changes(mb[b], mb'[b]) \/ (kind[b] = "none" /\ Fresh(mb'[b]))

LEMMA ChangesKeepFresh ==
  ASSUME NEW x, NEW y, Fresh(x), Changes(x, y)
  PROVE Fresh(y)
<1>1. CASE Gains(x, y, News(x)) BY <1>1 DEF Fresh, Gains, News
<1>2. CASE Drops(x, y)
  <2>1. CASE y.owner = x.owner BY <1>2, <2>1 DEF Fresh, Drops
  <2>2. CASE y.q = <<>> BY <2>2, MailsEmpty DEF Fresh
  <2> QED BY <1>2, <2>1, <2>2 DEF Drops
<1>3. CASE Taken(x, y) BY <1>3 DEF Fresh, Taken
<1>4. ASSUME NEW a \in Id, Gains(x, y, {Exited(a, r) : r \in {"fault", "normal"}})
      PROVE Fresh(y)
  <2>1. \A mail \in {Exited(a, r) : r \in {"fault", "normal"}} : mail.kind # "msg"
    BY DEF Exited
  <2> QED BY <1>4, <2>1 DEF Fresh, Gains
<1> QED BY <1>1, <1>2, <1>3, <1>4 DEF Changes

LEMMA MailStays ==
  ASSUME Inv, mb' = mb
  PROVE MailChanges
<1>1. \A b \in Id : Drops(mb[b], mb[b]) BY GainsByMethods DEF Inv, TypeInv, TypeOK
<1> QED BY <1>1 DEF MailChanges, Changes

LEMMA MakingChanges ==
  ASSUME Inv, MailInv, SlotInv, NEW t \in Id,
         SpawnActor(t) \/ SpawnTask(t) \/ SpawnIntoTake(t) \/ NewSlot(t) \/ NewInbox(t)
  PROVE MailChanges
<1>1. /\ TypeInv /\ TypeOK /\ mb \in [Id -> MailboxOf(Id)] /\ th[t].arg \in Id
  BY DEF Inv, TypeInv, TypeOK, ThreadRecord
<1>2. CASE SpawnActor(t) \/ NewSlot(t) \/ NewInbox(t)
  <2>1. next_id \in Id BY <1>1, <1>2, FreshId DEF SpawnActor, NewSlot, NewInbox
  <2>2. PICK c \in Id : c = next_id BY <2>1
  <2>3. PICK owner \in Id \cup {NO_OWNER} : AddMailbox(owner)
    BY <1>2, <2>1 DEF SpawnActor, NewSlot, NewInbox
  <2>4. /\ \A b \in Id : b # c => mb'[b] = mb[b]
        /\ Mails(mb'[c].q) \subseteq {Stop}
    BY <2>2, <2>3, AddMailboxInforms, AddMailboxMail
  <2>5. kind[c] = "none"
    <3>1. next_id \in Int BY <1>1 DEF TypeOK
    <3>2. c >= next_id BY <2>2, <3>1
    <3> QED BY <3>2 DEF Inv, LifeInv, FreshIdsAreUnused
  <2>6. Fresh(mb'[c]) BY <2>4 DEF Fresh, Stop
  <2>7. \A b \in Id : Drops(mb[b], mb[b]) BY <1>1, GainsByMethods
  <2> QED BY <2>4, <2>5, <2>6, <2>7 DEF MailChanges, Changes
<1>3. CASE SpawnTask(t) BY <1>3, MailStays DEF SpawnTask
<1>4. CASE SpawnIntoTake(t)
  <2>1. PICK s \in Id : s = Arg(t) BY <1>1 DEF Arg
  <2>2. mb[s].owner = NO_OWNER BY <1>4, <2>1 DEF SpawnIntoTake, At, Pc, SlotInv, TakersFindItEmpty
  <2>3. mb' = [mb EXCEPT ![s].owner = next_id] BY <1>4, <2>1 DEF SpawnIntoTake, Arg
  <2>4. /\ mb'[s].q = mb[s].q /\ \A b \in Id : b # s => mb'[b] = mb[b]
    BY <1>1, <2>3 DEF MailboxOf
  <2>5. Taken(mb[s], mb'[s]) BY <2>2, <2>4 DEF Taken
  <2>6. \A b \in Id : Drops(mb[b], mb[b]) BY <1>1, GainsByMethods
  <2> QED BY <2>4, <2>5, <2>6 DEF MailChanges, Changes
<1> QED BY <1>2, <1>3, <1>4

LEMMA EndsChange ==
  ASSUME Inv, NEW t \in Id, NEW b \in Id,
         \/ EndErase(t) \/ EndClose(t, b) \/ EndTellStarter(t)
         \/ EndMark(t) \/ EndReport(t) \/ EndFinish(t)
  PROVE MailChanges
<1>1. mb \in [Id -> MailboxOf(Id)] /\ \A r \in {"fault", "normal"} : Exited(t, r) \in MailOf(Id)
  BY SystemMail DEF Inv, TypeInv, TypeOK
<1> DEFINE ends == {Exited(t, r) : r \in {"fault", "normal"}}
<1>2. ASSUME NEW x \in Id, NEW mail \in ends PROVE Gains(mb[x], Put(mb[x], mail), ends)
  <2>1. mail \in MailOf(Id) /\ {mail} \subseteq ends BY <1>1
  <2> HIDE DEF ends
  <2>2. Gains(mb[x], Put(mb[x], mail), {mail}) BY <1>1, <2>1, GainsByMethods
  <2> QED BY <2>1, <2>2, GainsMore
<1>3. CASE EndClose(t, b)
  <2>1. \A x \in Id : mb'[x] \in {mb[x], Vacate(mb[x]), Close(mb[x])}
    BY <1>1, <1>3 DEF EndClose
  <2>2. \A x \in Id : Drops(mb[x], mb'[x]) BY <1>1, <2>1, GainsByMethods
  <2> QED BY <2>2 DEF MailChanges, Changes
<1>4. CASE EndTellStarter(t) \/ EndReport(t)
  <2>1. \A x \in Id : \E mail \in ends : mb'[x] \in {mb[x], Put(mb[x], mail)}
    <3>1. CASE EndTellStarter(t) BY <1>1, <3>1 DEF EndTellStarter
    <3>2. CASE EndReport(t)
      <4> DEFINE y == Head(th[t].due)
      <4>1. PICK r \in {"fault", "normal"} :
              mb' = [mb EXCEPT ![y] = IF y \in mailboxes THEN Put(mb[y], Exited(t, r)) ELSE mb[y]]
        BY <3>2 DEF EndReport
      <4> HIDE DEF y
      <4> QED BY <1>1, <4>1
    <3> QED BY <1>4, <3>1, <3>2
  <2>2. \A x \in Id : Gains(mb[x], mb'[x], ends) BY <1>1, <1>2, <2>1, GainsByMethods
  <2> QED BY <2>2 DEF MailChanges, Changes
<1>5. CASE EndErase(t) \/ EndMark(t) \/ EndFinish(t)
  BY <1>5, MailStays DEF EndErase, EndMark, EndFinish
<1> QED BY <1>3, <1>4, <1>5

LEMMA StepChanges ==
  ASSUME Inv, MailInv, SlotInv, [Next]_vars
  PROVE MailChanges
<1>1. Root \in Id BY MaxIdAssumption DEF Root, Id
<1>2. ASSUME MailGained PROVE MailChanges BY <1>2 DEF MailGained, MailChanges, Changes
<1>3. ASSUME NEW t \in Id, SpawnThread(t) \/ SpawnThreadFails(t) PROVE MailChanges
  <2>1. TypeOK BY DEF Inv, TypeInv
  <2>2. PICK c \in Id : c = th[t].child BY <1>3, ThreadSteps
  <2>3. CASE SpawnThread(t) BY <2>3, MailStays DEF SpawnThread
  <2>4. CASE SpawnThreadFails(t)
    <3>1. \A x \in Id : Drops(mb[x], mb'[x]) BY <2>1, <2>2, <2>4, RefusedInbox
    <3> QED BY <3>1 DEF MailChanges, Changes
  <2> QED BY <1>3, <2>3, <2>4
<1>4. ASSUME NEW t \in Id, NEW b \in Id, NEW c \in Id, Native(t, b, c) PROVE MailChanges
  BY <1>2, <1>4, NativesMail
<1>5. ASSUME NEW t \in Id, Program(t) PROVE MailChanges
  BY <1>1, <1>4, <1>5, MakingChanges DEF Program, Native
<1>6. ASSUME NEW t \in Id, Runtime(t) PROVE MailChanges
  BY <1>1, <1>3, <1>4, <1>6, MakingChanges, EndsChange DEF Runtime, Native
<1>7. ASSUME World PROVE MailChanges BY <1>2, <1>7, WorldGoesOn
<1>8. ASSUME UNCHANGED vars PROVE MailChanges BY <1>8, MailStays DEF vars
<1> QED BY <1>5, <1>6, <1>7, <1>8 DEF Next, Finished

LEMMA StepKeepsFresh ==
  ASSUME Inv, MailInv, SlotInv, AllFresh, [Next]_vars
  PROVE AllFresh'
<1>1. MailChanges BY StepChanges
<1> QED BY <1>1, ChangesKeepFresh DEF MailChanges, AllFresh

\* What a slot holds when its actor leaves it reaches nobody, as long as no two threads take
\* the slot at once: the messages that a successor finds were sent to it or to the empty
\* slot, and the queue is dropped whole, reports and Stop with it, in the step in which the
\* owner goes (close_mailboxes_of, Mailbox::vacate).  Of what the slot remembers besides its
\* queue nothing is said: vacate leaves the flags stopped and stop_seen as they are.
THEOREM SuccessorFindsFreshMail ==
  Spec /\ []SpawnersTakeTurns => []SuccessorGetsFreshMail /\ SlotsPassOnNothing
<1> DEFINE All == Inv /\ MailInv /\ SlotInv /\ AllFresh
<1>1. Init => All
  <2>1. Init => AllFresh BY MailsEmpty DEF Init, AllFresh, Fresh, NewMailbox
  <2> QED BY <2>1, InitInv, InitMailInv, InitSlots
<1>2. All /\ SpawnersTakeTurns /\ [Next]_vars => All'
  BY StepKeepsInv, StepKeepsMailInv, StepKeepsSlots, StepKeepsFresh
<1>3. ASSUME All PROVE SuccessorGetsFreshMail
  <2> SUFFICES ASSUME NEW a \in Id, Running(a),
                      NEW i \in 1 .. Len(mb[iso[a].mailbox].q),
                      mb[iso[a].mailbox].q[i].kind = "msg"
               PROVE mb[iso[a].mailbox].q[i].of \in {a, NO_OWNER}
    BY DEF SuccessorGetsFreshMail
  <2>1. PICK s \in Id : s = iso[a].mailbox BY <1>3 DEF Inv, TypeInv, TypeOK, IsolateRecord
  <2>2. HasInbox(a) BY <1>3 DEF Running, Lives, Pc, MailInv, ActorsHaveInboxes
  <2>3. mb[s].owner = a
    <3>1. CASE kind[s] = "slot"
      <4>1. Holds(a, s) BY <2>1, <3>1 DEF Running, Holds, Late, Pc
      <4> QED BY <1>3, <4>1 DEF SlotInv, HoldersOwn
    <3>2. CASE kind[s] # "slot" BY <2>1, <2>2, <3>2 DEF HasInbox
    <3> QED BY <3>1, <3>2
  <2>4. mb[s].q[i] \in Mails(mb[s].q) BY <2>1 DEF Mails
  <2> QED BY <1>3, <2>1, <2>3, <2>4 DEF AllFresh, Fresh
<1>4. All /\ [Next]_vars =>
        [\A s \in Id : kind[s] = "slot" /\ mb'[s].owner # mb[s].owner =>
           \/ mb'[s].owner = NO_OWNER /\ mb'[s].q = <<>>
           \/ mb[s].owner = NO_OWNER /\ mb'[s].q = mb[s].q]_vars
  <2> SUFFICES ASSUME All, [Next]_vars, NEW s \in Id, kind[s] = "slot",
                      mb'[s].owner # mb[s].owner
               PROVE \/ mb'[s].owner = NO_OWNER /\ mb'[s].q = <<>>
                     \/ mb[s].owner = NO_OWNER /\ mb'[s].q = mb[s].q
    OBVIOUS
  <2>1. Changes(mb[s], mb'[s]) BY StepChanges DEF MailChanges
  <2> QED BY <2>1 DEF Changes, Gains, Drops, Taken
<1> QED BY <1>1, <1>2, <1>3, <1>4, PTL DEF Spec, SlotsPassOnNothing

-----------------------------------------------------------------------------
(* Slots that are released.                                                *)

Releases == {"rel_close", "rel_retire"}

\* Nobody is about to put an actor into a slot that another thread puts one into as well,
\* or releases.
SlotsHaveOneManager ==
  \A t, u \in Id : t # u /\ Pc(t) = "into" /\ Arg(t) = Arg(u) =>
    Pc(u) \notin {"into", "rel_erase"} \cup Releases

\* Whether the address that a thread has in hand is open.
InHand(t) ==
  /\ Pc(t) = "into" => Arg(t) \in mailboxes
  /\ Pc(t) \in Releases => Arg(t) \notin mailboxes
  /\ Pc(t) = "close_inbox" => kind[Arg(t)] = "inbox"

OpenSlotsWork == \A s \in mailboxes : kind[s] = "slot" => ~mb[s].dead

Releasing(t, s) == Pc(t) \in Releases /\ Arg(t) = s

\* An actor in a dead slot is told, or a release on its way will tell it.
ToldOrToBeTold(a) ==
  LET s == iso[a].mailbox IN
  kind[s] = "slot" /\ mb[s].dead => StopHeld(mb[s]) \/ \E u \in Id : Releasing(u, s)

ReleaseInv ==
  /\ \A t \in Id : InHand(t)
  /\ OpenSlotsWork
  /\ \A a \in Id : Lives(a) => ToldOrToBeTold(a)

LEMMA ManagersTakeTurns == SlotsHaveOneManager => SpawnersTakeTurns
BY DEF SlotsHaveOneManager, SpawnersTakeTurns

\* Steps that neither open nor close a slot, and after which who lives holds its Stop.
LEMMA ReleaseKept ==
  ASSUME Inv, MailInv, ReleaseInv, kind' = kind, mailboxes' \subseteq Id,
         \A a \in Id : iso'[a].mailbox = iso[a].mailbox,
         \A s \in Id : kind[s] = "slot" =>
           (s \in mailboxes' <=> s \in mailboxes) /\ mb'[s].dead = mb[s].dead,
         \A u \in Id : \/ Pc(u)' = Pc(u) /\ Arg(u)' = Arg(u)
                       \/ InHand(u)' /\ Pc(u) \notin Releases,
         \A a \in Id : Lives(a)' => Lives(a),
         \A a, s \in Id : Lives(a)' /\ iso[a].mailbox = s /\ kind[s] = "slot" /\ StopHeld(mb[s])
           => StopHeld(mb'[s])
  PROVE ReleaseInv'
<1>1. \A u \in Id : Arg(u) \in Id /\ iso[u].mailbox \in Id
  BY DEF Inv, TypeInv, TypeOK, Arg, ThreadRecord, IsolateRecord
<1>2. ASSUME NEW u \in Id PROVE InHand(u)'
  <2>1. CASE Pc(u)' = Pc(u) /\ Arg(u)' = Arg(u)
    <3>1. InHand(u) /\ ClosesInPrivate(u) BY DEF ReleaseInv, MailInv
    <3>2. Pc(u) \in {"into"} \cup Releases => kind[Arg(u)] = "slot"
      BY <3>1 DEF ClosesInPrivate, Releases
    <3> QED BY <1>1, <2>1, <3>1, <3>2 DEF InHand
  <2> QED BY <2>1
<1>3. OpenSlotsWork' BY DEF ReleaseInv, OpenSlotsWork
<1>4. ASSUME NEW a \in Id, Lives(a)' PROVE ToldOrToBeTold(a)'
  <2>1. PICK s \in Id : s = iso[a].mailbox /\ s = iso'[a].mailbox BY <1>1
  <2> SUFFICES ASSUME kind[s] = "slot", mb'[s].dead
               PROVE StopHeld(mb'[s]) \/ \E u \in Id : Releasing(u, s)'
    BY <2>1 DEF ToldOrToBeTold
  <2>2. StopHeld(mb[s]) \/ \E u \in Id : Releasing(u, s)
    BY <1>4, <2>1 DEF ReleaseInv, ToldOrToBeTold
  <2>3. CASE StopHeld(mb[s]) BY <1>4, <2>1, <2>3
  <2>4. ASSUME NEW u \in Id, Releasing(u, s) PROVE Releasing(u, s)'
    BY <2>4 DEF Releasing
  <2> QED BY <2>2, <2>3, <2>4
<1> QED BY <1>2, <1>3, <1>4 DEF ReleaseInv

\* Whoever lives in a slot owns it.
LEMMA DwellersOwn ==
  ASSUME SlotInv, NEW a \in Id, NEW s \in Id, Lives(a), iso[a].mailbox = s, kind[s] = "slot"
  PROVE mb[s].owner = a
<1>1. Holds(a, s) BY DEF Lives, Holds, Late
<1> QED BY <1>1 DEF SlotInv, HoldersOwn

\* The steps of a release.
EndsSlot(t) == ReleaseErase(t) \/ ReleaseClose(t) \/ ReleaseRetire(t)

\* What the natives leave a thread at.
LEMMA NativesInHand ==
  ASSUME Inv, NEW t \in Id, NEW b \in Id, NEW c \in Id, Native(t, b, c), ~EndsSlot(t)
  PROVE /\ Pc(t) \notin Releases
        /\ Pc(t)' = "rel_erase" => "releaseSlot" \in Calls[t]
        /\ \/ Pc(t)' \notin {"into", "close_inbox"} \cup Releases
           \/ Pc(t)' = "into" /\ Arg(t)' = b /\ b \in mailboxes /\ mailboxes' = mailboxes
           \/ CloseInbox(t, b) /\ Pc(t)' = "close_inbox" /\ Arg(t)' = b
<1>1. /\ TypeOK /\ th \in [Id -> ThreadRecord] /\ th[t] \in ThreadRecord /\ th[t].arg \in Id
  BY DEF Inv, TypeInv, TypeOK, ThreadRecord
<1> USE DEF At, Calling, Pc, Releases
<1>2. CASE SpawnIntoCheck(t, b)
  BY <1>1, <1>2, ThreadArgs DEF SpawnIntoCheck, Arg, Pcs
<1>3. CASE CloseInbox(t, b)
  BY <1>1, <1>3, ThreadArgs DEF CloseInbox, Arg, Pcs
<1>4. CASE SpawnRegister(t) \/ JoinReturns(t) \/ CloseInboxDone(t)
  <2>1. th'[t] = Returned(t) BY <1>1, <1>4 DEF SpawnRegister, JoinReturns, CloseInboxDone
  <2> QED BY <1>1, <1>4, <2>1, LeavesAt DEF SpawnRegister, JoinReturns, CloseInboxDone
<1>5. CASE JoinTask(t, b) BY <1>1, <1>5, ThreadArgs DEF JoinTask, Pcs
<1>6. CASE ReleaseSlot(t, b) BY <1>1, <1>6, ThreadArgs DEF ReleaseSlot, Pcs
<1>7. CASE StopActor(t, b)
  <2>1. mb[b].owner \in Id BY <1>1, <1>7 DEF StopActor, TypeOK, MailboxOf
  <2> QED BY <1>1, <1>7, <2>1, ThreadArgs DEF StopActor, Pcs
<1>8. CASE Send(t, b) \/ Monitor(t, b, c) \/ MonitorGone(t, b, c)
  BY <1>8 DEF Send, Monitor, MonitorGone
<1>9. CASE Receive(t, b)
  <2>1. Pc(t) = "run" BY <1>9 DEF Receive
  <2>2. Pc(t)' = "run" BY <1>1, <1>9, <2>1, ThreadReads DEF Receive
  <2> QED BY <2>1, <2>2
<1>10. CASE StopList(t)
  <2> DEFINE boxes == MailboxesOf(th[t].arg)
             r == [th[t] EXCEPT !.pc = "stop_put", !.todo = boxes]
  <2>1. boxes \in SUBSET Id BY <1>1 DEF MailboxesOf, TypeOK
  <2>2. th'[t] \in {Returned(t), r} /\ Pc(t) = "stop_list" BY <1>1, <1>10 DEF StopList
  <2> HIDE DEF boxes
  <2>3. r.pc = "stop_put" BY <1>1, <2>1 DEF ThreadRecord, Pcs
  <2> HIDE DEF r
  <2> QED BY <1>1, <2>2, <2>3, LeavesAt
<1>11. CASE StopPut(t, b)
  <2> DEFINE left == th[t].todo \ {b}
  <2>1. th'[t] \in {Returned(t), [th[t] EXCEPT !.todo = left]} /\ Pc(t) = "stop_put"
    BY <1>1, <1>11 DEF StopPut
  <2> HIDE DEF left
  <2>2. [th[t] EXCEPT !.todo = left].pc = "stop_put" BY <1>1, <2>1, RecordReads
  <2> QED BY <1>1, <2>1, <2>2, LeavesAt
<1>12. CASE Return(t) \/ Fault(t)
  <2>1. PICK x \in BOOLEAN : th'[t] = Unwound(t, x) BY <1>1, <1>12 DEF Return, Fault
  <2>2. Pc(t)' = Unwind(t) BY <1>1, <2>1, LeavesAt
  <2> QED BY <1>12, <2>2 DEF Unwind, Return, Fault
<1> QED BY <1>2, <1>3, <1>4, <1>5, <1>6, <1>7, <1>8, <1>9, <1>10, <1>11, <1>12
        DEF Native, EndsSlot

\* An extra inbox that is closed is none of the slots.
LEMMA ClosedAreInboxes ==
  ASSUME NEW t \in Id, NEW b \in Id, CloseInbox(t, b)
  PROVE kind[b] = "inbox"
BY DEF CloseInbox, Own

LEMMA NativesKeepRelease ==
  ASSUME Inv, MailInv, ReleaseInv, NEW t \in Id, NEW b \in Id, NEW c \in Id,
         Native(t, b, c), ~EndsSlot(t)
  PROVE ReleaseInv'
<1>1. /\ TypeOK /\ mb \in [Id -> MailboxOf(Id)] /\ mailboxes \subseteq Id /\ th[t].arg \in Id
  BY DEF Inv, TypeInv, TypeOK, ThreadRecord
<1>2. /\ GoesOn(t) /\ kind' = kind /\ mailboxes' \subseteq mailboxes
      /\ \A a \in Id : iso'[a].mailbox = iso[a].mailbox
      /\ \A u \in Id : u # t => th'[u] = th[u]
      /\ Pc(t) \in Busy
  BY NativesGoOn DEF GoesOn
<1>3. \A s \in Id : kind[s] = "slot" => (s \in mailboxes' <=> s \in mailboxes)
  <2>1. CASE CloseInbox(t, b) BY <2>1, ClosedAreInboxes DEF CloseInbox
  <2>2. CASE ~CloseInbox(t, b)
    <3>1. mailboxes' = mailboxes
      BY <2>2 DEF Native, EndsSlot, SpawnIntoCheck, SpawnRegister, JoinTask, JoinReturns,
         ReleaseSlot, CloseInboxDone, Send, Receive, StopActor, StopList, StopPut, Monitor,
         MonitorGone, Return, Fault
    <3> QED BY <3>1
  <2> QED BY <2>1, <2>2
<1>4. \A s \in Id : kind[s] = "slot" => Keeps(mb[s], mb'[s])
  <2>1. CASE Send(t, b) \/ Receive(t, b) \/ StopPut(t, b) \/ Monitor(t, b, c) \/ MonitorGone(t, b, c)
    BY <1>1, <2>1, MailKeepsStop
  <2>2. CASE CloseInboxDone(t)
    <3>1. PICK y \in Id : y = Arg(t) BY <1>1 DEF Arg
    <3>2. kind[y] = "inbox" BY <2>2, <3>1 DEF CloseInboxDone, At, Pc, ReleaseInv, InHand
    <3>3. mb' = [mb EXCEPT ![y] = Close(mb[y])] BY <2>2, <3>1 DEF CloseInboxDone, Arg
    <3> QED BY <1>1, <3>2, <3>3, KeepsReflexive
  <2>3. CASE mb' = mb BY <2>3, KeepsReflexive
  <2> QED BY <2>1, <2>2, <2>3
          DEF Native, EndsSlot, SpawnIntoCheck, SpawnRegister, JoinTask, JoinReturns,
          ReleaseSlot, CloseInbox, StopActor, StopList, Return, Fault
<1>5. Pc(t) \notin Releases /\ InHand(t)'
  <2>1. /\ Pc(t) \notin Releases
        /\ \/ Pc(t)' \notin {"into", "close_inbox"} \cup Releases
           \/ Pc(t)' = "into" /\ Arg(t)' = b /\ b \in mailboxes /\ mailboxes' = mailboxes
           \/ CloseInbox(t, b) /\ Pc(t)' = "close_inbox" /\ Arg(t)' = b
    BY NativesInHand
  <2> QED BY <1>2, <2>1, ClosedAreInboxes DEF InHand, Releases
<1>6. \A a \in Id : Lives(a)' => Lives(a) BY <1>2 DEF Lives, Pc, Busy
<1>7. \A u \in Id : \/ Pc(u)' = Pc(u) /\ Arg(u)' = Arg(u)
                    \/ InHand(u)' /\ Pc(u) \notin Releases
  BY <1>2, <1>5 DEF Pc, Arg
<1>8. /\ \A s \in Id : kind[s] = "slot" =>
           (s \in mailboxes' <=> s \in mailboxes) /\ mb'[s].dead = mb[s].dead
      /\ \A s \in Id : kind[s] = "slot" /\ StopHeld(mb[s]) => StopHeld(mb'[s])
  BY <1>3, <1>4 DEF Keeps
<1> QED BY <1>1, <1>2, <1>6, <1>7, <1>8, ReleaseKept

\* A release takes the slot off the registry, ends it, and tells who is in it.
LEMMA ReleasesKeepRelease ==
  ASSUME Inv, MailInv, SlotInv, ReleaseInv, SlotsHaveOneManager, NEW t \in Id, EndsSlot(t)
  PROVE ReleaseInv'
<1>1. /\ TypeOK /\ mb \in [Id -> MailboxOf(Id)] /\ mailboxes \subseteq Id
      /\ th \in [Id -> ThreadRecord]
      /\ \A u \in Id : Arg(u) \in Id /\ iso[u].mailbox \in Id
  BY DEF Inv, TypeInv, TypeOK, ThreadRecord, IsolateRecord, Arg
<1>2. PICK s \in Id : s = Arg(t) BY <1>1
<1>3. /\ kind' = kind /\ iso' = iso
      /\ \A u \in Id : u # t => th'[u] = th[u]
  BY <1>1 DEF EndsSlot, ReleaseErase, ReleaseClose, ReleaseRetire
<1>4. /\ Pc(t) \in {"rel_erase"} \cup Releases
      /\ ReleaseErase(t) => Pc(t) = "rel_erase"
      /\ ReleaseClose(t) \/ ReleaseRetire(t) => Pc(t) \in Releases
  BY DEF EndsSlot, ReleaseErase, ReleaseClose, ReleaseRetire, At, Pc, Releases
<1>5. kind[s] = "slot" BY <1>2, <1>4 DEF MailInv, ClosesInPrivate, Releases
<1>6. /\ Pc(t)' \in {"run"} \cup Releases
      /\ ReleaseErase(t) \/ ReleaseClose(t) => Pc(t)' \in Releases /\ Arg(t)' = s
      /\ ReleaseRetire(t) => Pc(t)' = "run"
  <2>1. CASE ReleaseErase(t)
    <3>1. PICK p \in Releases : th' = [th EXCEPT ![t].pc = p]
      BY <2>1 DEF ReleaseErase, Releases
    <3>2. p \in Pcs BY DEF Releases, Pcs
    <3>3. Pc(t)' = p /\ Arg(t)' = s BY <1>1, <1>2, <3>1, <3>2, ThreadArgs DEF Pc, Arg
    <3>4. ~ReleaseRetire(t) BY <1>4, <2>1 DEF Releases
    <3> QED BY <3>3, <3>4
  <2>2. CASE ReleaseClose(t)
    <3>1. Pc(t)' = "rel_retire" /\ Arg(t)' = s
      BY <1>1, <1>2, <2>2, ThreadArgs DEF ReleaseClose, Pc, Arg, Pcs
    <3>2. ~ReleaseRetire(t)
      BY <2>2 DEF ReleaseClose, ReleaseRetire, At
    <3> QED BY <3>1, <3>2 DEF Releases
  <2>3. CASE ReleaseRetire(t)
    <3>1. Pc(t)' = "run" BY <1>1, <2>3, LeavesAt DEF ReleaseRetire, Pc
    <3>2. ~ReleaseErase(t) /\ ~ReleaseClose(t)
      BY <2>3 DEF ReleaseErase, ReleaseClose, ReleaseRetire, At
    <3> QED BY <2>3, <3>1, <3>2
  <2> QED BY <2>1, <2>2, <2>3 DEF EndsSlot
<1>7. mailboxes' \in {mailboxes, mailboxes \ {s}} /\ s \notin mailboxes'
  <2>1. CASE ReleaseErase(t) BY <1>2, <2>1 DEF ReleaseErase, Arg
  <2>2. CASE ReleaseClose(t) \/ ReleaseRetire(t)
    <3>1. s \notin mailboxes BY <1>2, <1>4, <2>2 DEF ReleaseInv, InHand
    <3> QED BY <2>2, <3>1 DEF ReleaseClose, ReleaseRetire
  <2> QED BY <2>1, <2>2 DEF EndsSlot
<1>8. \A x \in Id : x # s => mb'[x] = mb[x]
  BY <1>1, <1>2 DEF EndsSlot, ReleaseErase, ReleaseClose, ReleaseRetire, Arg
<1>9. ASSUME NEW u \in Id PROVE InHand(u)'
  <2>1. CASE u = t
    <3>1. InHand(t)' BY <1>6, <1>7 DEF EndsSlot, InHand, Releases
    <3> QED BY <2>1, <3>1
  <2>2. CASE u # t
    <3>1. Pc(u)' = Pc(u) /\ Arg(u)' = Arg(u) BY <1>3, <2>2 DEF Pc, Arg
    <3>2. Pc(u) = "into" => Arg(u) # s BY <1>2, <1>4, <2>2 DEF SlotsHaveOneManager
    <3> QED BY <1>1, <1>3, <1>7, <3>1, <3>2 DEF ReleaseInv, InHand
  <2> QED BY <2>1, <2>2
<1>10. OpenSlotsWork'
  BY <1>1, <1>3, <1>7, <1>8 DEF ReleaseInv, OpenSlotsWork
<1>11. ASSUME NEW a \in Id, Lives(a)' PROVE ToldOrToBeTold(a)'
  <2>1. Lives(a)
    <3>1. CASE a = t BY <1>3, <1>4, <1>11, <3>1 DEF Lives, Releases
    <3>2. CASE a # t BY <1>3, <1>11, <3>2 DEF Lives, Pc
    <3> QED BY <3>1, <3>2
  <2>2. PICK x \in Id : x = iso[a].mailbox /\ x = iso'[a].mailbox BY <1>1, <1>3
  <2> SUFFICES ASSUME kind[x] = "slot", mb'[x].dead
               PROVE StopHeld(mb'[x]) \/ \E u \in Id : Releasing(u, x)'
    BY <1>3, <2>2 DEF ToldOrToBeTold
  <2>3. CASE x # s
    <3>1. StopHeld(mb[x]) \/ \E u \in Id : Releasing(u, x)
      BY <1>8, <2>1, <2>2, <2>3 DEF ReleaseInv, ToldOrToBeTold
    <3>2. ASSUME NEW u \in Id, Releasing(u, x) PROVE Releasing(u, x)'
      <4>1. u # t BY <1>2, <2>3, <3>2 DEF Releasing
      <4> QED BY <1>3, <3>2, <4>1 DEF Releasing, Pc, Arg
    <3> QED BY <1>8, <2>3, <3>1, <3>2
  <2>4. CASE x = s /\ (ReleaseErase(t) \/ ReleaseClose(t))
    BY <1>6, <2>4 DEF Releasing
  <2>5. CASE x = s /\ ReleaseRetire(t)
    <3> \A i \in Id : i # NO_OWNER BY MaxIdAssumption DEF NO_OWNER, Id
    <3>1. mb[s].owner = a /\ a # NO_OWNER BY <1>5, <2>1, <2>2, <2>5, DwellersOwn
    <3>2. mb'[s] = Retire(mb[s]) BY <1>1, <1>2, <2>5 DEF ReleaseRetire, Arg
    <3>3. mb'[s].q = <<Stop>> BY <1>1, <3>1, <3>2 DEF Retire, MailboxOf
    <3>4. Len(<<Stop>>) = 1 /\ <<Stop>>[1].kind = "stop" BY DEF Stop
    <3>5. 1 \in 1 .. Len(mb'[s].q) /\ mb'[s].q[1].kind = "stop" BY <3>3, <3>4
    <3> QED BY <2>5, <3>5 DEF StopHeld
  <2> QED BY <2>3, <2>4, <2>5 DEF EndsSlot
<1> QED BY <1>9, <1>10, <1>11 DEF ReleaseInv

\* Where the destructor comes to.
LEMMA WorldPlaces ==
  ASSUME Inv, World
  PROVE Pc(Root) \notin Releases /\ Pc(Root)' \in {"world_join", "world_wait", "gone"}
<1>1. /\ TypeInv /\ TypeOK /\ Root \in Id
  <2>1. Root \in Id BY MaxIdAssumption DEF Root, Id
  <2> QED BY <2>1 DEF Inv, TypeInv
<1> USE DEF At, Calling, Pc, Releases
<1>2. CASE WorldStop \/ WorldJoined
  <2>1. th'[Root] = [Returned(Root) EXCEPT !.pc = "world_join"] /\ "world_join" \in Pcs
    BY <1>1, <1>2 DEF WorldStop, WorldJoined, TypeOK, Pcs
  <2>2. th'[Root].pc = "world_join" BY <1>1, <2>1, LeavesAt
  <2> QED BY <1>2, <2>2 DEF WorldStop, WorldJoined
<1>3. ASSUME NEW i \in Id, WorldPick(i) PROVE Pc(Root) \notin Releases /\ Pc(Root)' = "world_wait"
  BY <1>1, <1>3, ThreadArgs DEF WorldPick, TypeOK, Pcs
<1>4. CASE WorldGone BY <1>1, <1>4, ThreadArgs DEF WorldGone, TypeOK, Pcs
<1> QED BY <1>2, <1>3, <1>4 DEF World

\* The destructor tells who lives, and closes no slot.
LEMMA WorldKeepsRelease ==
  ASSUME Inv, MailInv, SlotInv, ReleaseInv, World
  PROVE ReleaseInv'
<1>1. /\ TypeInv /\ TypeOK /\ mb \in [Id -> MailboxOf(Id)] /\ mailboxes \subseteq Id
      /\ Root \in Id
  <2>1. Root \in Id BY MaxIdAssumption DEF Root, Id
  <2> QED BY <2>1 DEF Inv, TypeInv, TypeOK
<1>2. /\ GoesOn(Root) /\ kind' = kind /\ mailboxes' \subseteq mailboxes
      /\ \A a \in Id : iso'[a].mailbox = iso[a].mailbox
      /\ \A u \in Id : u # Root => th'[u] = th[u]
      /\ Pc(Root) \in Busy
  BY WorldGoesOn DEF GoesOn
<1>3. Pc(Root) \notin Releases /\ Pc(Root)' \in {"world_join", "world_wait", "gone"}
  BY WorldPlaces
<1>4. ASSUME NEW s \in Id, kind[s] = "slot"
      PROVE (s \in mailboxes' <=> s \in mailboxes) /\ Keeps(mb[s], mb'[s])
  <2>1. CASE WorldStop
    <3>1. Put(mb[s], Stop) \in MailboxOf(Id) /\ Keeps(mb[s], Put(mb[s], Stop))
      BY <1>1, SystemMail, PutType, PutKeeps
    <3>2. Keeps(Put(mb[s], Stop), Release(Put(mb[s], Stop))) /\ Keeps(mb[s], Release(mb[s]))
      BY <1>1, <3>1, ReleaseKeeps
    <3>3. Keeps(mb[s], Release(Put(mb[s], Stop))) BY <3>1, <3>2 DEF Keeps
    <3>4. mb'[s] \in {mb[s], Release(mb[s]), Release(Put(mb[s], Stop))} /\ mailboxes' = mailboxes
      BY <2>1 DEF WorldStop
    <3> QED BY <3>2, <3>3, <3>4, KeepsReflexive
  <2>2. CASE WorldGone
    <3>1. s \notin MailboxesOf(Root) BY <1>4 DEF MailboxesOf, SlotInv, SlotsAreNotRoots
    <3> QED BY <2>2, <3>1, KeepsReflexive DEF WorldGone
  <2>3. CASE mailboxes' = mailboxes /\ mb' = mb BY <2>3, KeepsReflexive
  <2> QED BY <2>1, <2>2, <2>3 DEF World, WorldPick, WorldJoined
<1>5. InHand(Root)' BY <1>3 DEF InHand, Releases
<1>6. \A u \in Id : \/ Pc(u)' = Pc(u) /\ Arg(u)' = Arg(u)
                    \/ InHand(u)' /\ Pc(u) \notin Releases
  BY <1>2, <1>3, <1>5 DEF Pc, Arg
<1>7. \A a \in Id : Lives(a)' => Lives(a) BY <1>2 DEF Lives, Pc, Busy
<1>8. /\ \A s \in Id : kind[s] = "slot" =>
           (s \in mailboxes' <=> s \in mailboxes) /\ mb'[s].dead = mb[s].dead
      /\ \A s \in Id : kind[s] = "slot" /\ StopHeld(mb[s]) => StopHeld(mb'[s])
  BY <1>4 DEF Keeps
<1> QED BY <1>1, <1>2, <1>6, <1>7, <1>8, ReleaseKept

\* An id that is given out, and an actor that is put into an open slot.
LEMMA GrowsKeepsRelease ==
  ASSUME Inv, MailInv, SlotInv, ReleaseInv, NEW t \in Id, NEW c \in Id, Grows(t, c),
         Pc(t)' # "into", mailboxes' \in {mailboxes, mailboxes \cup {c}},
         \A s \in Id : s # c =>
           mb'[s].dead = mb[s].dead /\ mb'[s].q = mb[s].q /\ mb'[s].stop_seen = mb[s].stop_seen,
         c \in mailboxes' => ~mb'[c].dead,
         kind'[c] = "actor" =>
           LET s == iso'[c].mailbox IN
           (s \in mailboxes /\ kind[s] = "slot") \/ kind'[s] # "slot"
  PROVE ReleaseInv'
<1>1. /\ \A u \in Id : Arg(u) \in Id /\ iso[u].mailbox \in Id
      /\ \A u \in Id : kind[u] = "actor" => iso[u].mailbox # c
      /\ mailboxes \subseteq Id
  BY GrowsFacts DEF Inv, TypeInv, TypeOK
<1>2. /\ kind[c] = "none" /\ Pc(t) \in {"run", "into"} /\ t # c
      /\ \A i \in Id : i # c => kind'[i] = kind[i]
      /\ \A u \in Id : u \notin {t, c} => th'[u] = th[u]
      /\ \A u \in Id : u # c => iso'[u].mailbox = iso[u].mailbox
      /\ Pc(t)' \in {"run", "thread"} /\ Pc(c)' \in {"none", "born"} /\ Pc(c) = "none"
  BY DEF Grows
<1>3. \A s \in Id : s # c /\ StopHeld(mb[s]) => StopHeld(mb'[s]) BY DEF StopHeld
<1>4. ASSUME NEW u \in Id PROVE InHand(u)'
  <2>1. CASE u \in {t, c} BY <1>2, <2>1 DEF InHand, Releases
  <2>2. CASE u \notin {t, c}
    <3>1. Pc(u)' = Pc(u) /\ Arg(u)' = Arg(u) BY <1>2, <2>2 DEF Pc, Arg
    <3>2. InHand(u) /\ ClosesInPrivate(u) BY DEF ReleaseInv, MailInv
    <3>3. Pc(u) \in {"into", "close_inbox"} \cup Releases => Arg(u) # c
      BY <1>2, <3>2 DEF ClosesInPrivate, Releases
    <3> QED BY <1>1, <1>2, <3>1, <3>2, <3>3 DEF InHand
  <2> QED BY <2>1, <2>2
<1>5. OpenSlotsWork' BY <1>1, <1>2 DEF ReleaseInv, OpenSlotsWork
<1>6. ASSUME NEW a \in Id, Lives(a)' PROVE ToldOrToBeTold(a)'
  <2>1. CASE a = c
    <3>1. kind'[c] = "actor" BY <1>6, <2>1 DEF Lives
    <3>2. PICK s : s = iso'[c].mailbox OBVIOUS
    <3>3. CASE kind'[s] # "slot" BY <2>1, <3>2, <3>3 DEF ToldOrToBeTold
    <3>4. CASE s \in mailboxes /\ kind[s] = "slot"
      <4>1. ~mb[s].dead BY <3>4 DEF ReleaseInv, OpenSlotsWork
      <4>2. s # c /\ s \in Id BY <1>1, <1>2, <3>4
      <4>3. ~mb'[s].dead BY <4>1, <4>2
      <4> QED BY <2>1, <3>2, <4>3 DEF ToldOrToBeTold
    <3> QED BY <3>1, <3>2, <3>3, <3>4
  <2>2. CASE a # c
    <3>1. Lives(a)
      <4>1. CASE a = t BY <1>2, <1>6, <4>1 DEF Lives
      <4>2. CASE a # t BY <1>2, <1>6, <2>2, <4>2 DEF Lives, Pc
      <4> QED BY <4>1, <4>2
    <3>2. PICK s \in Id : s = iso[a].mailbox /\ s = iso'[a].mailbox /\ s # c
      BY <1>1, <1>2, <2>2, <3>1 DEF Lives
    <3> SUFFICES ASSUME kind[s] = "slot", mb[s].dead
                 PROVE StopHeld(mb'[s]) \/ \E u \in Id : Releasing(u, s)'
      BY <1>2, <3>2 DEF ToldOrToBeTold
    <3>3. StopHeld(mb[s]) \/ \E u \in Id : Releasing(u, s)
      BY <3>1, <3>2 DEF ReleaseInv, ToldOrToBeTold
    <3>4. ASSUME NEW u \in Id, Releasing(u, s) PROVE Releasing(u, s)'
      <4>1. u \notin {t, c} BY <1>2, <3>4 DEF Releasing, Releases
      <4> QED BY <1>2, <3>4, <4>1 DEF Releasing, Pc, Arg
    <3> QED BY <1>3, <3>2, <3>3, <3>4
  <2> QED BY <2>1, <2>2
<1> QED BY <1>4, <1>5, <1>6 DEF ReleaseInv

LEMMA MakingKeepsRelease ==
  ASSUME Inv, MailInv, SlotInv, ReleaseInv, NEW t \in Id,
         SpawnActor(t) \/ SpawnTask(t) \/ SpawnIntoTake(t) \/ NewSlot(t) \/ NewInbox(t)
  PROVE ReleaseInv'
<1>1. /\ TypeInv /\ TypeOK /\ mb \in [Id -> MailboxOf(Id)] /\ kind \in [Id -> Kinds]
      /\ th[t].arg \in Id
  BY DEF Inv, TypeInv, TypeOK, ThreadRecord
<1>2. next_id \in Id
  <2>1. CASE SpawnActor(t) \/ SpawnTask(t) \/ NewSlot(t) \/ NewInbox(t)
    BY <1>1, <2>1, FreshId DEF SpawnActor, SpawnTask, NewSlot, NewInbox
  <2>2. CASE SpawnIntoTake(t) BY <1>1, <2>2, FreshIdInto DEF SpawnIntoTake
  <2> QED BY <2>1, <2>2
<1>3. PICK c \in Id : c = next_id BY <1>2
<1>4. ASSUME Grows(t, c) PROVE c \notin mailboxes
  BY <1>4 DEF Grows, MailInv, InboxesAreInformed
<1>5. CASE SpawnActor(t)
  <2>1. NewIsolate(t, "actor", c) /\ AddMailbox(c) /\ Pc(t) = "run" /\ isolates' = isolates
    BY <1>3, <1>5 DEF SpawnActor, Calling, At, Pc
  <2>2. Grows(t, c) /\ kind'[c] = "actor" /\ iso'[c].mailbox = c /\ Pc(t)' = "thread"
    BY <1>3, <2>1, NewIsolateGrows
  <2>3. /\ \A b \in Id : b # c => mb'[b] = mb[b]
        /\ mailboxes' = mailboxes \cup {c} /\ ~mb'[c].dead
    BY <1>3, <2>1, AddMailboxInforms DEF Informed
  <2> QED BY <2>2, <2>3, GrowsKeepsRelease
<1>6. CASE SpawnTask(t)
  <2>1. NewIsolate(t, "task", Root) /\ Pc(t) = "run" /\ isolates' = isolates /\ Root \in Id
    BY <1>6, MaxIdAssumption DEF SpawnTask, Calling, At, Pc, Root, Id
  <2>2. Grows(t, c) /\ kind'[c] = "task" /\ Pc(t)' = "thread"
    BY <1>3, <2>1, NewIsolateGrows
  <2>3. mb' = mb /\ mailboxes' = mailboxes /\ c \notin mailboxes
    BY <1>4, <1>6, <2>2 DEF SpawnTask
  <2> QED BY <2>2, <2>3, GrowsKeepsRelease
<1>7. CASE SpawnIntoTake(t)
  <2>1. PICK s \in Id : s = Arg(t) BY <1>1 DEF Arg
  <2>2. NewIsolate(t, "actor", s) /\ Pc(t) = "into" /\ isolates' = isolates
    BY <1>7, <2>1 DEF SpawnIntoTake, Arg, At, Pc
  <2>3. Grows(t, c) /\ kind'[c] = "actor" /\ iso'[c].mailbox = s /\ Pc(t)' = "thread"
    BY <1>3, <2>2, NewIsolateGrows
  <2>4. mb' = [mb EXCEPT ![s].owner = c] /\ mailboxes' = mailboxes
    BY <1>3, <1>7, <2>1 DEF SpawnIntoTake, Arg
  <2>5. \A x \in Id :
          mb'[x].dead = mb[x].dead /\ mb'[x].q = mb[x].q /\ mb'[x].stop_seen = mb[x].stop_seen
    BY <1>1, <2>4 DEF MailboxOf
  <2>6. s \in mailboxes /\ kind[s] = "slot"
    BY <2>1, <2>2 DEF ReleaseInv, InHand, MailInv, ClosesInPrivate
  <2>7. c \notin mailboxes BY <1>4, <2>3
  <2> QED BY <2>3, <2>4, <2>5, <2>6, <2>7, GrowsKeepsRelease
<1>8. CASE NewSlot(t) \/ NewInbox(t)
  <2>1. Grows(t, c) /\ Pc(t)' = Pc(t) BY <1>3, <1>8, AddressGrows
  <2>2. PICK k \in {"slot", "inbox"}, owner \in Id \cup {NO_OWNER} :
          TakeId(k) /\ AddMailbox(owner)
    BY <1>8 DEF NewSlot, NewInbox
  <2>3. kind'[c] = k BY <1>1, <1>3, <2>2 DEF TakeId
  <2>4. /\ \A b \in Id : b # c => mb'[b] = mb[b]
        /\ mailboxes' = mailboxes \cup {c} /\ ~mb'[c].dead
    BY <1>3, <2>2, AddMailboxInforms DEF Informed
  <2>5. Pc(t)' = "run" BY <1>8, <2>1 DEF NewSlot, NewInbox, Calling, At, Pc
  <2> QED BY <2>1, <2>3, <2>4, <2>5, GrowsKeepsRelease
<1> QED BY <1>5, <1>6, <1>7, <1>8

\* The slot of a refused actor is emptied, and nobody else lives in it.
LEMMA ThreadKeepsRelease ==
  ASSUME Inv, MailInv, SlotInv, ReleaseInv, NEW t \in Id, SpawnThread(t) \/ SpawnThreadFails(t)
  PROVE ReleaseInv'
<1>1. /\ TypeOK /\ mb \in [Id -> MailboxOf(Id)] /\ mailboxes \subseteq Id
      /\ \A a \in Id : iso[a].mailbox \in Id
  BY DEF Inv, TypeInv, TypeOK, IsolateRecord
<1>2. PICK c \in Id :
        /\ c = th[t].child /\ ThreadStep(t, c)
        /\ SpawnThread(t) => /\ Pc(t)' = "register" /\ Pc(c)' = "run"
                             /\ mb' = mb /\ mailboxes' = mailboxes
        /\ SpawnThreadFails(t) => Pc(t)' = Unwind(t) /\ Pc(c)' = "done"
  BY ThreadSteps
<1>3. /\ Pc(t) = "thread" /\ Pc(c) = "born" /\ t # c /\ kind' = kind /\ iso' = iso
      /\ \A u \in Id \ {t, c} : th'[u] = th[u]
      /\ Pc(t)' \in {"register", "leave", "done", "erase"} /\ Pc(c)' \in {"run", "done"}
  BY <1>2 DEF ThreadStep, Unwind
<1>4. \A a \in Id : Lives(a)' => Lives(a) BY <1>3 DEF Lives, Pc
<1>5. \A u \in Id : \/ Pc(u)' = Pc(u) /\ Arg(u)' = Arg(u)
                    \/ InHand(u)' /\ Pc(u) \notin Releases
  <2>1. InHand(t)' /\ Pc(t) \notin Releases /\ InHand(c)' /\ Pc(c) \notin Releases
    BY <1>3 DEF InHand, Releases
  <2> QED BY <1>3, <2>1 DEF Pc, Arg
<1>6. CASE mb' = mb /\ mailboxes' = mailboxes
  BY <1>1, <1>3, <1>4, <1>5, <1>6, ReleaseKept
<1>7. CASE SpawnThreadFails(t) /\ kind[c] # "task"
  <2>1. PICK b \in Id : b = iso[c].mailbox BY <1>1
  <2>2. IF kind[b] = "slot" THEN mb' = [mb EXCEPT ![b] = Vacate(mb[b])] /\ mailboxes' = mailboxes
        ELSE mb' = [mb EXCEPT ![b] = Close(mb[b])] /\ mailboxes' = mailboxes \ {b}
    BY <1>2, <1>7, <2>1 DEF SpawnThreadFails
  <2>3. Vacate(mb[b]).dead = mb[b].dead BY <1>1 DEF Vacate, MailboxOf
  <2>4. \A s \in Id : kind[s] = "slot" =>
          (s \in mailboxes' <=> s \in mailboxes) /\ mb'[s].dead = mb[s].dead
    BY <1>1, <2>2, <2>3
  <2>5. kind[c] = "actor" /\ Lives(c) BY <1>2, <1>3, <1>7 DEF ThreadStep, Started, Lives
  <2>6. ASSUME NEW a \in Id, NEW s \in Id, Lives(a)', iso[a].mailbox = s, kind[s] = "slot",
               StopHeld(mb[s])
        PROVE StopHeld(mb'[s])
    <3>1. a # c BY <1>2, <1>7, <2>6 DEF Lives
    <3>2. mb[s].owner = a BY <1>4, <2>6, DwellersOwn
    <3>3. kind[b] = "slot" => mb[b].owner = c BY <2>1, <2>5, DwellersOwn
    <3>4. s # b BY <2>6, <3>1, <3>2, <3>3
    <3>5. mb'[s] = mb[s] BY <1>1, <2>2, <3>4
    <3> QED BY <2>6, <3>5
  <2>7. mailboxes' \subseteq Id BY <1>1, <2>2
  <2> QED BY <1>3, <1>4, <1>5, <2>4, <2>6, <2>7, ReleaseKept
<1> QED BY <1>2, <1>6, <1>7 DEF SpawnThreadFails

\* The slot of an actor that ended is emptied, and nobody else lives in it.
LEMMA EndsKeepRelease ==
  ASSUME Inv, MailInv, SlotInv, ReleaseInv, NEW t \in Id, NEW b \in Id,
         \/ EndErase(t) \/ EndClose(t, b) \/ EndTellStarter(t)
         \/ EndMark(t) \/ EndReport(t) \/ EndFinish(t)
  PROVE ReleaseInv'
<1>1. /\ TypeOK /\ mb \in [Id -> MailboxOf(Id)] /\ mailboxes \subseteq Id
      /\ \A a \in Id : iso[a].mailbox \in Id
  BY DEF Inv, TypeInv, TypeOK, IsolateRecord
<1>2. /\ \A u \in Id : u # t => th'[u] = th[u]
      /\ kind' = kind /\ mailboxes' \subseteq mailboxes
      /\ \A a \in Id : iso'[a].mailbox = iso[a].mailbox
      /\ Pc(t) \in {"erase", "close", "mark", "report"}
      /\ Pc(t)' \in {"close", "mark", "report", "done"}
  BY EndsStep DEF Epilogue
<1>3. \A a \in Id : Lives(a)' => Lives(a) /\ a # t BY <1>2 DEF Lives, Pc
<1>4. \A u \in Id : \/ Pc(u)' = Pc(u) /\ Arg(u)' = Arg(u)
                    \/ InHand(u)' /\ Pc(u) \notin Releases
  <2>1. InHand(t)' /\ Pc(t) \notin Releases BY <1>2 DEF InHand, Releases
  <2> QED BY <1>2, <2>1 DEF Pc, Arg
<1>5. \A s \in Id : kind[s] = "slot" => (s \in mailboxes' <=> s \in mailboxes)
  BY DEF EndErase, EndClose, EndTellStarter, EndMark, EndReport, EndFinish
<1>6. CASE EndClose(t, b)
  <2>1. mb' = [mb EXCEPT ![b] = IF kind[b] = "slot" THEN Vacate(mb[b]) ELSE Close(mb[b])]
    BY <1>6 DEF EndClose
  <2>2. Vacate(mb[b]).dead = mb[b].dead BY <1>1 DEF Vacate, MailboxOf
  <2>3. \A s \in Id : kind[s] = "slot" => mb'[s].dead = mb[s].dead BY <1>1, <2>1, <2>2
  <2>4. kind[b] = "slot" => mb[b].owner = t
    BY <1>6 DEF EndClose, At, Pc, SlotInv, ClosesItsSlots
  <2>5. ASSUME NEW a \in Id, NEW s \in Id, Lives(a)', iso[a].mailbox = s, kind[s] = "slot",
               StopHeld(mb[s])
        PROVE StopHeld(mb'[s])
    <3>1. mb[s].owner = a /\ a # t BY <1>3, <2>5, DwellersOwn
    <3>2. mb'[s] = mb[s] BY <1>1, <2>1, <2>4, <2>5, <3>1
    <3> QED BY <2>5, <3>2
  <2> QED BY <1>1, <1>2, <1>3, <1>4, <1>5, <2>3, <2>5, ReleaseKept
<1>7. CASE ~EndClose(t, b)
  <2>1. \A x \in Id : Keeps(mb[x], mb'[x])
    <3>1. CASE EndTellStarter(t) \/ EndReport(t) BY <1>1, <3>1, MailKeepsStop
    <3>2. CASE mb' = mb BY <3>2, KeepsReflexive
    <3> QED BY <1>7, <3>1, <3>2 DEF EndErase, EndMark, EndFinish
  <2>2. /\ \A s \in Id : mb'[s].dead = mb[s].dead
        /\ \A s \in Id : StopHeld(mb[s]) => StopHeld(mb'[s])
    BY <2>1 DEF Keeps
  <2> QED BY <1>1, <1>2, <1>3, <1>4, <1>5, <2>2, ReleaseKept
<1> QED BY <1>6, <1>7

LEMMA StepKeepsRelease ==
  ASSUME Inv, MailInv, SlotInv, ReleaseInv, SlotsHaveOneManager, [Next]_vars
  PROVE ReleaseInv'
<1>1. Root \in Id BY MaxIdAssumption DEF Root, Id
<1>2. ASSUME NEW t \in Id, NEW b \in Id, NEW c \in Id, Native(t, b, c) PROVE ReleaseInv'
  BY <1>2, NativesKeepRelease, ReleasesKeepRelease
<1>3. ASSUME NEW t \in Id, Program(t) PROVE ReleaseInv'
  BY <1>1, <1>2, <1>3, MakingKeepsRelease DEF Program, Native
<1>4. ASSUME NEW t \in Id, Runtime(t) PROVE ReleaseInv'
  BY <1>1, <1>2, <1>4, MakingKeepsRelease, ThreadKeepsRelease, EndsKeepRelease
     DEF Runtime, Native
<1>5. ASSUME World PROVE ReleaseInv' BY <1>5, WorldKeepsRelease
<1>6. ASSUME UNCHANGED vars PROVE ReleaseInv'
  BY <1>6 DEF vars, ReleaseInv, InHand, OpenSlotsWork, ToldOrToBeTold, Releasing, Lives,
     Pc, Arg
<1> QED BY <1>3, <1>4, <1>5, <1>6 DEF Next, Finished

\* An actor whose slot was released holds Stop, however its own reads, a second release and
\* the end of the world interleave with the three steps of the release, as long as nobody
\* puts an actor into a slot that another thread releases (rawReleaseSlot).
THEOREM ReleasedActorHoldsStop == Spec /\ []SlotsHaveOneManager => []ReleasedActorIsTold
<1> DEFINE All == Inv /\ MailInv /\ SlotInv /\ ReleaseInv
<1>1. Init => All
  <2>1. ASSUME Init PROVE ReleaseInv
    <3>1. Root \in Id BY MaxIdAssumption DEF Root, Id
    <3>2. \A t \in Id : Pc(t) \in {"run", "none"} /\ kind[t] \in {"none", "root"}
      BY <2>1 DEF Init, Pc
    <3> QED BY <2>1, <3>1, <3>2
            DEF Init, ReleaseInv, InHand, OpenSlotsWork, Lives, Releases
  <2> QED BY <2>1, InitInv, InitMailInv, InitSlots
<1>2. All /\ SlotsHaveOneManager /\ [Next]_vars => All'
  BY StepKeepsInv, StepKeepsMailInv, StepKeepsSlots, StepKeepsRelease, ManagersTakeTurns
<1>3. ASSUME All PROVE ReleasedActorIsTold
  <2> SUFFICES ASSUME NEW a \in Id, Running(a), NEW s, s = iso[a].mailbox,
                      kind[s] = "slot", mb[s].dead,
                      \A t \in Id : th[t].arg = s => th[t].pc \notin Releases
               PROVE StopHeld(mb[s])
    BY DEF ReleasedActorIsTold, Releases
  <2>1. Lives(a) BY DEF Running, Lives, Pc
  <2>2. ToldOrToBeTold(a) BY <1>3, <2>1 DEF ReleaseInv
  <2> QED BY <2>2 DEF ToldOrToBeTold, Releasing, Pc, Arg
<1> QED BY <1>1, <1>2, <1>3, PTL DEF Spec

-----------------------------------------------------------------------------
(* The same for the programs in which one isolate looks after the slots.   *)

\* A thread is inside a native that its program calls.
CallsInv ==
  \A t \in Id : /\ Pc(t) = "into" => "spawnInto" \in Calls[t]
                /\ Pc(t) \in {"rel_erase"} \cup Releases => "releaseSlot" \in Calls[t]

\* Natives that give out an id.
MakesId(t) ==
  SpawnActor(t) \/ SpawnTask(t) \/ SpawnIntoTake(t) \/ NewSlot(t) \/ NewInbox(t)

LEMMA MakingGrows ==
  ASSUME Inv, NEW t \in Id, MakesId(t)
  PROVE \E c \in Id : Grows(t, c)
<1>1. TypeInv /\ TypeOK /\ th[t].arg \in Id /\ Root \in Id
  <2>1. Root \in Id BY MaxIdAssumption DEF Root, Id
  <2> QED BY <2>1 DEF Inv, TypeInv, TypeOK, ThreadRecord
<1>2. next_id \in Id
  <2>1. CASE SpawnActor(t) \/ SpawnTask(t) \/ NewSlot(t) \/ NewInbox(t)
    BY <1>1, <2>1, FreshId DEF SpawnActor, SpawnTask, NewSlot, NewInbox
  <2>2. CASE SpawnIntoTake(t) BY <1>1, <2>2, FreshIdInto DEF SpawnIntoTake
  <2> QED BY <2>1, <2>2 DEF MakesId
<1>3. CASE SpawnActor(t) \/ SpawnTask(t) \/ SpawnIntoTake(t)
  <2>1. PICK k \in {"actor", "task"}, box \in Id :
          NewIsolate(t, k, box) /\ Pc(t) \in {"run", "into"} /\ isolates' = isolates
    BY <1>1, <1>2, <1>3 DEF SpawnActor, SpawnTask, SpawnIntoTake, Calling, At, Pc
  <2> QED BY <1>2, <2>1, NewIsolateGrows
<1>4. CASE NewSlot(t) \/ NewInbox(t) BY <1>2, <1>4, AddressGrows
<1> QED BY <1>3, <1>4 DEF MakesId

LEMMA StepKeepsCalls ==
  ASSUME Inv, CallsInv, [Next]_vars
  PROVE CallsInv'
<1>1. Root \in Id /\ TypeInv /\ TypeOK
  <2>1. Root \in Id BY MaxIdAssumption DEF Root, Id
  <2> QED BY <2>1 DEF Inv, TypeInv
<1> DEFINE Apart == {"into", "rel_erase"} \cup Releases
<1>2. ASSUME \A u \in Id : Pc(u)' = Pc(u) \/ Pc(u)' \notin Apart PROVE CallsInv'
  BY <1>2 DEF CallsInv, Pc
<1>3. ASSUME NEW t \in Id, NEW b \in Id, NEW c \in Id, Native(t, b, c) PROVE CallsInv'
  <2>1. \A u \in Id : u # t => Pc(u)' = Pc(u) BY <1>3, NativesGoOn DEF GoesOn, Pc
  <2>2. Pc(t)' = "into" => "spawnInto" \in Calls[t] BY <1>3, NativesAndInto
  <2>3. Pc(t)' \in {"rel_erase"} \cup Releases => "releaseSlot" \in Calls[t]
    <3>1. CASE EndsSlot(t)
      BY <3>1 DEF EndsSlot, ReleaseErase, ReleaseClose, ReleaseRetire, At, Pc, CallsInv, Releases
    <3>2. CASE ~EndsSlot(t) BY <1>3, <3>2, NativesInHand DEF Releases
    <3> QED BY <3>1, <3>2
  <2> QED BY <2>1, <2>2, <2>3 DEF CallsInv, Pc
<1>4. ASSUME NEW t \in Id, MakesId(t) PROVE CallsInv'
  <2>1. PICK c \in Id : Grows(t, c) BY <1>4, MakingGrows
  <2>2. \A u \in Id : Pc(u)' = Pc(u) \/ Pc(u)' \in {"none", "born", "thread"}
    BY <2>1 DEF Grows, Pc
  <2> QED BY <1>2, <2>2 DEF Releases
<1>5. ASSUME NEW t \in Id, SpawnThread(t) \/ SpawnThreadFails(t) PROVE CallsInv'
  <2>1. PICK c \in Id :
          /\ ThreadStep(t, c)
          /\ SpawnThread(t) => Pc(t)' = "register" /\ Pc(c)' = "run"
          /\ SpawnThreadFails(t) => Pc(t)' = Unwind(t) /\ Pc(c)' = "done"
    BY <1>5, ThreadSteps
  <2>2. \A u \in Id : Pc(u)' = Pc(u) \/ Pc(u)' \in {"register", "run", "leave", "erase", "done"}
    BY <1>5, <2>1 DEF ThreadStep, Unwind, Pc
  <2> QED BY <1>2, <2>2 DEF Releases
<1>6. ASSUME NEW t \in Id, NEW b \in Id,
             \/ EndErase(t) \/ EndClose(t, b) \/ EndTellStarter(t)
             \/ EndMark(t) \/ EndReport(t) \/ EndFinish(t)
      PROVE CallsInv'
  <2>1. \A u \in Id : Pc(u)' = Pc(u) \/ Pc(u)' \in {"close", "mark", "report", "done"}
    BY <1>6, EndsStep DEF Epilogue, Pc
  <2> QED BY <1>2, <2>1 DEF Releases
<1>7. ASSUME World PROVE CallsInv'
  <2>1. \A u \in Id : Pc(u)' = Pc(u) \/ Pc(u)' \in {"world_join", "world_wait", "gone"}
    BY <1>7, WorldGoesOn, WorldPlaces DEF GoesOn, Pc
  <2> QED BY <1>2, <2>1 DEF Releases
<1>8. ASSUME NEW t \in Id, Program(t) PROVE CallsInv'
  BY <1>1, <1>3, <1>4, <1>8 DEF Program, Native, MakesId
<1>9. ASSUME NEW t \in Id, Runtime(t) PROVE CallsInv'
  BY <1>1, <1>3, <1>4, <1>5, <1>6, <1>9 DEF Runtime, Native, MakesId
<1>10. ASSUME UNCHANGED vars PROVE CallsInv' BY <1>10 DEF vars, CallsInv, Pc
<1> QED BY <1>7, <1>8, <1>9, <1>10 DEF Next, Finished

LEMMA InitCalls ==
  ASSUME Init
  PROVE CallsInv
<1>1. \A t \in Id : Pc(t) \in {"run", "none"} BY DEF Init, Pc
<1> QED BY <1>1 DEF CallsInv, Releases

\* In a program in which one isolate puts actors into slots, and releases slots, a slot has
\* one actor at a time, that actor finds no mail that waited for its predecessor, and it is told
\* when the slot is released: with no condition on how that isolate's natives, the ends of the actors
\* and the sends and monitors of everybody interleave.
THEOREM OneSlotKeeper ==
  ASSUME NEW keeper,
         \A i \in Id : "spawnInto" \in Calls[i] \/ "releaseSlot" \in Calls[i] => i = keeper
  PROVE Spec => /\ [](OneActorPerSlot /\ SuccessorGetsFreshMail /\ ReleasedActorIsTold)
                /\ SlotsPassOnNothing
<1>1. Spec => []SlotsHaveOneManager
  <2>1. CallsInv => SlotsHaveOneManager BY DEF CallsInv, SlotsHaveOneManager, Releases
  <2> QED BY <2>1, InitInv, InitCalls, StepKeepsInv, StepKeepsCalls, PTL DEF Spec
<1>2. Spec => []SpawnersTakeTurns BY <1>1, ManagersTakeTurns, PTL
<1> QED BY <1>1, <1>2, OneActorInASlot, SuccessorFindsFreshMail, ReleasedActorHoldsStop, PTL
=============================================================================
