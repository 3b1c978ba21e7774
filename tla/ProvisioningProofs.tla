------------------------- MODULE ProvisioningProofs -------------------------
(***************************************************************************)
(* For any users, character ids, worlds, names, limits and processes, and  *)
(* whatever fails: types, the slot limit, and that a registration ends     *)
(* with everything or with nothing.                                        *)
(***************************************************************************)
EXTENDS Provisioning, FiniteSetTheorems, TLAPS

-----------------------------------------------------------------------------
(***************************************************************************)
(* Types.                                                                  *)
(***************************************************************************)
LEMMA InitTyped == Init => TypeOK
<1> SUFFICES ASSUME Init PROVE TypeOK
  OBVIOUS
<1>1. Nothing \in Job /\ Nothing.pc = "idle"
  BY DEF Nothing, Job, Pcs, Kinds
<1> QED
  BY <1>1 DEF Init, TypeOK

JobsTyped ==
  /\ job \in [Procs -> Job]
  /\ \A p \in Procs : job[p].pc \in {"seed", "snapshot", "undoChar"} => job[p].found \in Ids

TablesTyped ==
  /\ limit \in SlotLimits
  /\ accounts \in [Users -> {"none", "active", "tombstoned"}]
  /\ rows \in [Ids -> Row \cup {NULL}]
  /\ used \subseteq Ids

LEMMA JobUpdated ==
  ASSUME JobsTyped, NEW p \in Procs, NEW j \in Job, job' = [job EXCEPT ![p] = j],
         j.pc \in {"seed", "snapshot", "undoChar"} => j.found \in Ids
  PROVE  JobsTyped'
  BY DEF JobsTyped

LEMMA JobsStep ==
  ASSUME JobsTyped, NEW p \in Procs, Step(p)
  PROVE  JobsTyped'
<1> USE DEF JobsTyped, Job, Pcs, Kinds
<1>1. ASSUME NEW n \in Names, StartGuest(p, n) PROVE JobsTyped'
  BY <1>1, DefaultIsWorld DEF StartGuest, Nothing
<1>2. ASSUME NEW n \in Names, GenerateName(p, n) PROVE JobsTyped'
  BY <1>2 DEF GenerateName
<1>3. ASSUME NEW u \in Users, CreateGuest(p, u) PROVE JobsTyped'
  <2> DEFINE j == [job[p] EXCEPT !.pc = "count", !.user = u]
  <2>1. j \in Job /\ (j.pc \in {"seed", "snapshot", "undoChar"} => j.found \in Ids)
    BY <1>3 DEF CreateGuest
  <2>2. job' = [job EXCEPT ![p] = j]
    BY <1>3 DEF CreateGuest
  <2> QED
    BY <2>1, <2>2, JobUpdated
<1>4. ASSUME NEW u \in Users, NEW w \in Worlds, StartGenerated(p, u, w) PROVE JobsTyped'
  BY <1>4 DEF StartGenerated, Nothing
<1>5. ASSUME NEW c \in Ids, InsertCharacter(p, c) PROVE JobsTyped'
  <2> DEFINE j == [job[p] EXCEPT !.pc = "lookup", !.mine = c]
  <2>1. j \in Job /\ (j.pc \in {"seed", "snapshot", "undoChar"} => j.found \in Ids)
    BY <1>5 DEF InsertCharacter
  <2>2. job' = [job EXCEPT ![p] = j]
    BY <1>5 DEF InsertCharacter
  <2> QED
    BY <2>1, <2>2, JobUpdated
<1>6. ASSUME NEW c \in Ids, LookUp(p, c) PROVE JobsTyped'
  <2> DEFINE j == [job[p] EXCEPT !.pc = "seed", !.found = c]
  <2>1. j \in Job /\ (j.pc \in {"seed", "snapshot", "undoChar"} => j.found \in Ids)
    BY <1>6 DEF LookUp
  <2>2. job' = [job EXCEPT ![p] = j]
    BY <1>6 DEF LookUp
  <2> QED
    BY <2>1, <2>2, JobUpdated
<1>7. CASE NoGuestName(p) \/ NoName(p) \/ DeleteRefused(p)
  BY <1>7 DEF NoGuestName, NoName, DeleteRefused, Finish
<1>8. CASE CountSlots(p) \/ NameCollides(p)
  BY <1>8 DEF CountSlots, NameCollides, Refused, Goto
<1>9. CASE LookUpFails(p)
  BY <1>9 DEF LookUpFails, Goto, Finish
<1>10. CASE Seed(p) \/ SeedFails(p) \/ ReadSnapshot(p)
  <2>1. ASSUME NEW r \in {"created", "failed", "error"}, Finish(p, r) PROVE JobsTyped'
    <3> DEFINE j == [job[p] EXCEPT !.pc = "idle", !.result = r]
    <3>1. j \in Job /\ j.pc = "idle"
      OBVIOUS
    <3>2. job' = [job EXCEPT ![p] = j]
      BY <2>1 DEF Finish
    <3> QED
      BY <3>1, <3>2, JobUpdated
  <2>2. ASSUME NEW pc \in {"snapshot", "undoChar"}, Goto(p, pc), job[p].found \in Ids PROVE JobsTyped'
    BY <2>2 DEF Goto
  <2> QED
    BY <1>10, <2>1, <2>2 DEF Seed, SeedFails, ReadSnapshot
<1>11. CASE UndoCharacter(p) \/ UndoUser(p)
  BY <1>11 DEF UndoCharacter, UndoUser, Goto, Finish
<1>12. CASE DatabaseError(p)
  <2> DEFINE pc == IF job[p].pc = "undoChar" THEN "undoUser" ELSE "idle"
             j  == [job[p] EXCEPT !.pc = pc, !.result = "error"]
  <2>1. pc \in Pcs /\ pc \notin {"seed", "snapshot", "undoChar"}
    OBVIOUS
  <2>2. job' = [job EXCEPT ![p] = j]
    BY <1>12 DEF DatabaseError
  <2>3. j \in Job /\ j.pc = pc
    BY <2>1
  <2> QED
    BY <2>1, <2>2, <2>3, JobUpdated
<1>13. ASSUME UNCHANGED job PROVE JobsTyped'
  BY <1>13
<1> QED
  BY <1>1, <1>2, <1>3, <1>4, <1>5, <1>6, <1>7, <1>8, <1>9, <1>10, <1>11, <1>12, <1>13
     DEF Step, Tombstone, DeleteCharacter

\* What a process at work has put into its job.
JobsKnow ==
  \A p \in Procs : job[p].pc # "idle" =>
    /\ p \in Registrars
    /\ job[p].world \in Worlds
    /\ job[p].pc # "account" => job[p].user \in Users
    /\ job[p].pc # "name" => job[p].name \in Names

LEMMA JobsKnowStep ==
  ASSUME JobsTyped, JobsKnow, NEW p \in Procs, Step(p)
  PROVE  JobsKnow'
<1>1. \A q \in Procs \ {p} : job'[q] = job[q]
  BY DEF JobsTyped, Step, StartGuest, GenerateName, CreateGuest, StartGenerated, InsertCharacter,
         LookUp, Tombstone, DeleteCharacter, NoGuestName, NoName, CountSlots, NameCollides,
         DeleteRefused, LookUpFails, Seed, SeedFails, ReadSnapshot, UndoCharacter, UndoUser,
         DatabaseError, Refused, Goto, Finish
<1> SUFFICES ASSUME job'[p].pc # "idle"
             PROVE  /\ p \in Registrars
                    /\ job'[p].world \in Worlds
                    /\ job'[p].pc # "account" => job'[p].user \in Users
                    /\ job'[p].pc # "name" => job'[p].name \in Names
  BY <1>1 DEF JobsKnow
<1> USE DEF JobsTyped, JobsKnow, Job
<1>2. CASE \E n \in Names : StartGuest(p, n)
  <2> PICK n \in Names : StartGuest(p, n)
    BY <1>2
  <2>1. job'[p] = [Nothing EXCEPT !.pc = "account", !.kind = "guest", !.name = n,
                                  !.world = DefaultWorld]
    BY DEF StartGuest
  <2> QED
    BY <2>1, DefaultIsWorld DEF StartGuest, Nothing
<1>3. CASE \E n \in Names : GenerateName(p, n)
  <2> PICK n \in Names : GenerateName(p, n)
    BY <1>3
  <2>1. job'[p] = [job[p] EXCEPT !.pc = "count", !.name = n, !.tries = @ + 1]
    BY DEF GenerateName
  <2> QED
    BY <2>1 DEF GenerateName
<1>4. CASE \E u \in Users : CreateGuest(p, u)
  <2> PICK u \in Users : CreateGuest(p, u)
    BY <1>4
  <2>1. job'[p] = [job[p] EXCEPT !.pc = "count", !.user = u]
    BY DEF CreateGuest
  <2> QED
    BY <2>1 DEF CreateGuest
<1>5. CASE \E u \in Users, w \in Worlds : StartGenerated(p, u, w)
  <2> PICK u \in Users, w \in Worlds : StartGenerated(p, u, w)
    BY <1>5
  <2>1. job'[p] = [Nothing EXCEPT !.pc = "name", !.kind = "generated", !.user = u, !.world = w]
    BY DEF StartGenerated
  <2> QED
    BY <2>1 DEF StartGenerated, Nothing
<1>6. CASE \E c \in Ids : InsertCharacter(p, c) \/ LookUp(p, c)
  BY <1>6 DEF InsertCharacter, LookUp
<1>7. CASE CountSlots(p) \/ NameCollides(p)
  BY <1>7 DEF CountSlots, NameCollides, Refused, Goto
<1>8. CASE LookUpFails(p)
  BY <1>8 DEF LookUpFails, Goto, Finish
<1>9. CASE Seed(p) \/ SeedFails(p) \/ ReadSnapshot(p)
  BY <1>9 DEF Seed, SeedFails, ReadSnapshot, Goto, Finish
<1>10. CASE UndoCharacter(p) \/ DatabaseError(p)
  BY <1>10 DEF UndoCharacter, DatabaseError, Goto
<1>11. CASE NoGuestName(p) \/ NoName(p) \/ DeleteRefused(p) \/ UndoUser(p)
  BY <1>11 DEF NoGuestName, NoName, DeleteRefused, UndoUser, Finish
<1>12. CASE job' = job
  BY <1>12
<1> QED
  BY <1>2, <1>3, <1>4, <1>5, <1>6, <1>7, <1>8, <1>9, <1>10, <1>11, <1>12
     DEF Step, Tombstone, DeleteCharacter

LEMMA LimitStays ==
  ASSUME NEW p \in Procs, Step(p)
  PROVE  limit' = limit
  BY DEF Step, StartGuest, GenerateName, CreateGuest, StartGenerated, InsertCharacter, LookUp,
         Tombstone, DeleteCharacter, NoGuestName, NoName, CountSlots, NameCollides, DeleteRefused,
         LookUpFails, Seed, SeedFails, ReadSnapshot, UndoCharacter, UndoUser, DatabaseError, Deleted

LEMMA TablesStep ==
  ASSUME JobsTyped, JobsKnow, TablesTyped, NEW p \in Procs, Step(p)
  PROVE  TablesTyped'
<1> USE LimitStays DEF TablesTyped
<1>1. ASSUME NEW c \in Ids, InsertCharacter(p, c) PROVE TablesTyped'
  <2> DEFINE new == [world |-> job[p].world, name |-> job[p].name, owner |-> job[p].user,
                     profile |-> NULL]
  <2>1. new \in Row
    <3>1. job[p].world \in Worlds
      BY <1>1 DEF InsertCharacter, JobsKnow
    <3> QED
      BY <3>1 DEF JobsTyped, Job, Row
  <2> QED
    BY <1>1, <2>1 DEF InsertCharacter
<1>2. ASSUME NEW u, Deleted(u) PROVE TablesTyped'
  BY <1>2 DEF Deleted, Row
<1>3. CASE Seed(p)
  BY <1>3 DEF Seed, JobsTyped, Job, Row, present
<1>4. ASSUME NEW c \in Ids, Tombstone(p, c) \/ DeleteCharacter(p, c) PROVE TablesTyped'
  BY <1>4 DEF Tombstone, DeleteCharacter, Row, present
<1>5. ASSUME NEW u \in Users, CreateGuest(p, u) PROVE TablesTyped'
  BY <1>5 DEF CreateGuest
<1>6. CASE UndoCharacter(p)
  BY <1>6 DEF UndoCharacter
<1>7. CASE UNCHANGED <<accounts, rows, used>>
  BY <1>7
<1> QED
  BY <1>1, <1>2, <1>3, <1>4, <1>5, <1>6, <1>7
     DEF Step, StartGuest, GenerateName, StartGenerated, LookUp, NoGuestName, NoName, CountSlots,
         NameCollides, DeleteRefused, LookUpFails, SeedFails, ReadSnapshot, UndoUser, DatabaseError

HistoryTyped == outrun \subseteq Procs /\ crossed \subseteq Procs

Typed == JobsTyped /\ JobsKnow /\ TablesTyped /\ HistoryTyped

LEMMA TypedInvariant == Spec => []Typed
<1>1. Init => Typed
  <2> SUFFICES ASSUME Init PROVE Typed
    OBVIOUS
  <2>1. JobsKnow
    BY DEF Init, JobsKnow, Nothing
  <2> QED
    BY <2>1, InitTyped DEF TypeOK, Typed, JobsTyped, TablesTyped, HistoryTyped
<1>2. Typed /\ [Next]_vars => Typed'
  <2> SUFFICES ASSUME Typed, [Next]_vars PROVE Typed'
    OBVIOUS
  <2>1. CASE Next
    <3> PICK p \in Procs : Step(p)
      BY <2>1 DEF Next
    <3>1. HistoryTyped'
      BY <2>1 DEF Next, Observe, HistoryTyped
    <3> QED
      BY <3>1, JobsStep, JobsKnowStep, TablesStep DEF Typed
  <2>2. CASE UNCHANGED vars
    BY <2>2 DEF vars, Typed, JobsTyped, JobsKnow, TablesTyped, HistoryTyped
  <2> QED
    BY <2>1, <2>2
<1> QED
  BY <1>1, <1>2, PTL DEF Spec

\* Accounts, characters and jobs keep their types, and whoever seeds, reads back
\* or rolls back a character has looked one up.
THEOREM TypeCorrect == Spec => []TypeOK
<1>1. Typed => TypeOK
  BY DEF Typed, JobsTyped, TablesTyped, HistoryTyped, TypeOK
<1> QED
  BY <1>1, TypedInvariant, PTL

-----------------------------------------------------------------------------
(***************************************************************************)
(* The slot limit.  A process that has counted and not yet inserted is as  *)
(* good as a character: with those counted too, the bound is inductive.    *)
(***************************************************************************)
Inserting(u, w) == {p \in Procs : /\ job[p].pc = "insert"
                                  /\ job[p].user = u
                                  /\ job[p].world = w}

IdsFinite == IsFiniteSet(used) /\ present \subseteq used

SlotsOf(u, w) ==
  Owned(u, w) # {} \/ Inserting(u, w) # {} =>
    Cardinality(Owned(u, w)) + Cardinality(Inserting(u, w)) < limit[w] + Cardinality(Registrars)

Slots == \A u \in Users, w \in Worlds : SlotsOf(u, w)

LEMMA BothFinite ==
  ASSUME IdsFinite, JobsKnow, NEW u, NEW w
  PROVE  /\ IsFiniteSet(Owned(u, w)) /\ Cardinality(Owned(u, w)) \in Nat
         /\ IsFiniteSet(Inserting(u, w)) /\ Cardinality(Inserting(u, w)) \in Nat
         /\ Cardinality(Inserting(u, w)) <= Cardinality(Registrars)
         /\ Cardinality(Registrars) \in Nat
<1>1. Owned(u, w) \in SUBSET used
  BY DEF Owned, IdsFinite
<1>2. Inserting(u, w) \in SUBSET Registrars
  BY DEF Inserting, JobsKnow
<1>3. IsFiniteSet(Owned(u, w))
  BY <1>1, FS_Subset DEF IdsFinite
<1>4. IsFiniteSet(Inserting(u, w)) /\ Cardinality(Inserting(u, w)) <= Cardinality(Registrars)
  BY <1>2, FS_Subset, RegistrarsType
<1> QED
  BY <1>3, <1>4, FS_CardinalityType, RegistrarsType

\* Nothing is counted or inserted: the bound stays.
LEMMA SlotsShrink ==
  ASSUME IdsFinite, JobsKnow, NEW u \in Users, NEW w \in Worlds, SlotsOf(u, w),
         limit[w] \in Nat, limit' = limit,
         Owned(u, w)' \subseteq Owned(u, w), Inserting(u, w)' \subseteq Inserting(u, w)
  PROVE  SlotsOf(u, w)'
<1>1. /\ Cardinality(Owned(u, w)') <= Cardinality(Owned(u, w)) /\ Cardinality(Owned(u, w)') \in Nat
      /\ Cardinality(Inserting(u, w)') <= Cardinality(Inserting(u, w))
      /\ Cardinality(Inserting(u, w)') \in Nat
  BY BothFinite, FS_Subset, FS_CardinalityType
<1> QED
  BY <1>1, BothFinite DEF SlotsOf

LEMMA IdsFiniteStep ==
  ASSUME Typed, IdsFinite, NEW p \in Procs, Step(p)
  PROVE  IdsFinite'
<1>1. ASSUME NEW c \in Ids, InsertCharacter(p, c) PROVE IdsFinite'
  <2>1. present' \subseteq used' /\ used' = used \cup {c}
    BY <1>1 DEF InsertCharacter, IdsFinite, present, Typed, TablesTyped
  <2> QED
    BY <2>1, FS_AddElement DEF IdsFinite
<1>2. CASE present' \subseteq present /\ used' = used
  BY <1>2 DEF IdsFinite
<1>3. ASSUME NEW u, Deleted(u) PROVE present' \subseteq present /\ used' = used
  BY <1>3 DEF Deleted, present
<1>4. CASE Seed(p) \/ UndoCharacter(p)
  BY <1>2, <1>4 DEF Seed, UndoCharacter, present, Typed, TablesTyped
<1>5. ASSUME NEW c \in Ids, Tombstone(p, c) \/ DeleteCharacter(p, c) PROVE IdsFinite'
  BY <1>2, <1>5 DEF Tombstone, DeleteCharacter, present, Typed, TablesTyped
<1>6. CASE UNCHANGED <<rows, used>>
  BY <1>6 DEF IdsFinite, present
<1> QED
  BY <1>1, <1>2, <1>3, <1>4, <1>5, <1>6
     DEF Step, StartGuest, GenerateName, CreateGuest, StartGenerated, LookUp, NoGuestName, NoName,
         CountSlots, NameCollides, DeleteRefused, LookUpFails, SeedFails, ReadSnapshot, UndoUser,
         DatabaseError

\* Only an INSERT gives an account a character.
LEMMA OwnedShrinks ==
  ASSUME Typed, NEW p \in Procs, Step(p), \A c \in Ids : ~InsertCharacter(p, c),
         NEW u \in Users, NEW w \in Worlds
  PROVE  Owned(u, w)' \subseteq Owned(u, w)
<1>1. ASSUME NEW v, Deleted(v) PROVE Owned(u, w)' \subseteq Owned(u, w)
  <2> SUFFICES ASSUME NEW c \in Ids, c \in Owned(u, w)' PROVE c \in Owned(u, w)
    BY DEF Owned, present
  <2>1. rows'[c] # NULL /\ rows'[c].owner = u /\ rows'[c].world = w
    BY DEF Owned, present
  <2>2. CASE rows[c] # NULL /\ rows[c].owner = v
    <3>1. rows'[c] = [rows[c] EXCEPT !.owner = NULL] /\ rows[c] \in Row
      BY <1>1, <2>2 DEF Deleted, Typed, TablesTyped
    <3> QED
      BY <2>1, <3>1, NullIsOutside DEF Row
  <2>3. CASE ~(rows[c] # NULL /\ rows[c].owner = v)
    BY <1>1, <2>1, <2>3 DEF Deleted, Owned, present
  <2> QED
    BY <2>2, <2>3
<1>2. CASE Seed(p)
  BY <1>2 DEF Seed, Owned, present, Typed, TablesTyped, Row
<1>3. CASE UndoCharacter(p)
  BY <1>3 DEF UndoCharacter, Owned, present, Typed, TablesTyped
<1>4. ASSUME NEW c \in Ids, Tombstone(p, c) PROVE Owned(u, w)' \subseteq Owned(u, w)
  BY <1>4, NullIsOutside DEF Tombstone, Owned, present, Typed, TablesTyped, Row
<1>5. ASSUME NEW c \in Ids, DeleteCharacter(p, c) PROVE Owned(u, w)' \subseteq Owned(u, w)
  BY <1>5 DEF DeleteCharacter, Owned, present, Typed, TablesTyped
<1>6. CASE UNCHANGED rows
  BY <1>6 DEF Owned, present
<1> QED
  BY <1>1, <1>2, <1>3, <1>4, <1>5, <1>6
     DEF Step, StartGuest, GenerateName, CreateGuest, StartGenerated, LookUp, NoGuestName, NoName,
         CountSlots, NameCollides, DeleteRefused, LookUpFails, SeedFails, ReadSnapshot, UndoUser,
         DatabaseError

OthersStay(p) == \A q \in Procs \ {p} : job'[q] = job[q]

LEMMA JobsAreTheirOwn ==
  ASSUME Typed, NEW p \in Procs, Step(p)
  PROVE  OthersStay(p)
  BY DEF Typed, JobsTyped, OthersStay, Step, StartGuest, GenerateName, CreateGuest, StartGenerated,
         InsertCharacter, LookUp, Tombstone, DeleteCharacter, NoGuestName, NoName, CountSlots,
         NameCollides, DeleteRefused, LookUpFails, Seed, SeedFails, ReadSnapshot, UndoCharacter,
         UndoUser, DatabaseError, Refused, Goto, Finish

\* Only the count leads to an INSERT.
LEMMA OnlyTheCount ==
  ASSUME Typed, NEW p \in Procs, Step(p), ~CountSlots(p)
  PROVE  job'[p].pc # "insert" \/ job' = job
<1> USE DEF Typed, JobsTyped, Job
<1>1. ASSUME NEW n \in Names, StartGuest(p, n) PROVE job'[p].pc # "insert"
  BY <1>1 DEF StartGuest, Nothing
<1>2. ASSUME NEW n \in Names, GenerateName(p, n) PROVE job'[p].pc # "insert"
  BY <1>2 DEF GenerateName
<1>7. ASSUME NEW v \in Users, CreateGuest(p, v) PROVE job'[p].pc # "insert"
  BY <1>7 DEF CreateGuest
<1>8. ASSUME NEW v \in Users, NEW x \in Worlds, StartGenerated(p, v, x)
      PROVE  job'[p].pc # "insert"
  BY <1>8 DEF StartGenerated, Nothing
<1>3. CASE \E c \in Ids : InsertCharacter(p, c) \/ LookUp(p, c)
  BY <1>3 DEF InsertCharacter, LookUp
<1>4. CASE NameCollides(p) \/ LookUpFails(p) \/ Seed(p) \/ SeedFails(p) \/ ReadSnapshot(p)
  BY <1>4 DEF NameCollides, LookUpFails, Seed, SeedFails, ReadSnapshot, Refused, Goto, Finish
<1>5. CASE UndoCharacter(p) \/ DatabaseError(p)
  BY <1>5 DEF UndoCharacter, DatabaseError, Goto
<1>6. CASE NoGuestName(p) \/ NoName(p) \/ DeleteRefused(p) \/ UndoUser(p)
  BY <1>6 DEF NoGuestName, NoName, DeleteRefused, UndoUser, Finish
<1> QED
  BY <1>1, <1>2, <1>3, <1>4, <1>5, <1>6, <1>7, <1>8 DEF Step, Tombstone, DeleteCharacter

LEMMA InsertingShrinks ==
  ASSUME Typed, NEW p \in Procs, Step(p), ~CountSlots(p), NEW u \in Users, NEW w \in Worlds
  PROVE  Inserting(u, w)' \subseteq Inserting(u, w)
  BY OnlyTheCount, JobsAreTheirOwn DEF Inserting, OthersStay

LEMMA SlotsStep ==
  ASSUME Typed, IdsFinite, Slots, NEW p \in Procs, Step(p)
  PROVE  Slots'
<1> SUFFICES ASSUME NEW u \in Users, NEW w \in Worlds PROVE SlotsOf(u, w)'
  BY DEF Slots
<1>1. SlotsOf(u, w) /\ JobsKnow /\ JobsKnow' /\ IdsFinite'
  BY JobsKnowStep, IdsFiniteStep DEF Slots, Typed
<1>2. limit[w] \in Nat /\ limit' = limit
  BY LimitsType, LimitStays DEF Typed, TablesTyped
<1>3. CASE CountSlots(p)
  <2>1. Owned(u, w)' = Owned(u, w)
    BY <1>3 DEF CountSlots, Owned, present
  <2>2. CASE Inserting(u, w)' \subseteq Inserting(u, w)
    BY <1>1, <1>2, <2>1, <2>2, SlotsShrink
  <2>3. CASE ~(Inserting(u, w)' \subseteq Inserting(u, w))
    <3>1. job'[p].pc = "insert" /\ job'[p].user = u /\ job'[p].world = w
      BY <1>3, <2>3, JobsAreTheirOwn DEF Inserting, OthersStay
    <3>2. Cardinality(Owned(u, w)) < limit[w]
      BY <1>1, <1>2, <1>3, <3>1, BothFinite
         DEF CountSlots, Refused, Goto, Typed, JobsTyped, Job
    <3>3. Cardinality(Inserting(u, w)') <= Cardinality(Registrars) /\ Cardinality(Inserting(u, w)') \in Nat
      <4>1. Inserting(u, w)' \in SUBSET Registrars
        BY <1>1 DEF Inserting, JobsKnow
      <4> QED
        BY <4>1, FS_Subset, FS_CardinalityType, RegistrarsType
    <3> QED
      BY <1>1, <1>2, <2>1, <3>2, <3>3, BothFinite DEF SlotsOf
  <2> QED
    BY <2>2, <2>3
<1>4. ASSUME NEW c \in Ids, InsertCharacter(p, c) PROVE SlotsOf(u, w)'
  <2>1. CASE job[p].user = u /\ job[p].world = w
    <3>1. Owned(u, w)' = Owned(u, w) \cup {c}
      <4> DEFINE new == [world |-> job[p].world, name |-> job[p].name, owner |-> job[p].user,
                         profile |-> NULL]
      <4>1. rows' = [rows EXCEPT ![c] = new] /\ new.owner = u /\ new.world = w
        BY <1>4, <2>1 DEF InsertCharacter
      <4>2. new \in Row
        BY <1>4, <2>1 DEF InsertCharacter, JobsKnow, Typed, Row
      <4>3. new # NULL
        BY <4>2, NullIsOutside
      <4>4. rows'[c] = new /\ \A d \in Ids \ {c} : rows'[d] = rows[d]
        BY <4>1 DEF Typed, TablesTyped
      <4> HIDE DEF new
      <4> QED
        BY <4>1, <4>3, <4>4 DEF Owned, present
    <3>2. Inserting(u, w)' = Inserting(u, w) \ {p} /\ p \in Inserting(u, w)
      BY <1>4, <2>1 DEF InsertCharacter, Inserting, Typed, JobsTyped, Job
    <3> QED
      <4>1. Cardinality(Owned(u, w)') <= Cardinality(Owned(u, w)) + 1 /\ Cardinality(Owned(u, w)') \in Nat
        <5>1. IsFiniteSet(Owned(u, w)) /\ Cardinality(Owned(u, w)) \in Nat
          BY <1>1, BothFinite
        <5>2. Cardinality(Owned(u, w) \cup {c}) =
                IF c \in Owned(u, w) THEN Cardinality(Owned(u, w)) ELSE Cardinality(Owned(u, w)) + 1
          BY <5>1, FS_AddElement
        <5> QED
          BY <3>1, <5>1, <5>2
      <4>2. Cardinality(Inserting(u, w)') = Cardinality(Inserting(u, w)) - 1
        BY <1>1, <3>2, BothFinite, FS_RemoveElement
      <4>3. Inserting(u, w) # {}
        BY <3>2
      <4> QED
        BY <1>1, <1>2, <4>1, <4>2, <4>3, BothFinite DEF SlotsOf
  <2>2. CASE ~(job[p].user = u /\ job[p].world = w)
    <3>1. Owned(u, w)' \subseteq Owned(u, w)
      BY <1>4, <2>2, NullIsOutside DEF InsertCharacter, Owned, present, Typed, TablesTyped, Row
    <3>2. Inserting(u, w)' \subseteq Inserting(u, w)
      BY <1>4, <2>2 DEF InsertCharacter, Inserting, Typed, JobsTyped, Job
    <3> QED
      BY <1>1, <1>2, <3>1, <3>2, SlotsShrink
  <2> QED
    BY <2>1, <2>2
<1>5. CASE ~CountSlots(p) /\ \A c \in Ids : ~InsertCharacter(p, c)
  BY <1>1, <1>2, <1>5, OwnedShrinks, InsertingShrinks, SlotsShrink
<1> QED
  BY <1>3, <1>4, <1>5

\* An INSERT adds one character to one account in one world.
LEMMA OwnedGrowsByOne ==
  ASSUME Typed, IdsFinite, NEW p \in Procs, Step(p), NEW u \in Users, NEW w \in Worlds
  PROVE  /\ Cardinality(Owned(u, w)') <= Cardinality(Owned(u, w)) + 1
         /\ Cardinality(Owned(u, w)) \in Nat /\ Cardinality(Owned(u, w)') \in Nat
<1>1. IsFiniteSet(Owned(u, w)) /\ Cardinality(Owned(u, w)) \in Nat
  BY BothFinite DEF Typed
<1>2. CASE \A c \in Ids : ~InsertCharacter(p, c)
  BY <1>1, <1>2, OwnedShrinks, FS_Subset, FS_CardinalityType
<1>3. ASSUME NEW c \in Ids, InsertCharacter(p, c)
      PROVE  /\ Cardinality(Owned(u, w)') <= Cardinality(Owned(u, w)) + 1
             /\ Cardinality(Owned(u, w)') \in Nat
  <2>1. \A d \in Ids \ {c} : rows'[d] = rows[d]
    BY <1>3 DEF InsertCharacter, Typed, TablesTyped
  <2>2. Owned(u, w)' \subseteq Owned(u, w) \cup {c}
    BY <2>1 DEF Owned, present
  <2>3. /\ IsFiniteSet(Owned(u, w) \cup {c})
        /\ Cardinality(Owned(u, w) \cup {c}) <= Cardinality(Owned(u, w)) + 1
        /\ Cardinality(Owned(u, w) \cup {c}) \in Nat
    <3>1. /\ IsFiniteSet(Owned(u, w) \cup {c})
          /\ Cardinality(Owned(u, w) \cup {c}) =
               IF c \in Owned(u, w) THEN Cardinality(Owned(u, w)) ELSE Cardinality(Owned(u, w)) + 1
      BY <1>1, FS_AddElement
    <3> QED
      BY <1>1, <3>1
  <2>4. IsFiniteSet(Owned(u, w)')
        /\ Cardinality(Owned(u, w)') <= Cardinality(Owned(u, w) \cup {c})
    BY <2>2, <2>3, FS_Subset
  <2>5. Cardinality(Owned(u, w)') \in Nat
    BY <2>4, FS_CardinalityType
  <2> QED
    BY <1>1, <2>3, <2>4, <2>5
<1> QED
  BY <1>1, <1>2, <1>3

\* Whoever is about to insert, and saw no INSERT since it counted, is below the limit.
Counted ==
  \A p \in Procs : job[p].pc = "insert" /\ p \notin outrun =>
    Cardinality(Owned(job[p].user, job[p].world)) < limit[job[p].world]

\* Between the count and the INSERT a job keeps its account and its world.
LEMMA SlotStays ==
  ASSUME Typed, NEW p \in Procs, Step(p), NEW q \in Procs, job[q].pc \in {"count", "insert"}
  PROVE  job'[q].user = job[q].user /\ job'[q].world = job[q].world
<1>1. CASE q # p
  BY <1>1, JobsAreTheirOwn DEF OthersStay
<1>2. CASE q = p
  <2> USE <1>2 DEF Typed, JobsTyped, Job
  <2>1. CASE CountSlots(p) \/ NameCollides(p)
    BY <2>1 DEF CountSlots, NameCollides, Refused, Goto
  <2>2. ASSUME NEW c \in Ids, InsertCharacter(p, c)
        PROVE  job'[q].user = job[q].user /\ job'[q].world = job[q].world
    BY <2>2 DEF InsertCharacter
  <2>3. CASE DatabaseError(p)
    BY <2>3 DEF DatabaseError
  <2> QED
    BY <2>1, <2>2, <2>3
       DEF Step, StartGuest, GenerateName, CreateGuest, StartGenerated, LookUp, Tombstone,
           DeleteCharacter, NoGuestName, NoName, DeleteRefused, LookUpFails, Seed, SeedFails,
           ReadSnapshot, UndoCharacter, UndoUser
<1> QED
  BY <1>1, <1>2

LEMMA CountedStep ==
  ASSUME Typed, IdsFinite, Counted, NEW p \in Procs, Step(p), Observe
  PROVE  Counted'
<1> SUFFICES ASSUME NEW q \in Procs, job'[q].pc = "insert", q \notin outrun'
             PROVE  Cardinality(Owned(job[q].user, job[q].world)') < limit'[job'[q].world]
  BY DEF Counted
<1>1. job[q].pc \in {"count", "insert"}
  <2>1. CASE CountSlots(p) /\ q = p
    BY <2>1 DEF CountSlots
  <2>2. CASE q # p
    BY <2>2, JobsAreTheirOwn DEF OthersStay
  <2>3. CASE ~CountSlots(p) /\ q = p
    BY <2>3, OnlyTheCount
  <2> QED
    BY <2>1, <2>2, <2>3
<1>2. job'[q].user = job[q].user /\ job'[q].world = job[q].world
  BY <1>1, SlotStays
<1>3. job[q].user \in Users /\ job[q].world \in Worlds
  BY <1>1 DEF Typed, JobsKnow
<1>4. Owned(job[q].user, job[q].world)' \subseteq Owned(job[q].user, job[q].world)
  BY DEF Observe
<1>5. q \notin outrun
  BY DEF Observe
<1>6. limit' = limit /\ limit[job[q].world] \in Nat
  BY <1>3, LimitStays, LimitsType DEF Typed, TablesTyped
<1>7. /\ IsFiniteSet(Owned(job[q].user, job[q].world))
      /\ Cardinality(Owned(job[q].user, job[q].world)) \in Nat
  BY <1>3, BothFinite DEF Typed
<1>8. /\ Cardinality(Owned(job[q].user, job[q].world)') <= Cardinality(Owned(job[q].user, job[q].world))
      /\ Cardinality(Owned(job[q].user, job[q].world)') \in Nat
  BY <1>4, <1>7, FS_Subset, FS_CardinalityType
<1>9. Cardinality(Owned(job[q].user, job[q].world)) < limit[job[q].world]
  <2>1. CASE job[q].pc = "insert"
    BY <1>5, <2>1 DEF Counted
  <2>2. CASE job[q].pc = "count"
    <3>1. CountSlots(p) /\ q = p
      BY <2>2, OnlyTheCount, JobsAreTheirOwn DEF OthersStay
    <3> QED
      BY <1>6, <1>7, <3>1 DEF CountSlots, Refused, Goto, Typed, JobsTyped, Job
  <2> QED
    BY <1>1, <2>1, <2>2
<1> QED
  BY <1>2, <1>6, <1>7, <1>8, <1>9

\* For any number of processes: an INSERT leads above the limit only when another one
\* came between it and its count, and nobody ever owns more characters in a world
\* than its limit and one for each further process that serves creations.
THEOREM SlotsHold == Spec => SlotOvershoot
<1>1. Init => IdsFinite /\ Slots /\ Counted
  <2> SUFFICES ASSUME Init PROVE IdsFinite /\ Slots /\ Counted
    OBVIOUS
  <2>1. present = {} /\ used = {}
    BY DEF Init, present
  <2>2. \A u \in Users, w \in Worlds : Owned(u, w) = {} /\ Inserting(u, w) = {}
    BY <2>1 DEF Init, Owned, Inserting, Nothing
  <2>3. Counted
    BY DEF Init, Nothing, Counted
  <2> QED
    BY <2>1, <2>2, <2>3, FS_EmptySet DEF IdsFinite, Slots, SlotsOf
<1>2. Typed /\ IdsFinite /\ Slots /\ Counted /\ [Next]_vars => (IdsFinite /\ Slots /\ Counted)'
  <2> SUFFICES ASSUME Typed, IdsFinite, Slots, Counted, [Next]_vars
               PROVE  (IdsFinite /\ Slots /\ Counted)'
    OBVIOUS
  <2>1. CASE Next
    BY <2>1, IdsFiniteStep, SlotsStep, CountedStep DEF Next
  <2>2. CASE UNCHANGED vars
    BY <2>2 DEF vars, IdsFinite, Slots, SlotsOf, Counted, Owned, Inserting, present
  <2> QED
    BY <2>1, <2>2
<1>3. Typed /\ Typed' /\ IdsFinite /\ Slots /\ Counted /\ (IdsFinite /\ Slots)' /\ [Next]_vars =>
        [\A p \in Procs :
           LET u == job[p].user
               w == job[p].world
           IN job[p].pc = "insert" /\ job'[p].pc = "lookup"
                /\ Cardinality(Owned(u, w)') > limit[w] =>
                  /\ p \in outrun
                  /\ Cardinality(Owned(u, w)') < limit[w] + Cardinality(Registrars)]_vars
  <2> SUFFICES ASSUME Typed, Typed', IdsFinite, Slots, Counted, (IdsFinite /\ Slots)', Next,
                      NEW p \in Procs, job[p].pc = "insert", job'[p].pc = "lookup",
                      Cardinality(Owned(job[p].user, job[p].world)') > limit[job[p].world]
               PROVE  /\ p \in outrun
                      /\ Cardinality(Owned(job[p].user, job[p].world)')
                           < limit[job[p].world] + Cardinality(Registrars)
    OBVIOUS
  <2> PICK r \in Procs : Step(r)
    BY DEF Next
  <2>1. job[p].user \in Users /\ job[p].world \in Worlds
    BY DEF Typed, JobsKnow
  <2> PICK u \in Users, w \in Worlds : job[p].user = u /\ job[p].world = w
    BY <2>1
  <2>2. job'[p].user = u /\ job'[p].world = w
    BY SlotStays
  <2>3. limit' = limit /\ limit[w] \in Nat
    BY LimitStays, LimitsType DEF Typed, TablesTyped
  <2>4. Owned(job[p].user, job[p].world)' = Owned(u, w)' /\ Owned(job[p].user, job[p].world) = Owned(u, w)
    BY <2>2 DEF Owned
  <2>5. /\ Cardinality(Owned(u, w)') > limit[w]
        /\ Cardinality(Owned(u, w)') <= Cardinality(Owned(u, w)) + 1
        /\ Cardinality(Owned(u, w)) \in Nat /\ Cardinality(Owned(u, w)') \in Nat
    BY <2>4, OwnedGrowsByOne
  <2>6. p \in outrun
    <3>1. p \notin outrun => Cardinality(Owned(u, w)) < limit[w]
      BY <2>4 DEF Counted
    <3> QED
      BY <2>3, <2>5, <3>1
  <2>7. Cardinality(Owned(u, w)') < limit[w] + Cardinality(Registrars)
    <3>0. Cardinality(Owned(u, w)') # 0
      BY <2>3, <2>5
    <3>1. Owned(u, w)' # {}
      BY <3>0, FS_EmptySet
    <3>2. Cardinality(Owned(u, w)') + Cardinality(Inserting(u, w)') < limit[w] + Cardinality(Registrars)
      BY <2>3, <3>1 DEF Slots, SlotsOf
    <3>3. Inserting(u, w)' \in SUBSET Registrars
      BY DEF Inserting, Typed, JobsKnow
    <3>4. Cardinality(Inserting(u, w)') \in Nat /\ Cardinality(Registrars) \in Nat
      BY <3>3, FS_Subset, FS_CardinalityType, RegistrarsType
    <3> QED
      BY <2>3, <2>5, <3>2, <3>4
  <2> QED
    BY <2>4, <2>6, <2>7
<1> QED
  BY <1>1, <1>2, <1>3, TypedInvariant, PTL DEF Spec, SlotOvershoot

-----------------------------------------------------------------------------
(***************************************************************************)
(* Registration.  While no other process has its name at work, only        *)
(* administrators touch the character of a guest: the name it found free   *)
(* stays free until its own INSERT, the lookup returns its own row, and    *)
(* no other job has looked that row up.                                    *)
(***************************************************************************)
\* The row job j inserted is as j made it, unless an administrator took it.
HasRow(j, profile) ==
  \/ rows[j.mine] = [world |-> DefaultWorld, name |-> j.name, owner |-> j.user, profile |-> profile]
  \/ TakenAway(j.mine)

KeepsName(j) == TakenAway(j.mine) \/ rows[j.mine].name = j.name

BeforeRow == {"account", "count", "insert", "refused"}
AfterRow  == {"lookup", "seed", "snapshot", "undoChar", "undoUser"}

GuestOK(p) ==
  LET j == job[p]
  IN j.kind = "guest" /\ j.pc # "idle" =>
       /\ j.pc \in BeforeRow \cup AfterRow
       /\ j.world = DefaultWorld
       /\ IF j.pc = "account" THEN j.user = NULL ELSE accounts[j.user] = "active"
       /\ j.pc \in BeforeRow => j.mine = NULL
       /\ j.pc \in {"account", "count", "insert"} => Named(j.name) = {}
       /\ j.pc \in AfterRow => j.mine \in Ids
       /\ j.pc = "lookup" => Named(j.name) \subseteq {j.mine}
       /\ j.pc \in {"lookup", "seed"} => HasRow(j, NULL)
       /\ j.pc = "snapshot" => HasRow(j, j.mine)
       /\ j.pc \in {"seed", "snapshot", "undoChar"} => j.found = j.mine
       /\ j.pc \in {"undoChar", "undoUser"} => KeepsName(j)
       /\ j.pc = "undoUser" /\ j.result # "error" => TakenAway(j.mine)

\* Another process may know the row neither by its name nor by its id.
Alone(p) ==
  \A q \in Procs \ {p} :
    /\ job[q].pc # "idle" => job[q].name # job[p].name
    /\ job[q].found # NULL => job[q].found # job[p].mine

Guests ==
  \A p \in Procs :
    job[p].kind = "guest" /\ job[p].pc # "idle" /\ p \notin crossed => GuestOK(p) /\ Alone(p)

\* Of every guest, alone or not: nobody else registers for its account.
HasAccount(p) == job[p].kind = "guest" /\ job[p].pc \notin {"idle", "account"}

Companions ==
  /\ \A p \in Procs : job[p].pc \in {"account", "refused", "snapshot", "undoChar", "undoUser"} =>
                        job[p].kind = "guest"
  /\ \A p \in Procs : job[p].pc # "idle" => job[p].kind # "none"
  /\ \A p \in Procs : HasAccount(p) => accounts[job[p].user] = "active"
  /\ \A p, q \in Procs : HasAccount(p) /\ HasAccount(q) /\ p # q => job[p].user # job[q].user
  /\ \A p \in Procs : {job[p].mine, job[p].found} \subseteq used \cup {NULL}

\* What RegistrationAllOrNothing says of process p when it is alone.
Outcome(p) ==
  job[p].kind = "guest" /\ job[p].pc # "idle" /\ job'[p].pc = "idle" =>
    \/ job'[p].result = "created" /\ Complete(job[p])'
    \/ job'[p].result = "failed" /\ NothingLeft(job[p])'
    \/ job'[p].result = "error"

LEMMA GotoFields ==
  ASSUME Typed, NEW p \in Procs, NEW pc, Goto(p, pc)
  PROVE  /\ job'[p].pc = pc
         /\ job'[p].result = job[p].result
         /\ job'[p].kind = job[p].kind
         /\ job'[p].user = job[p].user
         /\ job'[p].world = job[p].world
         /\ job'[p].name = job[p].name
         /\ job'[p].mine = job[p].mine
         /\ job'[p].found = job[p].found
  BY DEF Goto, Typed, JobsTyped, Job

LEMMA FinishFields ==
  ASSUME Typed, NEW p \in Procs, NEW r, Finish(p, r)
  PROVE  /\ job'[p].pc = "idle"
         /\ job'[p].result = r
         /\ job'[p].kind = job[p].kind
         /\ job'[p].user = job[p].user
         /\ job'[p].name = job[p].name
         /\ job'[p].mine = job[p].mine
         /\ job'[p].found = job[p].found
  BY DEF Finish, Typed, JobsTyped, Job

\* Deleting the account of a job does not bring back a character.
LEMMA DeletedLeaves ==
  ASSUME Typed, NEW u \in Users, NEW c \in Ids, Deleted(u)
  PROVE  /\ accounts'[u] = "tombstoned"
         /\ TakenAway(c) => TakenAway(c)'
  BY NullIsOutside DEF Deleted, TakenAway, Typed, TablesTyped, Row

\* The step of a job keeps what is known of it, and leaves what it promises.
LEMMA JobStep ==
  ASSUME Typed, NEW p \in Procs, GuestOK(p), Step(p),
         \A c \in Ids : ~Tombstone(p, c) /\ ~DeleteCharacter(p, c)
  PROVE  GuestOK(p)' /\ Outcome(p)
<1> DEFINE Good == GuestOK(p)' /\ Outcome(p)
<1>0. GuestOK(p) /\ job[p] \in Job
  BY DEF Typed, JobsTyped
<1>k. /\ job[p].pc # "idle" /\ job[p].pc # "account" => job[p].user \in Users
      /\ job[p].pc # "idle" /\ job[p].pc # "name" => job[p].name \in Names
  BY DEF Typed, JobsKnow
<1>g. CASE job[p].kind # "guest" /\ job'[p].kind = job[p].kind
  BY <1>g DEF GuestOK, Outcome
<1>1. ASSUME NEW n \in Names, StartGuest(p, n) PROVE Good
  <2>1. job'[p] = [Nothing EXCEPT !.pc = "account", !.kind = "guest", !.name = n,
                                  !.world = DefaultWorld]
    BY <1>1 DEF StartGuest, Typed, JobsTyped
  <2>2. Named(n)' = {}
    BY <1>1 DEF StartGuest, Named, present
  <2> QED
    BY <1>1, <2>1, <2>2 DEF StartGuest, Nothing, GuestOK, Outcome, BeforeRow, AfterRow
<1>2. ASSUME NEW u \in Users, CreateGuest(p, u) PROVE Good
  <2>1. job'[p] = [job[p] EXCEPT !.pc = "count", !.user = u] /\ accounts'[u] = "active"
    BY <1>2 DEF CreateGuest, Typed, JobsTyped, TablesTyped
  <2>2. /\ job'[p].pc = "count" /\ job'[p].user = u /\ job'[p].kind = job[p].kind
        /\ job'[p].name = job[p].name /\ job'[p].world = job[p].world
        /\ job'[p].mine = job[p].mine
    BY <1>0, <2>1 DEF Job
  <2>3. CASE job[p].kind = "guest"
    <3>1. job[p].world = DefaultWorld /\ job[p].mine = NULL /\ Named(job[p].name) = {}
      BY <1>0, <1>2, <2>3 DEF CreateGuest, GuestOK, BeforeRow
    <3>2. \A n : Named(n)' = Named(n)
      BY <1>2 DEF CreateGuest, Named, present
    <3> QED
      BY <2>1, <2>2, <3>1, <3>2 DEF GuestOK, Outcome, BeforeRow, AfterRow
  <2> QED
    BY <1>g, <2>2, <2>3
<1>3. CASE NoGuestName(p)
  <2>1. /\ job'[p].pc = "idle" /\ job'[p].result = "failed"
        /\ job'[p].user = job[p].user /\ job'[p].mine = job[p].mine
    BY <1>3, FinishFields DEF NoGuestName
  <2>2. job[p].kind = "guest" => job[p].user = NULL /\ job[p].mine = NULL
    BY <1>0, <1>3 DEF NoGuestName, GuestOK, BeforeRow
  <2> QED
    BY <2>1, <2>2 DEF GuestOK, Outcome, NothingLeft
<1>4. ASSUME NEW u \in Users, NEW w \in Worlds, StartGenerated(p, u, w) PROVE Good
  <2>1. job'[p] = [Nothing EXCEPT !.pc = "name", !.kind = "generated", !.user = u, !.world = w]
    BY <1>4 DEF StartGenerated, Typed, JobsTyped
  <2> QED
    BY <1>4, <2>1 DEF StartGenerated, Nothing, GuestOK, Outcome
<1>5. CASE (\E n \in Names : GenerateName(p, n)) \/ NoName(p)
  <2>1. job[p].kind # "guest"
    BY <1>0, <1>5 DEF GenerateName, NoName, GuestOK, BeforeRow, AfterRow
  <2>2. job'[p].kind = job[p].kind
    <3>1. CASE NoName(p)
      BY <3>1, FinishFields DEF NoName
    <3>2. ASSUME NEW n \in Names, GenerateName(p, n) PROVE job'[p].kind = job[p].kind
      BY <3>2 DEF GenerateName, Typed, JobsTyped, Job
    <3> QED
      BY <1>5, <3>1, <3>2
  <2> QED
    BY <1>g, <2>1, <2>2
<1>6. CASE CountSlots(p) \/ NameCollides(p)
  <2>1. UNCHANGED <<accounts, rows>> /\ \A n : Named(n)' = Named(n)
    BY <1>6 DEF CountSlots, NameCollides, Named, present
  <2>2. PICK pc \in {"insert", "name", "refused"} :
          Goto(p, pc) /\ (job[p].kind = "guest" => pc # "name")
    <3>1. Goto(p, "insert") \/ Refused(p)
      BY <1>6 DEF CountSlots, NameCollides
    <3>2. CASE job[p].kind = "guest"
      BY <3>1, <3>2 DEF Refused
    <3>3. CASE job[p].kind # "guest"
      BY <3>1, <3>3 DEF Refused
    <3> QED
      BY <3>2, <3>3
  <2>3. job[p].pc \in {"count", "insert"}
    BY <1>6 DEF CountSlots, NameCollides
  <2>4. CASE job[p].kind = "guest"
    <3>1. /\ job'[p].pc = pc
          /\ job'[p].user = job[p].user /\ job'[p].world = job[p].world
          /\ job'[p].name = job[p].name /\ job'[p].mine = job[p].mine
      BY <2>2, GotoFields
    <3>2. pc \in {"insert", "refused"}
      BY <2>2, <2>4
    <3>3. /\ job[p].world = DefaultWorld /\ accounts[job[p].user] = "active"
          /\ job[p].mine = NULL /\ Named(job[p].name) = {}
      BY <1>0, <2>3, <2>4 DEF GuestOK, BeforeRow
    <3> QED
      BY <2>1, <3>1, <3>2, <3>3 DEF GuestOK, Outcome, BeforeRow, AfterRow
  <2>5. job'[p].kind = job[p].kind
    BY <2>2, GotoFields
  <2> QED
    BY <1>g, <2>4, <2>5
<1>7. ASSUME NEW c \in Ids, InsertCharacter(p, c) PROVE Good
  <2> DEFINE new == [world |-> job[p].world, name |-> job[p].name, owner |-> job[p].user,
                     profile |-> NULL]
  <2>1. job'[p] = [job[p] EXCEPT !.pc = "lookup", !.mine = c]
    BY <1>7 DEF InsertCharacter, Typed, JobsTyped
  <2>2. rows'[c] = new /\ \A d \in Ids \ {c} : rows'[d] = rows[d]
    BY <1>7 DEF InsertCharacter, Typed, TablesTyped
  <2>3. CASE job[p].kind = "guest"
    <3>1. Named(job[p].name) = {} /\ job[p].world = DefaultWorld /\ accounts[job[p].user] = "active"
      BY <1>0, <1>7, <2>3 DEF InsertCharacter, GuestOK
    <3>2. \A d \in Ids : rows'[d] # NULL /\ rows'[d].name = job[p].name => d = c
      BY <2>2, <3>1 DEF Named, present
    <3>3. /\ job'[p].pc = "lookup" /\ job'[p].mine = c /\ job'[p].user = job[p].user
          /\ job'[p].name = job[p].name /\ job'[p].world = job[p].world
      BY <2>1 DEF Typed, JobsTyped, Job
    <3>4. accounts' = accounts
      BY <1>7 DEF InsertCharacter
    <3> QED
      BY <2>2, <3>1, <3>2, <3>3, <3>4
         DEF GuestOK, Outcome, BeforeRow, AfterRow, HasRow, Named, present
  <2>4. job'[p].kind = job[p].kind
    BY <2>1 DEF Typed, JobsTyped, Job
  <2> QED
    BY <1>g, <2>3, <2>4
<1>8. CASE DeleteRefused(p)
  <2>1. /\ job'[p].pc = "idle" /\ job'[p].result = "failed" /\ job[p].user \in Users
        /\ job'[p].user = job[p].user /\ job'[p].mine = job[p].mine
    BY <1>8, <1>k, FinishFields DEF DeleteRefused
  <2>2. accounts'[job[p].user] = "tombstoned"
    BY <1>8, <2>1 DEF DeleteRefused, Deleted, Typed, TablesTyped
  <2>3. job[p].kind = "guest" => job[p].mine = NULL
    BY <1>0, <1>8 DEF DeleteRefused, GuestOK, BeforeRow
  <2> QED
    BY <2>1, <2>2, <2>3 DEF GuestOK, Outcome, NothingLeft
<1>9. ASSUME NEW c \in Ids, LookUp(p, c) PROVE Good
  <2>1. job'[p] = [job[p] EXCEPT !.pc = "seed", !.found = c]
    BY <1>9 DEF LookUp, Typed, JobsTyped
  <2>2. /\ job'[p].pc = "seed" /\ job'[p].found = c /\ job'[p].user = job[p].user
        /\ job'[p].name = job[p].name /\ job'[p].world = job[p].world
        /\ job'[p].mine = job[p].mine /\ job'[p].kind = job[p].kind
    BY <2>1 DEF Typed, JobsTyped, Job
  <2>3. CASE job[p].kind = "guest"
    <3>1. /\ job[p].world = DefaultWorld /\ accounts[job[p].user] = "active"
          /\ job[p].mine \in Ids /\ c = job[p].mine /\ HasRow(job[p], NULL)
      BY <1>0, <1>9, <2>3 DEF LookUp, GuestOK, AfterRow
    <3>2. UNCHANGED <<accounts, rows>>
      BY <1>9 DEF LookUp
    <3> QED
      BY <2>2, <3>1, <3>2 DEF GuestOK, Outcome, BeforeRow, AfterRow, HasRow, TakenAway
  <2> QED
    BY <1>g, <2>2, <2>3
<1>10. CASE LookUpFails(p)
  <2>1. CASE job[p].kind = "guest"
    <3>1. Goto(p, "undoUser") /\ UNCHANGED <<accounts, rows>> /\ Named(job[p].name) = {}
      BY <1>10, <2>1 DEF LookUpFails
    <3>2. /\ job[p].world = DefaultWorld /\ accounts[job[p].user] = "active"
          /\ job[p].mine \in Ids /\ HasRow(job[p], NULL)
      BY <1>0, <1>10, <2>1 DEF LookUpFails, GuestOK, AfterRow
    <3>3. TakenAway(job[p].mine)
      BY <3>1, <3>2 DEF HasRow, TakenAway, Named, present
    <3>4. /\ job'[p].pc = "undoUser" /\ job'[p].user = job[p].user
          /\ job'[p].world = job[p].world /\ job'[p].mine = job[p].mine
      BY <3>1, GotoFields
    <3> QED
      BY <3>1, <3>2, <3>3, <3>4 DEF GuestOK, Outcome, BeforeRow, AfterRow, KeepsName, TakenAway
  <2>2. CASE job[p].kind # "guest"
    <3>1. job'[p].kind = job[p].kind
      BY <1>10, <2>2 DEF LookUpFails, Finish, Typed, JobsTyped, Job
    <3> QED
      BY <1>g, <2>2, <3>1
  <2> QED
    BY <2>1, <2>2
<1>11. CASE Seed(p)
  <2>1. CASE job[p].kind = "guest"
    <3>1. Goto(p, "snapshot") /\ accounts' = accounts /\ job[p].found \in present
      BY <1>11, <2>1 DEF Seed
    <3>2. /\ job[p].world = DefaultWorld /\ accounts[job[p].user] = "active"
          /\ job[p].mine \in Ids /\ HasRow(job[p], NULL) /\ job[p].found = job[p].mine
      BY <1>0, <1>11, <2>1 DEF Seed, GuestOK, AfterRow
    <3>3. rows'[job[p].mine] = [rows[job[p].mine] EXCEPT !.profile = job[p].mine]
          /\ rows[job[p].mine] \in Row
      BY <1>11, <3>1, <3>2 DEF Seed, present, Typed, TablesTyped
    <3>4. \/ rows'[job[p].mine] = [world |-> DefaultWorld, name |-> job[p].name,
                                  owner |-> job[p].user, profile |-> job[p].mine]
          \/ rows'[job[p].mine].name = NULL
      BY <3>1, <3>2, <3>3 DEF HasRow, TakenAway, present, Row
    <3>5. /\ job'[p].pc = "snapshot" /\ job'[p].user = job[p].user /\ job'[p].name = job[p].name
          /\ job'[p].world = job[p].world /\ job'[p].mine = job[p].mine
          /\ job'[p].found = job[p].found
      BY <3>1, GotoFields
    <3> QED
      BY <3>1, <3>2, <3>4, <3>5 DEF GuestOK, Outcome, BeforeRow, AfterRow, HasRow, TakenAway
  <2>2. CASE job[p].kind # "guest"
    <3>1. job'[p].kind = job[p].kind
      BY <1>11, <2>2 DEF Seed, Finish, Typed, JobsTyped, Job
    <3> QED
      BY <1>g, <2>2, <3>1
  <2> QED
    BY <2>1, <2>2
<1>12. CASE SeedFails(p)
  <2>1. CASE job[p].kind = "guest"
    <3>1. Goto(p, "undoChar") /\ UNCHANGED <<accounts, rows>>
      BY <1>12, <2>1 DEF SeedFails
    <3>2. /\ job[p].world = DefaultWorld /\ accounts[job[p].user] = "active"
          /\ job[p].mine \in Ids /\ job[p].found = job[p].mine /\ HasRow(job[p], NULL)
      BY <1>0, <1>12, <2>1 DEF SeedFails, GuestOK, AfterRow
    <3>3. /\ job'[p].pc = "undoChar" /\ job'[p].user = job[p].user
          /\ job'[p].world = job[p].world /\ job'[p].mine = job[p].mine
          /\ job'[p].found = job[p].found /\ job'[p].name = job[p].name
      BY <3>1, GotoFields
    <3>4. KeepsName(job[p])
      BY <3>2 DEF HasRow, KeepsName
    <3>5. KeepsName(job[p])'
      BY <3>1, <3>3, <3>4 DEF KeepsName, TakenAway
    <3> QED
      BY <3>1, <3>2, <3>3, <3>5 DEF GuestOK, Outcome, BeforeRow, AfterRow
  <2>2. CASE job[p].kind # "guest"
    <3>1. job'[p].kind = job[p].kind
      BY <1>12, <2>2 DEF SeedFails, Finish, Typed, JobsTyped, Job
    <3> QED
      BY <1>g, <2>2, <3>1
  <2> QED
    BY <2>1, <2>2
<1>13. CASE ReadSnapshot(p)
  <2>1. CASE job[p].kind = "guest"
    <3>1. /\ job[p].world = DefaultWorld /\ accounts[job[p].user] = "active"
          /\ job[p].mine \in Ids /\ job[p].found = job[p].mine
          /\ HasRow(job[p], job[p].mine)
      BY <1>0, <1>13, <2>1 DEF ReadSnapshot, GuestOK, AfterRow
    <3>2. UNCHANGED <<accounts, rows>>
      BY <1>13 DEF ReadSnapshot
    <3>3. CASE Finish(p, "created")
      <4>1. /\ job'[p].pc = "idle" /\ job'[p].result = "created"
            /\ job'[p].user = job[p].user /\ job'[p].name = job[p].name
            /\ job'[p].mine = job[p].mine /\ job'[p].found = job[p].found
        BY <3>3, FinishFields
      <4> QED
        BY <3>1, <3>2, <4>1 DEF GuestOK, Outcome, Complete, HasRow, TakenAway
    <3>4. CASE Goto(p, "undoChar")
      <4>1. /\ job'[p].pc = "undoChar" /\ job'[p].user = job[p].user
            /\ job'[p].world = job[p].world /\ job'[p].mine = job[p].mine
            /\ job'[p].found = job[p].found /\ job'[p].name = job[p].name
        BY <3>4, GotoFields
      <4>2. KeepsName(job[p])
        BY <3>1 DEF HasRow, KeepsName
      <4>3. KeepsName(job[p])'
        BY <3>2, <4>1, <4>2 DEF KeepsName, TakenAway
      <4> QED
        BY <3>1, <3>2, <4>1, <4>3 DEF GuestOK, Outcome, BeforeRow, AfterRow
    <3> QED
      BY <1>13, <3>3, <3>4 DEF ReadSnapshot
  <2>2. CASE job[p].kind # "guest"
    <3>1. job'[p].kind = job[p].kind
      BY <1>13, <2>2, GotoFields DEF ReadSnapshot, Finish, Typed, JobsTyped, Job
    <3> QED
      BY <1>g, <2>2, <3>1
  <2> QED
    BY <2>1, <2>2
<1>14. CASE UndoCharacter(p)
  <2>1. CASE job[p].kind = "guest"
    <3>1. /\ job[p].world = DefaultWorld /\ accounts[job[p].user] = "active"
          /\ job[p].mine \in Ids /\ job[p].found = job[p].mine
      BY <1>0, <1>14, <2>1 DEF UndoCharacter, GuestOK, AfterRow
    <3>2. accounts' = accounts /\ rows'[job[p].mine] = NULL
      BY <1>14, <3>1 DEF UndoCharacter, Typed, TablesTyped
    <3>3. /\ job'[p].pc = "undoUser" /\ job'[p].user = job[p].user
          /\ job'[p].world = job[p].world /\ job'[p].mine = job[p].mine
      BY <1>14, GotoFields DEF UndoCharacter
    <3> QED
      BY <3>1, <3>2, <3>3 DEF GuestOK, Outcome, BeforeRow, AfterRow, KeepsName, TakenAway
  <2>2. job'[p].kind = job[p].kind
    BY <1>14, GotoFields DEF UndoCharacter
  <2> QED
    BY <1>g, <2>1, <2>2
<1>15. CASE UndoUser(p)
  <2>1. /\ job'[p].pc = "idle" /\ job'[p].user = job[p].user /\ job'[p].mine = job[p].mine
        /\ job[p].result = "error" => job'[p].result = "error"
        /\ job[p].result # "error" => job'[p].result = "failed"
    BY <1>15, FinishFields DEF UndoUser
  <2>2. job[p].user \in Users /\ Deleted(job[p].user)
    BY <1>15, <1>k DEF UndoUser
  <2>3. CASE job[p].kind = "guest" /\ job[p].result # "error"
    <3>1. job[p].mine \in Ids /\ TakenAway(job[p].mine)
      BY <1>0, <1>15, <2>3 DEF UndoUser, GuestOK, AfterRow
    <3>2. accounts'[job[p].user] = "tombstoned"
          /\ (rows'[job[p].mine] # NULL => rows'[job[p].mine].name = NULL)
      BY <2>2, <3>1, DeletedLeaves DEF TakenAway
    <3> QED
      BY <2>1, <2>3, <3>2 DEF GuestOK, Outcome, NothingLeft, TakenAway
  <2> QED
    BY <2>1, <2>3 DEF GuestOK, Outcome
<1>16. CASE DatabaseError(p)
  <2>1. /\ job'[p].pc = IF job[p].pc = "undoChar" THEN "undoUser" ELSE "idle"
        /\ job'[p].result = "error" /\ job'[p].kind = job[p].kind /\ job'[p].user = job[p].user
        /\ job'[p].world = job[p].world /\ job'[p].mine = job[p].mine /\ job'[p].name = job[p].name
    <3> DEFINE pc == IF job[p].pc = "undoChar" THEN "undoUser" ELSE "idle"
    <3>1. job'[p] = [job[p] EXCEPT !.pc = pc, !.result = "error"]
      BY <1>16 DEF DatabaseError, Typed, JobsTyped
    <3> HIDE DEF pc
    <3>2. /\ job'[p].pc = pc
          /\ job'[p].result = "error" /\ job'[p].kind = job[p].kind /\ job'[p].user = job[p].user
          /\ job'[p].world = job[p].world /\ job'[p].mine = job[p].mine /\ job'[p].name = job[p].name
      BY <1>0, <3>1 DEF Job
    <3> QED
      BY <3>2 DEF pc
  <2>2. accounts' = accounts /\ rows' = rows
    BY <1>16 DEF DatabaseError
  <2>3. CASE job[p].pc = "undoChar" /\ job[p].kind = "guest"
    <3>1. /\ job[p].world = DefaultWorld /\ accounts[job[p].user] = "active"
          /\ job[p].mine \in Ids /\ KeepsName(job[p])
      BY <1>0, <2>3 DEF GuestOK, AfterRow
    <3>2. KeepsName(job[p])'
      BY <2>1, <2>2, <3>1 DEF KeepsName, TakenAway
    <3> QED
      BY <2>1, <2>2, <2>3, <3>1, <3>2 DEF GuestOK, Outcome, BeforeRow, AfterRow
  <2>4. CASE ~(job[p].pc = "undoChar" /\ job[p].kind = "guest")
    BY <2>1, <2>4 DEF GuestOK, Outcome
  <2> QED
    BY <2>3, <2>4
<1> QED
  BY <1>1, <1>2, <1>3, <1>4, <1>5, <1>6, <1>7, <1>8, <1>9, <1>10, <1>11, <1>12, <1>13, <1>14,
     <1>15, <1>16 DEF Step

-----------------------------------------------------------------------------
(***************************************************************************)
(* What holds of every guest.                                              *)
(***************************************************************************)
\* What a step changes in a job that is not new.
LEMMA JobFields ==
  ASSUME Typed, NEW p \in Procs, Step(p), \A n \in Names : ~StartGuest(p, n),
         \A u \in Users, w \in Worlds : ~StartGenerated(p, u, w)
  PROVE  /\ job'[p].kind = job[p].kind
         /\ job'[p].user = job[p].user \/ \E u \in Users : CreateGuest(p, u)
         /\ job'[p].name = job[p].name \/ job[p].pc = "name"
         /\ job'[p].mine = job[p].mine \/ \E c \in Ids : InsertCharacter(p, c)
         /\ job'[p].found = job[p].found \/ \E c \in Ids : LookUp(p, c)
<1> DEFINE Same == /\ job'[p].kind = job[p].kind
                   /\ job'[p].user = job[p].user
                   /\ job'[p].name = job[p].name
                   /\ job'[p].mine = job[p].mine
                   /\ job'[p].found = job[p].found
<1> USE DEF Typed, JobsTyped, Job
<1>1. ASSUME NEW n \in Names, GenerateName(p, n)
      PROVE  /\ job[p].pc = "name"
             /\ job'[p].kind = job[p].kind /\ job'[p].user = job[p].user
             /\ job'[p].mine = job[p].mine /\ job'[p].found = job[p].found
  BY <1>1 DEF GenerateName
<1>2. ASSUME NEW u \in Users, CreateGuest(p, u)
      PROVE  /\ job'[p].kind = job[p].kind /\ job'[p].name = job[p].name
             /\ job'[p].mine = job[p].mine /\ job'[p].found = job[p].found
  BY <1>2 DEF CreateGuest
<1>3. ASSUME NEW c \in Ids, InsertCharacter(p, c)
      PROVE  /\ job'[p].kind = job[p].kind /\ job'[p].user = job[p].user
             /\ job'[p].name = job[p].name /\ job'[p].found = job[p].found
  BY <1>3 DEF InsertCharacter
<1>4. ASSUME NEW c \in Ids, LookUp(p, c)
      PROVE  /\ job'[p].kind = job[p].kind /\ job'[p].user = job[p].user
             /\ job'[p].name = job[p].name /\ job'[p].mine = job[p].mine
  BY <1>4 DEF LookUp
<1>5. CASE NoGuestName(p) \/ NoName(p) \/ DeleteRefused(p) \/ UndoUser(p)
  <2>1. PICK r : Finish(p, r)
    BY <1>5 DEF NoGuestName, NoName, DeleteRefused, UndoUser
  <2> QED
    BY <2>1, FinishFields
<1>6. CASE CountSlots(p) \/ NameCollides(p) \/ UndoCharacter(p)
  <2>1. PICK pc : Goto(p, pc)
    BY <1>6 DEF CountSlots, NameCollides, UndoCharacter, Refused
  <2> QED
    BY <2>1, GotoFields
<1>7. CASE LookUpFails(p) \/ Seed(p) \/ SeedFails(p) \/ ReadSnapshot(p)
  <2>1. (\E pc : Goto(p, pc)) \/ (\E r : Finish(p, r))
    BY <1>7 DEF LookUpFails, Seed, SeedFails, ReadSnapshot
  <2>2. ASSUME NEW pc, Goto(p, pc) PROVE Same
    BY <2>2, GotoFields
  <2>3. ASSUME NEW r, Finish(p, r) PROVE Same
    <3>1. /\ job'[p].kind = job[p].kind /\ job'[p].user = job[p].user
          /\ job'[p].name = job[p].name /\ job'[p].mine = job[p].mine
          /\ job'[p].found = job[p].found
      BY <2>3, FinishFields
    <3> QED
      BY <3>1
  <2> QED
    BY <2>1, <2>2, <2>3
<1>8. CASE DatabaseError(p)
  <2> DEFINE pc == IF job[p].pc = "undoChar" THEN "undoUser" ELSE "idle"
  <2>1. job'[p] = [job[p] EXCEPT !.pc = pc, !.result = "error"]
    BY <1>8 DEF DatabaseError
  <2> HIDE DEF pc
  <2> QED
    BY <2>1
<1>9. CASE job' = job
  BY <1>9
<1> QED
  BY <1>1, <1>2, <1>3, <1>4, <1>5, <1>6, <1>7, <1>8, <1>9 DEF Step, Tombstone, DeleteCharacter

\* Only a guest's job has an account made, refused or undone.
LEMMA KindStep ==
  ASSUME Typed, Companions, NEW p \in Procs, Step(p),
         job'[p].pc \in {"account", "refused", "snapshot", "undoChar", "undoUser"}
  PROVE  job'[p].kind = "guest"
<1> USE DEF Typed, JobsTyped, Job
<1>1. ASSUME NEW n \in Names, StartGuest(p, n) PROVE job'[p].kind = "guest"
  BY <1>1 DEF StartGuest, Nothing
<1>2. ASSUME NEW u \in Users, NEW w \in Worlds, StartGenerated(p, u, w) PROVE FALSE
  BY <1>2 DEF StartGenerated, Nothing
<1>3. CASE /\ \A n \in Names : ~StartGuest(p, n)
           /\ \A u \in Users, w \in Worlds : ~StartGenerated(p, u, w)
  <2>1. job'[p].kind = job[p].kind
    BY <1>3, JobFields
  <2>2. ASSUME NEW n \in Names, GenerateName(p, n) PROVE FALSE
    BY <2>2 DEF GenerateName
  <2>3. ASSUME NEW u \in Users, CreateGuest(p, u) PROVE FALSE
    BY <2>3 DEF CreateGuest
  <2>4. ASSUME NEW c \in Ids, InsertCharacter(p, c) \/ LookUp(p, c) PROVE FALSE
    BY <2>4 DEF InsertCharacter, LookUp
  <2>5. CASE CountSlots(p) \/ NameCollides(p) \/ LookUpFails(p) \/ Seed(p) \/ SeedFails(p)
    <3>1. job[p].kind = "guest"
      <4>1. CASE CountSlots(p) \/ NameCollides(p)
        <5>1. Refused(p) /\ job[p].kind # "none"
          BY <4>1 DEF CountSlots, NameCollides, Goto, Companions
        <5> QED
          BY <5>1 DEF Refused, Goto, Kinds
      <4>2. CASE LookUpFails(p)
        BY <4>2 DEF LookUpFails, Finish
      <4>3. CASE Seed(p) \/ SeedFails(p)
        BY <4>3, FinishFields DEF Seed, SeedFails
      <4> QED
        BY <2>5, <4>1, <4>2, <4>3
    <3> QED
      BY <2>1, <3>1
  <2>6. CASE NoGuestName(p) \/ NoName(p) \/ DeleteRefused(p) \/ UndoUser(p)
    <3>1. PICK r : Finish(p, r)
      BY <2>6 DEF NoGuestName, NoName, DeleteRefused, UndoUser
    <3> QED
      BY <3>1, FinishFields
  <2>7. CASE job[p].pc \in {"snapshot", "undoChar"}
    BY <2>1, <2>7 DEF Companions
  <2>8. CASE DatabaseError(p)
    <3>1. job[p].pc = "undoChar"
      <4> DEFINE pc == IF job[p].pc = "undoChar" THEN "undoUser" ELSE "idle"
      <4>1. job'[p] = [job[p] EXCEPT !.pc = pc, !.result = "error"]
        BY <2>8 DEF DatabaseError
      <4> HIDE DEF pc
      <4>2. job'[p].pc = pc
        BY <4>1
      <4> QED
        BY <4>2 DEF pc
    <3> QED
      BY <2>7, <3>1
  <2>9. CASE job' = job
    BY <2>9 DEF Companions
  <2>10. job'[p].kind = "guest"
    BY <2>1, <2>2, <2>3, <2>4, <2>5, <2>6, <2>7, <2>8, <2>9, <1>3
       DEF Step, Tombstone, DeleteCharacter, ReadSnapshot, UndoCharacter
  <2> QED
    BY <2>10
<1> QED
  BY <1>1, <1>2, <1>3

LEMMA KindIsKnown ==
  ASSUME Typed, Companions, NEW p \in Procs, Step(p), job'[p].pc # "idle"
  PROVE  job'[p].kind # "none"
<1>1. CASE (\E n \in Names : StartGuest(p, n)) \/ (\E u \in Users, w \in Worlds : StartGenerated(p, u, w))
  BY <1>1 DEF StartGuest, StartGenerated, Nothing, Typed, JobsTyped
<1>2. CASE ~((\E n \in Names : StartGuest(p, n)) \/ (\E u \in Users, w \in Worlds : StartGenerated(p, u, w)))
  <2>1. job'[p].kind = job[p].kind
    BY <1>2, JobFields
  <2>2. job[p].pc # "idle" \/ job' = job
    BY <1>2 DEF Step, GenerateName, CreateGuest, InsertCharacter, LookUp, Tombstone, DeleteCharacter,
                NoGuestName, NoName, CountSlots, NameCollides, DeleteRefused, LookUpFails, Seed,
                SeedFails, ReadSnapshot, UndoCharacter, UndoUser, DatabaseError
  <2> QED
    BY <2>1, <2>2 DEF Companions
<1> QED
  BY <1>1, <1>2

\* An account comes with the step that makes it.
LEMMA AccountStep ==
  ASSUME Typed, NEW p \in Procs, Step(p), HasAccount(p)'
  PROVE  \/ HasAccount(p) /\ job'[p].user = job[p].user
         \/ \E u \in Users : CreateGuest(p, u) /\ job'[p].user = u
<1> USE DEF Typed, JobsTyped, Job
<1>1. ASSUME NEW n \in Names, StartGuest(p, n) PROVE FALSE
  BY <1>1 DEF StartGuest, Nothing, HasAccount
<1>2. ASSUME NEW u \in Users, NEW w \in Worlds, StartGenerated(p, u, w) PROVE FALSE
  BY <1>2 DEF StartGenerated, Nothing, HasAccount
<1>3. ASSUME NEW u \in Users, CreateGuest(p, u) PROVE job'[p].user = u
  BY <1>3 DEF CreateGuest
<1>4. CASE \A u \in Users : ~CreateGuest(p, u)
  <2>1. job'[p].kind = job[p].kind /\ job'[p].user = job[p].user
    BY <1>1, <1>2, <1>4, JobFields
  <2>2. job[p].pc # "account"
    <3>1. ~NoGuestName(p)
      BY DEF NoGuestName, Finish, HasAccount
    <3>2. ~(DatabaseError(p) /\ job[p].pc = "account")
      BY DEF DatabaseError, HasAccount
    <3> QED
      BY <1>1, <1>2, <1>4, <3>1, <3>2
         DEF Step, GenerateName, InsertCharacter, LookUp, Tombstone, DeleteCharacter, NoName,
             CountSlots, NameCollides, DeleteRefused, LookUpFails, Seed, SeedFails, ReadSnapshot,
             UndoCharacter, UndoUser
  <2>3. job[p].pc # "idle"
    BY <1>1, <1>2
       DEF HasAccount, Step, GenerateName, CreateGuest, InsertCharacter, LookUp, Tombstone,
           DeleteCharacter, NoGuestName, NoName, CountSlots, NameCollides, DeleteRefused,
           LookUpFails, Seed, SeedFails, ReadSnapshot, UndoCharacter, UndoUser, DatabaseError
  <2> QED
    BY <2>1, <2>2, <2>3 DEF HasAccount
<1> QED
  BY <1>3, <1>4

\* What a step does to the accounts.
LEMMA AccountsChange ==
  ASSUME Typed, NEW p \in Procs, Step(p)
  PROVE  \/ accounts' = accounts
         \/ \E u \in Users : CreateGuest(p, u)
         \/ /\ job[p].pc \in {"refused", "undoUser"} /\ job'[p].pc = "idle"
            /\ job[p].user \in Users /\ Deleted(job[p].user)
<1>1. CASE DeleteRefused(p) \/ UndoUser(p)
  <2>1. job'[p].pc = "idle"
    BY <1>1, FinishFields DEF DeleteRefused, UndoUser
  <2> QED
    BY <1>1, <2>1 DEF DeleteRefused, UndoUser, Typed, JobsKnow
<1> QED
  BY <1>1 DEF Step, StartGuest, GenerateName, StartGenerated, InsertCharacter, LookUp, Tombstone,
              DeleteCharacter, NoGuestName, NoName, CountSlots, NameCollides, LookUpFails, Seed,
              SeedFails, ReadSnapshot, UndoCharacter, DatabaseError

LEMMA KnownStep ==
  ASSUME Typed, Companions, IdsFinite, NEW p \in Procs, Step(p)
  PROVE  {job'[p].mine, job'[p].found} \subseteq used' \cup {NULL} /\ used \subseteq used'
<1>1. used \subseteq used'
  BY DEF Step, StartGuest, GenerateName, CreateGuest, StartGenerated, InsertCharacter, LookUp,
         Tombstone, DeleteCharacter, NoGuestName, NoName, CountSlots, NameCollides, DeleteRefused,
         LookUpFails, Seed, SeedFails, ReadSnapshot, UndoCharacter, UndoUser, DatabaseError, Deleted
<1>2. ASSUME NEW n \in Names, StartGuest(p, n) PROVE job'[p].mine = NULL /\ job'[p].found = NULL
  BY <1>2 DEF StartGuest, Nothing, Typed, JobsTyped
<1>3. ASSUME NEW u \in Users, NEW w \in Worlds, StartGenerated(p, u, w)
      PROVE  job'[p].mine = NULL /\ job'[p].found = NULL
  BY <1>3 DEF StartGenerated, Nothing, Typed, JobsTyped
<1>4. ASSUME NEW c \in Ids, InsertCharacter(p, c) PROVE job'[p].mine \in used'
  BY <1>4 DEF InsertCharacter, Typed, JobsTyped, Job
<1>5. ASSUME NEW c \in Ids, LookUp(p, c) PROVE job'[p].found \in used
  BY <1>5 DEF LookUp, Named, IdsFinite, Typed, JobsTyped, Job
<1> QED
  BY <1>1, <1>2, <1>3, <1>4, <1>5, JobFields DEF Companions

LEMMA CompanionsStep ==
  ASSUME Typed, IdsFinite, Companions, NEW p \in Procs, Step(p)
  PROVE  Companions'
<1>1. OthersStay(p)
  BY JobsAreTheirOwn
<1>2. ASSUME NEW q \in Procs,
             job'[q].pc \in {"account", "refused", "snapshot", "undoChar", "undoUser"}
      PROVE  job'[q].kind = "guest"
  BY <1>1, <1>2, KindStep DEF OthersStay, Companions
<1>3. ASSUME NEW q \in Procs \ {p}, HasAccount(q)' PROVE HasAccount(q) /\ job'[q].user = job[q].user
  BY <1>1, <1>3 DEF OthersStay, HasAccount
<1>4. ASSUME NEW u \in Users, CreateGuest(p, u)
      PROVE  /\ accounts'[u] = "active"
             /\ \A q \in Procs : HasAccount(q) =>
                  job[q].user # u /\ accounts'[job[q].user] = accounts[job[q].user]
  <2>1. accounts[u] = "none" /\ accounts' = [accounts EXCEPT ![u] = "active"]
    BY <1>4 DEF CreateGuest
  <2> QED
    BY <2>1 DEF Companions, Typed, TablesTyped, JobsKnow, HasAccount
<1>5. ASSUME NEW q \in Procs, HasAccount(q)' PROVE accounts'[job'[q].user] = "active"
  <2>1. CASE \E u \in Users : CreateGuest(p, u)
    <3> PICK u \in Users : CreateGuest(p, u)
      BY <2>1
    <3>1. CASE q = p
      <4>1. job'[p].user = u
        BY DEF CreateGuest, Typed, JobsTyped, Job
      <4> QED
        BY <1>4, <3>1, <4>1
    <3>2. CASE q # p
      BY <1>3, <1>4, <1>5, <3>2 DEF Companions
    <3> QED
      BY <3>1, <3>2
  <2>2. CASE \A u \in Users : ~CreateGuest(p, u)
    <3>1. HasAccount(q) /\ job'[q].user = job[q].user
      BY <1>3, <1>5, <2>2, AccountStep
    <3>2. accounts[job[q].user] = "active" /\ job[q].user \in Users
      BY <3>1 DEF Companions, Typed, JobsKnow, HasAccount
    <3>3. CASE accounts' = accounts
      BY <3>1, <3>2, <3>3
    <3>4. CASE /\ job[p].pc \in {"refused", "undoUser"} /\ job'[p].pc = "idle"
               /\ Deleted(job[p].user)
      <4>1. HasAccount(p) /\ q # p
        BY <1>5, <3>4 DEF Companions, HasAccount
      <4>2. job[q].user # job[p].user
        BY <3>1, <4>1 DEF Companions
      <4> QED
        BY <3>1, <3>2, <3>4, <4>2 DEF Deleted, Typed, TablesTyped
    <3> QED
      BY <2>2, <3>3, <3>4, AccountsChange
  <2> QED
    BY <2>1, <2>2
<1>6. ASSUME NEW q \in Procs, NEW r \in Procs, HasAccount(q)', HasAccount(r)', q # r
      PROVE  job'[q].user # job'[r].user
  <2>1. ASSUME NEW v \in Procs \ {p}, HasAccount(v)', HasAccount(p)'
        PROVE  job'[v].user # job'[p].user
    <3>1. HasAccount(v) /\ job'[v].user = job[v].user
      BY <1>3, <2>1
    <3>2. CASE HasAccount(p) /\ job'[p].user = job[p].user
      BY <3>1, <3>2 DEF Companions
    <3>3. CASE \E u \in Users : CreateGuest(p, u) /\ job'[p].user = u
      BY <1>4, <3>1, <3>3
    <3> QED
      BY <2>1, <3>2, <3>3, AccountStep
  <2>2. CASE q # p /\ r # p
    BY <1>3, <1>6, <2>2 DEF Companions
  <2> QED
    BY <1>6, <2>1, <2>2
<1>7. ASSUME NEW q \in Procs PROVE {job'[q].mine, job'[q].found} \subseteq used' \cup {NULL}
  BY <1>1, KnownStep DEF OthersStay, Companions
<1>8. ASSUME NEW q \in Procs, job'[q].pc # "idle" PROVE job'[q].kind # "none"
  BY <1>1, <1>8, KindIsKnown DEF OthersStay, Companions
<1> QED
  BY <1>2, <1>5, <1>6, <1>7, <1>8 DEF Companions

-----------------------------------------------------------------------------
(***************************************************************************)
(* What the steps of others leave of a guest that is alone.                *)
(***************************************************************************)
LEMMA OtherStep ==
  ASSUME Typed, IdsFinite, Companions, Companions', NEW p \in Procs, Step(p),
         NEW q \in Procs \ {p}, job[q].kind = "guest", job[q].pc # "idle", GuestOK(q), Alone(q)
  PROVE  GuestOK(q)'
<1> DEFINE d == job[q].mine
<1>1. job'[q] = job[q]
  BY JobsAreTheirOwn DEF OthersStay
<1>2. /\ job[q].pc \in BeforeRow \cup AfterRow
      /\ job[q].pc \in BeforeRow => d = NULL
      /\ job[q].pc \in AfterRow => d \in Ids
      /\ job[q].name \in Names
  BY DEF GuestOK, BeforeRow, AfterRow, Typed, JobsKnow
<1>3. /\ d \in Ids => d \in used
      /\ rows \in [Ids -> Row \cup {NULL}]
  BY NullIsOutside DEF Companions, Typed, TablesTyped
<1>4. HasAccount(q) => accounts'[job[q].user] = "active"
  <2>1. HasAccount(q) => HasAccount(q)'
    BY <1>1 DEF HasAccount
  <2> QED
    BY <1>1, <2>1 DEF Companions
<1>5. d \in Ids => HasAccount(q)
  BY <1>2, NullIsOutside DEF HasAccount, BeforeRow, AfterRow
<1> DEFINE Kept == /\ \A x : d \in Ids /\ HasRow(job[q], x) => HasRow(job[q], x)'
                   /\ d \in Ids /\ TakenAway(d) => TakenAway(d)'
                   /\ d \in Ids /\ KeepsName(job[q]) => KeepsName(job[q])'
                   /\ Named(job[q].name)' \subseteq Named(job[q].name)
\* Rows stay, go, or lose their name.
<1>6. ASSUME \A c \in Ids : \/ rows'[c] = rows[c]
                            \/ rows'[c] = NULL
                            \/ rows[c] # NULL /\ rows'[c].name = NULL
      PROVE  Kept
  <2>1. d \in Ids => rows'[d] = rows[d] \/ TakenAway(d)'
    BY <1>1, <1>6 DEF TakenAway
  <2>2. Named(job[q].name)' \subseteq Named(job[q].name)
    BY <1>1, <1>2, <1>6, NullIsOutside DEF Named, present
  <2> QED
    BY <1>1, <2>1, <2>2 DEF HasRow, TakenAway, KeepsName
\* The row of q stays, and no other takes its name.
<1>7. ASSUME d \in Ids => rows'[d] = rows[d], Named(job[q].name)' \subseteq Named(job[q].name)
      PROVE  Kept
  BY <1>1, <1>7 DEF HasRow, TakenAway, KeepsName
<1>8. ASSUME NEW c \in Ids, InsertCharacter(p, c) PROVE Kept
  <2>1. job[p].name # job[q].name
    BY <1>8 DEF InsertCharacter, Alone
  <2>2. c \notin used /\ \A e \in Ids \ {c} : rows'[e] = rows[e]
    BY <1>3, <1>8 DEF InsertCharacter
  <2>3. rows'[c].name = job[p].name
    BY <1>3, <1>8 DEF InsertCharacter
  <2>4. d \in Ids => rows'[d] = rows[d]
    BY <1>3, <2>2
  <2>5. Named(job[q].name)' \subseteq Named(job[q].name)
    BY <1>1, <2>1, <2>2, <2>3 DEF Named, present
  <2> QED
    BY <1>7, <2>4, <2>5
<1>9. ASSUME Deleted(job[p].user), job[p].pc \in {"refused", "undoUser"} PROVE Kept
  <2>1. HasAccount(p)
    BY <1>9 DEF Companions, HasAccount
  <2>2. d \in Ids => job[q].user # job[p].user
    BY <1>5, <2>1 DEF Companions
  <2>3. ASSUME NEW c \in Ids
        PROVE  /\ rows'[c] # NULL <=> rows[c] # NULL
               /\ rows[c] # NULL => rows'[c].name = rows[c].name
               /\ rows[c] # NULL /\ rows[c].owner # job[p].user => rows'[c] = rows[c]
    BY <1>3, <1>9, NullIsOutside DEF Deleted, Row
  <2>4. ASSUME NEW x, d \in Ids, HasRow(job[q], x) PROVE HasRow(job[q], x)'
    <3>1. CASE TakenAway(d)
      BY <1>1, <2>3, <2>4, <3>1 DEF HasRow, TakenAway
    <3>2. CASE rows[d] = [world |-> DefaultWorld, name |-> job[q].name, owner |-> job[q].user,
                          profile |-> x]
      <4>1. CASE rows[d] = NULL
        BY <1>1, <2>3, <2>4, <4>1 DEF HasRow, TakenAway
      <4>2. CASE rows[d] # NULL
        BY <1>1, <2>2, <2>3, <2>4, <3>2, <4>2 DEF HasRow
      <4> QED
        BY <4>1, <4>2
    <3> QED
      BY <2>4, <3>1, <3>2 DEF HasRow
  <2>5. d \in Ids /\ TakenAway(d) => TakenAway(d)'
    BY <1>1, <2>3 DEF TakenAway
  <2>6. d \in Ids /\ KeepsName(job[q]) => KeepsName(job[q])'
    BY <1>1, <2>3, <2>5 DEF KeepsName, TakenAway
  <2>7. Named(job[q].name)' \subseteq Named(job[q].name)
    BY <1>1, <2>3 DEF Named, present
  <2> QED
    BY <2>4, <2>5, <2>6, <2>7
<1>10. ASSUME Seed(p) PROVE Kept
  <2>1. job[p].found # d /\ job[p].found \in present
    BY <1>10, NullIsOutside DEF Seed, Alone, d, present
  <2>2. d \in Ids => rows'[d] = rows[d]
    BY <1>3, <1>10, <2>1 DEF Seed
  <2>3. \A c \in Ids : rows'[c] # NULL => rows[c] # NULL /\ rows'[c].name = rows[c].name
    BY <1>3, <1>10, <2>1 DEF Seed, present, Row
  <2>4. Named(job[q].name)' \subseteq Named(job[q].name)
    BY <1>1, <2>3 DEF Named, present
  <2> QED
    BY <1>7, <2>2, <2>4
<1>11. ASSUME UndoCharacter(p) PROVE Kept
  BY <1>3, <1>6, <1>11 DEF UndoCharacter
<1>12. ASSUME NEW c \in Ids, Tombstone(p, c) \/ DeleteCharacter(p, c) PROVE Kept
  <2>1. CASE Tombstone(p, c)
    BY <1>3, <1>6, <2>1 DEF Tombstone, present, Row
  <2>2. CASE DeleteCharacter(p, c)
    BY <1>3, <1>6, <2>2 DEF DeleteCharacter
  <2> QED
    BY <1>12, <2>1, <2>2
<1>13. ASSUME rows' = rows PROVE Kept
  BY <1>6, <1>13
<1>14. Kept
  BY <1>8, <1>9, <1>10, <1>11, <1>12, <1>13
     DEF Step, StartGuest, GenerateName, CreateGuest, StartGenerated, LookUp, NoGuestName, NoName,
         CountSlots, NameCollides, DeleteRefused, LookUpFails, SeedFails, ReadSnapshot, UndoUser,
         DatabaseError
<1> QED
  BY <1>1, <1>2, <1>4, <1>14 DEF GuestOK, BeforeRow, AfterRow, HasAccount

\* Nobody else can know the row a guest has just inserted, nor come to know it.
LEMMA AloneStep ==
  ASSUME Typed, Typed', IdsFinite, Companions, NEW p \in Procs, Step(p), Observe, Guests,
         NEW q \in Procs, job'[q].kind = "guest", job'[q].pc # "idle", q \notin crossed'
  PROVE  Alone(q)'
<1>1. OthersStay(p)
  BY JobsAreTheirOwn
<1>2. q \notin crossed /\ \A r \in Procs \ {q} : job'[r].pc # "idle" => job'[r].name # job'[q].name
  BY DEF Observe
<1> SUFFICES ASSUME NEW r \in Procs \ {q}, job'[r].found # NULL, job'[r].found = job'[q].mine
             PROVE  FALSE
  BY <1>2 DEF Alone
<1>3. job'[r].found \in Ids /\ job'[q].mine \in Ids
  BY DEF Typed, JobsTyped, Job
<1>4. CASE q = p
  <2>1. job'[r] = job[r]
    BY <1>1, <1>4 DEF OthersStay
  <2>2. job[r].found \in used
    BY <1>3, <2>1, NullIsOutside DEF Companions
  <2>3. ASSUME NEW n \in Names, StartGuest(p, n) PROVE FALSE
    BY <1>3, <1>4, <2>3, NullIsOutside DEF StartGuest, Nothing, Typed, JobsTyped
  <2>4. ASSUME NEW u \in Users, NEW w \in Worlds, StartGenerated(p, u, w) PROVE FALSE
    BY <1>4, <2>4 DEF StartGenerated, Nothing, Typed, JobsTyped
  <2>5. ASSUME NEW c \in Ids, InsertCharacter(p, c) PROVE FALSE
    <3>1. job'[p].mine = c /\ c \notin used
      BY <2>5 DEF InsertCharacter, Typed, JobsTyped, Job
    <3> QED
      BY <1>4, <2>1, <2>2, <3>1
  <2>6. job'[p].kind = job[p].kind /\ job'[p].mine = job[p].mine
    BY <2>3, <2>4, <2>5, JobFields
  <2>7. job[p].mine # NULL
    BY <1>3, <1>4, <2>6, NullIsOutside
  <2>8. job[p].pc # "idle"
    BY <1>4, <2>3, <2>4
       DEF Step, GenerateName, CreateGuest, InsertCharacter, LookUp, Tombstone, DeleteCharacter,
           NoGuestName, NoName, CountSlots, NameCollides, DeleteRefused, LookUpFails, Seed,
           SeedFails, ReadSnapshot, UndoCharacter, UndoUser, DatabaseError
  <2> QED
    BY <1>2, <1>4, <2>1, <2>6, <2>8 DEF Guests, Alone
<1>5. CASE q # p
  <2>1. job'[q] = job[q] /\ GuestOK(q) /\ Alone(q)
    BY <1>1, <1>2, <1>5 DEF OthersStay, Guests
  <2>2. r = p
    BY <1>1, <2>1 DEF OthersStay, Alone
  <2>3. ASSUME NEW c \in Ids, LookUp(p, c) PROVE FALSE
    <3>1. /\ job'[p].found = c /\ rows[c] # NULL /\ rows[c].name = job[p].name
          /\ job[p].pc = "lookup"
      BY <2>3 DEF LookUp, Named, present, Typed, JobsTyped, Job
    <3>2. job[p].name # job[q].name /\ job[p].name \in Names
      BY <1>5, <2>1, <3>1 DEF Alone, Typed, JobsKnow
    <3>3. job[q].pc \in AfterRow
      BY <1>3, <2>1, NullIsOutside DEF GuestOK, BeforeRow, AfterRow
    <3>4. KeepsName(job[q])
      BY <2>1, <3>3 DEF GuestOK, AfterRow, HasRow, KeepsName
    <3> QED
      BY <2>1, <2>2, <3>1, <3>2, <3>4, NullIsOutside DEF KeepsName, TakenAway
  <2>4. ASSUME NEW n \in Names, StartGuest(p, n) PROVE FALSE
    BY <2>2, <2>4 DEF StartGuest, Nothing, Typed, JobsTyped
  <2>5. ASSUME NEW u \in Users, NEW w \in Worlds, StartGenerated(p, u, w) PROVE FALSE
    BY <2>2, <2>5 DEF StartGenerated, Nothing, Typed, JobsTyped
  <2>6. job'[p].found = job[p].found
    BY <2>3, <2>4, <2>5, JobFields
  <2> QED
    BY <1>5, <2>1, <2>2, <2>6 DEF Alone
<1> QED
  BY <1>4, <1>5

GuestsAndOutcomes == Guests' /\ \A p \in Procs : p \notin crossed => Outcome(p)

LEMMA GuestsStep ==
  ASSUME Typed, Typed', IdsFinite, Companions, Guests, Next
  PROVE  GuestsAndOutcomes
<1> PICK p \in Procs : Step(p)
  BY DEF Next
<1>1. Observe /\ Companions' /\ OthersStay(p)
  BY CompanionsStep, JobsAreTheirOwn DEF Next
<1>2. ASSUME NEW q \in Procs, job[q].kind = "guest", job[q].pc # "idle", q \notin crossed
      PROVE  GuestOK(q) /\ Alone(q)
  BY <1>2 DEF Guests
<1>3. ASSUME p \notin crossed PROVE GuestOK(p)' /\ Outcome(p)
  <2>1. GuestOK(p)
    BY <1>2, <1>3 DEF GuestOK
  <2>2. CASE \A c \in Ids : ~Tombstone(p, c) /\ ~DeleteCharacter(p, c)
    BY <2>1, <2>2, JobStep
  <2>3. ASSUME NEW c \in Ids, Tombstone(p, c) \/ DeleteCharacter(p, c)
        PROVE  job' = job /\ job[p].pc = "idle"
    BY <2>3 DEF Tombstone, DeleteCharacter
  <2>4. job' = job /\ job[p].pc = "idle" => GuestOK(p)' /\ Outcome(p)
    BY DEF GuestOK, Outcome
  <2> QED
    BY <2>2, <2>3, <2>4
<1>4. ASSUME NEW q \in Procs \ {p} PROVE job'[q] = job[q] /\ Outcome(q)
  BY <1>1, <1>4 DEF OthersStay, Outcome
<1>5. ASSUME NEW q \in Procs, job'[q].kind = "guest", job'[q].pc # "idle", q \notin crossed'
      PROVE  GuestOK(q)' /\ Alone(q)'
  <2>1. q \notin crossed
    BY <1>1, <1>5 DEF Observe
  <2>2. CASE q = p
    BY <1>1, <1>3, <1>5, <2>1, <2>2, AloneStep
  <2>3. CASE q # p
    <3>1. job[q].kind = "guest" /\ job[q].pc # "idle"
      BY <1>4, <1>5, <2>3
    <3>2. GuestOK(q)'
      BY <1>1, <1>2, <2>1, <2>3, <3>1, OtherStep
    <3> QED
      BY <1>1, <1>5, <3>2, AloneStep
  <2> QED
    BY <2>2, <2>3
<1>6. Guests'
  BY <1>5 DEF Guests
<1> QED
  BY <1>3, <1>4, <1>6 DEF GuestsAndOutcomes

\* For any number of processes that register, create and administer: a guest's
\* registration whose name no other process had at work meanwhile ends with an
\* account that owns its seeded character or with neither, whichever step fails;
\* only a DatabaseError leaves a part.
THEOREM AllOrNothingHolds == Spec => RegistrationAllOrNothing
<1> DEFINE Inv == IdsFinite /\ Companions /\ Guests
<1>1. Init => Inv
  <2> SUFFICES ASSUME Init PROVE Inv
    OBVIOUS
  <2>1. present = {} /\ used = {}
    BY DEF Init, present
  <2>2. IdsFinite
    BY <2>1, FS_EmptySet DEF IdsFinite
  <2>3. Companions /\ Guests
    BY DEF Init, Companions, Guests, HasAccount, Nothing
  <2> QED
    BY <2>2, <2>3
<1>2. Typed /\ Typed' /\ Inv /\ [Next]_vars => Inv'
  <2> SUFFICES ASSUME Typed, Typed', Inv, [Next]_vars PROVE Inv'
    OBVIOUS
  <2>1. CASE Next
    BY <2>1, IdsFiniteStep, CompanionsStep, GuestsStep DEF Next, GuestsAndOutcomes
  <2>2. CASE UNCHANGED vars
    <3>1. IdsFinite'
      BY <2>2 DEF vars, IdsFinite, present
    <3>2. Companions'
      BY <2>2 DEF vars, Companions, HasAccount
    <3>3. Guests'
      BY <2>2 DEF vars, Guests, GuestOK, Alone, HasRow, KeepsName, TakenAway, Named, present
    <3> QED
      BY <3>1, <3>2, <3>3
  <2> QED
    BY <2>1, <2>2
<1>3. Typed /\ Typed' /\ Inv /\ [Next]_vars =>
        [\A p \in Procs :
           job[p].kind = "guest" /\ job[p].pc # "idle" /\ job'[p].pc = "idle" /\ p \notin crossed =>
             \/ job'[p].result = "created" /\ Complete(job[p])'
             \/ job'[p].result = "failed" /\ NothingLeft(job[p])'
             \/ job'[p].result = "error"]_vars
  <2> SUFFICES ASSUME Typed, Typed', Inv, Next
               PROVE  \A p \in Procs : p \notin crossed => Outcome(p)
    BY DEF Outcome
  <2> QED
    BY GuestsStep DEF GuestsAndOutcomes
<1> HIDE DEF Inv
<1> QED
  BY <1>1, <1>2, <1>3, TypedInvariant, PTL DEF Spec, RegistrationAllOrNothing
=============================================================================
