--------------------------- MODULE GamePlayProofs ---------------------------
(***************************************************************************)
(* Whispers stay private, yells arrive, and commands do what they answer,  *)
(* for any number of processes, characters and rooms, whatever stops where.*)
(***************************************************************************)
EXTENDS GamePlay, FiniteSetTheorems, WellFoundedInduction, TLAPS

\* No two rows bear one name in one world.
Unique ==
  \A c, d \in Characters :
    /\ state[c] = "there" /\ state[d] = "there"
    /\ Name[c] = Name[d] /\ Home[c] = Home[d]
    => c = d

\* What a command in progress holds between its calls.
HeldBy(p) ==
  /\ pc[p] # "idle" => who[p] \in Characters /\ kind[p] \in Kinds
  /\ pc[p] # "idle" /\ kind[p] \in {"whisper", "kick"} => arg[p] \in Names
  /\ pc[p] # "idle" /\ kind[p] \in {"get", "drop"} => arg[p] \in Items
  /\ pc[p] = "room" => kind[p] # "kick"
  /\ pc[p] = "go" => kind[p] \in {"move", "recall"}
  /\ pc[p] = "describe" => room[p] \in Rooms
  /\ pc[p] = "say" => kind[p] \in {"say", "yell", "whisper"} /\ room[p] \in Rooms
  /\ pc[p] = "spread" => kind[p] = "yell"
  /\ pc[p] = "target" => kind[p] = "kick" \/ (kind[p] = "whisper" /\ room[p] \in Rooms)
  /\ pc[p] \in {"online", "near"} => kind[p] = "whisper" /\ room[p] \in Rooms
  /\ pc[p] = "find" => kind[p] = "kick"
  /\ pc[p] \in {"bag", "write"} => kind[p] \in {"get", "drop"}
  /\ (pc[p] = "go" /\ kind[p] = "move") \/ (pc[p] = "say" /\ kind[p] = "yell")
       => room[p] \in Rooms /\ IsRoom(p, MyWorld(p), room[p])

\* A whisper on its way has found the character it is meant for.
AimedBy(p) ==
  pc[p] \in {"online", "near"} \/ (pc[p] = "say" /\ kind[p] = "whisper") =>
    /\ aim[p] \in Characters /\ state[aim[p]] # "absent"
    /\ Name[aim[p]] = arg[p] /\ Home[aim[p]] = MyWorld(p)

Held  == \A p \in Procs : HeldBy(p)
Aimed == \A p \in Procs : AimedBy(p)

\* A stored whisper goes to whom it was meant for, unless that one is gone.
Addressed ==
  \A m \in chat : m.kind = "whisper" =>
    /\ m.meant \in Characters /\ state[m.meant] # "absent"
    /\ m.to = m.meant \/ state[m.meant] # "there"

IInv == TypeOK /\ Unique /\ Held /\ Aimed /\ Addressed

-----------------------------------------------------------------------------
\* A set of numbers has a least one, and a greatest one if it is bounded.
LEMMA Least ==
  ASSUME NEW T \in SUBSET Nat, T # {}
  PROVE  \E x \in T : \A y \in T : x <= y
<1>1. PICK x \in T : \A y \in T : ~ (<<y, x>> \in OpToRel(<, Nat))
  BY WFMin, NatLessThanWellFounded
<1>2. \A y \in T : ~ (y < x)  BY <1>1 DEF OpToRel
<1> QED  BY <1>2

LEMMA Greatest ==
  ASSUME NEW n \in Nat, NEW T \in SUBSET (1..n), T # {}
  PROVE  \E x \in T : \A y \in T : y <= x
<1> DEFINE U == {n - x : x \in T}
<1>1. U \in SUBSET Nat /\ U # {}
  <2>1. \A x \in T : n - x \in Nat  OBVIOUS
  <2>2. \A u \in U : u \in Nat  BY <2>1
  <2>3. PICK x \in T : TRUE  OBVIOUS
  <2>4. n - x \in U  BY <2>3
  <2> QED  BY <2>2, <2>4
<1>2. PICK u \in U : \A v \in U : u <= v  BY <1>1, Least
<1>3. PICK x \in T : u = n - x  BY <1>2
<1>4. \A y \in T : n - x <= n - y  BY <1>2, <1>3
<1> QED  BY <1>4

LEMMA RowNamed ==
  ASSUME NEW n, AnyNamed(n) # {}
  PROVE  Row(n) \in AnyNamed(n)
<1>1. AnyNamed(n) \in SUBSET Nat  BY CharactersAreIds DEF AnyNamed
<1>2. \E c \in AnyNamed(n) : \A d \in AnyNamed(n) : c <= d  BY <1>1, Least
<1> QED  BY <1>2 DEF Row

\* The zones a room is looked up in are zones.
LEMMA ZonesOfRoom ==
  ASSUME NEW p \in Procs, zones[p] \in Seq(Zones), NEW w, NEW r, IsRoom(p, w, r)
  PROVE  LastZone(p, w, r) \in Zones /\ FirstZone(p, w, r) \in Zones
<1>1. PICK n \in Nat : DOMAIN zones[p] = 1..n  OBVIOUS
<1>2. Having(p, w, r) \in SUBSET (1..n) /\ Having(p, w, r) # {}  BY <1>1 DEF Having, IsRoom
<1>3. \E i \in Having(p, w, r) : \A j \in Having(p, w, r) : j <= i  BY <1>2, Greatest
<1>4. \E i \in Having(p, w, r) : \A j \in Having(p, w, r) : i <= j
  <2>1. Having(p, w, r) \in SUBSET Nat  BY <1>2
  <2> QED  BY <2>1, <1>2, Least
<1>5. \A i \in Having(p, w, r) : zones[p][i] \in Zones  BY <1>1, <1>2
<1> QED  BY <1>3, <1>4, <1>5 DEF LastZone, FirstZone

LEMMA WaysAreRefs ==
  ASSUME NEW p \in Procs, zones[p] \in Seq(Zones), NEW w, NEW r \in Rooms, IsRoom(p, w, r)
  PROVE  Ways(p, w, r) \in SUBSET Refs
<1>1. LastZone(p, w, r) \in Zones  BY ZonesOfRoom
<1> QED  BY <1>1, PackageType DEF Ways

LEMMA SpawnIsRoom ==
  ASSUME NEW p \in Procs, zones[p] \in Seq(Zones), NEW w \in Worlds, NEW r
  PROVE  SpawnFor(p, w, r) \in Rooms
<1>1. CASE IsRoom(p, w, r)
  <2>1. FirstZone(p, w, r) \in Zones  BY <1>1, ZonesOfRoom
  <2> QED  BY <1>1, <2>1, PackageType DEF SpawnFor
<1>2. CASE ~IsRoom(p, w, r)  BY <1>2, PackageType DEF SpawnFor
<1> QED  BY <1>1, <1>2

LEMMA LoadingIsList ==
  ASSUME NEW p \in Procs, zones[p] \in Seq(Zones), NEW ref \in Refs
  PROVE  Loading(p, ref) \in Seq(Zones)
<1>1. ref[1] \in Zones \cup {None}  BY DEF Refs
<1> QED  BY <1>1 DEF Loading

LEMMA RoomIsRoom ==
  ASSUME RowsOK, NEW n, NEW w
  PROVE  RoomOf(n, w) \in Rooms \cup {None}
<1>1. CASE Named(n, w) = {}  BY <1>1 DEF RoomOf
<1>2. CASE Named(n, w) # {}
  <2>1. Row(n) \in AnyNamed(n)
    <3>1. AnyNamed(n) # {}  BY <1>2 DEF Named, AnyNamed
    <3> QED  BY <3>1, RowNamed
  <2>2. Row(n) \in Characters  BY <2>1 DEF AnyNamed
  <2>3. loc[Row(n)] \in (Worlds \X Rooms) \cup {None}  BY <2>2 DEF RowsOK
  <2> QED  BY <2>3 DEF RoomOf
<1> QED  BY <1>1, <1>2

\* A step goes on to a stage or gives an answer.
LEMMA NamesOfStages ==
  /\ {"idle", "room", "go", "describe", "say", "spread", "target", "online", "near",
      "find", "kick", "bag", "write", "done"} \subseteq Stages
  /\ {"none", "ok", "refused", "failed"} \subseteq Answers
BY DEF Stages, Answers

LEMMA GoesOn ==
  ASSUME ControlOK, NEW p \in Procs, Kept, aim' \in [Procs -> Characters \cup {None}],
         \/ \E where \in Stages : Goto(p, where) /\ answer' = answer
         \/ \E how \in Answers : Answer(p, how)
         \/ UNCHANGED <<pc, answer>>
  PROVE  ControlOK'
<1> USE DEF ControlOK, Kept
<1>1. pc' \in [Procs -> Stages] /\ answer' \in [Procs -> Answers]
  <2>1. CASE \E where \in Stages : Goto(p, where) /\ answer' = answer  BY <2>1 DEF Goto
  <2>2. CASE \E how \in Answers : Answer(p, how)
    <3>1. PICK how \in Answers : Answer(p, how)  BY <2>2
    <3>2. "done" \in Stages  BY NamesOfStages
    <3> QED  BY <3>1, <3>2 DEF Answer, Goto
  <2> QED  BY <2>1, <2>2
<1> QED  BY <1>1

LEMMA ControlKept ==
  ASSUME TypeOK, Held, NEW p \in Procs, Step(p)
  PROVE  ControlOK'
<1> USE GoesOn, NamesOfStages
<1>0. ControlOK /\ aim \in [Procs -> Characters \cup {None}]  BY DEF TypeOK, ControlOK
<1>1. CASE Give(p)
  <2>1. PICK c \in online, k \in Kinds : \E a \in Arguments(k) :
          /\ kind' = [kind EXCEPT ![p] = k] /\ who' = [who EXCEPT ![p] = c]
          /\ arg' = [arg EXCEPT ![p] = a] /\ Goto(p, Entry(k))
          /\ LET rivals == {q \in Procs \ {p} : pc[q] # "idle" /\ Name[who[q]] = Name[c]}
             IN alone' = [q \in Procs |-> IF q = p THEN rivals = {} ELSE alone[q] /\ q \notin rivals]
    BY <1>1 DEF Give
  <2>2. c \in Characters  BY <2>1 DEF TypeOK, RowsOK
  <2>3. Entry(k) \in Stages  BY <1>0 DEF Entry
  <2>4. \A a \in Arguments(k) : a \in Names \cup Items \cup {None}  BY DEF Arguments
  <2>5. pc' \in [Procs -> Stages] /\ kind' \in [Procs -> Kinds \cup {"none"}]
    BY <1>0, <2>1, <2>3 DEF ControlOK, Goto
  <2>6. who' \in [Procs -> Characters \cup {None}] /\ arg' \in [Procs -> Names \cup Items \cup {None}]
    BY <1>0, <2>1, <2>2, <2>4 DEF ControlOK
  <2>7. alone' \in [Procs -> BOOLEAN]
    <3> DEFINE rivals == {q \in Procs \ {p} : pc[q] # "idle" /\ Name[who[q]] = Name[c]}
    <3>1. alone' = [q \in Procs |-> IF q = p THEN rivals = {} ELSE alone[q] /\ q \notin rivals]  BY <2>1
    <3> HIDE DEF rivals
    <3>2. \A q \in Procs : (IF q = p THEN rivals = {} ELSE alone[q] /\ q \notin rivals) \in BOOLEAN  OBVIOUS
    <3> QED  BY <3>1, <3>2
  <2>8. no' \in [Procs -> 0..MaxCommands]
    <3>1. given + 1 \in 0..MaxCommands  BY <1>1, GameBounds DEF Give, TypeOK
    <3> QED  BY <1>0, <1>1, <3>1 DEF Give, ControlOK
  <2>9. UNCHANGED <<aim, answer>>  BY <1>1 DEF Give
  <2> QED  BY <1>0, <2>5, <2>6, <2>7, <2>8, <2>9 DEF ControlOK

<1>2. CASE ReadRoom(p)
  <2>1. WillDo(p, RoomOf(MyName(p), MyWorld(p))) => Onward[kind[p]] \in Stages
    BY <1>0 DEF WillDo, Onward
  <2> QED  BY <1>2, <1>0, <2>1 DEF ReadRoom
<1>3. CASE NoExit(p)  BY <1>0, <1>3 DEF NoExit
<1>4. CASE Move(p)  BY <1>0, <1>4 DEF Move, Place
<1>5. CASE Recall(p)  BY <1>0, <1>5 DEF Recall, Place
<1>6. CASE Describe(p)  BY <1>0, <1>6 DEF Describe
<1>7. CASE Say(p)  BY <1>0, <1>7 DEF Say
<1>8. CASE Spread(p)  BY <1>0, <1>8 DEF Spread
<1>9. CASE Heard(p)  BY <1>0, <1>9 DEF Heard
<1>10. CASE Target(p)
  <2>1. aim' \in [Procs -> Characters \cup {None}]
    <3>1. CASE aim' = aim  BY <1>0, <3>1
    <3>2. CASE aim' # aim
      <4>1. Named(arg[p], MyWorld(p)) # {} /\ aim' = [aim EXCEPT ![p] = CHOOSE c \in Named(arg[p], MyWorld(p)) : TRUE]
        BY <1>10, <3>2 DEF Target
      <4>2. (CHOOSE c \in Named(arg[p], MyWorld(p)) : TRUE) \in Characters  BY <4>1 DEF Named
      <4> QED  BY <1>0, <4>1, <4>2
    <3> QED  BY <3>1, <3>2
  <2> QED  BY <1>10, <1>0, <2>1 DEF Target
<1>11. CASE Online(p)  BY <1>0, <1>11 DEF Online
<1>12. CASE Near(p)  BY <1>0, <1>12 DEF Near
<1>13. CASE Find(p)
  <2>1. aim' \in [Procs -> Characters \cup {None}]
    <3>1. CASE aim' = aim  BY <1>0, <3>1
    <3>2. CASE aim' # aim
      <4>1. AnyNamed(arg[p]) # {} /\ aim' = [aim EXCEPT ![p] = Row(arg[p])]  BY <1>13, <3>2 DEF Find
      <4>2. Row(arg[p]) \in Characters  BY <4>1, RowNamed DEF AnyNamed
      <4> QED  BY <1>0, <4>1, <4>2
    <3> QED  BY <3>1, <3>2
  <2> QED  BY <1>13, <1>0, <2>1 DEF Find
<1>14. CASE Kick(p)
  <2>1. (IF aim[p] \in online THEN "ok" ELSE "refused") \in Answers  BY <1>0
  <2> QED  BY <1>14, <1>0, <2>1 DEF Kick
<1>15. CASE ReadBag(p)  BY <1>0, <1>15 DEF ReadBag
<1>16. CASE WriteBag(p)  BY <1>0, <1>16 DEF WriteBag
<1>17. CASE Return(p)
  <2>1. Forget(p)  BY <1>17 DEF Return
  <2> QED  BY <1>0, <2>1, GameBounds DEF Forget, Goto, ControlOK
<1>18. CASE Fail(p)  BY <1>0, <1>18 DEF Fail
<1>19. CASE Restart(p)
  <2>1. Forget(p)  BY <1>19 DEF Restart
  <2> QED  BY <1>0, <2>1, GameBounds DEF Forget, Goto, ControlOK
<1> QED  BY <1>1, <1>2, <1>3, <1>4, <1>5, <1>6, <1>7, <1>8, <1>9, <1>10, <1>11, <1>12, <1>13, <1>14, <1>15, <1>16, <1>17, <1>18, <1>19 DEF Step

LEMMA Placed ==
  ASSUME TypeOK, NEW p \in Procs, NEW r \in Rooms, Place(p, r), who[p] \in Characters
  PROVE  /\ room' \in [Procs -> Rooms \cup {None}]
         /\ RowsOK'
         /\ UNCHANGED <<state, online, inv, chat>>
<1>1. CASE Named(MyName(p), MyWorld(p)) = {}
  BY <1>1 DEF Place, rows, TypeOK, RowsOK, DataOK
<1>2. CASE Named(MyName(p), MyWorld(p)) # {}
  <2>1. MyWorld(p) \in Worlds  BY DEF MyWorld, Worlds
  <2>2. /\ loc' = [loc EXCEPT ![Row(MyName(p))] = <<MyWorld(p), r>>]
        /\ room' = [room EXCEPT ![p] = r]
        /\ UNCHANGED <<state, online, inv, chat>>
    BY <1>2 DEF Place
  <2>3. <<MyWorld(p), r>> \in Worlds \X Rooms  BY <2>1
  <2>4. loc' \in [Characters -> (Worlds \X Rooms) \cup {None}]
    <3> DEFINE T == (Worlds \X Rooms) \cup {None}
    <3>1. loc \in [Characters -> T] /\ <<MyWorld(p), r>> \in T  BY <2>3 DEF TypeOK, RowsOK
    <3> HIDE DEF T
    <3>2. loc' \in [Characters -> T]  BY <2>2, <3>1
    <3> QED  BY <3>2 DEF T
  <2>5. room' \in [Procs -> Rooms \cup {None}]  BY <2>2 DEF TypeOK, DataOK
  <2> QED  BY <2>2, <2>4, <2>5 DEF TypeOK, RowsOK
<1> QED  BY <1>1, <1>2

\* The parts of DataOK that most steps leave alone.
LEMMA DataKept ==
  ASSUME TypeOK, Held, NEW p \in Procs, Step(p)
  PROVE  DataOK'
<1> USE DEF Kept
<1>0. /\ DataOK /\ zones[p] \in Seq(Zones) /\ RowsOK /\ HeldBy(p)
  BY DEF TypeOK, DataOK, Held
<1>1. CASE Give(p)  BY <1>0, <1>1 DEF Give, DataOK
<1>2. CASE ReadRoom(p)
  <2>1. RoomOf(MyName(p), MyWorld(p)) \in Rooms \cup {None}  BY <1>0, RoomIsRoom
  <2> QED  BY <1>2, <1>0, <2>1 DEF ReadRoom, DataOK
<1>3. CASE NoExit(p)  BY <1>0, <1>3 DEF NoExit, Answer, DataOK
<1>4. CASE Move(p)
  <2>1. PICK ref \in Ways(p, MyWorld(p), room[p]) :
          /\ zones' = [zones EXCEPT ![p] = Loading(p, ref)]
          /\ Place(p, ref[2]) \/ (Answer(p, "refused") /\ UNCHANGED <<rows, room>>)
    BY <1>4 DEF Move
  <2>2. ref \in Refs
    <3>1. room[p] \in Rooms /\ IsRoom(p, MyWorld(p), room[p])  BY <1>4, <1>0 DEF Move, HeldBy
    <3> QED  BY <1>0, <2>1, <3>1, WaysAreRefs
  <2>3. zones' \in [Procs -> Seq(Zones)]  BY <1>0, <2>1, <2>2, LoadingIsList DEF DataOK
  <2>4. room' \in [Procs -> Rooms \cup {None}]
    <3>1. ref[2] \in Rooms /\ who[p] \in Characters  BY <1>4, <1>0, <2>2 DEF Refs, Move, HeldBy
    <3> QED  BY <1>0, <2>1, <3>1, Placed DEF DataOK
  <2> QED  BY <1>4, <1>0, <2>3, <2>4 DEF Move, DataOK
<1>5. CASE Recall(p)
  <2>1. who[p] \in Characters /\ SpawnFor(p, MyWorld(p), room[p]) \in Rooms
    <3>1. who[p] \in Characters  BY <1>5, <1>0 DEF Recall, HeldBy
    <3>2. MyWorld(p) \in Worlds  BY <3>1 DEF MyWorld, Worlds
    <3> QED  BY <1>0, <3>1, <3>2, SpawnIsRoom
  <2>2. room' \in [Procs -> Rooms \cup {None}]  BY <1>5, <1>0, <2>1, Placed DEF Recall, DataOK
  <2> QED  BY <1>5, <1>0, <2>2 DEF Recall, DataOK
<1>6. CASE Describe(p)
  <2>1. UNCHANGED <<room, bag, left, missed>>  BY <1>6 DEF Describe
  <2>2. CASE UNCHANGED zones  BY <1>0, <2>1, <2>2 DEF DataOK
  <2>3. CASE ~UNCHANGED zones
    <3> DEFINE new == {ref[1] : ref \in Ways(p, MyWorld(p), room[p])} \ ({None} \cup Loaded(p))
    <3>1. IsRoom(p, MyWorld(p), room[p]) /\ \E s \in Orders(new) : zones' = [zones EXCEPT ![p] = @ \o s]
      BY <1>6, <2>3 DEF Describe
    <3>2. Ways(p, MyWorld(p), room[p]) \in SUBSET Refs
      BY <1>6, <1>0, <3>1, WaysAreRefs DEF Describe, HeldBy
    <3>3. new \in SUBSET Zones  BY <3>2 DEF Refs
    <3>4. Cardinality(new) \in Nat  BY <3>3, FiniteZones, FS_Subset, FS_CardinalityType
    <3> HIDE DEF new
    <3>5. PICK s \in [1..Cardinality(new) -> new] : zones' = [zones EXCEPT ![p] = @ \o s]  BY <3>1 DEF Orders
    <3>6. s \in Seq(Zones)
      <4>1. s \in [1..Cardinality(new) -> Zones]  BY <3>3, <3>5
      <4> QED  BY <3>4, <4>1
    <3>7. zones[p] \o s \in Seq(Zones)  BY <1>0, <3>6
    <3> QED  BY <1>0, <2>1, <3>5, <3>7 DEF DataOK
  <2> QED  BY <2>2, <2>3
<1>7. CASE Say(p)
  <2>1. CASE left' = [left EXCEPT ![p] = Ways(p, MyWorld(p), room[p])] /\ kind[p] = "yell"
    <3>1. room[p] \in Rooms /\ IsRoom(p, MyWorld(p), room[p])  BY <1>7, <1>0, <2>1 DEF Say, HeldBy
    <3>2. Ways(p, MyWorld(p), room[p]) \in SUBSET Refs  BY <1>0, <3>1, WaysAreRefs
    <3>3. left' \in [Procs -> SUBSET Refs]  BY <1>0, <2>1, <3>2 DEF DataOK
    <3>4. missed' \in [Procs -> SUBSET Refs]  BY <1>7, <1>0 DEF Say, DataOK
    <3> QED  BY <1>7, <1>0, <3>3, <3>4 DEF Say, DataOK
  <2>2. CASE UNCHANGED <<left, missed>>  BY <1>7, <1>0, <2>2 DEF Say, DataOK
  <2> QED  BY <1>7, <2>1, <2>2 DEF Say
<1>8. CASE Spread(p)
  <2>1. PICK ref \in left[p] :
          /\ left' = [left EXCEPT ![p] = @ \ {ref}]
          /\ missed' = [missed EXCEPT ![p] = @ \cup {ref}] \/ UNCHANGED missed
    BY <1>8 DEF Spread
  <2>2. left[p] \in SUBSET Refs /\ missed[p] \in SUBSET Refs  BY <1>0 DEF DataOK
  <2>3. left' \in [Procs -> SUBSET Refs] /\ missed' \in [Procs -> SUBSET Refs]
    BY <1>0, <2>1, <2>2 DEF DataOK
  <2> QED  BY <1>8, <1>0, <2>3 DEF Spread, DataOK
<1>9. CASE Heard(p)  BY <1>0, <1>9 DEF Heard, DataOK
<1>10. CASE Target(p)  BY <1>0, <1>10 DEF Target, DataOK
<1>11. CASE Online(p)  BY <1>0, <1>11 DEF Online, DataOK
<1>12. CASE Near(p)  BY <1>0, <1>12 DEF Near, DataOK
<1>13. CASE Find(p)  BY <1>0, <1>13 DEF Find, DataOK
<1>14. CASE Kick(p)  BY <1>0, <1>14 DEF Kick, DataOK
<1>15. CASE ReadBag(p)
  <2> DEFINE held == IF Named(MyName(p), MyWorld(p)) = {} THEN {} ELSE inv[Row(MyName(p))]
  <2>1. held \in SUBSET Items
    <3>1. CASE Named(MyName(p), MyWorld(p)) = {}  BY <3>1
    <3>2. CASE Named(MyName(p), MyWorld(p)) # {}
      <4>1. AnyNamed(MyName(p)) # {}  BY <3>2 DEF Named, AnyNamed
      <4>2. Row(MyName(p)) \in Characters  BY <4>1, RowNamed DEF AnyNamed
      <4> QED  BY <1>0, <3>2, <4>2 DEF RowsOK
    <3> QED  BY <3>1, <3>2
  <2>2. \/ bag' = [bag EXCEPT ![p] = held \cup {arg[p]}] /\ kind[p] = "get"
        \/ bag' = [bag EXCEPT ![p] = held \ {arg[p]}]
        \/ UNCHANGED bag
    BY <1>15 DEF ReadBag
  <2>3. UNCHANGED <<zones, room, left, missed>> /\ (kind[p] = "get" => arg[p] \in Items)
    BY <1>15, <1>0 DEF ReadBag, HeldBy
  <2> HIDE DEF held
  <2>4. bag' \in [Procs -> SUBSET Items]  BY <1>0, <2>1, <2>2, <2>3 DEF DataOK
  <2> QED  BY <1>0, <2>3, <2>4 DEF DataOK
<1>16. CASE WriteBag(p)  BY <1>0, <1>16 DEF WriteBag, DataOK
<1>17. CASE Return(p)  BY <1>0, <1>17, <1>0 DEF Return, Forget, DataOK
<1>18. CASE Fail(p)  BY <1>0, <1>18 DEF Fail, DataOK
<1>19. CASE Restart(p)  BY <1>0, <1>19, <1>0, PackageType DEF Restart, Forget, DataOK
<1> QED  BY <1>1, <1>2, <1>3, <1>4, <1>5, <1>6, <1>7, <1>8, <1>9, <1>10, <1>11, <1>12, <1>13, <1>14, <1>15, <1>16, <1>17, <1>18, <1>19 DEF Step

LEMMA RowsKept ==
  ASSUME TypeOK, Held, NEW p \in Procs, Step(p)
  PROVE  RowsOK' /\ state' = state
<1> USE DEF rows
<1>0. RowsOK /\ HeldBy(p)  BY DEF TypeOK, Held
<1>1. CASE Give(p)  BY <1>0, <1>1 DEF Give, RowsOK, Stored
<1>2. CASE ReadRoom(p)  BY <1>0, <1>2 DEF ReadRoom, RowsOK, Stored
<1>3. CASE NoExit(p)  BY <1>0, <1>3 DEF NoExit, RowsOK, Stored
<1>4. CASE Move(p)
  <2>1. PICK ref \in Ways(p, MyWorld(p), room[p]) :
          Place(p, ref[2]) \/ UNCHANGED <<rows, room>>
    BY <1>4 DEF Move
  <2>2. room[p] \in Rooms /\ IsRoom(p, MyWorld(p), room[p]) /\ who[p] \in Characters
    BY <1>4, <1>0 DEF Move, HeldBy
  <2>3. zones[p] \in Seq(Zones)  BY DEF TypeOK, DataOK
  <2>4. ref[2] \in Rooms  BY <2>1, <2>2, <2>3, WaysAreRefs DEF Refs
  <2> QED  BY <1>0, <2>1, <2>2, <2>4, Placed DEF RowsOK
<1>5. CASE Recall(p)
  <2>1. who[p] \in Characters  BY <1>5, <1>0 DEF Recall, HeldBy
  <2>2. MyWorld(p) \in Worlds  BY <2>1 DEF MyWorld, Worlds
  <2>3. SpawnFor(p, MyWorld(p), room[p]) \in Rooms
    BY <2>2, SpawnIsRoom DEF TypeOK, DataOK
  <2> QED  BY <1>5, <1>0, <2>1, <2>3, Placed DEF Recall, RowsOK
<1>6. CASE Describe(p)  BY <1>0, <1>6 DEF Describe, RowsOK, Stored
<1>7. CASE Say(p)  BY <1>0, <1>7 DEF Say, RowsOK, Stored
<1>8. CASE Spread(p)  BY <1>0, <1>8 DEF Spread, RowsOK, Stored
<1>9. CASE Heard(p)  BY <1>0, <1>9 DEF Heard, RowsOK, Stored
<1>10. CASE Target(p)  BY <1>0, <1>10 DEF Target, RowsOK, Stored
<1>11. CASE Online(p)  BY <1>0, <1>11 DEF Online, RowsOK, Stored
<1>12. CASE Near(p)  BY <1>0, <1>12 DEF Near, RowsOK, Stored
<1>13. CASE Find(p)  BY <1>0, <1>13 DEF Find, RowsOK, Stored
<1>14. CASE Kick(p)  BY <1>0, <1>14 DEF Kick, RowsOK, Stored
<1>15. CASE ReadBag(p)  BY <1>0, <1>15 DEF ReadBag, RowsOK, Stored
<1>16. CASE WriteBag(p)
  <2>1. bag[p] \in SUBSET Items  BY DEF TypeOK, DataOK
  <2>2. inv' \in [Characters -> SUBSET Items]  BY <1>16, <1>0, <2>1 DEF WriteBag, RowsOK
  <2> QED  BY <1>16, <1>0, <2>2 DEF WriteBag, RowsOK
<1>17. CASE Return(p)  BY <1>0, <1>17 DEF Return, RowsOK, Stored
<1>18. CASE Fail(p)  BY <1>0, <1>18 DEF Fail, RowsOK, Stored
<1>19. CASE Restart(p)  BY <1>0, <1>19 DEF Restart, RowsOK, Stored
<1> QED  BY <1>1, <1>2, <1>3, <1>4, <1>5, <1>6, <1>7, <1>8, <1>9, <1>10, <1>11, <1>12, <1>13, <1>14, <1>15, <1>16, <1>17, <1>18, <1>19 DEF Step

\* A message stored is the row of its sender's, and a whisper's of whom its
\* name stands for at that moment.
LEMMA MessageTyped ==
  ASSUME TypeOK, Held, NEW p \in Procs, pc[p] \in {"say", "spread"}, NEW ref \in Refs,
         Named(MyName(p), MyWorld(p)) # {}
  PROVE  /\ Message(p, ref) \in MessageRows
         /\ \A c \in {Message(p, ref).by, Message(p, ref).to} \ {None} : state[c] = "there"
<1> DEFINE by == CHOOSE c \in Named(MyName(p), MyWorld(p)) : TRUE
           to == IF kind[p] = "whisper" THEN Recipient(arg[p], MyWorld(p)) ELSE None
<1>1. by \in Characters /\ state[by] = "there"  BY DEF Named
<1>2. to \in Characters \cup {None} /\ (to # None => state[to] = "there")
  BY DEF Recipient, Named
<1>3. MyWorld(p) \in Worlds /\ kind[p] \in Kinds
  <2>1. who[p] \in Characters /\ kind[p] \in Kinds  BY DEF Held, HeldBy
  <2> QED  BY <2>1 DEF MyWorld, Worlds
<1>4. aim[p] \in Characters \cup {None} /\ no[p] \in 0..MaxCommands  BY DEF TypeOK, ControlOK
<1>5. Message(p, ref) = [by |-> by, to |-> to, world |-> MyWorld(p), room |-> ref,
                         kind |-> kind[p], meant |-> aim[p], no |-> no[p]]
  BY DEF Message
<1> HIDE DEF by, to
<1> QED  BY <1>1, <1>2, <1>3, <1>4, <1>5 DEF MessageRows

LEMMA StoredKeeps ==
  ASSUME TypeOK, Held, NEW p \in Procs, pc[p] \in {"say", "spread"}, NEW ref \in Refs, Stored(p, ref)
  PROVE  ChatOK'
<1>1. chat' = chat \cup {Message(p, ref)} /\ state' = state  BY DEF Stored
<1>2. /\ Message(p, ref) \in MessageRows
      /\ \A c \in {Message(p, ref).by, Message(p, ref).to} \ {None} : state[c] # "deleted"
  BY MessageTyped DEF Stored
<1>3. \A m \in chat' : \A c \in {m.by, m.to} \ {None} : state[c] # "deleted"
  BY <1>1, <1>2 DEF TypeOK, ChatOK
<1> QED  BY <1>1, <1>2, <1>3 DEF TypeOK, ChatOK

\* Only a say, a whisper and a yell store messages.
LEMMA StepStores ==
  ASSUME TypeOK, Held, NEW p \in Procs, Step(p)
  PROVE  \/ chat' = chat
         \/ \E ref \in Refs : Stored(p, ref) /\ pc[p] \in {"say", "spread"} /\ (pc[p] = "spread" => kind[p] = "yell")
<1> USE DEF rows
<1>0. HeldBy(p)  BY DEF Held
<1>1. CASE Give(p)  BY <1>1 DEF Give, Place
<1>2. CASE ReadRoom(p)  BY <1>2 DEF ReadRoom, Place
<1>3. CASE NoExit(p)  BY <1>3 DEF NoExit, Place
<1>4. CASE Move(p)  BY <1>4 DEF Move, Place
<1>5. CASE Recall(p)  BY <1>5 DEF Recall, Place
<1>6. CASE Describe(p)  BY <1>6 DEF Describe, Place
<1>7. CASE Say(p)
  <2>1. <<None, room[p]>> \in Refs  BY <1>7, <1>0 DEF Say, HeldBy, Refs
  <2> QED  BY <1>7, <2>1 DEF Say
<1>8. CASE Spread(p)
  <2>1. left[p] \in SUBSET Refs /\ kind[p] = "yell"
    BY <1>8, <1>0 DEF Spread, HeldBy, TypeOK, DataOK
  <2> QED  BY <1>8, <2>1 DEF Spread
<1>9. CASE Heard(p)  BY <1>9 DEF Heard, Place
<1>10. CASE Target(p)  BY <1>10 DEF Target, Place
<1>11. CASE Online(p)  BY <1>11 DEF Online, Place
<1>12. CASE Near(p)  BY <1>12 DEF Near, Place
<1>13. CASE Find(p)  BY <1>13 DEF Find, Place
<1>14. CASE Kick(p)  BY <1>14 DEF Kick, Place
<1>15. CASE ReadBag(p)  BY <1>15 DEF ReadBag, Place
<1>16. CASE WriteBag(p)  BY <1>16 DEF WriteBag, Place
<1>17. CASE Return(p)  BY <1>17 DEF Return, Place
<1>18. CASE Fail(p)  BY <1>18 DEF Fail, Place
<1>19. CASE Restart(p)  BY <1>19 DEF Restart, Place
<1> QED  BY <1>1, <1>2, <1>3, <1>4, <1>5, <1>6, <1>7, <1>8, <1>9, <1>10, <1>11, <1>12, <1>13, <1>14, <1>15, <1>16, <1>17, <1>18, <1>19 DEF Step

LEMMA ChatKept ==
  ASSUME TypeOK, Held, NEW p \in Procs, Step(p)
  PROVE  ChatOK'
<1>1. state' = state  BY RowsKept
<1>2. CASE chat' = chat  BY <1>1, <1>2 DEF TypeOK, ChatOK
<1>3. CASE \E ref \in Refs : Stored(p, ref) /\ pc[p] \in {"say", "spread"}  BY <1>3, StoredKeeps
<1> QED  BY <1>2, <1>3, StepStores

\* A step of one process leaves the others where they are.
LEMMA OthersKept ==
  ASSUME TypeOK, NEW p \in Procs, Step(p), NEW q \in Procs \ {p}
  PROVE  /\ pc'[q] = pc[q] /\ kind'[q] = kind[q] /\ who'[q] = who[q] /\ arg'[q] = arg[q]
         /\ aim'[q] = aim[q] /\ room'[q] = room[q] /\ zones'[q] = zones[q]
<1> USE DEF TypeOK, ControlOK, DataOK, Kept, Goto, Answer, Forget
<1>1. CASE Give(p)  BY <1>1 DEF Give, Place, rows
<1>2. CASE ReadRoom(p)  BY <1>2 DEF ReadRoom, Place, rows
<1>3. CASE NoExit(p)  BY <1>3 DEF NoExit, Place, rows
<1>4. CASE Move(p)  BY <1>4 DEF Move, Place, rows
<1>5. CASE Recall(p)  BY <1>5 DEF Recall, Place, rows
<1>6. CASE Describe(p)  BY <1>6 DEF Describe, Place, rows
<1>7. CASE Say(p)  BY <1>7 DEF Say, Place, rows
<1>8. CASE Spread(p)  BY <1>8 DEF Spread, Place, rows
<1>9. CASE Heard(p)  BY <1>9 DEF Heard, Place, rows
<1>10. CASE Target(p)  BY <1>10 DEF Target, Place, rows
<1>11. CASE Online(p)  BY <1>11 DEF Online, Place, rows
<1>12. CASE Near(p)  BY <1>12 DEF Near, Place, rows
<1>13. CASE Find(p)  BY <1>13 DEF Find, Place, rows
<1>14. CASE Kick(p)  BY <1>14 DEF Kick, Place, rows
<1>15. CASE ReadBag(p)  BY <1>15 DEF ReadBag, Place, rows
<1>16. CASE WriteBag(p)  BY <1>16 DEF WriteBag, Place, rows
<1>17. CASE Return(p)  BY <1>17 DEF Return, Place, rows
<1>18. CASE Fail(p)  BY <1>18 DEF Fail, Place, rows
<1>19. CASE Restart(p)  BY <1>19 DEF Restart, Place, rows
<1> QED  BY <1>1, <1>2, <1>3, <1>4, <1>5, <1>6, <1>7, <1>8, <1>9, <1>10, <1>11, <1>12, <1>13, <1>14, <1>15, <1>16, <1>17, <1>18, <1>19 DEF Step

LEMMA HeldOfOthers ==
  ASSUME TypeOK, Held, NEW p \in Procs, Step(p), NEW q \in Procs \ {p}
  PROVE  HeldBy(q)'
<1>1. HeldBy(q)  BY DEF Held
<1>2. /\ pc'[q] = pc[q] /\ kind'[q] = kind[q] /\ who'[q] = who[q] /\ arg'[q] = arg[q]
      /\ room'[q] = room[q] /\ zones'[q] = zones[q]
  BY OthersKept
<1>3. MyWorld(q)' = MyWorld(q)  BY <1>2 DEF MyWorld
<1>4. IsRoom(q, MyWorld(q), room[q])' = IsRoom(q, MyWorld(q), room[q])
  BY <1>2, <1>3 DEF IsRoom, Having
<1> QED  BY <1>1, <1>2, <1>3, <1>4 DEF HeldBy

LEMMA HeldKept ==
  ASSUME TypeOK, Held, NEW p \in Procs, Step(p)
  PROVE  Held'
<1> SUFFICES HeldBy(p)'  BY HeldOfOthers DEF Held
<1> USE DEF TypeOK, ControlOK, DataOK, Kept, Goto, Answer, HeldBy
<1>0. HeldBy(p)  BY DEF Held
<1>1. CASE Give(p)
  <2>1. PICK c \in online, k \in Kinds : \E a \in Arguments(k) :
          /\ kind' = [kind EXCEPT ![p] = k] /\ who' = [who EXCEPT ![p] = c]
          /\ arg' = [arg EXCEPT ![p] = a] /\ pc' = [pc EXCEPT ![p] = Entry(k)]
    BY <1>1 DEF Give
  <2>2. PICK a \in Arguments(k) : arg' = [arg EXCEPT ![p] = a]  BY <2>1
  <2>3. c \in Characters  BY <2>1 DEF RowsOK
  <2>4. /\ kind'[p] = k /\ who'[p] = c /\ arg'[p] = a /\ pc'[p] = Entry(k)
    BY <2>1, <2>2
  <2>5. /\ k \in {"whisper", "kick"} => a \in Names
        /\ k \in {"get", "drop"} => a \in Items
    BY <2>2 DEF Arguments
  <2>6. Entry(k) = IF k = "drop" THEN "bag" ELSE IF k = "kick" THEN "target" ELSE "room"
    BY DEF Entry
  <2> QED  BY <2>3, <2>4, <2>5, <2>6
<1>2. CASE ReadRoom(p)
  <2> DEFINE r == RoomOf(MyName(p), MyWorld(p))
             known == r # None /\ IsRoom(p, MyWorld(p), r)
  <2>1. r \in Rooms \cup {None}  BY RoomIsRoom
  <2>2. /\ room'[p] = r /\ kind'[p] = kind[p] /\ who'[p] = who[p] /\ arg'[p] = arg[p]
        /\ zones' = zones
    BY <1>2 DEF ReadRoom
  <2>3. pc'[p] = IF WillDo(p, r) THEN Onward[kind[p]] ELSE "done"
    BY <1>2 DEF ReadRoom
  <2>4. MyWorld(p)' = MyWorld(p) /\ (IsRoom(p, MyWorld(p), room[p])' <=> IsRoom(p, MyWorld(p), r))
    BY <2>2 DEF MyWorld, IsRoom, Having
  <2>5. /\ who[p] \in Characters /\ kind[p] \in Kinds /\ kind[p] # "kick"
        /\ kind[p] \in {"whisper", "kick"} => arg[p] \in Names
        /\ kind[p] \in {"get", "drop"} => arg[p] \in Items
    BY <1>2, <1>0 DEF ReadRoom
  <2> HIDE DEF r
  <2>6. WillDo(p, r) =>
          \/ Onward[kind[p]] = "go" /\ kind[p] = "recall"
          \/ Onward[kind[p]] = "go" /\ kind[p] = "move" /\ known
          \/ Onward[kind[p]] = "describe" /\ known
          \/ Onward[kind[p]] = "say" /\ kind[p] = "say" /\ r # None
          \/ Onward[kind[p]] = "say" /\ kind[p] = "yell" /\ known
          \/ Onward[kind[p]] = "target" /\ kind[p] = "whisper" /\ r # None
          \/ Onward[kind[p]] = "bag" /\ kind[p] = "get"
    BY DEF WillDo, Onward
  <2> QED  BY <2>1, <2>2, <2>3, <2>4, <2>5, <2>6 DEF Kinds
<1>3. CASE NoExit(p)  BY <1>0, <1>3 DEF NoExit, rows
<1>4. CASE Move(p)
  <2>1. PICK ref \in Ways(p, MyWorld(p), room[p]) :
          Place(p, ref[2]) \/ (Answer(p, "refused") /\ UNCHANGED <<rows, room>>)
    BY <1>4 DEF Move
  <2>2. Ways(p, MyWorld(p), room[p]) \in SUBSET Refs  BY <1>4, <1>0, WaysAreRefs DEF Move
  <2>3. ref[2] \in Rooms  BY <2>1, <2>2 DEF Refs
  <2>4. pc'[p] = "done" \/ (pc'[p] = "describe" /\ room'[p] = ref[2])  BY <2>1 DEF Place
  <2>5. kind' = kind /\ who' = who /\ arg' = arg /\ kind[p] = "move" /\ pc[p] = "go"  BY <1>4 DEF Move
  <2> QED  BY <1>0, <2>3, <2>4, <2>5
<1>5. CASE Recall(p)
  <2>1. who[p] \in Characters  BY <1>5, <1>0 DEF Recall
  <2>2. MyWorld(p) \in Worlds  BY <2>1 DEF MyWorld, Worlds
  <2>3. SpawnFor(p, MyWorld(p), room[p]) \in Rooms  BY <2>2, SpawnIsRoom
  <2>4. pc'[p] = "done" \/ (pc'[p] = "describe" /\ room'[p] = SpawnFor(p, MyWorld(p), room[p]))
    BY <1>5 DEF Recall, Place
  <2>5. kind' = kind /\ who' = who /\ arg' = arg /\ kind[p] = "recall" /\ pc[p] = "go"  BY <1>5 DEF Recall
  <2> QED  BY <1>0, <2>3, <2>4, <2>5
<1>6. CASE Describe(p)  BY <1>0, <1>6 DEF Describe, rows
<1>7. CASE Say(p)  BY <1>0, <1>7 DEF Say, rows
<1>8. CASE Spread(p)  BY <1>0, <1>8 DEF Spread, rows
<1>9. CASE Heard(p)  BY <1>0, <1>9 DEF Heard, rows
<1>10. CASE Target(p)  BY <1>0, <1>10 DEF Target, rows
<1>11. CASE Online(p)  BY <1>0, <1>11 DEF Online, rows
<1>12. CASE Near(p)  BY <1>0, <1>12 DEF Near, rows
<1>13. CASE Find(p)  BY <1>0, <1>13 DEF Find, rows
<1>14. CASE Kick(p)  BY <1>0, <1>14 DEF Kick, rows
<1>15. CASE ReadBag(p)  BY <1>0, <1>15 DEF ReadBag, rows
<1>16. CASE WriteBag(p)  BY <1>0, <1>16 DEF WriteBag, rows
<1>17. CASE Return(p)  BY <1>0, <1>17 DEF Return, Forget, rows
<1>18. CASE Fail(p)  BY <1>0, <1>18 DEF Fail, rows
<1>19. CASE Restart(p)  BY <1>0, <1>19 DEF Restart, Forget, rows
<1> QED  BY <1>1, <1>2, <1>3, <1>4, <1>5, <1>6, <1>7, <1>8, <1>9, <1>10, <1>11, <1>12, <1>13, <1>14, <1>15, <1>16, <1>17, <1>18, <1>19 DEF Step

\* No two characters of one world are there under one name: who was found is
\* found again, while it is there.
LEMMA AimedKept ==
  ASSUME TypeOK, Held, Aimed, NEW p \in Procs, Step(p)
  PROVE  Aimed'
<1>1. state' = state  BY RowsKept
<1>2. ASSUME NEW q \in Procs \ {p}
      PROVE  AimedBy(q)'
  <2>1. /\ pc'[q] = pc[q] /\ kind'[q] = kind[q] /\ who'[q] = who[q] /\ arg'[q] = arg[q]
        /\ aim'[q] = aim[q]
    BY OthersKept
  <2>2. AimedBy(q)  BY DEF Aimed
  <2> QED  BY <1>1, <2>1, <2>2 DEF AimedBy, MyWorld
<1>3. AimedBy(p)'
  <2> USE DEF TypeOK, ControlOK, Kept, Goto, Answer
  <2>0. AimedBy(p) /\ HeldBy(p)  BY DEF Aimed, Held
  <2>1. CASE Give(p)
    <3>1. \E k \in Kinds : pc' = [pc EXCEPT ![p] = Entry(k)]  BY <1>1, <2>0, <2>1 DEF Give
    <3>2. pc'[p] \in {"bag", "target", "room"}  BY <3>1 DEF Entry
    <3> QED  BY <3>2 DEF AimedBy
  <2>2. CASE ReadRoom(p)
    <3>1. kind' = kind /\ who' = who /\ arg' = arg /\ aim' = aim  BY <1>1, <2>0, <2>2 DEF ReadRoom
    <3>2. pc'[p] = "done" \/ (pc'[p] = Onward[kind[p]] /\ kind[p] \in {"recall", "say", "whisper", "look", "move", "yell", "get"})
      BY <1>1, <2>0, <2>2 DEF ReadRoom, WillDo
    <3>3. pc'[p] \notin {"online", "near"} /\ (kind[p] = "whisper" => pc'[p] # "say")
      BY <3>2 DEF Onward
    <3> QED  BY <3>1, <3>3 DEF AimedBy
  <2>3. CASE NoExit(p)  BY <1>1, <2>0, <2>3 DEF NoExit, AimedBy, MyWorld, Place, Forget, HeldBy
  <2>4. CASE Move(p)  BY <1>1, <2>0, <2>4 DEF Move, AimedBy, MyWorld, Place, Forget, HeldBy
  <2>5. CASE Recall(p)  BY <1>1, <2>0, <2>5 DEF Recall, AimedBy, MyWorld, Place, Forget, HeldBy
  <2>6. CASE Describe(p)  BY <1>1, <2>0, <2>6 DEF Describe, AimedBy, MyWorld, Place, Forget, HeldBy
  <2>7. CASE Say(p)  BY <1>1, <2>0, <2>7 DEF Say, AimedBy, MyWorld, Place, Forget, HeldBy
  <2>8. CASE Spread(p)  BY <1>1, <2>0, <2>8 DEF Spread, AimedBy, MyWorld, Place, Forget, HeldBy
  <2>9. CASE Heard(p)  BY <1>1, <2>0, <2>9 DEF Heard, AimedBy, MyWorld, Place, Forget, HeldBy
  <2>10. CASE Target(p)
    <3>1. CASE aim' = aim /\ pc'[p] = "done"  BY <3>1 DEF AimedBy
    <3>2. CASE ~(aim' = aim /\ pc'[p] = "done")
      <4>1. /\ Named(arg[p], MyWorld(p)) # {}
            /\ aim' = [aim EXCEPT ![p] = CHOOSE c \in Named(arg[p], MyWorld(p)) : TRUE]
        BY <2>10, <3>2 DEF Target
      <4>2. aim'[p] \in Named(arg[p], MyWorld(p))  BY <4>1
      <4>3. who' = who /\ arg' = arg  BY <1>1, <2>0, <2>10 DEF Target
      <4> QED  BY <1>1, <4>2, <4>3 DEF Named, AimedBy, MyWorld
    <3> QED  BY <3>1, <3>2
  <2>11. CASE Online(p)  BY <1>1, <2>0, <2>11 DEF Online, AimedBy, MyWorld, Place, Forget, HeldBy
  <2>12. CASE Near(p)  BY <1>1, <2>0, <2>12 DEF Near, AimedBy, MyWorld, Place, Forget, HeldBy
  <2>13. CASE Find(p)  BY <1>1, <2>0, <2>13 DEF Find, AimedBy, MyWorld, Place, Forget, HeldBy
  <2>14. CASE Kick(p)  BY <1>1, <2>0, <2>14 DEF Kick, AimedBy, MyWorld, Place, Forget, HeldBy
  <2>15. CASE ReadBag(p)  BY <1>1, <2>0, <2>15 DEF ReadBag, AimedBy, MyWorld, Place, Forget, HeldBy
  <2>16. CASE WriteBag(p)  BY <1>1, <2>0, <2>16 DEF WriteBag, AimedBy, MyWorld, Place, Forget, HeldBy
  <2>17. CASE Return(p)  BY <1>1, <2>0, <2>17 DEF Return, AimedBy, MyWorld, Place, Forget, HeldBy
  <2>18. CASE Fail(p)  BY <1>1, <2>0, <2>18 DEF Fail, AimedBy, MyWorld, Place, Forget, HeldBy
  <2>19. CASE Restart(p)  BY <1>1, <2>0, <2>19 DEF Restart, AimedBy, MyWorld, Place, Forget, HeldBy
  <2> QED  BY <2>1, <2>2, <2>3, <2>4, <2>5, <2>6, <2>7, <2>8, <2>9, <2>10, <2>11, <2>12, <2>13, <2>14, <2>15, <2>16, <2>17, <2>18, <2>19 DEF Step
<1> QED  BY <1>2, <1>3 DEF Aimed

LEMMA AddressedKept ==
  ASSUME IInv, NEW p \in Procs, Step(p)
  PROVE  Addressed'
<1>1. state' = state /\ TypeOK /\ Held /\ Aimed /\ Addressed /\ Unique  BY RowsKept DEF IInv
<1>2. CASE chat' = chat  BY <1>1, <1>2 DEF Addressed
<1>3. CASE \E ref \in Refs : Stored(p, ref) /\ pc[p] \in {"say", "spread"} /\ (pc[p] = "spread" => kind[p] = "yell")
  <2>1. PICK ref \in Refs : Stored(p, ref) /\ pc[p] \in {"say", "spread"} /\ (pc[p] = "spread" => kind[p] = "yell")
    BY <1>3
  <2> DEFINE m == Message(p, ref)
  <2>2. m.kind = kind[p] /\ m.meant = aim[p] /\ (kind[p] = "whisper" => m.to = Recipient(arg[p], MyWorld(p)))
    BY DEF Message
  <2>3. CASE kind[p] = "whisper"
    <3>1. /\ aim[p] \in Characters /\ state[aim[p]] # "absent"
          /\ Name[aim[p]] = arg[p] /\ Home[aim[p]] = MyWorld(p)
      BY <1>1, <2>1, <2>3 DEF Aimed, AimedBy
    <3>2. state[aim[p]] = "there" => Named(arg[p], MyWorld(p)) = {aim[p]}
      BY <1>1, <3>1 DEF Named, Unique
    <3>3. state[aim[p]] = "there" => m.to = aim[p]
      BY <2>2, <2>3, <3>2 DEF Recipient
    <3> HIDE DEF m
    <3>4. chat' = chat \cup {m}  BY <2>1 DEF Stored, m
    <3> QED  BY <1>1, <2>2, <3>1, <3>3, <3>4 DEF Addressed
  <2>4. CASE kind[p] # "whisper"
    <3>1. chat' = chat \cup {m}  BY <2>1 DEF Stored
    <3> HIDE DEF m
    <3> QED  BY <1>1, <2>2, <2>4, <3>1 DEF Addressed
  <2> QED  BY <2>3, <2>4
<1> QED  BY <1>1, <1>2, <1>3, StepStores

LEMMA StepKeeps ==
  ASSUME IInv, NEW p \in Procs, Step(p)
  PROVE  IInv'
<1> USE DEF IInv
<1>1. given' \in 0..MaxCommands /\ changed' \in 0..MaxChanges
  <2>1. CASE Give(p)  BY <2>1, GameBounds DEF Give, TypeOK
  <2>2. CASE ~Give(p)
    <3>1. UNCHANGED <<given, changed>>
      BY <2>2 DEF Step, Kept, ReadRoom, NoExit, Move, Recall, Describe, Say, Spread, Heard, Target,
                  Online, Near, Find, Kick, ReadBag, WriteBag, Return, Fail, Restart
    <3> QED  BY <3>1 DEF TypeOK
  <2> QED  BY <2>1, <2>2
<1>2. TypeOK'  BY <1>1, RowsKept, ChatKept, ControlKept, DataKept DEF TypeOK
<1>3. Unique'
  <2>1. state' = state  BY RowsKept
  <2> QED  BY <2>1 DEF Unique
<1> QED  BY <1>2, <1>3, HeldKept, AimedKept, AddressedKept

-----------------------------------------------------------------------------
\* What others do touches no command in progress.
LEMMA OutsideKeeps ==
  ASSUME IInv, Others
  PROVE  /\ UNCHANGED <<zones, given, pc, kind, no, who, arg, aim, room, bag, left, missed, answer>>
         /\ Held' /\ DataOK'
<1>1. UNCHANGED <<zones, given, pc, kind, no, who, arg, aim, room, bag, left, missed, answer>>
  BY DEF Others, Enter, Leave, Create, TombstoneCharacter, DeleteCharacter, Prune, Change, local
<1>2. Held'
  <2>1. ASSUME NEW q \in Procs PROVE HeldBy(q)'
    <3>1. HeldBy(q)  BY DEF IInv, Held
    <3>2. MyWorld(q)' = MyWorld(q)  BY <1>1 DEF MyWorld
    <3>3. IsRoom(q, MyWorld(q), room[q])' = IsRoom(q, MyWorld(q), room[q])
      BY <1>1, <3>2 DEF IsRoom, Having
    <3> QED  BY <1>1, <3>1, <3>2, <3>3 DEF HeldBy
  <2> QED  BY <2>1 DEF Held
<1> QED  BY <1>1, <1>2 DEF IInv, TypeOK, DataOK

\* A row that is not absent never is again, and none but an absent one comes.
LEMMA AimedOutside ==
  ASSUME IInv, Others, \A c \in Characters : state[c] # "absent" => state'[c] # "absent"
  PROVE  Aimed'
<1>1. UNCHANGED <<pc, kind, who, arg, aim>>  BY OutsideKeeps
<1> QED  BY <1>1 DEF IInv, Aimed, AimedBy, MyWorld

LEMMA AloneTyped ==
  ASSUME IInv, Others
  PROVE  ControlOK' /\ changed' \in 0..MaxChanges
<1>1. UNCHANGED <<pc, kind, no, who, arg, aim, answer>>  BY OutsideKeeps
<1>2. alone' \in [Procs -> BOOLEAN]
  <2>1. CASE UNCHANGED alone  BY <2>1 DEF IInv, TypeOK, ControlOK
  <2>2. CASE \E c \in Characters : Disturbed(c)
    <3>1. PICK c \in Characters : Disturbed(c)  BY <2>2
    <3>2. \A q \in Procs : (alone[q] /\ (pc[q] = "idle" \/ Name[who[q]] # Name[c])) \in BOOLEAN
      OBVIOUS
    <3> QED  BY <3>1, <3>2 DEF Disturbed
  <2> QED  BY <2>1, <2>2 DEF Others, Enter, Leave, Create, TombstoneCharacter, DeleteCharacter, Prune, local
<1>3. changed' \in 0..MaxChanges
  <2>1. changed' = changed \/ (changed < MaxChanges /\ changed' = changed + 1)
    BY DEF Others, Enter, Leave, Create, TombstoneCharacter, DeleteCharacter, Prune, Change
  <2> QED  BY <2>1, GameBounds DEF IInv, TypeOK
<1> QED  BY <1>1, <1>2, <1>3 DEF IInv, TypeOK, ControlOK

LEMMA OthersKeep ==
  ASSUME IInv, Others
  PROVE  IInv'
<1> SUFFICES RowsOK' /\ ChatOK' /\ Unique' /\ Aimed' /\ Addressed'
  BY OutsideKeeps, AloneTyped DEF IInv, TypeOK
<1>0. /\ RowsOK /\ ChatOK /\ Unique /\ Aimed /\ Addressed
  BY DEF IInv, TypeOK
<1>1. CASE \E c \in Characters : Enter(c) \/ Leave(c)
  <2>1. UNCHANGED <<state, loc, inv, chat>> /\ online' \subseteq Characters
    BY <1>0, <1>1 DEF Enter, Leave, RowsOK
  <2>2. Aimed'  BY <2>1, AimedOutside
  <2> QED  BY <1>0, <2>1, <2>2 DEF RowsOK, ChatOK, Unique, Addressed
<1>2. CASE \E c \in Characters : Create(c)
  <2>1. PICK c \in Characters : Create(c)  BY <1>2
  <2>2. /\ state[c] = "absent" /\ state' = [state EXCEPT ![c] = "there"]
        /\ Named(Name[c], Home[c]) = {}
        /\ loc' = [loc EXCEPT ![c] = <<Home[c], Seed>>]
        /\ UNCHANGED <<online, inv, chat>>
    BY <2>1 DEF Create, Change
  <2>3. RowsOK'
    <3>1. <<Home[c], Seed>> \in Worlds \X Rooms  BY PackageType DEF Worlds
    <3>2. loc' \in [Characters -> (Worlds \X Rooms) \cup {None}]
      <4> DEFINE T == (Worlds \X Rooms) \cup {None}
      <4>1. loc \in [Characters -> T] /\ <<Home[c], Seed>> \in T  BY <1>0, <3>1 DEF RowsOK
      <4> HIDE DEF T
      <4>2. loc' \in [Characters -> T]  BY <2>2, <4>1
      <4> QED  BY <4>2 DEF T
    <3>3. state' \in [Characters -> States]  BY <1>0, <2>2 DEF RowsOK, States
    <3> QED  BY <1>0, <2>2, <3>2, <3>3 DEF RowsOK
  <2>4. state \in [Characters -> States]  BY <1>0 DEF RowsOK
  <2>5. Unique'  BY <1>0, <2>2, <2>4 DEF Unique, Named
  <2>6. ChatOK'
    <3>1. \A m \in chat : m.by \in Characters \cup {None} /\ m.to \in Characters \cup {None}
      BY <1>0 DEF ChatOK, MessageRows
    <3> QED  BY <1>0, <2>2, <2>4, <3>1 DEF ChatOK
  <2>7. Aimed'  BY <2>2, <2>4, AimedOutside
  <2>8. Addressed'  BY <1>0, <2>2, <2>4 DEF Addressed
  <2> QED  BY <2>3, <2>5, <2>6, <2>7, <2>8
<1>3. CASE \E c \in Characters : TombstoneCharacter(c)
  <2>1. PICK c \in Characters : TombstoneCharacter(c)  BY <1>3
  <2>2. /\ state[c] = "there" /\ state' = [state EXCEPT ![c] = "tombstoned"]
        /\ online' \subseteq Characters /\ UNCHANGED <<loc, inv, chat>>
    BY <1>0, <2>1 DEF TombstoneCharacter, Change, RowsOK
  <2>3. state \in [Characters -> States]  BY <1>0 DEF RowsOK
  <2>4. RowsOK'  BY <1>0, <2>2 DEF RowsOK, States
  <2>5. ChatOK'
    <3>1. \A m \in chat : m.by \in Characters \cup {None} /\ m.to \in Characters \cup {None}
      BY <1>0 DEF ChatOK, MessageRows
    <3> QED  BY <1>0, <2>2, <2>3, <3>1 DEF ChatOK
  <2>6. Unique' /\ Addressed'  BY <1>0, <2>2, <2>3 DEF Unique, Addressed
  <2>7. Aimed'  BY <2>2, <2>3, AimedOutside
  <2> QED  BY <2>4, <2>5, <2>6, <2>7
<1>4. CASE \E c \in Characters : DeleteCharacter(c)
  <2>1. PICK c \in Characters : DeleteCharacter(c)  BY <1>4
  <2> DEFINE Cut(x) == IF x = c THEN None ELSE x
             cut(m) == [m EXCEPT !.by = Cut(@), !.to = Cut(@)]
  <2>2. /\ state[c] \in {"there", "tombstoned"} /\ state' = [state EXCEPT ![c] = "deleted"]
        /\ online' \subseteq Characters /\ loc' = [loc EXCEPT ![c] = None]
        /\ inv' = [inv EXCEPT ![c] = {}]
        /\ chat' = {cut(m) : m \in chat}
    BY <1>0, <2>1 DEF DeleteCharacter, Change, RowsOK
  <2>3. state \in [Characters -> States]  BY <1>0 DEF RowsOK
  <2>4. RowsOK'  BY <1>0, <2>2 DEF RowsOK, States
  <2>5. ASSUME NEW m \in chat
        PROVE  /\ cut(m) \in MessageRows
               /\ cut(m).by = Cut(m.by) /\ cut(m).to = Cut(m.to)
               /\ cut(m).kind = m.kind /\ cut(m).meant = m.meant
               /\ Cut(m.by) # c /\ Cut(m.to) # c
    <3>1. m \in MessageRows  BY <1>0 DEF ChatOK
    <3>2. None # c  BY NoneIsNone
    <3>3. m.by \in Characters \cup {None} /\ m.to \in Characters \cup {None}  BY <3>1 DEF MessageRows
    <3> QED  BY <3>1, <3>2, <3>3 DEF MessageRows
  <2> HIDE DEF cut
  <2>6. ChatOK'
    <3>1. chat' \subseteq MessageRows  BY <2>2, <2>5
    <3>2. ASSUME NEW n \in chat', NEW d \in {n.by, n.to} \ {None}
          PROVE  state'[d] # "deleted"
      <4>1. PICK m \in chat : n = cut(m)  BY <2>2
      <4>2. d \in {m.by, m.to} /\ d # c  BY <2>5, <4>1
      <4>3. d \in Characters /\ state[d] # "deleted"
        <5>1. m \in MessageRows  BY <1>0 DEF ChatOK
        <5> QED  BY <1>0, <4>2, <5>1 DEF ChatOK, MessageRows
      <4> QED  BY <2>2, <2>3, <4>2, <4>3
    <3> QED  BY <3>1, <3>2 DEF ChatOK
  <2>7. Unique'  BY <1>0, <2>2, <2>3 DEF Unique
  <2>8. Addressed'
    <3>1. ASSUME NEW n \in chat', n.kind = "whisper"
          PROVE  /\ n.meant \in Characters /\ state'[n.meant] # "absent"
                 /\ n.to = n.meant \/ state'[n.meant] # "there"
      <4>1. PICK m \in chat : n = cut(m)  BY <2>2
      <4>2. n.kind = m.kind /\ n.meant = m.meant /\ n.to = Cut(m.to)  BY <2>5, <4>1
      <4>3. /\ m.meant \in Characters /\ state[m.meant] # "absent"
            /\ m.to = m.meant \/ state[m.meant] # "there"
        BY <1>0, <3>1, <4>2 DEF Addressed
      <4> QED  BY <2>2, <2>3, <4>2, <4>3
    <3> QED  BY <3>1 DEF Addressed
  <2>9. Aimed'  BY <2>2, <2>3, AimedOutside
  <2> QED  BY <2>4, <2>6, <2>7, <2>8, <2>9
<1>5. CASE Prune
  <2>1. chat' \subseteq chat /\ UNCHANGED <<state, online, loc, inv>>  BY <1>5 DEF Prune
  <2>2. Aimed'  BY <2>1, AimedOutside
  <2> QED  BY <1>0, <2>1, <2>2 DEF RowsOK, ChatOK, Unique, Addressed
<1> QED  BY <1>1, <1>2, <1>3, <1>4, <1>5 DEF Others

LEMMA InitHolds ==
  ASSUME Init
  PROVE  IInv
<1> USE DEF Init
<1>1. RowsOK
  <2>1. loc \in [Characters -> (Worlds \X Rooms) \cup {None}]  BY PackageType DEF Worlds
  <2> QED  BY <2>1 DEF RowsOK, States
<1>2. ControlOK
  <2>1. 0 \in 0..MaxCommands  BY GameBounds
  <2> QED  BY <2>1, NamesOfStages DEF ControlOK
<1>3. DataOK  BY PackageType DEF DataOK
<1>4. TypeOK  BY <1>1, <1>2, <1>3, GameBounds DEF TypeOK, ChatOK
<1>5. Unique  BY NamesUniqueAtStart DEF Unique
<1>6. Held /\ Aimed /\ Addressed  BY DEF Held, HeldBy, Aimed, AimedBy, Addressed
<1> QED  BY <1>4, <1>5, <1>6 DEF IInv

LEMMA Invariant == Spec => []IInv
<1>1. Init => IInv  BY InitHolds
<1>2. IInv /\ [Next]_vars => IInv'
  <2> SUFFICES ASSUME IInv, [Next]_vars PROVE IInv'  OBVIOUS
  <2>1. CASE Others  BY <2>1, OthersKeep
  <2>2. CASE \E p \in Procs : Step(p)  BY <2>2, StepKeeps
  <2>3. CASE UNCHANGED vars
    <3>1. /\ UNCHANGED <<state, online, loc, inv, chat, zones, given, changed, pc, kind, no, who,
                         arg, aim, room, bag, left, missed, alone, answer>>
      BY <2>3 DEF vars, rows, local
    <3>2. TypeOK'  BY <3>1 DEF IInv, TypeOK, RowsOK, ChatOK, ControlOK, DataOK
    <3>3. Held'
      <4>1. ASSUME NEW q \in Procs PROVE HeldBy(q)'
        <5>1. IsRoom(q, MyWorld(q), room[q])' = IsRoom(q, MyWorld(q), room[q])
          BY <3>1 DEF IsRoom, Having, MyWorld
        <5>2. HeldBy(q)  BY DEF IInv, Held
        <5> QED  BY <3>1, <5>1, <5>2 DEF HeldBy
      <4> QED  BY <4>1 DEF Held
    <3>4. Unique' /\ Aimed' /\ Addressed'  BY <3>1 DEF IInv, Unique, Aimed, AimedBy, MyWorld, Addressed
    <3> QED  BY <3>2, <3>3, <3>4 DEF IInv
  <2> QED  BY <2>1, <2>2, <2>3 DEF Next
<1> QED  BY <1>1, <1>2, PTL DEF Spec

\* Rows, messages, zones and commands keep their types, and messages refer to
\* rows that exist.
THEOREM TypeCorrect == Spec => []TypeOK
<1>1. IInv => TypeOK  BY DEF IInv
<1> QED  BY <1>1, Invariant, PTL

\* A whisper is read by its sender and the character it was meant for alone, as
\* long as that character is there.
THEOREM PrivacyHolds == Spec => []WhispersPrivate
<1>1. IInv => WhispersPrivate
  <2> SUFFICES ASSUME IInv, NEW m \in chat, m.kind = "whisper", state[m.meant] = "there", NEW c \in Readers(m)
               PROVE  c \in {m.by, m.meant}
    BY DEF WhispersPrivate
  <2>1. m.meant \in Characters /\ m.to = m.meant  BY DEF IInv, Addressed
  <2>2. m.to # None  BY <2>1, NoneIsNone
  <2> QED  BY <2>1, <2>2 DEF Readers
<1> QED  BY <1>1, Invariant, PTL

-----------------------------------------------------------------------------
(* Commands that are answered "ok" *)

\* No name is borne in two worlds.  The engine finds a row by its name alone, and
\* with twins what it does to one may be done to the other.
OneWorldPerName == \A c, d \in Characters : Name[c] = Name[d] => Home[c] = Home[d]

\* A character with a session is there.
Present == \A c \in online : state[c] = "there"

\* A command that nobody disturbed is the only one of that name, and its
\* character is there.
AloneBy(p) ==
  pc[p] # "idle" /\ alone[p] =>
    /\ state[who[p]] = "there"
    /\ \A q \in Procs \ {p} : pc[q] # "idle" => Name[who[q]] # Name[who[p]]

Ended(p, k)     == pc[p] = "done" /\ kind[p] = k /\ answer[p] = "ok"
Around(p)       == {<<None, room[p]>>} \cup Ways(p, MyWorld(p), room[p])
Reached(p, ref) == ref \in missed[p] \/ Told(p, ref)

\* What a yell has left behind is reached, and a say is told.
ChatBy(p) ==
  /\ pc[p] = "spread" => \A ref \in Around(p) \ left[p] : Reached(p, ref)
  /\ Ended(p, "yell") => \A ref \in Around(p) : Reached(p, ref)
  /\ Ended(p, "say") => Told(p, <<None, room[p]>>)

\* A kick has found whom it named, in its own world.
FoundBy(p) ==
  pc[p] \in {"find", "kick"} \/ Ended(p, "kick") =>
    aim[p] \in Characters /\ Name[aim[p]] = arg[p] /\ Home[aim[p]] = MyWorld(p)

\* A command that moved its character, undisturbed, knows where it is.
PlacedBy(p) ==
  alone[p] /\ (\/ pc[p] = "go" /\ kind[p] = "recall" /\ room[p] # None
               \/ pc[p] = "describe" /\ kind[p] \in {"move", "recall"}
               \/ Ended(p, "move") \/ Ended(p, "recall"))
    => loc[who[p]] = <<MyWorld(p), room[p]>>

\* The bag to be written holds what is taken and not what is dropped, and so
\* does the inventory when the command has ended undisturbed.
CarriedBy(p) ==
  /\ pc[p] = "write" => (arg[p] \in bag[p] <=> kind[p] = "get")
  /\ alone[p] /\ Ended(p, "get") => arg[p] \in inv[who[p]]
  /\ alone[p] /\ Ended(p, "drop") => arg[p] \notin inv[who[p]]

StageBy(p) ==
  /\ pc[p] = "describe" => kind[p] \in {"look", "move", "recall"}
  /\ pc[p] = "kick" => kind[p] = "kick"

TalkInv == IInv /\ \A p \in Procs : ChatBy(p) /\ StageBy(p)

DoneInv ==
  /\ TalkInv /\ Present
  /\ \A p \in Procs : AloneBy(p) /\ FoundBy(p) /\ PlacedBy(p) /\ CarriedBy(p)

\* Only given, returned and stopped commands change what a command is about.
LEMMA Course ==
  ASSUME TypeOK, NEW p \in Procs, Step(p), ~Give(p)
  PROVE  \/ pc'[p] = "idle" /\ UNCHANGED <<loc, inv, online>>
            /\ \A q \in Procs \ {p} : alone'[q] = alone[q]
         \/ pc[p] # "idle" /\ UNCHANGED <<kind, no, who, arg, alone>>
<1> USE DEF TypeOK, ControlOK, Kept
<1>2. CASE ReadRoom(p)  BY <1>2 DEF ReadRoom, rows, Forget, Goto
<1>3. CASE NoExit(p)  BY <1>3 DEF NoExit, rows, Forget, Goto
<1>4. CASE Move(p)  BY <1>4 DEF Move, rows, Forget, Goto
<1>5. CASE Recall(p)  BY <1>5 DEF Recall, rows, Forget, Goto
<1>6. CASE Describe(p)  BY <1>6 DEF Describe, rows, Forget, Goto
<1>7. CASE Say(p)  BY <1>7 DEF Say, rows, Forget, Goto
<1>8. CASE Spread(p)  BY <1>8 DEF Spread, rows, Forget, Goto
<1>9. CASE Heard(p)  BY <1>9 DEF Heard, rows, Forget, Goto
<1>10. CASE Target(p)  BY <1>10 DEF Target, rows, Forget, Goto
<1>11. CASE Online(p)  BY <1>11 DEF Online, rows, Forget, Goto
<1>12. CASE Near(p)  BY <1>12 DEF Near, rows, Forget, Goto
<1>13. CASE Find(p)  BY <1>13 DEF Find, rows, Forget, Goto
<1>14. CASE Kick(p)  BY <1>14 DEF Kick, rows, Forget, Goto
<1>15. CASE ReadBag(p)  BY <1>15 DEF ReadBag, rows, Forget, Goto
<1>16. CASE WriteBag(p)  BY <1>16 DEF WriteBag, rows, Forget, Goto
<1>17. CASE Return(p)  BY <1>17 DEF Return, rows, Forget, Goto
<1>18. CASE Fail(p)  BY <1>18 DEF Fail, rows, Forget, Goto
<1>19. CASE Restart(p)  BY <1>19 DEF Restart, rows, Forget, Goto
<1> QED  BY <1>2, <1>3, <1>4, <1>5, <1>6, <1>7, <1>8, <1>9, <1>10, <1>11, <1>12, <1>13, <1>14, <1>15, <1>16, <1>17, <1>18, <1>19 DEF Step

\* A step leaves what others hold, and disturbs them if at all.
LEMMA OthersLeave ==
  ASSUME TypeOK, NEW p \in Procs, Step(p), NEW q \in Procs \ {p}
  PROVE  /\ no'[q] = no[q] /\ bag'[q] = bag[q] /\ left'[q] = left[q] /\ missed'[q] = missed[q]
         /\ answer'[q] = answer[q]
         /\ alone'[q] => alone[q]
<1> USE DEF TypeOK, ControlOK, DataOK, Kept, Goto, Answer, Forget, Refuse, Place
<1>1. CASE Give(p)  BY <1>1 DEF Give, rows
<1>2. CASE ReadRoom(p)  BY <1>2 DEF ReadRoom, rows
<1>3. CASE NoExit(p)  BY <1>3 DEF NoExit, rows
<1>4. CASE Move(p)  BY <1>4 DEF Move, rows
<1>5. CASE Recall(p)  BY <1>5 DEF Recall, rows
<1>6. CASE Describe(p)  BY <1>6 DEF Describe, rows
<1>7. CASE Say(p)  BY <1>7 DEF Say, rows
<1>8. CASE Spread(p)  BY <1>8 DEF Spread, rows
<1>9. CASE Heard(p)  BY <1>9 DEF Heard, rows
<1>10. CASE Target(p)  BY <1>10 DEF Target, rows
<1>11. CASE Online(p)  BY <1>11 DEF Online, rows
<1>12. CASE Near(p)  BY <1>12 DEF Near, rows
<1>13. CASE Find(p)  BY <1>13 DEF Find, rows
<1>14. CASE Kick(p)  BY <1>14 DEF Kick, rows
<1>15. CASE ReadBag(p)  BY <1>15 DEF ReadBag, rows
<1>16. CASE WriteBag(p)  BY <1>16 DEF WriteBag, rows
<1>17. CASE Return(p)  BY <1>17 DEF Return, rows
<1>18. CASE Fail(p)  BY <1>18 DEF Fail, rows
<1>19. CASE Restart(p)  BY <1>19 DEF Restart, rows
<1> QED  BY <1>1, <1>2, <1>3, <1>4, <1>5, <1>6, <1>7, <1>8, <1>9, <1>10, <1>11, <1>12, <1>13, <1>14, <1>15, <1>16, <1>17, <1>18, <1>19 DEF Step

\* A step writes to rows of the name of its own character only.
LEMMA RowsWritten ==
  ASSUME IInv, NEW p \in Procs, Step(p), NEW c \in Characters,
         state[c] = "there" => Name[c] # MyName(p)
  PROVE  state[c] = "there" => loc'[c] = loc[c] /\ inv'[c] = inv[c]
<1> SUFFICES ASSUME state[c] = "there" PROVE loc'[c] = loc[c] /\ inv'[c] = inv[c]
  OBVIOUS
<1> USE DEF rows
<1>0. RowsOK /\ c \notin AnyNamed(MyName(p))
  BY DEF IInv, TypeOK, AnyNamed
<1>p. ASSUME NEW r, Place(p, r)
      PROVE  loc'[c] = loc[c] /\ inv'[c] = inv[c]
  <2>1. CASE Named(MyName(p), MyWorld(p)) = {}
    BY <1>p, <2>1 DEF Place
  <2>2. CASE Named(MyName(p), MyWorld(p)) # {}
    <3>1. AnyNamed(MyName(p)) # {}
      BY <2>2 DEF Named, AnyNamed
    <3>2. Row(MyName(p)) # c
      BY <1>0, <3>1, RowNamed
    <3> QED
      BY <1>0, <1>p, <2>2, <3>2 DEF Place, RowsOK
  <2> QED
    BY <2>1, <2>2
<1>1. CASE Give(p)  BY <1>1 DEF Give
<1>2. CASE ReadRoom(p)  BY <1>2 DEF ReadRoom
<1>3. CASE NoExit(p)  BY <1>3 DEF NoExit
<1>4. CASE Move(p)  BY <1>4, <1>p DEF Move
<1>5. CASE Recall(p)  BY <1>5, <1>p DEF Recall
<1>6. CASE Describe(p)  BY <1>6 DEF Describe
<1>7. CASE Say(p)  BY <1>7 DEF Say, Stored
<1>8. CASE Spread(p)  BY <1>8 DEF Spread, Stored
<1>9. CASE Heard(p)  BY <1>9 DEF Heard
<1>10. CASE Target(p)  BY <1>10 DEF Target
<1>11. CASE Online(p)  BY <1>11 DEF Online
<1>12. CASE Near(p)  BY <1>12 DEF Near
<1>13. CASE Find(p)  BY <1>13 DEF Find
<1>14. CASE Kick(p)  BY <1>14 DEF Kick
<1>15. CASE ReadBag(p)  BY <1>15 DEF ReadBag
<1>16. CASE WriteBag(p)  BY <1>16, <1>0 DEF WriteBag
<1>17. CASE Return(p)  BY <1>17 DEF Return
<1>18. CASE Fail(p)  BY <1>18 DEF Fail
<1>19. CASE Restart(p)  BY <1>19 DEF Restart
<1> QED  BY <1>1, <1>2, <1>3, <1>4, <1>5, <1>6, <1>7, <1>8, <1>9, <1>10, <1>11, <1>12, <1>13, <1>14, <1>15, <1>16, <1>17, <1>18, <1>19 DEF Step

\* What was told stays told as long as the command goes on.
LEMMA ToldStays ==
  ASSUME IInv, [Next]_vars, NEW q \in Procs, NEW ref, Told(q, ref),
         pc[q] # "idle", no'[q] = no[q], who'[q] = who[q]
  PROVE  Told(q, ref)'
<1>1. PICK m \in chat : m.no = no[q] /\ m.room = ref /\ m.world = MyWorld(q)
  BY DEF Told
<1>2. ASSUME m \in chat'
      PROVE  Told(q, ref)'
  BY <1>1, <1>2 DEF Told, MyWorld
<1>3. CASE \E p \in Procs : Step(p)
  <2>1. chat \subseteq chat'
    BY <1>3, StepStores DEF IInv, Stored
  <2> QED
    BY <1>2, <2>1
<1>4. CASE \E c \in Characters : Enter(c) \/ Leave(c) \/ Create(c) \/ TombstoneCharacter(c)
  BY <1>2, <1>4 DEF Enter, Leave, Create, TombstoneCharacter
<1>5. CASE \E c \in Characters : DeleteCharacter(c)
  <2>1. PICK c \in Characters : DeleteCharacter(c)
    BY <1>5
  <2> DEFINE Cut(x) == IF x = c THEN None ELSE x
             cut(n) == [n EXCEPT !.by = Cut(@), !.to = Cut(@)]
  <2>2. chat' = {cut(n) : n \in chat}
    BY <2>1, Zenon DEF DeleteCharacter
  <2>3. m \in MessageRows
    BY DEF IInv, TypeOK, ChatOK
  <2>4. cut(m).no = m.no /\ cut(m).room = m.room /\ cut(m).world = m.world
    BY <2>3 DEF MessageRows
  <2> HIDE DEF cut
  <2>5. cut(m) \in chat'
    BY <2>2
  <2> QED
    BY <1>1, <2>4, <2>5 DEF Told, MyWorld
<1>6. CASE Prune
  <2>1. m \in chat'
    BY <1>1, <1>6 DEF Prune
  <2> QED
    BY <1>2, <2>1
<1>7. CASE UNCHANGED vars
  BY <1>2, <1>7 DEF vars, rows
<1> QED
  BY <1>3, <1>4, <1>5, <1>6, <1>7 DEF Next, Others

\* What nobody but its command can change of a place and its surroundings.
LEMMA SameAround ==
  ASSUME NEW q \in Procs, zones'[q] = zones[q], room'[q] = room[q], who'[q] = who[q]
  PROVE  Around(q)' = Around(q)
<1>1. MyWorld(q)' = MyWorld(q)
  BY DEF MyWorld
<1>2. Having(q, MyWorld(q), room[q])' = Having(q, MyWorld(q), room[q])
  BY <1>1 DEF Having
<1>3. LastZone(q, MyWorld(q), room[q])' = LastZone(q, MyWorld(q), room[q])
  BY <1>2 DEF LastZone
<1> QED
  BY <1>1, <1>3 DEF Around, Ways

LEMMA TalkStays ==
  ASSUME TalkInv, [Next]_vars, NEW q \in Procs,
         /\ pc'[q] = pc[q] /\ kind'[q] = kind[q] /\ who'[q] = who[q] /\ arg'[q] = arg[q]
         /\ aim'[q] = aim[q] /\ room'[q] = room[q] /\ zones'[q] = zones[q]
         /\ no'[q] = no[q] /\ left'[q] = left[q] /\ missed'[q] = missed[q]
         /\ answer'[q] = answer[q]
  PROVE  ChatBy(q)' /\ StageBy(q)'
<1>1. ChatBy(q) /\ StageBy(q)
  BY DEF TalkInv
<1>2. Around(q)' = Around(q)
  BY SameAround
<1>3. pc[q] # "idle" => \A ref : Reached(q, ref) => Reached(q, ref)'
  BY ToldStays DEF Reached, TalkInv
<1>4. pc[q] # "idle" => \A ref : Told(q, ref) => Told(q, ref)'
  BY ToldStays DEF TalkInv
<1>5. ChatBy(q)'
  BY <1>1, <1>2, <1>3, <1>4 DEF ChatBy, Ended
<1> QED
  BY <1>1, <1>5 DEF StageBy

LEMMA CommandStays ==
  ASSUME DoneInv, [Next]_vars, NEW q \in Procs,
         /\ pc'[q] = pc[q] /\ kind'[q] = kind[q] /\ who'[q] = who[q] /\ arg'[q] = arg[q]
         /\ aim'[q] = aim[q] /\ room'[q] = room[q] /\ zones'[q] = zones[q]
         /\ no'[q] = no[q] /\ bag'[q] = bag[q] /\ left'[q] = left[q] /\ missed'[q] = missed[q]
         /\ answer'[q] = answer[q],
         pc[q] # "idle" /\ alone'[q] =>
           alone[q] /\ loc'[who[q]] = loc[who[q]] /\ inv'[who[q]] = inv[who[q]]
  PROVE  FoundBy(q)' /\ PlacedBy(q)' /\ CarriedBy(q)'
<1>1. FoundBy(q) /\ PlacedBy(q) /\ CarriedBy(q)
  BY DEF DoneInv
<1>2. MyWorld(q)' = MyWorld(q)
  BY DEF MyWorld
<1>3. FoundBy(q)'
  BY <1>1, <1>2 DEF FoundBy, Ended
<1>4. PlacedBy(q)'
  BY <1>1, <1>2 DEF PlacedBy, Ended
<1>5. CarriedBy(q)'
  BY <1>1 DEF CarriedBy, Ended
<1> QED
  BY <1>3, <1>4, <1>5

\* A command alone is not reached by the others' steps.
LEMMA OthersApart ==
  ASSUME DoneInv, NEW p \in Procs, Step(p), NEW q \in Procs \ {p}
  PROVE  FoundBy(q)' /\ PlacedBy(q)' /\ CarriedBy(q)'
<1>0. TypeOK /\ IInv /\ HeldBy(q) /\ AloneBy(q)
  BY DEF DoneInv, TalkInv, IInv, Held
<1>1. /\ pc'[q] = pc[q] /\ kind'[q] = kind[q] /\ who'[q] = who[q] /\ arg'[q] = arg[q]
      /\ aim'[q] = aim[q] /\ room'[q] = room[q] /\ zones'[q] = zones[q]
  BY <1>0, OthersKept
<1>2. /\ no'[q] = no[q] /\ bag'[q] = bag[q] /\ left'[q] = left[q] /\ missed'[q] = missed[q]
      /\ answer'[q] = answer[q]
      /\ alone'[q] => alone[q]
  BY <1>0, OthersLeave
<1>3. ASSUME pc[q] # "idle", alone'[q]
      PROVE  loc'[who[q]] = loc[who[q]] /\ inv'[who[q]] = inv[who[q]]
  <2>1. who[q] \in Characters /\ state[who[q]] = "there"
    BY <1>0, <1>2, <1>3 DEF HeldBy, AloneBy
  <2>2. CASE pc[p] = "idle"
    <3>1. Give(p) \/ Return(p) \/ Restart(p)
      BY <2>2 DEF Step, ReadRoom, NoExit, Move, Recall, Describe, Say, Spread, Heard, Target,
                  Online, Near, Find, Kick, ReadBag, WriteBag, Fail
    <3> QED
      BY <3>1 DEF Give, Return, Restart, rows
  <2>3. CASE pc[p] # "idle"
    <3>1. Name[who[q]] # MyName(p)
      BY <1>0, <1>2, <1>3, <2>3 DEF AloneBy, MyName
    <3> QED
      BY <1>0, <2>1, <3>1, RowsWritten
  <2> QED
    BY <2>2, <2>3
<1> QED
  BY <1>1, <1>2, <1>3, CommandStays DEF Next

LEMMA ApartOfOutside ==
  ASSUME DoneInv, Others, NEW q \in Procs
  PROVE  FoundBy(q)' /\ PlacedBy(q)' /\ CarriedBy(q)'
<1>0. TypeOK /\ IInv /\ HeldBy(q) /\ AloneBy(q) /\ RowsOK
  BY DEF DoneInv, TalkInv, IInv, Held, TypeOK
<1>1. UNCHANGED <<zones, given, pc, kind, no, who, arg, aim, room, bag, left, missed, answer>>
  BY <1>0, OutsideKeeps
<1>2. ASSUME pc[q] # "idle", alone'[q]
      PROVE  alone[q] /\ loc'[who[q]] = loc[who[q]] /\ inv'[who[q]] = inv[who[q]]
  <2>1. who[q] \in Characters /\ alone \in [Procs -> BOOLEAN]
    BY <1>0, <1>2 DEF HeldBy, TypeOK, ControlOK
  <2>2. CASE \E c \in Characters : Enter(c) \/ Leave(c)
    BY <1>2, <2>2 DEF Enter, Leave, local
  <2>3. CASE \E c \in Characters : Create(c)
    <3>1. PICK c \in Characters : Create(c)
      BY <2>3
    <3>2. alone' = alone /\ state[c] = "absent" /\ inv' = inv /\ loc' = [loc EXCEPT ![c] = <<Home[c], Seed>>]
      BY <3>1 DEF Create
    <3>3. state[who[q]] = "there"
      BY <1>0, <1>2, <3>2 DEF AloneBy
    <3> QED
      BY <1>0, <1>2, <2>1, <3>2, <3>3 DEF RowsOK
  <2>4. CASE \E c \in Characters : TombstoneCharacter(c)
    <3>1. PICK c \in Characters : TombstoneCharacter(c)
      BY <2>4
    <3>2. Disturbed(c) /\ loc' = loc /\ inv' = inv
      BY <3>1 DEF TombstoneCharacter
    <3> QED
      BY <1>2, <2>1, <3>2 DEF Disturbed
  <2>5. CASE \E c \in Characters : DeleteCharacter(c)
    <3>1. PICK c \in Characters : DeleteCharacter(c)
      BY <2>5
    <3>2. Disturbed(c) /\ loc' = [loc EXCEPT ![c] = None] /\ inv' = [inv EXCEPT ![c] = {}]
      BY <3>1, Zenon DEF DeleteCharacter
    <3>3. alone[q] /\ who[q] # c
      BY <1>2, <2>1, <3>2 DEF Disturbed
    <3> QED
      BY <1>0, <2>1, <3>2, <3>3 DEF RowsOK
  <2>6. CASE Prune
    BY <1>2, <2>6 DEF Prune, local
  <2> QED
    BY <2>2, <2>3, <2>4, <2>5, <2>6 DEF Others
<1> QED
  BY <1>1, <1>2, CommandStays DEF Next

\* Only tombstones and deletions end a character, and they disturb its commands.
LEMMA AloneKept ==
  ASSUME DoneInv, [Next]_vars
  PROVE  Present' /\ \A q \in Procs : AloneBy(q)'
<1>0. /\ TypeOK /\ IInv /\ RowsOK /\ Present /\ \A q \in Procs : AloneBy(q) /\ HeldBy(q)
      /\ alone \in [Procs -> BOOLEAN] /\ who \in [Procs -> Characters \cup {None}]
  BY DEF DoneInv, TalkInv, IInv, Held, TypeOK, ControlOK
<1>1. CASE \E p \in Procs : Step(p)
  <2>1. PICK p \in Procs : Step(p)
    BY <1>1
  <2>2. state' = state
    BY <1>0, <2>1, RowsKept DEF IInv
  <2>3. \A q \in Procs \ {p} : pc'[q] = pc[q] /\ who'[q] = who[q] /\ (alone'[q] => alone[q])
    BY <1>0, <2>1, OthersKept, OthersLeave
  <2>4. CASE Give(p)
    <3>1. PICK c \in online :
            /\ who' = [who EXCEPT ![p] = c]
            /\ LET rivals == {q \in Procs \ {p} : pc[q] # "idle" /\ Name[who[q]] = Name[c]}
               IN alone' = [q \in Procs |-> IF q = p THEN rivals = {} ELSE alone[q] /\ q \notin rivals]
      BY <2>4 DEF Give
    <3>2. who'[p] = c /\ state[c] = "there" /\ online' = online
      BY <1>0, <2>4, <3>1 DEF Present, Give, rows
    <3>3. alone'[p] => \A q \in Procs \ {p} : pc[q] # "idle" => Name[who[q]] # Name[c]
      BY <3>1
    <3>4. \A q \in Procs \ {p} : alone'[q] /\ pc[q] # "idle" => Name[who[q]] # Name[c]
      BY <3>1
    <3>5. Present'
      BY <1>0, <2>2, <3>2 DEF Present
    <3>6. AloneBy(p)'
      BY <2>2, <2>3, <3>2, <3>3 DEF AloneBy
    <3>7. \A q \in Procs \ {p} : AloneBy(q)'
      BY <1>0, <2>2, <2>3, <3>2, <3>4 DEF AloneBy
    <3> QED
      BY <3>5, <3>6, <3>7
  <2>5. CASE ~Give(p)
    <3>1. \/ pc'[p] = "idle" /\ UNCHANGED online
          \/ pc[p] # "idle" /\ UNCHANGED <<who, alone>>
      BY <1>0, <2>1, <2>5, Course
    <3>2. online' \subseteq online
      <4>1. CASE Kick(p)
        BY <4>1 DEF Kick
      <4>2. CASE ~Kick(p)
        BY <2>1, <2>5, <4>2 DEF Step, rows, Stored, Refuse, ReadRoom, NoExit, Move, Recall, Place, Describe, Say,
                Spread, Heard, Target, Online, Near, Find, ReadBag, WriteBag, Return, Fail, Restart
      <4> QED
        BY <4>1, <4>2
    <3>3. Present'
      BY <1>0, <2>2, <3>2 DEF Present
    <3>4. AloneBy(p)'
      BY <1>0, <2>2, <2>3, <3>1 DEF AloneBy
    <3>5. \A q \in Procs \ {p} : AloneBy(q)'
      BY <1>0, <2>2, <2>3, <3>1 DEF AloneBy
    <3> QED
      BY <3>3, <3>4, <3>5
  <2> QED
    BY <2>4, <2>5
<1>2. CASE Others
  <2>1. UNCHANGED <<pc, who>>
    BY <1>0, <1>2, OutsideKeeps
  <2>2. CASE Prune \/ \E c \in Characters : Leave(c) \/ Enter(c)
    <3>1. UNCHANGED <<state, alone>> /\ \A c \in online' : state[c] = "there"
      BY <1>0, <2>2 DEF Prune, Leave, Enter, local, Present
    <3> QED
      BY <1>0, <2>1, <3>1 DEF Present, AloneBy
  <2>3. CASE \E c \in Characters : Create(c)
    <3>1. PICK c \in Characters : Create(c)
      BY <2>3
    <3>2. UNCHANGED <<online, alone>> /\ state' = [state EXCEPT ![c] = "there"]
      BY <3>1 DEF Create, Change
    <3>3. \A d \in Characters : state[d] = "there" => state'[d] = "there"
      BY <1>0, <3>2 DEF RowsOK
    <3>4. Present'
      BY <1>0, <3>2, <3>3 DEF Present, RowsOK
    <3>5. \A q \in Procs : AloneBy(q)'
      BY <1>0, <2>1, <3>2, <3>3 DEF AloneBy, HeldBy
    <3> QED
      BY <3>4, <3>5
  <2>4. CASE \E c \in Characters : TombstoneCharacter(c) \/ DeleteCharacter(c)
    <3>1. PICK c \in Characters : TombstoneCharacter(c) \/ DeleteCharacter(c)
      BY <2>4
    <3>2. state' = [state EXCEPT ![c] = "tombstoned"] \/ state' = [state EXCEPT ![c] = "deleted"]
      BY <3>1, Zenon DEF TombstoneCharacter, DeleteCharacter, Change
    <3>3. Disturbed(c) /\ online' = online \ {c}
      BY <3>1, Zenon DEF TombstoneCharacter, DeleteCharacter
    <3>4. \A d \in Characters \ {c} : state'[d] = state[d]
      BY <1>0, <3>2 DEF RowsOK
    <3>5. Present'
      BY <1>0, <3>3, <3>4 DEF Present, RowsOK
    <3>6. ASSUME NEW q \in Procs
          PROVE  AloneBy(q)'
      <4>1. alone'[q] /\ pc[q] # "idle" => alone[q] /\ Name[who[q]] # Name[c]
        BY <3>3 DEF Disturbed
      <4>2. AloneBy(q) /\ HeldBy(q)
        BY <1>0
      <4> QED
        BY <2>1, <3>4, <4>1, <4>2 DEF AloneBy, HeldBy
    <3> QED
      BY <3>5, <3>6
  <2> QED
    BY <1>2, <2>2, <2>3, <2>4 DEF Others
<1>3. CASE UNCHANGED vars
  BY <1>0, <1>3 DEF vars, rows, local, Present, AloneBy
<1> QED
  BY <1>1, <1>2, <1>3 DEF Next

\* Which step comes where.
Arrives(p) ==
  /\ pc'[p] = "go" => ReadRoom(p)
  /\ pc'[p] = "describe" => ReadRoom(p) \/ Move(p) \/ Recall(p)
  /\ pc'[p] = "spread" => Say(p) \/ Spread(p)
  /\ pc'[p] = "find" => Target(p)
  /\ pc'[p] = "kick" => Find(p)
  /\ pc'[p] = "write" => ReadBag(p)
  /\ pc'[p] = "done" /\ answer'[p] = "ok" =>
       \/ ReadRoom(p) /\ kind[p] = "look"
       \/ Recall(p) /\ room[p] = SpawnFor(p, MyWorld(p), room[p]) /\ UNCHANGED <<rows, room>>
       \/ Describe(p) \/ Heard(p) \/ ReadBag(p) \/ WriteBag(p) \/ Kick(p)
       \/ Say(p) /\ kind[p] # "yell" /\ Stored(p, <<None, room[p]>>)

LEMMA Arrival ==
  ASSUME TypeOK, Held, NEW p \in Procs, Step(p)
  PROVE  Arrives(p)
<1> USE DEF Arrives, Answer, Goto
<1>0. /\ pc \in [Procs -> Stages] /\ answer \in [Procs -> Answers] /\ HeldBy(p)
      /\ kind \in [Procs -> Kinds \cup {"none"}]
  BY DEF TypeOK, ControlOK, Held
<1>1. CASE Give(p)
  <2>1. PICK k \in Kinds : pc'[p] = Entry(k)
    BY <1>0, <1>1 DEF Give
  <2>2. pc'[p] \in {"bag", "target", "room"}
    BY <2>1 DEF Entry
  <2> QED
    BY <2>2
<1>2. CASE ReadRoom(p)
  <2>1. \/ kind[p] \in DOMAIN Onward /\ pc'[p] = Onward[kind[p]]
        \/ pc'[p] = "done" /\ (answer'[p] = "ok" => kind[p] = "look")
    BY <1>0, <1>2 DEF ReadRoom, WillDo, Onward
  <2>2. kind[p] \in DOMAIN Onward => Onward[kind[p]] \notin {"spread", "find", "kick", "write", "done"}
    BY DEF Onward
  <2> QED
    BY <2>1, <2>2, <1>2
<1>3. CASE NoExit(p)  BY <1>0, <1>3 DEF NoExit, Place, Forget, rows
<1>4. CASE Move(p)  BY <1>0, <1>4 DEF Move, Place, Forget, rows
<1>5. CASE Recall(p)  BY <1>0, <1>5 DEF Recall, Place, Forget, rows
<1>6. CASE Describe(p)  BY <1>0, <1>6 DEF Describe, Place, Forget, rows
<1>7. CASE Say(p)  BY <1>0, <1>7 DEF Say, Place, Forget, rows
<1>8. CASE Spread(p)  BY <1>0, <1>8 DEF Spread, Place, Forget, rows
<1>9. CASE Heard(p)  BY <1>0, <1>9 DEF Heard, Place, Forget, rows
<1>10. CASE Target(p)
  <2>1. pc'[p] \in {"find", "online"} \/ (pc'[p] = "done" /\ answer'[p] = "refused")
    BY <1>0, <1>10 DEF Target
  <2> QED
    BY <2>1, <1>10
<1>11. CASE Online(p)  BY <1>0, <1>11 DEF Online, Place, Forget, rows
<1>12. CASE Near(p)  BY <1>0, <1>12 DEF Near, Place, Forget, rows
<1>13. CASE Find(p)  BY <1>0, <1>13 DEF Find, Place, Forget, rows
<1>14. CASE Kick(p)  BY <1>0, <1>14 DEF Kick, Place, Forget, rows
<1>15. CASE ReadBag(p)  BY <1>0, <1>15 DEF ReadBag, Place, Forget, rows
<1>16. CASE WriteBag(p)  BY <1>0, <1>16 DEF WriteBag, Place, Forget, rows
<1>17. CASE Return(p)  BY <1>0, <1>17 DEF Return, Place, Forget, rows
<1>18. CASE Fail(p)  BY <1>0, <1>18 DEF Fail, Place, Forget, rows
<1>19. CASE Restart(p)  BY <1>0, <1>19 DEF Restart, Place, Forget, rows
<1> QED  BY <1>1, <1>2, <1>3, <1>4, <1>5, <1>6, <1>7, <1>8, <1>9, <1>10, <1>11, <1>12, <1>13, <1>14, <1>15, <1>16, <1>17, <1>18, <1>19 DEF Step

\* Which step ends which command well.
LEMMA WellEnded ==
  ASSUME TalkInv, NEW p \in Procs, Step(p)
  PROVE  /\ Ended(p, "yell")' => Heard(p)
         /\ Ended(p, "say")' => Say(p) /\ kind[p] = "say" /\ Stored(p, <<None, room[p]>>)
         /\ Ended(p, "move")' => Describe(p) /\ kind[p] = "move"
         /\ Ended(p, "recall")' =>
              \/ Describe(p) /\ kind[p] = "recall"
              \/ /\ Recall(p) /\ room[p] = SpawnFor(p, MyWorld(p), room[p])
                 /\ UNCHANGED <<rows, room>>
         /\ Ended(p, "get")' => (ReadBag(p) \/ WriteBag(p)) /\ kind[p] = "get"
         /\ Ended(p, "drop")' => (ReadBag(p) \/ WriteBag(p)) /\ kind[p] = "drop"
         /\ Ended(p, "kick")' => Kick(p)
<1>0. TypeOK /\ Held /\ HeldBy(p) /\ StageBy(p)
  BY DEF TalkInv, IInv, Held
<1>1. Arrives(p)
  BY <1>0, Arrival
<1>2. pc'[p] = "done" => ~Give(p)
  <2>1. ASSUME Give(p)
        PROVE  pc'[p] # "done"
    <3>1. PICK k \in Kinds : pc'[p] = Entry(k)
      BY <1>0, <2>1 DEF Give, Goto, TypeOK, ControlOK
    <3> QED
      BY <3>1 DEF Entry
  <2> QED
    BY <2>1
<1>3. pc'[p] = "done" => kind' = kind
  BY <1>0, <1>2, Course
<1>4. /\ Recall(p) => kind[p] = "recall"
      /\ Describe(p) => kind[p] \in {"look", "move", "recall"}
      /\ Heard(p) => kind[p] = "yell"
      /\ Kick(p) => kind[p] = "kick"
      /\ ReadBag(p) \/ WriteBag(p) => kind[p] \in {"get", "drop"}
      /\ Say(p) => kind[p] \in {"say", "yell", "whisper"}
  BY <1>0 DEF HeldBy, StageBy, Recall, Describe, Heard, Kick, ReadBag, WriteBag, Say
<1> QED
  BY <1>1, <1>3, <1>4 DEF Arrives, Ended

LEMMA StoredTells ==
  ASSUME NEW p \in Procs, NEW ref, Stored(p, ref), no' = no, who' = who
  PROVE  Told(p, ref)'
<1>1. Message(p, ref) \in chat'
  BY DEF Stored
<1>2. Message(p, ref).no = no[p] /\ Message(p, ref).room = ref /\ Message(p, ref).world = MyWorld(p)
  BY DEF Message
<1> QED
  BY <1>1, <1>2 DEF Told, MyWorld

\* A yell goes from its room to its exits, and leaves out what it misses.
LEMMA ChatOwn ==
  ASSUME TalkInv, NEW p \in Procs, Step(p)
  PROVE  ChatBy(p)'
<1>0. TypeOK /\ Held /\ IInv /\ ChatBy(p) /\ HeldBy(p)
  BY DEF TalkInv, IInv, Held
<1>1. Arrives(p)
  BY <1>0, Arrival
<1>2. ASSUME Say(p) \/ Spread(p) \/ Heard(p)
      PROVE  /\ pc[p] # "idle" /\ UNCHANGED <<zones, room, who, no, kind>>
             /\ Around(p)' = Around(p)
             /\ \A ref : Told(p, ref) => Told(p, ref)'
  <2>1. pc[p] # "idle" /\ UNCHANGED <<zones, room, who, no, kind>>
    BY <1>2 DEF Say, Spread, Heard, Kept
  <2>2. \A ref : Told(p, ref) => Told(p, ref)'
    BY <1>0, <2>1, ToldStays DEF Next
  <2> QED
    BY <2>1, <2>2, SameAround
<1>3. ASSUME pc'[p] = "spread"
      PROVE  \A ref \in Around(p)' \ left'[p] : Reached(p, ref)'
  <2>1. CASE Say(p)
    <3>1. /\ Stored(p, <<None, room[p]>>)
          /\ left' = [left EXCEPT ![p] = Ways(p, MyWorld(p), room[p])]
      BY <1>0, <1>3, <2>1 DEF Say, Answer, Goto, TypeOK, ControlOK
    <3>2. left'[p] = Ways(p, MyWorld(p), room[p])
      BY <1>0, <3>1 DEF TypeOK, DataOK
    <3>3. \A ref \in Around(p)' \ left'[p] : ref = <<None, room[p]>>
      BY <1>2, <2>1, <3>2 DEF Around
    <3>4. PICK r : r = <<None, room[p]>>
      OBVIOUS
    <3>5. Told(p, r)'
      BY <1>2, <2>1, <3>1, <3>4, StoredTells
    <3> QED
      BY <3>3, <3>4, <3>5 DEF Reached
  <2>2. CASE Spread(p)
    <3>1. PICK ref \in left[p] :
            /\ left' = [left EXCEPT ![p] = @ \ {ref}]
            /\ \/ missed' = [missed EXCEPT ![p] = @ \cup {ref}]
               \/ Stored(p, ref) /\ UNCHANGED missed
      BY <2>2 DEF Spread
    <3>2. left'[p] = left[p] \ {ref} /\ missed[p] \subseteq missed'[p]
      BY <1>0, <3>1 DEF TypeOK, DataOK
    <3>3. Reached(p, ref)'
      <4>1. CASE missed' = [missed EXCEPT ![p] = @ \cup {ref}]
        BY <1>0, <4>1 DEF TypeOK, DataOK, Reached
      <4>2. CASE Stored(p, ref)
        BY <1>2, <2>2, <4>2, StoredTells DEF Reached
      <4> QED
        BY <3>1, <4>1, <4>2
    <3>4. \A x : Reached(p, x) => Reached(p, x)'
      BY <1>2, <2>2, <3>2 DEF Reached
    <3>5. pc[p] = "spread"
      BY <2>2 DEF Spread
    <3> QED
      BY <1>0, <1>2, <2>2, <3>2, <3>3, <3>4, <3>5 DEF ChatBy
  <2> QED
    BY <1>1, <1>3, <2>1, <2>2 DEF Arrives
<1>4. ASSUME Ended(p, "yell")'
      PROVE  \A ref \in Around(p)' : Reached(p, ref)'
  <2>1. Heard(p)
    BY <1>4, WellEnded
  <2>2. pc[p] = "spread" /\ left[p] = {} /\ missed' = missed
    BY <2>1 DEF Heard
  <2>3. \A x : Reached(p, x) => Reached(p, x)'
    BY <1>2, <2>1, <2>2 DEF Reached
  <2> QED
    BY <1>0, <1>2, <2>1, <2>2, <2>3 DEF ChatBy
<1>5. ASSUME Ended(p, "say")'
      PROVE  Told(p, <<None, room[p]>>)'
  <2>1. Say(p) /\ Stored(p, <<None, room[p]>>)
    BY <1>5, WellEnded
  <2>2. PICK r : r = room[p]
    OBVIOUS
  <2>3. Told(p, <<None, r>>)'
    BY <1>2, <2>1, <2>2, StoredTells
  <2>4. room'[p] = r
    BY <1>2, <2>1, <2>2
  <2> QED
    BY <2>3, <2>4 DEF Told
<1> QED
  BY <1>3, <1>4, <1>5 DEF ChatBy

LEMMA StageOwn ==
  ASSUME TalkInv, NEW p \in Procs, Step(p)
  PROVE  StageBy(p)'
<1>0. TypeOK /\ Held /\ HeldBy(p) /\ pc \in [Procs -> Stages]
  BY DEF TalkInv, IInv, Held, TypeOK, ControlOK
<1>1. Arrives(p)
  BY <1>0, Arrival
<1>2. CASE pc'[p] = "describe"
  <2>1. ReadRoom(p) => kind[p] = "look" /\ kind' = kind
    <3>1. ASSUME ReadRoom(p)
          PROVE  kind[p] \in DOMAIN Onward /\ Onward[kind[p]] = "describe" /\ kind' = kind
      BY <1>0, <1>2, <3>1 DEF ReadRoom, WillDo, Onward, Answer, Goto, Kept
    <3> QED
      BY <3>1 DEF Onward
  <2>2. Move(p) \/ Recall(p) => kind[p] \in {"move", "recall"} /\ kind' = kind
    BY DEF Move, Recall, Kept
  <2> QED
    BY <1>1, <1>2, <2>1, <2>2 DEF Arrives, StageBy
<1>3. CASE pc'[p] = "kick"
  <2>1. Find(p)
    BY <1>1, <1>3 DEF Arrives
  <2> QED
    BY <1>0, <1>3, <2>1 DEF Find, Kept, HeldBy, StageBy
<1> QED
  BY <1>2, <1>3 DEF StageBy

LEMMA TalkInvariant == Spec => []TalkInv
<1>1. Init => TalkInv
  BY InitHolds DEF Init, TalkInv, ChatBy, StageBy, Ended
<1>2. TalkInv /\ IInv' /\ [Next]_vars => TalkInv'
  <2> SUFFICES ASSUME TalkInv, IInv', [Next]_vars, NEW q \in Procs
               PROVE  ChatBy(q)' /\ StageBy(q)'
    BY DEF TalkInv
  <2>0. IInv /\ TypeOK
    BY DEF TalkInv, IInv
  <2>1. CASE Step(q)
    BY <2>1, ChatOwn, StageOwn
  <2>2. CASE \E p \in Procs \ {q} : Step(p)
    BY <2>0, <2>2, OthersKept, OthersLeave, TalkStays
  <2>3. CASE Others
    BY <2>0, <2>3, OutsideKeeps, TalkStays
  <2>4. CASE UNCHANGED vars
    BY <2>4, TalkStays DEF vars, rows, local
  <2> QED
    BY <2>1, <2>2, <2>3, <2>4 DEF Next
<1> QED
  BY <1>1, <1>2, Invariant, PTL DEF Spec

\* A yell that was answered is stored in its room and under each of its exits but
\* those it counted, whoever is removed and whatever is pruned meanwhile.
THEOREM YellsArrive == Spec => []YellReaches
<1>1. TalkInv => YellReaches
  BY DEF TalkInv, ChatBy, Ended, Around, Reached, YellReaches
<1> QED
  BY <1>1, TalkInvariant, PTL

\* The row found by its name alone is of the world the command is about.
LEMMA FoundOwn ==
  ASSUME OneWorldPerName, DoneInv, NEW p \in Procs, Step(p)
  PROVE  FoundBy(p)'
<1>0. TypeOK /\ Held /\ FoundBy(p) /\ HeldBy(p) /\ aim \in [Procs -> Characters \cup {None}]
  BY DEF DoneInv, TalkInv, IInv, Held, TypeOK, ControlOK
<1>1. Arrives(p)
  BY <1>0, Arrival
<1>2. CASE pc'[p] = "find"
  <2>1. Target(p)
    BY <1>1, <1>2 DEF Arrives
  <2>2. /\ Named(arg[p], MyWorld(p)) # {}
        /\ aim' = [aim EXCEPT ![p] = CHOOSE c \in Named(arg[p], MyWorld(p)) : TRUE]
        /\ UNCHANGED <<who, arg>>
    BY <1>0, <1>2, <2>1 DEF Target, Answer, Goto, TypeOK, ControlOK, Kept
  <2>3. aim'[p] \in Named(arg[p], MyWorld(p))
    BY <1>0, <2>2
  <2> QED
    BY <2>2, <2>3 DEF FoundBy, Named, MyWorld
<1>3. CASE pc'[p] = "kick"
  <2>1. Find(p)
    BY <1>1, <1>3 DEF Arrives
  <2>2. AnyNamed(arg[p]) # {} /\ aim' = [aim EXCEPT ![p] = Row(arg[p])] /\ UNCHANGED <<who, arg>>
    BY <1>0, <1>3, <2>1 DEF Find, Answer, Goto, TypeOK, ControlOK, Kept
  <2>3. Row(arg[p]) \in Characters /\ Name[Row(arg[p])] = arg[p]
    BY <2>2, RowNamed DEF AnyNamed
  <2>4. aim[p] \in Characters /\ Name[aim[p]] = arg[p] /\ Home[aim[p]] = MyWorld(p)
    BY <1>0, <2>1 DEF FoundBy, Find
  <2>5. Home[Row(arg[p])] = MyWorld(p)
    BY <2>3, <2>4 DEF OneWorldPerName
  <2> QED
    BY <1>0, <2>2, <2>3, <2>5 DEF FoundBy, MyWorld
<1>4. CASE Ended(p, "kick")'
  <2>1. Kick(p)
    BY <1>4, WellEnded DEF DoneInv
  <2> QED
    BY <1>0, <2>1 DEF Kick, Kept, FoundBy, MyWorld
<1> QED
  BY <1>2, <1>3, <1>4 DEF FoundBy

\* An undisturbed command finds its own character's row, and no other.
LEMMA SoleRow ==
  ASSUME OneWorldPerName, DoneInv, NEW p \in Procs, pc[p] # "idle", alone[p]
  PROVE  /\ who[p] \in Characters /\ who[p] \in AnyNamed(MyName(p))
         /\ Named(MyName(p), MyWorld(p)) = {who[p]}
         /\ Row(MyName(p)) = who[p]
<1>1. who[p] \in Characters /\ state[who[p]] = "there"
  BY DEF DoneInv, TalkInv, IInv, Held, HeldBy, AloneBy
<1>2. who[p] \in AnyNamed(MyName(p)) /\ who[p] \in Named(MyName(p), MyWorld(p))
  BY <1>1 DEF AnyNamed, Named, MyName, MyWorld
<1>3. \A c \in AnyNamed(MyName(p)) : c = who[p]
  <2>1. \A c \in AnyNamed(MyName(p)) :
          c \in Characters /\ state[c] = "there" /\ Name[c] = Name[who[p]] /\ Home[c] = Home[who[p]]
    BY <1>1 DEF AnyNamed, MyName, OneWorldPerName
  <2> QED
    BY <1>1, <2>1 DEF DoneInv, TalkInv, IInv, Unique
<1>4. Named(MyName(p), MyWorld(p)) \subseteq AnyNamed(MyName(p))
  BY DEF Named, AnyNamed
<1>5. Row(MyName(p)) = who[p]
  BY <1>2, <1>3, RowNamed
<1> QED
  BY <1>1, <1>2, <1>3, <1>4, <1>5

\* set_character_room writes to the row of the command's own character.
LEMMA PlacedOwn ==
  ASSUME OneWorldPerName, DoneInv, NEW p \in Procs, Step(p)
  PROVE  PlacedBy(p)'
<1>0. /\ TypeOK /\ Held /\ HeldBy(p) /\ PlacedBy(p) /\ RowsOK /\ DataOK
      /\ pc \in [Procs -> Stages]
  BY DEF DoneInv, TalkInv, IInv, Held, TypeOK, ControlOK
<1>1. Arrives(p)
  BY <1>0, Arrival
<1>2. ASSUME alone'[p], pc'[p] = "go", kind'[p] = "recall", room'[p] # None
      PROVE  loc'[who'[p]] = <<MyWorld(p)', room'[p]>>
  <2>1. ReadRoom(p)
    BY <1>1, <1>2 DEF Arrives
  <2>2. /\ pc[p] # "idle" /\ UNCHANGED <<who, alone, loc>>
        /\ room'[p] = RoomOf(MyName(p), MyWorld(p))
    BY <1>0, <2>1 DEF ReadRoom, Kept, DataOK, rows
  <2>3. who[p] \in Characters /\ Row(MyName(p)) = who[p]
    BY <1>2, <2>2, SoleRow
  <2>4. loc[who[p]] \in (Worlds \X Rooms) \cup {None}
    BY <1>0, <2>3 DEF RowsOK
  <2>5. loc[who[p]] # None /\ loc[who[p]][1] = MyWorld(p) /\ room'[p] = loc[who[p]][2]
    BY <1>2, <2>2, <2>3 DEF RoomOf
  <2>6. loc[who[p]] = <<MyWorld(p), room'[p]>>
    BY <2>4, <2>5
  <2> QED
    BY <2>2, <2>6 DEF MyWorld
<1>3. ASSUME alone'[p], pc'[p] = "describe", kind'[p] \in {"move", "recall"}
      PROVE  loc'[who'[p]] = <<MyWorld(p)', room'[p]>>
  <2>1. Move(p) \/ Recall(p)
    <3>1. ASSUME ReadRoom(p)
          PROVE  FALSE
      <4>1. kind[p] \in DOMAIN Onward /\ Onward[kind[p]] = "describe" /\ kind' = kind
        BY <1>0, <1>3, <3>1 DEF ReadRoom, WillDo, Onward, Answer, Goto, Kept
      <4> QED
        BY <1>3, <4>1 DEF Onward
    <3> QED
      BY <1>1, <1>3, <3>1 DEF Arrives
  <2>2. pc[p] # "idle" /\ UNCHANGED <<who, alone>>
    BY <2>1 DEF Move, Recall, Kept
  <2>3. PICK r : Place(p, r)
    BY <1>0, <1>3, <2>1 DEF Move, Recall, Answer, Goto
  <2>4. /\ loc' = [loc EXCEPT ![Row(MyName(p))] = <<MyWorld(p), r>>]
        /\ room' = [room EXCEPT ![p] = r]
    BY <1>0, <1>3, <2>3 DEF Place, Answer, Goto
  <2>5. who[p] \in Characters /\ Row(MyName(p)) = who[p]
    BY <1>3, <2>2, SoleRow
  <2>6. loc'[who[p]] = <<MyWorld(p), r>> /\ room'[p] = r
    BY <1>0, <2>4, <2>5 DEF RowsOK, DataOK
  <2> QED
    BY <2>2, <2>6 DEF MyWorld
<1>4. ASSUME alone'[p], Describe(p), kind[p] \in {"move", "recall"}
      PROVE  loc'[who'[p]] = <<MyWorld(p)', room'[p]>>
  <2>1. pc[p] = "describe" /\ UNCHANGED <<who, alone, loc, room>>
    BY <1>4 DEF Describe, Kept, rows
  <2> QED
    BY <1>0, <1>4, <2>1 DEF PlacedBy, MyWorld
<1>5. ASSUME alone'[p], Recall(p), room[p] = SpawnFor(p, MyWorld(p), room[p]), UNCHANGED <<rows, room>>
      PROVE  loc'[who'[p]] = <<MyWorld(p)', room'[p]>>
  <2>1. pc[p] = "go" /\ kind[p] = "recall" /\ UNCHANGED <<who, alone, loc, room>>
    BY <1>5 DEF Recall, Kept, rows
  <2>2. MyWorld(p) \in Worlds
    BY <1>0, <2>1 DEF HeldBy, MyWorld, Worlds
  <2>3. room[p] \in Rooms
    BY <1>0, <1>5, <2>2, SpawnIsRoom DEF DataOK
  <2>4. room[p] # None
    BY <2>3, NoneIsNone
  <2> QED
    BY <1>0, <1>5, <2>1, <2>4 DEF PlacedBy, MyWorld
<1> QED
  BY <1>2, <1>3, <1>4, <1>5, WellEnded DEF DoneInv, PlacedBy

\* set_character_inventory writes to the row of the command's own character.
LEMMA CarriedOwn ==
  ASSUME OneWorldPerName, DoneInv, NEW p \in Procs, Step(p)
  PROVE  CarriedBy(p)'
<1>0. /\ TypeOK /\ Held /\ HeldBy(p) /\ CarriedBy(p) /\ RowsOK /\ DataOK
      /\ pc \in [Procs -> Stages] /\ answer \in [Procs -> Answers]
  BY DEF DoneInv, TalkInv, IInv, Held, TypeOK, ControlOK
<1>1. Arrives(p)
  BY <1>0, Arrival
<1> DEFINE held == IF Named(MyName(p), MyWorld(p)) = {} THEN {} ELSE inv[Row(MyName(p))]
<1>2. ASSUME pc'[p] = "write"
      PROVE  arg'[p] \in bag'[p] <=> kind'[p] = "get"
  <2>1. ReadBag(p)
    BY <1>1, <1>2 DEF Arrives
  <2>2. UNCHANGED <<arg, kind>> /\ kind[p] \in {"get", "drop"}
    BY <1>0, <2>1 DEF ReadBag, Kept, HeldBy
  <2>3. \/ kind[p] = "get" /\ bag' = [bag EXCEPT ![p] = held \cup {arg[p]}]
        \/ kind[p] = "drop" /\ bag' = [bag EXCEPT ![p] = held \ {arg[p]}]
    BY <1>0, <1>2, <2>1, <2>2 DEF ReadBag, Answer, Goto
  <2> HIDE DEF held
  <2> QED
    BY <1>0, <2>2, <2>3 DEF DataOK
<1>3. ASSUME alone'[p], ReadBag(p), Ended(p, "get")' \/ Ended(p, "drop")'
      PROVE  kind[p] = "get" /\ arg'[p] \in inv'[who'[p]]
  <2>1. pc[p] # "idle" /\ UNCHANGED <<arg, who, alone, inv, kind>>
    BY <1>3 DEF ReadBag, Kept, rows
  <2>2. kind[p] = "get" /\ arg[p] \in held
    BY <1>0, <1>3 DEF ReadBag, Answer, Goto, Ended
  <2>3. held = inv[who[p]]
    BY <1>3, <2>1, SoleRow
  <2> QED
    BY <2>1, <2>2, <2>3
<1>4. ASSUME alone'[p], WriteBag(p)
      PROVE  /\ UNCHANGED <<arg, kind>>
             /\ arg'[p] \in inv'[who'[p]] <=> kind[p] = "get"
  <2>1. pc[p] = "write" /\ UNCHANGED <<arg, who, alone, kind>>
    BY <1>4 DEF WriteBag, Kept
  <2>2. who[p] \in Characters /\ who[p] \in AnyNamed(MyName(p)) /\ Named(MyName(p), MyWorld(p)) # {}
    BY <1>4, <2>1, SoleRow
  <2>3. inv'[who[p]] = bag[p]
    BY <1>4, <2>2 DEF WriteBag
  <2> QED
    BY <1>0, <2>1, <2>3 DEF CarriedBy
<1>5. alone'[p] /\ Ended(p, "get")' => arg'[p] \in inv'[who'[p]]
  BY <1>3, <1>4, WellEnded DEF DoneInv
<1>6. alone'[p] /\ Ended(p, "drop")' => arg'[p] \notin inv'[who'[p]]
  BY <1>3, <1>4, WellEnded DEF DoneInv
<1> QED
  BY <1>2, <1>5, <1>6 DEF CarriedBy

LEMMA DoneInvariant == OneWorldPerName => (Spec => []DoneInv)
<1> SUFFICES ASSUME OneWorldPerName
             PROVE  Spec => []DoneInv
  OBVIOUS
<1>1. Init => DoneInv
  <2> SUFFICES ASSUME Init
               PROVE  DoneInv
    OBVIOUS
  <2>1. online = {} /\ \A p \in Procs : pc[p] = "idle"
    BY DEF Init
  <2>2. \A p \in Procs : \A k : ~Ended(p, k)
    BY <2>1 DEF Ended
  <2>3. ASSUME NEW p \in Procs
        PROVE  AloneBy(p) /\ ChatBy(p) /\ FoundBy(p) /\ PlacedBy(p) /\ CarriedBy(p) /\ StageBy(p)
    BY <2>1, <2>2 DEF AloneBy, ChatBy, FoundBy, PlacedBy, CarriedBy, StageBy
  <2> QED
    BY <2>1, <2>3, InitHolds DEF DoneInv, TalkInv, Present
<1>2. DoneInv /\ TalkInv' /\ [Next]_vars => DoneInv'
  <2> SUFFICES ASSUME DoneInv, TalkInv', [Next]_vars
               PROVE  DoneInv'
    OBVIOUS
  <2>1. Present' /\ \A p \in Procs : AloneBy(p)'
    BY AloneKept
  <2>2. ASSUME NEW q \in Procs
        PROVE  FoundBy(q)' /\ PlacedBy(q)' /\ CarriedBy(q)'
    <3>1. CASE Step(q)
      BY <3>1, FoundOwn, PlacedOwn, CarriedOwn
    <3>2. CASE \E p \in Procs \ {q} : Step(p)
      BY <3>2, OthersApart
    <3>3. CASE Others
      BY <3>3, ApartOfOutside
    <3>4. CASE UNCHANGED vars
      BY <3>4, CommandStays DEF vars, rows, local
    <3> QED
      BY <3>1, <3>2, <3>3, <3>4 DEF Next
  <2> QED
    BY <2>1, <2>2 DEF DoneInv
<1> QED
  BY <1>1, <1>2, TalkInvariant, PTL DEF Spec

\* As long as no name is borne in two worlds, a command that was answered "ok",
\* and that no command or removal of that name overlapped, did what it says, to
\* the character who gave it: for any number of processes, and failures.
THEOREM CommandsDone ==
  ASSUME OneWorldPerName
  PROVE  Spec => []OkMeansDone
<1>1. DoneInv => OkMeansDone
  <2> SUFFICES ASSUME DoneInv, NEW p \in Procs, pc[p] = "done", answer[p] = "ok", alone[p]
               PROVE  /\ kind[p] \in {"move", "recall"} => loc[who[p]] = <<MyWorld(p), room[p]>>
                      /\ kind[p] = "get" => arg[p] \in inv[who[p]]
                      /\ kind[p] = "drop" => arg[p] \notin inv[who[p]]
                      /\ kind[p] = "say" => Told(p, <<None, room[p]>>)
                      /\ kind[p] = "kick" => Name[aim[p]] = arg[p] /\ Home[aim[p]] = MyWorld(p)
    BY DEF OkMeansDone
  <2>1. \A k : kind[p] = k => Ended(p, k)
    BY DEF Ended
  <2>2. ChatBy(p) /\ FoundBy(p) /\ PlacedBy(p) /\ CarriedBy(p)
    BY DEF DoneInv, TalkInv
  <2> QED
    BY <2>1, <2>2 DEF ChatBy, FoundBy, PlacedBy, CarriedBy
<1> QED
  BY <1>1, DoneInvariant, PTL
=============================================================================
