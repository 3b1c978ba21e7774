------------------------------ MODULE GamePlay ------------------------------
(***************************************************************************)
(* The game engine: characters move, carry items and talk, while            *)
(* administrators remove characters, kick them and prune the chat.  A       *)
(* command is a sequence of repository calls, each a transaction; several   *)
(* server processes share the database, and each holds the world packages   *)
(* it has loaded in memory.                                                 *)
(***************************************************************************)
EXTENDS Naturals, Sequences, FiniteSets

CONSTANTS
  Procs,
  Characters,   \* ids, in the order of their rows
  Name,         \* [Characters -> names]
  Home,         \* [Characters -> worlds]
  Begun,        \* characters that exist at the start
  Rooms,
  Items,
  Zones,        \* zone files
  ZoneWorld,    \* [Zones -> worlds]
  ZoneRooms,    \* [Zones -> sets of rooms]
  ZoneSpawn,    \* [Zones -> Rooms]
  Exits,        \* [Zones \X Rooms -> sets of references <<zone or None, room>>]
  Floor,        \* [Zones \X Rooms -> sets of items]
  Listed,       \* the zones world.json lists, in its order
  DefaultSpawn, \* [worlds -> Rooms]
  Seed,         \* where a new character is placed, in every world
  None,
  MaxCommands,  \* bound on the commands given
  MaxChanges,   \* bound on the characters created and removed
  CanFail       \* calls may raise and processes may stop

Worlds == {Home[c] : c \in Characters}
Names  == {Name[c] : c \in Characters}
Refs   == (Zones \cup {None}) \X Rooms

ASSUME FiniteZones == IsFiniteSet(Zones)
ASSUME CharactersAreIds == Characters \subseteq Nat /\ Begun \subseteq Characters
\* UNIQUE(world_id, name)
ASSUME NamesUniqueAtStart ==
  \A c, d \in Begun : Name[c] = Name[d] /\ Home[c] = Home[d] => c = d
ASSUME PackageType ==
  /\ ZoneWorld \in [Zones -> Worlds] /\ ZoneRooms \in [Zones -> SUBSET Rooms]
  /\ ZoneSpawn \in [Zones -> Rooms] /\ Listed \in Seq(Zones)
  /\ Exits \in [Zones \X Rooms -> SUBSET Refs]
  /\ Floor \in [Zones \X Rooms -> SUBSET Items]
  /\ DefaultSpawn \in [Worlds -> Rooms] /\ Seed \in Rooms
ASSUME NoneIsNone ==
  None \notin Characters \cup Rooms \cup Zones \cup Items \cup Names \cup Worlds
ASSUME GameBounds ==
  MaxCommands \in Nat /\ MaxChanges \in Nat /\ CanFail \in BOOLEAN

VARIABLES
  state,     \* a character row: absent, there, tombstoned (renamed) or deleted
  online,    \* characters with a session
  loc,       \* character_locations: <<world, room>>, or None
  inv,       \* characters.inventory
  chat,      \* chat_messages
  zones,     \* the zones each process has loaded, in order
  given,     \* commands given so far
  changed,   \* characters created or removed so far
  pc, kind,  \* where each process is in which command
  no,        \* the number of the command
  who,       \* the character whose session gave the command
  arg,       \* the name or the item the command is about
  aim,       \* the character found under that name
  room,      \* the room read at the beginning, later the destination
  bag,       \* the inventory read
  left,      \* references a yell has still to reach
  missed,    \* references a yell could not reach
  alone,     \* no command or removal of a character of that name overlapped
  answer

rows  == <<state, online, loc, inv, chat>>
local == <<pc, kind, no, who, arg, aim, room, bag, left, missed, alone, answer>>
vars  == <<rows, zones, given, changed, local>>

Kinds == {"move", "recall", "look", "say", "yell", "whisper", "get", "drop", "kick"}

-----------------------------------------------------------------------------
(* Names and rooms *)

\* A name is looked up in its world, and then often once more by itself: the
\* row with the least id is found.
Named(n, w) == {c \in Characters : state[c] = "there" /\ Name[c] = n /\ Home[c] = w}
AnyNamed(n) == {c \in Characters : state[c] = "there" /\ Name[c] = n}
Row(n)      == CHOOSE c \in AnyNamed(n) : \A d \in AnyNamed(n) : c <= d

RoomOf(n, w) ==
  IF Named(n, w) = {} \/ loc[Row(n)] = None THEN None
  ELSE IF loc[Row(n)][1] = w THEN loc[Row(n)][2] ELSE None

\* Rooms share one namespace: the zone loaded last gives a room its exits and
\* items, and the zone loaded first gives it its spawn.
Having(p, w, r)    == {i \in DOMAIN zones[p] : ZoneWorld[zones[p][i]] = w /\ r \in ZoneRooms[zones[p][i]]}
IsRoom(p, w, r)    == Having(p, w, r) # {}
LastZone(p, w, r)  == zones[p][CHOOSE i \in Having(p, w, r) : \A j \in Having(p, w, r) : j <= i]
FirstZone(p, w, r) == zones[p][CHOOSE i \in Having(p, w, r) : \A j \in Having(p, w, r) : i <= j]
Ways(p, w, r)      == Exits[<<LastZone(p, w, r), r>>]
Lying(p, w, r)     == Floor[<<LastZone(p, w, r), r>>]

Loaded(p) == {zones[p][i] : i \in DOMAIN zones[p]}

\* resolve_room loads a zone that a reference names and that is not there yet.
Loading(p, ref) ==
  IF ref[1] \in {None} \cup Loaded(p) THEN zones[p] ELSE Append(zones[p], ref[1])

\* Where a recall leads.
SpawnFor(p, w, r) == IF IsRoom(p, w, r) THEN ZoneSpawn[FirstZone(p, w, r)] ELSE DefaultSpawn[w]

Init ==
  /\ state = [c \in Characters |-> IF c \in Begun THEN "there" ELSE "absent"]
  /\ online = {}
  /\ loc = [c \in Characters |-> IF c \in Begun THEN <<Home[c], Seed>> ELSE None]
  /\ inv = [c \in Characters |-> {}]
  /\ chat = {}
  /\ zones = [p \in Procs |-> Listed]
  /\ given = 0 /\ changed = 0
  /\ pc = [p \in Procs |-> "idle"] /\ kind = [p \in Procs |-> "none"]
  /\ no = [p \in Procs |-> 0] /\ who = [p \in Procs |-> None]
  /\ arg = [p \in Procs |-> None] /\ aim = [p \in Procs |-> None]
  /\ room = [p \in Procs |-> None] /\ bag = [p \in Procs |-> {}]
  /\ left = [p \in Procs |-> {}] /\ missed = [p \in Procs |-> {}]
  /\ alone = [p \in Procs |-> TRUE] /\ answer = [p \in Procs |-> "none"]

Goto(p, where) == pc' = [pc EXCEPT ![p] = where]

Answer(p, how) ==
  /\ Goto(p, "done")
  /\ answer' = [answer EXCEPT ![p] = how]

Refuse(p) == Answer(p, "refused") /\ UNCHANGED <<rows, zones>>

\* What only giving and returning change.
Kept    == UNCHANGED <<given, changed, kind, no, who, arg, alone>>
MyName(p)  == Name[who[p]]
MyWorld(p) == Home[who[p]]

-----------------------------------------------------------------------------
(* Commands *)

Entry(k) == CASE k = "drop" -> "bag" [] k = "kick" -> "target" [] OTHER -> "room"

Arguments(k) == CASE k \in {"whisper", "kick"} -> Names
                  [] k \in {"get", "drop"} -> Items
                  [] OTHER -> {None}

\* validate_session_for_game found the session and its character.
Give(p) ==
  /\ pc[p] = "idle" /\ given < MaxCommands
  /\ \E c \in online, k \in Kinds : \E a \in Arguments(k) :
       LET rivals == {q \in Procs \ {p} : pc[q] # "idle" /\ Name[who[q]] = Name[c]}
       IN /\ kind' = [kind EXCEPT ![p] = k]
          /\ who' = [who EXCEPT ![p] = c]
          /\ arg' = [arg EXCEPT ![p] = a]
          /\ Goto(p, Entry(k))
          /\ alone' = [q \in Procs |-> IF q = p THEN rivals = {} ELSE alone[q] /\ q \notin rivals]
  /\ given' = given + 1
  /\ no' = [no EXCEPT ![p] = given + 1]
  /\ UNCHANGED <<rows, zones, changed, aim, room, bag, left, missed, answer>>

\* Where a command goes on from the room it read, if that room will do.
Onward == [recall |-> "go", look |-> "describe", move |-> "go", say |-> "say", yell |-> "say",
           whisper |-> "target", get |-> "bag"]

WillDo(p, r) ==
  \/ kind[p] = "recall"
  \/ kind[p] \in {"say", "whisper"} /\ r # None
  \/ /\ kind[p] \in {"look", "move", "yell", "get"} /\ r # None /\ IsRoom(p, MyWorld(p), r)
     /\ kind[p] = "get" => arg[p] \in Lying(p, MyWorld(p), r)

\* The first read of most commands: where am I, and is that a room I know?
ReadRoom(p) ==
  /\ pc[p] = "room"
  /\ LET r == RoomOf(MyName(p), MyWorld(p))
     IN /\ room' = [room EXCEPT ![p] = r]
        /\ IF WillDo(p, r) THEN Goto(p, Onward[kind[p]]) /\ UNCHANGED answer
           ELSE Answer(p, IF kind[p] = "look" THEN "ok" ELSE "refused")
  /\ Kept /\ UNCHANGED <<rows, zones, aim, bag, left, missed>>

\* set_character_room
Place(p, r) ==
  IF Named(MyName(p), MyWorld(p)) = {} THEN Answer(p, "refused") /\ UNCHANGED <<rows, room>>
  ELSE /\ loc' = [loc EXCEPT ![Row(MyName(p))] = <<MyWorld(p), r>>]
       /\ room' = [room EXCEPT ![p] = r]
       /\ Goto(p, "describe")
       /\ UNCHANGED <<state, online, inv, chat, answer>>

NoExit(p) ==
  /\ pc[p] = "go" /\ kind[p] = "move"
  /\ Answer(p, "refused")
  /\ Kept /\ UNCHANGED <<rows, zones, aim, room, bag, left, missed>>

\* can_move resolves the exit, which may load a zone, whatever comes of it.
Move(p) ==
  /\ pc[p] = "go" /\ kind[p] = "move"
  /\ \E ref \in Ways(p, MyWorld(p), room[p]) :
       /\ zones' = [zones EXCEPT ![p] = Loading(p, ref)]
       /\ IF \E i \in DOMAIN Loading(p, ref) :
               /\ ZoneWorld[Loading(p, ref)[i]] = MyWorld(p)
               /\ ref[2] \in ZoneRooms[Loading(p, ref)[i]]
          THEN Place(p, ref[2])
          ELSE Answer(p, "refused") /\ UNCHANGED <<rows, room>>
  /\ Kept /\ UNCHANGED <<aim, bag, left, missed>>

\* Without a room, or in a room of no known zone, to the world's default.
Recall(p) ==
  /\ pc[p] = "go" /\ kind[p] = "recall"
  /\ LET there == SpawnFor(p, MyWorld(p), room[p])
     IN IF room[p] = there THEN Answer(p, "ok") /\ UNCHANGED <<rows, room>>
        ELSE Place(p, there)
  /\ Kept /\ UNCHANGED <<zones, aim, bag, left, missed>>

Orders(S) == {s \in [1..Cardinality(S) -> S] : \A x \in S : \E i \in DOMAIN s : s[i] = x}

\* A description names the room behind each exit, and so loads its zone.
Describe(p) ==
  /\ pc[p] = "describe"
  /\ IF IsRoom(p, MyWorld(p), room[p])
     THEN LET new == {ref[1] : ref \in Ways(p, MyWorld(p), room[p])} \ ({None} \cup Loaded(p))
          IN \E s \in Orders(new) : zones' = [zones EXCEPT ![p] = @ \o s]
     ELSE UNCHANGED zones
  /\ Answer(p, "ok")
  /\ Kept /\ UNCHANGED <<rows, aim, room, bag, left, missed>>

\* Mutant of Recipient: only those online are looked up.
RecipientOnline(n, w) ==
  IF Named(n, w) \cap online = {} THEN None ELSE CHOOSE c \in Named(n, w) \cap online : TRUE

\* A name that is not found leaves a message without recipient, which is one
\* for everybody in the room.
Recipient(n, w) == IF Named(n, w) = {} THEN None ELSE CHOOSE c \in Named(n, w) : TRUE

\* add_chat_message; what was meant, and the command's number, are history.
Message(p, ref) ==
  [by |-> CHOOSE c \in Named(MyName(p), MyWorld(p)) : TRUE,
   to |-> IF kind[p] = "whisper" THEN Recipient(arg[p], MyWorld(p)) ELSE None,
   world |-> MyWorld(p), room |-> ref, kind |-> kind[p], meant |-> aim[p], no |-> no[p]]
Stored(p, ref) ==
  /\ Named(MyName(p), MyWorld(p)) # {}
  /\ chat' = chat \cup {Message(p, ref)}
  /\ UNCHANGED <<state, online, loc, inv>>

\* The message of a say or a whisper, and a yell's first.
Say(p) ==
  /\ pc[p] = "say"
  /\ IF Named(MyName(p), MyWorld(p)) = {}
     THEN Answer(p, "refused") /\ UNCHANGED <<rows, left, missed>>
     ELSE /\ Stored(p, <<None, room[p]>>)
          /\ IF kind[p] = "yell"
             THEN /\ Goto(p, "spread")
                  /\ left' = [left EXCEPT ![p] = Ways(p, MyWorld(p), room[p])]
                  /\ missed' = [missed EXCEPT ![p] = {}]
                  /\ UNCHANGED answer
             ELSE Answer(p, "ok") /\ UNCHANGED <<left, missed>>
  /\ Kept /\ UNCHANGED <<zones, aim, room, bag>>

\* Mutant of Spread: the result of the insert is not looked at.
SpreadSilently(p) ==
  /\ pc[p] = "spread"
  /\ \E ref \in left[p] :
       /\ left' = [left EXCEPT ![p] = @ \ {ref}]
       /\ IF Named(MyName(p), MyWorld(p)) = {} THEN UNCHANGED rows ELSE Stored(p, ref)
  /\ Kept /\ UNCHANGED <<zones, pc, aim, room, bag, missed, answer>>

\* The exits of the room, each under the reference as it is written there.
Spread(p) ==
  /\ pc[p] = "spread"
  /\ \E ref \in left[p] :
       /\ left' = [left EXCEPT ![p] = @ \ {ref}]
       /\ IF Named(MyName(p), MyWorld(p)) = {}
          THEN missed' = [missed EXCEPT ![p] = @ \cup {ref}] /\ UNCHANGED rows
          ELSE Stored(p, ref) /\ UNCHANGED missed
  /\ Kept /\ UNCHANGED <<zones, pc, aim, room, bag, answer>>

Heard(p) ==
  /\ pc[p] = "spread" /\ left[p] = {}
  /\ Answer(p, "ok")
  /\ Kept /\ UNCHANGED <<rows, zones, aim, room, bag, left, missed>>

\* A whisper or a kick resolves its target; nobody kicks their own name.
Target(p) ==
  /\ pc[p] = "target"
  /\ LET found == Named(arg[p], MyWorld(p))
     IN IF found = {} \/ (kind[p] = "kick" /\ arg[p] = MyName(p))
        THEN Answer(p, "refused") /\ UNCHANGED aim
        ELSE /\ aim' = [aim EXCEPT ![p] = CHOOSE c \in found : TRUE]
             /\ Goto(p, IF kind[p] = "kick" THEN "find" ELSE "online")
             /\ UNCHANGED answer
  /\ Kept /\ UNCHANGED <<rows, zones, room, bag, left, missed>>

\* get_active_characters
Online(p) ==
  /\ pc[p] = "online"
  /\ IF \E c \in online : Name[c] = arg[p] /\ Home[c] = MyWorld(p)
     THEN Goto(p, "near") /\ UNCHANGED answer
     ELSE Answer(p, "refused")
  /\ Kept /\ UNCHANGED <<rows, zones, aim, room, bag, left, missed>>

\* The room of the target is compared with the room read at the beginning.
Near(p) ==
  /\ pc[p] = "near"
  /\ IF RoomOf(arg[p], MyWorld(p)) = room[p] THEN Goto(p, "say") /\ UNCHANGED answer
     ELSE Answer(p, "refused")
  /\ Kept /\ UNCHANGED <<rows, zones, aim, room, bag, left, missed>>

\* Mutant of Find: the row of the actor is looked up.
FindActor(p) ==
  /\ pc[p] = "find"
  /\ IF AnyNamed(arg[p]) = {} THEN Answer(p, "refused") /\ UNCHANGED aim
     ELSE /\ aim' = [aim EXCEPT ![p] = who[p]]
          /\ Goto(p, "kick") /\ UNCHANGED answer
  /\ Kept /\ UNCHANGED <<rows, zones, room, bag, left, missed>>

\* get_character_by_name asks for no world.
Find(p) ==
  /\ pc[p] = "find"
  /\ IF AnyNamed(arg[p]) = {} THEN Answer(p, "refused") /\ UNCHANGED aim
     ELSE /\ aim' = [aim EXCEPT ![p] = Row(arg[p])]
          /\ Goto(p, "kick") /\ UNCHANGED answer
  /\ Kept /\ UNCHANGED <<rows, zones, room, bag, left, missed>>

\* remove_sessions_for_character_count
Kick(p) ==
  /\ pc[p] = "kick"
  /\ online' = online \ {aim[p]}
  /\ Answer(p, IF aim[p] \in online THEN "ok" ELSE "refused")
  /\ Kept /\ UNCHANGED <<state, loc, inv, chat, zones, aim, room, bag, left, missed>>

\* get_character_inventory, and what pickup_item and drop_item make of it.
ReadBag(p) ==
  /\ pc[p] = "bag"
  /\ LET held == IF Named(MyName(p), MyWorld(p)) = {} THEN {} ELSE inv[Row(MyName(p))]
     IN IF kind[p] = "get"
        THEN IF arg[p] \in held THEN Answer(p, "ok") /\ UNCHANGED bag
             ELSE /\ bag' = [bag EXCEPT ![p] = held \cup {arg[p]}]
                  /\ Goto(p, "write") /\ UNCHANGED answer
        ELSE IF arg[p] \notin held THEN Answer(p, "refused") /\ UNCHANGED bag
             ELSE /\ bag' = [bag EXCEPT ![p] = held \ {arg[p]}]
                  /\ Goto(p, "write") /\ UNCHANGED answer
  /\ Kept /\ UNCHANGED <<rows, zones, aim, room, left, missed>>

\* set_character_inventory writes every row of the name; its result is ignored.
WriteBag(p) ==
  /\ pc[p] = "write"
  /\ inv' = IF Named(MyName(p), MyWorld(p)) = {} THEN inv
            ELSE [c \in Characters |-> IF c \in AnyNamed(MyName(p)) THEN bag[p] ELSE inv[c]]
  /\ Answer(p, "ok")
  /\ Kept /\ UNCHANGED <<state, online, loc, chat, zones, aim, room, bag, left, missed>>

\* Nothing of a command outlives it.
Forget(p) ==
  /\ Goto(p, "idle")
  /\ kind' = [kind EXCEPT ![p] = "none"] /\ answer' = [answer EXCEPT ![p] = "none"]
  /\ who' = [who EXCEPT ![p] = None] /\ arg' = [arg EXCEPT ![p] = None]
  /\ aim' = [aim EXCEPT ![p] = None] /\ room' = [room EXCEPT ![p] = None]
  /\ bag' = [bag EXCEPT ![p] = {}] /\ left' = [left EXCEPT ![p] = {}]
  /\ missed' = [missed EXCEPT ![p] = {}] /\ no' = [no EXCEPT ![p] = 0]
  /\ alone' = [alone EXCEPT ![p] = TRUE]

Return(p) ==
  /\ pc[p] = "done"
  /\ Forget(p)
  /\ UNCHANGED <<rows, zones, given, changed>>

\* A repository call raises: the route answers 500.
Fail(p) ==
  /\ CanFail /\ pc[p] \notin {"idle", "done"}
  /\ Answer(p, "failed")
  /\ Kept /\ UNCHANGED <<rows, zones, aim, room, bag, left, missed>>

\* The process stops and starts again with the zones world.json lists.
Restart(p) ==
  /\ CanFail /\ (pc[p] \notin {"idle", "done"} \/ zones[p] # Listed)
  /\ Forget(p)
  /\ zones' = [zones EXCEPT ![p] = Listed]
  /\ UNCHANGED <<rows, given, changed>>

-----------------------------------------------------------------------------
(* Others *)

Enter(c) ==
  /\ state[c] = "there" /\ c \notin online
  /\ online' = online \cup {c}
  /\ UNCHANGED <<state, loc, inv, chat, zones, given, changed, local>>

Leave(c) ==
  /\ c \in online
  /\ online' = online \ {c}
  /\ UNCHANGED <<state, loc, inv, chat, zones, given, changed, local>>

Change(c, to) ==
  /\ changed < MaxChanges
  /\ changed' = changed + 1
  /\ state' = [state EXCEPT ![c] = to]
  /\ UNCHANGED <<zones, given, pc, kind, no, who, arg, aim, room, bag, left, missed, answer>>

\* UNIQUE(world_id, name) refuses a second row.
Create(c) ==
  /\ state[c] = "absent" /\ Named(Name[c], Home[c]) = {}
  /\ Change(c, "there")
  /\ loc' = [loc EXCEPT ![c] = <<Home[c], Seed>>]
  /\ UNCHANGED <<online, inv, chat, alone>>

Disturbed(c) == alone' = [q \in Procs |-> alone[q] /\ (pc[q] = "idle" \/ Name[who[q]] # Name[c])]

\* manage_character removes the sessions first, in a transaction of its own; what
\* happens in between is in SessionStore.
TombstoneCharacter(c) ==
  /\ state[c] = "there"
  /\ Change(c, "tombstoned") /\ Disturbed(c)
  /\ online' = online \ {c}
  /\ UNCHANGED <<loc, inv, chat>>

\* Mutant of DeleteCharacter: messages keep the id of the row.
DeleteCharacterOnly(c) ==
  /\ state[c] \in {"there", "tombstoned"}
  /\ Change(c, "deleted") /\ Disturbed(c)
  /\ online' = online \ {c}
  /\ loc' = [loc EXCEPT ![c] = None]
  /\ inv' = [inv EXCEPT ![c] = {}]
  /\ UNCHANGED chat

\* The location goes with the row; chat_messages keep NULL for it.
DeleteCharacter(c) ==
  /\ state[c] \in {"there", "tombstoned"}
  /\ Change(c, "deleted") /\ Disturbed(c)
  /\ online' = online \ {c}
  /\ loc' = [loc EXCEPT ![c] = None]
  /\ inv' = [inv EXCEPT ![c] = {}]
  /\ chat' = {[m EXCEPT !.by = IF @ = c THEN None ELSE @, !.to = IF @ = c THEN None ELSE @] : m \in chat}

\* Messages older than some hours, of all worlds, of a world or of one of its
\* rooms; a command that is still running has stored none of them.
Prune ==
  /\ \E k \in 1..given, w \in Worlds \cup {None}, r \in Refs \cup {None} :
       LET old == {m \in chat : /\ m.no <= k /\ \A q \in Procs : pc[q] # "idle" => no[q] # m.no
                                /\ w # None => m.world = w
                                /\ r # None => w # None /\ m.room = r}
       IN old # {} /\ chat' = chat \ old
  /\ UNCHANGED <<state, online, loc, inv, zones, given, changed, local>>

Step(p) ==
  \/ Give(p) \/ ReadRoom(p) \/ NoExit(p) \/ Move(p) \/ Recall(p) \/ Describe(p)
  \/ Say(p) \/ Spread(p) \/ Heard(p)
  \/ Target(p) \/ Online(p) \/ Near(p) \/ Find(p) \/ Kick(p)
  \/ ReadBag(p) \/ WriteBag(p) \/ Return(p) \/ Fail(p) \/ Restart(p)

Others ==
  \/ \E c \in Characters : \/ Enter(c) \/ Leave(c) \/ Create(c)
                            \/ TombstoneCharacter(c) \/ DeleteCharacter(c)
  \/ Prune

Next == Others \/ \E p \in Procs : Step(p)
Spec == Init /\ [][Next]_vars

-----------------------------------------------------------------------------
(* Properties *)

States  == {"absent", "there", "tombstoned", "deleted"}
Stages  == {"idle", "room", "go", "describe", "say", "spread", "target", "online", "near",
            "find", "kick", "bag", "write", "done"}
Answers == {"none", "ok", "refused", "failed"}

MessageRows ==
  [by : Characters \cup {None}, to : Characters \cup {None}, world : Worlds, room : Refs,
   kind : Kinds, meant : Characters \cup {None}, no : 0..MaxCommands]

RowsOK ==
  /\ state \in [Characters -> States]
  /\ online \subseteq Characters
  /\ loc \in [Characters -> (Worlds \X Rooms) \cup {None}]
  /\ inv \in [Characters -> SUBSET Items]

\* chat_messages refer to rows that exist.
ChatOK ==
  /\ chat \subseteq MessageRows
  /\ \A m \in chat : \A c \in {m.by, m.to} \ {None} : state[c] # "deleted"

ControlOK ==
  /\ pc \in [Procs -> Stages] /\ kind \in [Procs -> Kinds \cup {"none"}]
  /\ no \in [Procs -> 0..MaxCommands]
  /\ who \in [Procs -> Characters \cup {None}]
  /\ arg \in [Procs -> Names \cup Items \cup {None}]
  /\ aim \in [Procs -> Characters \cup {None}]
  /\ alone \in [Procs -> BOOLEAN] /\ answer \in [Procs -> Answers]

DataOK ==
  /\ room \in [Procs -> Rooms \cup {None}] /\ bag \in [Procs -> SUBSET Items]
  /\ left \in [Procs -> SUBSET Refs] /\ missed \in [Procs -> SUBSET Refs]
  /\ zones \in [Procs -> Seq(Zones)]

\* Every variable has its type.
TypeOK ==
  /\ RowsOK /\ ChatOK /\ ControlOK /\ DataOK
  /\ given \in 0..MaxCommands /\ changed \in 0..MaxChanges

\* get_room_messages: who finds the message in its room.
Readers(m) ==
  {c \in Characters : /\ state[c] = "there" /\ Home[c] = m.world /\ m.by # None
                      /\ m.to = None \/ c \in {m.to, m.by}}

\* GameEngine.whisper stores its message under the name of the target, some
\* calls after it found that target, and a name that is gone by then, or is
\* gone later, leaves a message for the whole room.  As long as the character
\* who was meant is there, nobody else reads the whisper, whoever else came to
\* bear a name or left.
WhispersPrivate ==
  \A m \in chat :
    m.kind = "whisper" /\ state[m.meant] = "there" => Readers(m) \subseteq {m.by, m.meant}

Told(p, ref) == \E m \in chat :
  m.no = no[p] /\ m.room = ref /\ m.world = MyWorld(p)

\* GameEngine.yell inserts room by room and answers how many it could not
\* reach: a yell that was answered was stored in the room where it began and
\* under each of its exits, but for those it counted.
YellReaches ==
  \A p \in Procs : pc[p] = "done" /\ kind[p] = "yell" /\ answer[p] = "ok" =>
    \A ref \in {<<None, room[p]>>} \cup Ways(p, MyWorld(p), room[p]) : ref \in missed[p] \/ Told(p, ref)

\* The engine finds a row by name in every repository call anew, and ignores
\* what set_character_inventory answers.  A command that was answered "ok", and
\* that no command or removal of a character of that name overlapped, did what
\* it was asked to, to the character who asked.
OkMeansDone ==
  \A p \in Procs : pc[p] = "done" /\ answer[p] = "ok" /\ alone[p] =>
    /\ kind[p] \in {"move", "recall"} => loc[who[p]] = <<MyWorld(p), room[p]>>
    /\ kind[p] = "get" => arg[p] \in inv[who[p]]
    /\ kind[p] = "drop" => arg[p] \notin inv[who[p]]
    /\ kind[p] = "say" => Told(p, <<None, room[p]>>)
    /\ kind[p] = "kick" => Name[aim[p]] = arg[p] /\ Home[aim[p]] = MyWorld(p)

\* characters_repo.py:462 says that set_character_room sets the room "for a
\* world-scoped character identity": the location of a character is in its
\* world.
LocatedAtHome == \A c \in Characters : loc[c] # None => loc[c][1] = Home[c]
=============================================================================
