---------------------------- MODULE Provisioning ----------------------------
(***************************************************************************)
(* How characters come to be: /register-guest, which creates an account    *)
(* and its character and rolls back what it made when a later step fails,  *)
(* and the provisioning of a character with a generated name for an        *)
(* existing account.  Names are unique in a world, not across worlds.      *)
(*                                                                         *)
(* One action is one repository call.  The slot count is a step of its     *)
(* own: sqlite3 opens the transaction at the INSERT, not at the SELECT.    *)
(***************************************************************************)
EXTENDS Naturals, FiniteSets

CONSTANTS
  Users,          \* account ids
  Ids,            \* character ids, AUTOINCREMENT: never reused
  Worlds,
  DefaultWorld,   \* config.worlds.default_world_id
  Names,
  Procs,          \* server processes that share the database file
  Registrars,     \* those that serve registrations and character creation
  NULL,
  SlotLimits,     \* configurations: slot_limit_per_account of each world
  MaxAttempts,    \* max_attempts of the generated names
  CanFail         \* a repository call may raise DatabaseError

Row == [world : Worlds, name : Names \cup {NULL}, owner : Users \cup {NULL},
        profile : Ids \cup {NULL}]

ASSUME DefaultIsWorld == DefaultWorld \in Worlds
ASSUME RegistrarsType == Registrars \subseteq Procs /\ IsFiniteSet(Registrars)
ASSUME LimitsType     == /\ SlotLimits \subseteq [Worlds -> Nat]
                         /\ MaxAttempts \in Nat
                         /\ CanFail \in BOOLEAN
ASSUME NullIsOutside  == /\ NULL \notin Users
                         /\ NULL \notin Ids
                         /\ NULL \notin Worlds
                         /\ NULL \notin Names
                         /\ NULL \notin Row

VARIABLES
  limit,      \* the configuration the server was started with
  accounts,   \* accounts[u]: whether the row of u is there and active
  rows,       \* characters, NULL when absent; a tombstone has a name no lookup finds
  used,       \* character ids handed out
  job,        \* job[p]: the registration or provisioning process p is at
  outrun,     \* history: who has counted while another INSERT of that account came in between
  crossed     \* history: guests whose name another process had at the same time

vars == <<limit, accounts, rows, used, job, outrun, crossed>>

Kinds == {"none", "guest", "generated"}

Pcs == {"idle",
        "account",     \* guest: the name is free, the account not yet made
        "name",        \* generated: a name is to be fetched
        "count",       \* create_character_for_user, before its SELECT
        "insert",      \* the count was below the limit
        "refused",     \* guest: no character, the account is to be deleted
        "lookup",      \* the row is in, its id is to be looked up
        "seed",        \* the id is known, the entity state is to be applied
        "snapshot",    \* guest: the seeded state is to be read back
        "undoChar", "undoUser"}

Job == [pc : Pcs, kind : Kinds, user : Users \cup {NULL}, world : Worlds \cup {NULL},
        name : Names \cup {NULL}, tries : Nat,
        mine   : Ids \cup {NULL},    \* history: the row this job inserted
        found  : Ids \cup {NULL},    \* character_id: the row the lookup returned
        result : {"none", "created", "failed", "error"}]

Nothing == [pc |-> "idle", kind |-> "none", user |-> NULL, world |-> NULL, name |-> NULL,
            tries |-> 0, mine |-> NULL, found |-> NULL, result |-> "none"]

present   == {c \in Ids : rows[c] # NULL}
Named(n)  == {c \in present : rows[c].name = n}
Owned(u, w) == {c \in present : rows[c].owner = u /\ rows[c].world = w}

Goto(p, pc)  == job' = [job EXCEPT ![p].pc = pc]
Finish(p, r) == job' = [job EXCEPT ![p].pc = "idle", ![p].result = r]

-----------------------------------------------------------------------------
Init ==
  /\ limit \in SlotLimits
  /\ accounts \in [Users -> {"none", "active"}]
  /\ rows = [c \in Ids |-> NULL]
  /\ used = {}
  /\ job = [p \in Procs |-> Nothing]
  /\ outrun = {}
  /\ crossed = {}

\* POST /register-guest: character_exists looks in every world.
StartGuest(p, n) ==
  /\ p \in Registrars
  /\ job[p].pc = "idle"
  /\ Named(n) = {}
  /\ job' = [job EXCEPT ![p] = [Nothing EXCEPT !.pc = "account", !.kind = "guest", !.name = n,
                                               !.world = DefaultWorld]]
  /\ UNCHANGED <<limit, accounts, rows, used>>

\* A generated user name that is free.
CreateGuest(p, u) ==
  /\ job[p].pc = "account"
  /\ accounts[u] = "none"
  /\ accounts' = [accounts EXCEPT ![u] = "active"]
  /\ job' = [job EXCEPT ![p].pc = "count", ![p].user = u]
  /\ UNCHANGED <<limit, rows, used>>

\* All user names tried are taken.
NoGuestName(p) ==
  /\ job[p].pc = "account"
  /\ Finish(p, "failed")
  /\ UNCHANGED <<limit, accounts, rows, used>>

\* POST /characters/create and /admin/user/create-character, which passed their
\* own checks: provisioning counts the slots before it fetches a name.
StartGenerated(p, u, w) ==
  /\ p \in Registrars
  /\ job[p].pc = "idle"
  /\ accounts[u] = "active"
  /\ Cardinality(Owned(u, w)) < limit[w]
  /\ job' = [job EXCEPT ![p] = [Nothing EXCEPT !.pc = "name", !.kind = "generated", !.user = u,
                                               !.world = w]]
  /\ UNCHANGED <<limit, accounts, rows, used>>

\* Mutant of GenerateName: only the first name is counted for.
GenerateNameUncounted(p, n) ==
  /\ job[p].pc = "name"
  /\ job[p].tries < MaxAttempts
  /\ job' = [job EXCEPT ![p].pc = IF job[p].tries = 0 THEN "count" ELSE "insert",
                        ![p].name = n, ![p].tries = @ + 1]
  /\ UNCHANGED <<limit, accounts, rows, used>>

GenerateName(p, n) ==
  /\ job[p].pc = "name"
  /\ job[p].tries < MaxAttempts
  /\ job' = [job EXCEPT ![p].pc = "count", ![p].name = n, ![p].tries = @ + 1]
  /\ UNCHANGED <<limit, accounts, rows, used>>

\* The generator fails, or every attempt collided.
NoName(p) ==
  /\ job[p].pc = "name"
  /\ Finish(p, "failed")
  /\ UNCHANGED <<limit, accounts, rows, used>>

\* create_character_for_user returned False: the next name, or no guest.
Refused(p) == Goto(p, IF job[p].kind = "generated" THEN "name" ELSE "refused")

CountSlots(p) ==
  /\ job[p].pc = "count"
  /\ IF Cardinality(Owned(job[p].user, job[p].world)) >= limit[job[p].world]
     THEN Refused(p) ELSE Goto(p, "insert")
  /\ UNCHANGED <<limit, accounts, rows, used>>

\* UNIQUE(world_id, name) decides; location and axis state are seeded with it.
InsertCharacter(p, c) ==
  LET j == job[p]
  IN /\ j.pc = "insert"
     /\ \A d \in Named(j.name) : rows[d].world # j.world
     /\ c \in Ids \ used
     /\ rows' = [rows EXCEPT ![c] = [world |-> j.world, name |-> j.name, owner |-> j.user,
                                     profile |-> NULL]]
     /\ used' = used \cup {c}
     /\ job' = [job EXCEPT ![p].pc = "lookup", ![p].mine = c]
     /\ UNCHANGED <<limit, accounts>>

NameCollides(p) ==
  /\ job[p].pc = "insert"
  /\ \E d \in Named(job[p].name) : rows[d].world = job[p].world
  /\ Refused(p)
  /\ UNCHANGED <<limit, accounts, rows, used>>

\* delete_user: tombstones the account and detaches its characters.
Deleted(u) ==
  /\ accounts' = [accounts EXCEPT ![u] = "tombstoned"]
  /\ rows' = [c \in Ids |-> IF rows[c] # NULL /\ rows[c].owner = u
                            THEN [rows[c] EXCEPT !.owner = NULL] ELSE rows[c]]
  /\ UNCHANGED <<limit, used>>

DeleteRefused(p) ==
  /\ job[p].pc = "refused"
  /\ Deleted(job[p].user)
  /\ Finish(p, "failed")

\* get_character_by_name: the first row of that name, in whichever world.
LookUp(p, c) ==
  /\ job[p].pc = "lookup"
  /\ c \in Named(job[p].name)
  /\ job' = [job EXCEPT ![p].pc = "seed", ![p].found = c]
  /\ UNCHANGED <<limit, accounts, rows, used>>

LookUpFails(p) ==
  /\ job[p].pc = "lookup"
  /\ Named(job[p].name) = {}
  /\ IF job[p].kind = "guest" THEN Goto(p, "undoUser") ELSE Finish(p, "failed")
  /\ UNCHANGED <<limit, accounts, rows, used>>

\* apply_entity_state_to_character changed some axis.
Seed(p) ==
  LET j == job[p]
  IN /\ j.pc = "seed"
     /\ j.found \in present
     /\ rows' = [rows EXCEPT ![j.found].profile = j.mine]
     /\ IF j.kind = "guest" THEN Goto(p, "snapshot") ELSE Finish(p, "created")
     /\ UNCHANGED <<limit, accounts, used>>

\* No entity state, no axis changed, or an exception: fatal to a guest only.
SeedFails(p) ==
  /\ job[p].pc = "seed"
  /\ IF job[p].kind = "guest" THEN Goto(p, "undoChar") ELSE Finish(p, "created")
  /\ UNCHANGED <<limit, accounts, rows, used>>

ReadSnapshot(p) ==
  /\ job[p].pc = "snapshot"
  /\ IF job[p].found \in present THEN Finish(p, "created") ELSE Goto(p, "undoChar")
  /\ UNCHANGED <<limit, accounts, rows, used>>

(***************************************************************************)
(* _rollback_guest_registration: best effort, an exception is logged.      *)
(***************************************************************************)
\* Mutant of UndoCharacter: the character is left.
UndoNothing(p) ==
  /\ job[p].pc = "undoChar"
  /\ Goto(p, "undoUser")
  /\ UNCHANGED <<limit, accounts, rows, used>>

UndoCharacter(p) ==
  /\ job[p].pc = "undoChar"
  /\ rows' = [rows EXCEPT ![job[p].found] = NULL]
  /\ Goto(p, "undoUser")
  /\ UNCHANGED <<limit, accounts, used>>

UndoUser(p) ==
  /\ job[p].pc = "undoUser"
  /\ Deleted(job[p].user)
  /\ Finish(p, IF job[p].result = "error" THEN "error" ELSE "failed")

(***************************************************************************)
(* Between two jobs an administrator tombstones or deletes a character.    *)
(***************************************************************************)
Tombstone(p, c) ==
  /\ job[p].pc = "idle"
  /\ c \in present
  /\ rows' = [rows EXCEPT ![c].name = NULL, ![c].owner = NULL]
  /\ UNCHANGED <<limit, accounts, used, job>>

DeleteCharacter(p, c) ==
  /\ job[p].pc = "idle"
  /\ c \in present
  /\ rows' = [rows EXCEPT ![c] = NULL]
  /\ UNCHANGED <<limit, accounts, used, job>>

\* The handler answers 500 and undoes nothing, unless it is seeding (see
\* SeedFails) or undoing.
DatabaseError(p) ==
  /\ CanFail
  /\ job[p].pc \notin {"idle", "seed"}
  /\ job' = [job EXCEPT ![p].pc = IF @ = "undoChar" THEN "undoUser" ELSE "idle",
                        ![p].result = "error"]
  /\ UNCHANGED <<limit, accounts, rows, used>>

Step(p) ==
  \/ \E n \in Names : StartGuest(p, n) \/ GenerateName(p, n)
  \/ \E u \in Users : CreateGuest(p, u) \/ \E w \in Worlds : StartGenerated(p, u, w)
  \/ \E c \in Ids : InsertCharacter(p, c) \/ LookUp(p, c) \/ Tombstone(p, c) \/ DeleteCharacter(p, c)
  \/ NoGuestName(p) \/ NoName(p) \/ CountSlots(p) \/ NameCollides(p) \/ DeleteRefused(p)
  \/ LookUpFails(p) \/ Seed(p) \/ SeedFails(p) \/ ReadSnapshot(p)
  \/ UndoCharacter(p) \/ UndoUser(p) \/ DatabaseError(p)

\* What the properties remember: not state of the program, and nothing reads it.
Observe ==
  /\ outrun' = {q \in Procs : /\ job'[q].pc = "insert"
                              /\ \/ q \in outrun
                                 \/ ~(Owned(job[q].user, job[q].world)' \subseteq
                                        Owned(job[q].user, job[q].world))}
  /\ crossed' = {q \in Procs : /\ job'[q].kind = "guest" /\ job'[q].pc # "idle"
                               /\ \/ q \in crossed
                                  \/ \E r \in Procs \ {q} : /\ job'[r].pc # "idle"
                                                          /\ job'[r].name = job'[q].name}

Next == (\E p \in Procs : Step(p)) /\ Observe

Spec == Init /\ [][Next]_vars

-----------------------------------------------------------------------------
TypeOK ==
  /\ limit \in SlotLimits
  /\ accounts \in [Users -> {"none", "active", "tombstoned"}]
  /\ rows \in [Ids -> Row \cup {NULL}]
  /\ used \subseteq Ids
  /\ job \in [Procs -> Job]
  /\ outrun \subseteq Procs
  /\ crossed \subseteq Procs
  /\ \A p \in Procs : job[p].pc \in {"seed", "snapshot", "undoChar"} => job[p].found \in Ids

\* "The function enforces world-scoped slot limits", although the count and the
\* INSERT are two transactions: an INSERT leads above the limit only when another
\* process inserted between the two, and never by more than the further processes.
SlotOvershoot ==
  [][\A p \in Procs :
       LET u == job[p].user
           w == job[p].world
       IN job[p].pc = "insert" /\ job'[p].pc = "lookup"
            /\ Cardinality(Owned(u, w)') > limit[w] =>
              /\ p \in outrun
              /\ Cardinality(Owned(u, w)') < limit[w] + Cardinality(Registrars)]_vars

\* Only an administrator takes a name away.
TakenAway(c) == rows[c] # NULL => rows[c].name = NULL

Complete(j) ==
  /\ accounts[j.user] = "active"
  /\ j.found = j.mine
  /\ \/ rows[j.mine] = [world |-> DefaultWorld, name |-> j.name, owner |-> j.user, profile |-> j.mine]
     \/ TakenAway(j.mine)

NothingLeft(j) ==
  /\ j.user # NULL => accounts[j.user] = "tombstoned"
  /\ j.mine # NULL => TakenAway(j.mine)

\* A guest's registration ends with an account that owns its seeded character, or
\* with neither: whichever step fails, the account cannot log in and the character
\* is gone.  Only a DatabaseError leaves a part, and another process that had the
\* same name at work meanwhile: its row may be the one the lookup returns.
RegistrationAllOrNothing ==
  [][\A p \in Procs :
       job[p].kind = "guest" /\ job[p].pc # "idle" /\ job'[p].pc = "idle" /\ p \notin crossed =>
         \/ job'[p].result = "created" /\ Complete(job[p])'
         \/ job'[p].result = "failed" /\ NothingLeft(job[p])'
         \/ job'[p].result = "error"]_vars

(***************************************************************************)
(* What db/characters_repo.py warns of and the code does not avoid.        *)
(***************************************************************************)
\* The axis profile of a character is the one generated for it.  "Two characters
\* in different worlds may share the same name; a bare get_character_by_name lookup
\* would return whichever row the DB engine happens to surface first."
ProfileIsItsOwn == \A c \in present : rows[c].profile \in {NULL, c}
=============================================================================
