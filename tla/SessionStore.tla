---------------------------- MODULE SessionStore ----------------------------
(***************************************************************************)
(* Accounts, characters and sessions of the MUD server: the three SQLite   *)
(* tables that decide who may act, the route handlers that change them     *)
(* (login, logout, character selection, moderation) and the start-up and   *)
(* background sweeps.                                                      *)
(*                                                                         *)
(* A handler is an "async def" without an await, so within one server      *)
(* process handlers run one after the other.  But every repository call    *)
(* opens its own connection and commits its own transaction: between two   *)
(* calls of one handler the process may die, the next call may fail        *)
(* ("database is locked"), and another server process that shares the file *)
(* may commit.  One action below is one repository call.                   *)
(***************************************************************************)
EXTENDS Naturals, FiniteSets

CONSTANTS
  Users,          \* ids of the users table, AUTOINCREMENT: never reused
  Superusers,     \* those whose role is superuser; the others are players
  Chars,          \* ids of the characters table, never reused
  Worlds,
  HomeWorld,      \* HomeWorld[c]: the world_id row c is inserted with
  Tokens,         \* session ids (uuid4: fresh at every login)
  Procs,          \* server processes that share the database file
  NULL,
  TTL,            \* config.session.ttl_minutes, in clock units; 0: no expiry
  Sliding,        \* config.session.sliding_expiration
  AllowMultiple,  \* config.session.allow_multiple_sessions
  GuestLifetime,  \* the 24 hours of /register, in clock units
  MaxTime,        \* bound on the clock
  CanCrash,       \* a process may be killed between two repository calls
  CanFail         \* a repository call may raise DatabaseError

SessionRow == [user    : Users,
               char    : Chars \cup {NULL},
               world   : Worlds \cup {NULL},
               expires : Nat \cup {NULL}]

ASSUME SuperusersAreUsers == Superusers \subseteq Users
ASSUME HomeWorldType      == HomeWorld \in [Chars -> Worlds]
ASSUME ConfigType         == /\ TTL \in Nat
                             /\ GuestLifetime \in Nat
                             /\ MaxTime \in Nat
                             /\ {Sliding, AllowMultiple, CanCrash, CanFail} \subseteq BOOLEAN
ASSUME NullIsFresh        == /\ NULL \notin Users
                             /\ NULL \notin Chars
                             /\ NULL \notin Worlds
                             /\ NULL \notin Tokens
                             /\ NULL \notin Nat
                             /\ NULL \notin SessionRow

VARIABLES
  clock,
  sweepers,       \* processes whose sweeper task runs
  accounts,       \* rows of users
  purged,         \* user ids whose row was hard-deleted
  active,         \* rows with is_active = 1
  tombstoned,     \* rows with tombstoned_at set
  guestUntil,     \* guest_expires_at, NULL for a permanent account
  chars,          \* rows of characters
  deleted,        \* character ids whose row was deleted
  owner,          \* characters.user_id, NULL when detached
  sessions,       \* sessions[t]: the row with session_id t, NULL when absent
  issued,         \* session ids handed out so far
  req             \* req[p]: the request process p is serving

userVars == <<accounts, purged, active, tombstoned, guestUntil>>
charVars == <<chars, deleted, owner>>
sessVars == <<sessions, issued>>
vars == <<clock, sweepers, userVars, charVars, sessVars, req>>

Ops == {"none", "logout", "select", "kick_session", "kick_character", "ban", "unban",
        "delete_user", "tombstone", "delete", "refused"}

Pcs == {"down", "starting", "idle",
        "login",      \* credentials and is_active checked, session not yet inserted
        "expired",    \* an expired row was read, not yet deleted
        "touch",      \* a valid row was read
        "resolve",    \* activity updated, user row not yet read
        "dispatch",   \* validate_session returned
        "bind",       \* select_character: checks passed
        "banned",     \* ban: is_active = 0 committed, sessions not yet removed
        "evict",      \* manage_character: row read, sessions not yet removed
        "erase"}      \* manage_character: sessions removed

Request == [pc     : Pcs,
            op     : Ops,
            tok    : Tokens \cup {NULL},
            user   : Users \cup {NULL},
            char   : Chars \cup {NULL},
            target : Users \cup {NULL}]

At(pc) == [pc |-> pc, op |-> "none", tok |-> NULL, user |-> NULL, char |-> NULL, target |-> NULL]

live == {t \in Tokens : sessions[t] # NULL}

SessionsOf(u)   == {t \in live : sessions[t].user = u}
SessionsWith(c) == {t \in live : sessions[t].char = c}
Expired         == {t \in live : sessions[t].expires # NULL /\ sessions[t].expires <= clock}

\* Mutant of ExpiredGuests: the sweep looks at active accounts only.
ExpiredActiveGuests ==
  {u \in (accounts \cap active) \ tombstoned : guestUntil[u] # NULL /\ guestUntil[u] <= clock}

ExpiredGuests   == {u \in accounts \ tombstoned : guestUntil[u] # NULL /\ guestUntil[u] <= clock}

(***************************************************************************)
(* What one SQL statement does to a table.                                 *)
(***************************************************************************)
Without(T)    == [t \in Tokens |-> IF t \in T THEN NULL ELSE sessions[t]]
Detached(U)   == [c \in Chars |-> IF owner[c] \in U THEN NULL ELSE owner[c]]

\* Mutant of NextExpiry: the offset has the wrong sign.
ExpiryBackwards == IF TTL > 0 THEN clock - TTL ELSE NULL

NextExpiry    == IF TTL > 0 THEN clock + TTL ELSE NULL
SessionFor(u) == [user |-> u, char |-> NULL, world |-> NULL, expires |-> NextExpiry]

\* The triggers enforce_session_invariants_insert and _update.  A detached
\* character (user_id NULL) passes: NULL != id is NULL, not true.
TriggerAllows(row) ==
  IF row.char = NULL
  THEN row.world = NULL
  ELSE /\ row.char \in chars
       /\ owner[row.char] \in {row.user, NULL}
       /\ row.world = HomeWorld[row.char]

-----------------------------------------------------------------------------
Init ==
  /\ clock = 0
  /\ sweepers = {}
  /\ accounts = Superusers          \* init_database creates the superuser
  /\ purged = {}
  /\ active = Superusers
  /\ tombstoned = {}
  /\ guestUntil = [u \in Users |-> NULL]
  /\ chars = {}
  /\ deleted = {}
  /\ owner = [c \in Chars |-> NULL]
  /\ sessions = [t \in Tokens |-> NULL]
  /\ issued = {}
  /\ req = [p \in Procs |-> At("down")]

Goto(p, pc)  == req' = [req EXCEPT ![p].pc = pc]
Finish(p)    == req' = [req EXCEPT ![p] = At("idle")]

Tick ==
  /\ clock < MaxTime
  /\ clock' = clock + 1
  /\ UNCHANGED <<sweepers, userVars, charVars, sessVars, req>>

(***************************************************************************)
(* Process start: lifespan runs two clean-up transactions, then serves.    *)
(***************************************************************************)
CleanupExpiredSessions(p) ==
  /\ req[p].pc = "down"
  /\ sessions' = Without(Expired)
  /\ Goto(p, "starting")
  /\ UNCHANGED <<clock, sweepers, userVars, charVars, issued>>

\* Mutants of PurgeExpiredGuests: the sessions, or the characters, are left as they are.
PurgeKeepsSessions ==
  /\ owner' = Detached(ExpiredGuests)
  /\ accounts' = accounts \ ExpiredGuests
  /\ active' = active \ ExpiredGuests
  /\ purged' = purged \cup ExpiredGuests
  /\ UNCHANGED <<clock, tombstoned, guestUntil, chars, deleted, sessVars>>

PurgeKeepsOwners ==
  /\ sessions' = Without(UNION {SessionsOf(u) : u \in ExpiredGuests})
  /\ accounts' = accounts \ ExpiredGuests
  /\ active' = active \ ExpiredGuests
  /\ purged' = purged \cup ExpiredGuests
  /\ UNCHANGED <<clock, tombstoned, guestUntil, charVars, issued>>

\* cleanup_expired_guest_accounts: one transaction.
PurgeExpiredGuests ==
  /\ owner' = Detached(ExpiredGuests)
  /\ sessions' = Without(UNION {SessionsOf(u) : u \in ExpiredGuests})
  /\ accounts' = accounts \ ExpiredGuests
  /\ active' = active \ ExpiredGuests
  /\ purged' = purged \cup ExpiredGuests
  /\ UNCHANGED <<clock, tombstoned, guestUntil, chars, deleted, issued>>

CleanupExpiredGuests(p) ==
  /\ req[p].pc = "starting"
  /\ PurgeExpiredGuests
  /\ sweepers' = sweepers \cup {p}
  /\ Finish(p)

\* temporary_account_sweeper wakes up between two requests.
SweepGuests(p) ==
  /\ req[p].pc = "idle"
  /\ p \in sweepers
  /\ ExpiredGuests # {}
  /\ PurgeExpiredGuests
  /\ UNCHANGED <<sweepers, req>>

\* The call is not in a try: a DatabaseError ends the task, and nothing restarts it.
SweeperDies(p) ==
  /\ CanFail
  /\ req[p].pc = "idle"
  /\ p \in sweepers
  /\ sweepers' = sweepers \ {p}
  /\ UNCHANGED <<clock, userVars, charVars, sessVars, req>>

(***************************************************************************)
(* Rows that other handlers insert: /register and /admin/user/create       *)
(* insert a user, the provisioning flow inserts a character.  The foreign  *)
(* key of characters.user_id refuses an owner without a row.               *)
(***************************************************************************)
CreateUser(p, u, guest) ==
  /\ req[p].pc = "idle"
  /\ u \notin accounts \cup purged
  /\ accounts' = accounts \cup {u}
  /\ active' = active \cup {u}
  /\ guestUntil' = [guestUntil EXCEPT ![u] = IF guest THEN clock + GuestLifetime ELSE NULL]
  /\ UNCHANGED <<clock, sweepers, purged, tombstoned, charVars, sessVars, req>>

CreateCharacter(p, c, u) ==
  /\ req[p].pc = "idle"
  /\ c \notin chars \cup deleted
  /\ u \in accounts
  /\ chars' = chars \cup {c}
  /\ owner' = [owner EXCEPT ![c] = u]
  /\ UNCHANGED <<clock, sweepers, userVars, deleted, sessVars, req>>

(***************************************************************************)
(* POST /login.  FreshTokensLeft bounds the model: the ids never run out.  *)
(***************************************************************************)
FreshTokensLeft == Cardinality(Tokens \ issued) > Cardinality({p \in Procs : req[p].pc = "login"})

\* Mutant of CheckCredentials: is_active is not looked at.
CheckPasswordOnly(p, u) ==
  /\ req[p].pc = "idle"
  /\ FreshTokensLeft
  /\ u \in accounts
  /\ req' = [req EXCEPT ![p] = [At("login") EXCEPT !.user = u]]
  /\ UNCHANGED <<clock, sweepers, userVars, charVars, sessVars>>

CheckCredentials(p, u) ==
  /\ req[p].pc = "idle"
  /\ FreshTokensLeft
  /\ u \in accounts \cap active
  /\ req' = [req EXCEPT ![p] = [At("login") EXCEPT !.user = u]]
  /\ UNCHANGED <<clock, sweepers, userVars, charVars, sessVars>>

\* Mutant of CreateSession: the DELETE is forgotten.
CreateSessionKeepsOld(p, t) ==
  /\ req[p].pc = "login"
  /\ req[p].user \in accounts
  /\ t \in Tokens \ issued
  /\ sessions' = [sessions EXCEPT ![t] = SessionFor(req[p].user)]
  /\ issued' = issued \cup {t}
  /\ Finish(p)
  /\ UNCHANGED <<clock, sweepers, userVars, charVars>>

\* create_session: DELETE (unless several sessions are allowed) and INSERT in
\* one transaction; if the user row is gone the foreign key aborts both.
CreateSession(p, t) ==
  LET u    == req[p].user
      kept == IF AllowMultiple THEN sessions ELSE Without(SessionsOf(u))
  IN /\ req[p].pc = "login"
     /\ u \in accounts
     /\ t \in Tokens \ issued
     /\ sessions' = [kept EXCEPT ![t] = SessionFor(u)]
     /\ issued' = issued \cup {t}
     /\ Finish(p)
     /\ UNCHANGED <<clock, sweepers, userVars, charVars>>

\* Mutant of CreateSessionFails: the refused INSERT is tried again.
CreateSessionRetries(p) ==
  /\ req[p].pc = "login"
  /\ req[p].user \notin accounts
  /\ UNCHANGED vars

CreateSessionFails(p) ==
  /\ req[p].pc = "login"
  /\ req[p].user \notin accounts
  /\ Finish(p)
  /\ UNCHANGED <<clock, sweepers, userVars, charVars, sessVars>>

(***************************************************************************)
(* validate_session, the first lines of every authenticated handler.       *)
(***************************************************************************)
ReadSession(p, t, op) ==
  /\ req[p].pc = "idle"
  /\ t \in live
  /\ IF t \in Expired
     THEN req' = [req EXCEPT ![p] = [At("expired") EXCEPT !.tok = t]]
     ELSE req' = [req EXCEPT ![p] = [At("touch") EXCEPT !.tok = t, !.op = op,
                                                        !.user = sessions[t].user]]
  /\ UNCHANGED <<clock, sweepers, userVars, charVars, sessVars>>

RemoveExpired(p) ==
  /\ req[p].pc = "expired"
  /\ sessions' = Without({req[p].tok})
  /\ Finish(p)
  /\ UNCHANGED <<clock, sweepers, userVars, charVars, issued>>

\* Mutant of UpdateActivity: INSERT OR REPLACE instead of UPDATE.
UpsertActivity(p) ==
  /\ req[p].pc = "touch"
  /\ sessions' = [sessions EXCEPT ![req[p].tok] = SessionFor(req[p].user)]
  /\ Goto(p, "resolve")
  /\ UNCHANGED <<clock, sweepers, userVars, charVars, issued>>

\* update_session_activity: an UPDATE by session id, whatever the row says now;
\* zero updated rows are not an error.
UpdateActivity(p) ==
  LET t == req[p].tok
  IN /\ req[p].pc = "touch"
     /\ sessions' = IF t \in live /\ Sliding /\ TTL > 0
                    THEN [sessions EXCEPT ![t].expires = NextExpiry]
                    ELSE sessions
     /\ Goto(p, "resolve")
     /\ UNCHANGED <<clock, sweepers, userVars, charVars, issued>>

ResolveUser(p) ==
  /\ req[p].pc = "resolve"
  /\ IF req[p].user \in accounts THEN Goto(p, "dispatch") ELSE Finish(p)
  /\ UNCHANGED <<clock, sweepers, userVars, charVars, sessVars>>

Dispatched(p, op) == req[p].pc = "dispatch" /\ req[p].op = op

(***************************************************************************)
(* POST /logout and /admin/session/kick: remove_session_by_id.             *)
(***************************************************************************)
\* Mutant of Logout: the character is left, the session is kept.
LogoutUnbinds(p) ==
  /\ Dispatched(p, "logout")
  /\ sessions' = IF req[p].tok \in live
                 THEN [sessions EXCEPT ![req[p].tok].char = NULL, ![req[p].tok].world = NULL]
                 ELSE sessions
  /\ Finish(p)
  /\ UNCHANGED <<clock, sweepers, userVars, charVars, issued>>

Logout(p) ==
  /\ Dispatched(p, "logout")
  /\ sessions' = Without({req[p].tok})
  /\ Finish(p)
  /\ UNCHANGED <<clock, sweepers, userVars, charVars, issued>>

KickSession(p, t) ==
  /\ Dispatched(p, "kick_session")
  /\ req[p].user \in Superusers
  /\ sessions' = Without({t})
  /\ Finish(p)
  /\ UNCHANGED <<clock, sweepers, userVars, charVars, issued>>

\* POST /admin/character/kick, the character row was found.
KickCharacter(p, c) ==
  /\ Dispatched(p, "kick_character")
  /\ req[p].user \in Superusers
  /\ c \in chars
  /\ sessions' = Without(SessionsWith(c))
  /\ Finish(p)
  /\ UNCHANGED <<clock, sweepers, userVars, charVars, issued>>

(***************************************************************************)
(* POST /characters/select.                                                *)
(***************************************************************************)
SelectCharacter(p, c, w) ==
  /\ Dispatched(p, "select")
  /\ c \in chars
  /\ owner[c] = req[p].user
  /\ w = HomeWorld[c]
  /\ req' = [req EXCEPT ![p].pc = "bind", ![p].char = c]
  /\ UNCHANGED <<clock, sweepers, userVars, charVars, sessVars>>

\* Mutant of BindCharacter: no trigger looks at the row as it is now.
BindUntriggered(p) ==
  LET t == req[p].tok
      c == req[p].char
  IN /\ req[p].pc = "bind"
     /\ sessions' = IF t \in live
                    THEN [sessions EXCEPT ![t].char = c, ![t].world = HomeWorld[c]]
                    ELSE sessions
     /\ Finish(p)
     /\ UNCHANGED <<clock, sweepers, userVars, charVars, issued>>

\* set_session_character: an UPDATE that fires the trigger.  No row: 500; the
\* trigger aborts: 500; either way nothing changed.
BindCharacter(p) ==
  LET t   == req[p].tok
      c   == req[p].char
      row == [sessions[t] EXCEPT !.char = c, !.world = HomeWorld[c]]
  IN /\ req[p].pc = "bind"
     /\ sessions' = IF t \in live /\ TriggerAllows(row)
                    THEN [sessions EXCEPT ![t] = row]
                    ELSE sessions
     /\ Finish(p)
     /\ UNCHANGED <<clock, sweepers, userVars, charVars, issued>>

(***************************************************************************)
(* POST /admin/user/manage.  A manager outranks the target and is not the  *)
(* target.                                                                 *)
(***************************************************************************)
MayManage(p, u) == req[p].user \in Superusers /\ u \in accounts \ Superusers

Deactivate(p, u) ==
  /\ Dispatched(p, "ban")
  /\ MayManage(p, u)
  /\ active' = active \ {u}
  /\ req' = [req EXCEPT ![p].pc = "banned", ![p].target = u]
  /\ UNCHANGED <<clock, sweepers, accounts, purged, tombstoned, guestUntil, charVars, sessVars>>

\* Mutant of RemoveSessionsOfBanned: the ban leaves the sessions.
BanKeepsSessions(p) ==
  /\ req[p].pc = "banned"
  /\ Finish(p)
  /\ UNCHANGED <<clock, sweepers, userVars, charVars, sessVars>>

RemoveSessionsOfBanned(p) ==
  /\ req[p].pc = "banned"
  /\ sessions' = Without(SessionsOf(req[p].target))
  /\ Finish(p)
  /\ UNCHANGED <<clock, sweepers, userVars, charVars, issued>>

Activate(p, u) ==
  /\ Dispatched(p, "unban")
  /\ MayManage(p, u)
  /\ active' = active \cup {u}
  /\ Finish(p)
  /\ UNCHANGED <<clock, sweepers, accounts, purged, tombstoned, guestUntil, charVars, sessVars>>

\* delete_user: one transaction; the row stays, tombstoned.
DeleteUser(p, u) ==
  /\ Dispatched(p, "delete_user")
  /\ MayManage(p, u)
  /\ owner' = Detached({u})
  /\ sessions' = Without(SessionsOf(u))
  /\ active' = active \ {u}
  /\ tombstoned' = tombstoned \cup {u}
  /\ Finish(p)
  /\ UNCHANGED <<clock, sweepers, accounts, purged, guestUntil, chars, deleted, issued>>

(***************************************************************************)
(* POST /admin/character/manage.                                           *)
(***************************************************************************)
ReadManaged(p, c) ==
  /\ req[p].pc = "dispatch"
  /\ req[p].op \in {"tombstone", "delete"}
  /\ req[p].user \in Superusers
  /\ c \in chars
  /\ req' = [req EXCEPT ![p].pc = "evict", ![p].char = c,
                        ![p].op = IF @ = "tombstone" /\ owner[c] = NULL THEN "refused" ELSE @]
  /\ UNCHANGED <<clock, sweepers, userVars, charVars, sessVars>>

\* Mutant of EvictSessions: the sessions of the character stay.
EvictNobody(p) ==
  /\ req[p].pc = "evict"
  /\ IF req[p].op = "refused" THEN Finish(p) ELSE Goto(p, "erase")
  /\ UNCHANGED <<clock, sweepers, userVars, charVars, sessVars>>

\* The sessions go before the check for an already tombstoned row (409).
EvictSessions(p) ==
  /\ req[p].pc = "evict"
  /\ sessions' = Without(SessionsWith(req[p].char))
  /\ IF req[p].op = "refused" THEN Finish(p) ELSE Goto(p, "erase")
  /\ UNCHANGED <<clock, sweepers, userVars, charVars, issued>>

Tombstone(p) ==
  /\ req[p].pc = "erase"
  /\ req[p].op = "tombstone"
  /\ owner' = [owner EXCEPT ![req[p].char] = NULL]
  /\ Finish(p)
  /\ UNCHANGED <<clock, sweepers, userVars, chars, deleted, sessVars>>

\* ON DELETE SET NULL on a bound session would leave its world_id set: the
\* update trigger aborts the DELETE.
DeleteCharacter(p) ==
  LET c == req[p].char
  IN /\ req[p].pc = "erase"
     /\ req[p].op = "delete"
     /\ IF SessionsWith(c) = {} /\ c \in chars
        THEN /\ chars' = chars \ {c}
             /\ deleted' = deleted \cup {c}
             /\ owner' = [owner EXCEPT ![c] = NULL]
        ELSE UNCHANGED charVars
     /\ Finish(p)
     /\ UNCHANGED <<clock, sweepers, userVars, sessVars>>

(***************************************************************************)
(* A request the guards above turn away (401, 403, 404, 409); a call that  *)
(* raises DatabaseError, which fails a start; a process that dies.         *)
(***************************************************************************)
Reject(p) ==
  /\ req[p].pc = "dispatch"
  /\ req[p].op # "logout"
  /\ Finish(p)
  /\ UNCHANGED <<clock, sweepers, userVars, charVars, sessVars>>

DatabaseError(p) ==
  /\ CanFail
  /\ req[p].pc \notin {"down", "idle"}
  /\ req' = [req EXCEPT ![p] = At(IF @.pc = "starting" THEN "down" ELSE "idle")]
  /\ UNCHANGED <<clock, sweepers, userVars, charVars, sessVars>>

Crash(p) ==
  /\ CanCrash
  /\ req[p].pc # "down"
  /\ req' = [req EXCEPT ![p] = At("down")]
  /\ sweepers' = sweepers \ {p}
  /\ UNCHANGED <<clock, userVars, charVars, sessVars>>

-----------------------------------------------------------------------------
Start(p) == CleanupExpiredSessions(p) \/ CleanupExpiredGuests(p)

Insert(p) ==
  \/ \E u \in Users, guest \in BOOLEAN : CreateUser(p, u, guest)
  \/ \E c \in Chars, u \in Users : CreateCharacter(p, c, u)

Login(p) ==
  \/ \E u \in Users : CheckCredentials(p, u)
  \/ \E t \in Tokens : CreateSession(p, t)
  \/ CreateSessionFails(p)

Validate(p) ==
  \/ \E t \in Tokens, op \in Ops \ {"none", "refused"} : ReadSession(p, t, op)
  \/ RemoveExpired(p)
  \/ UpdateActivity(p)
  \/ ResolveUser(p)
  \/ Reject(p)

PlayerRoutes(p) ==
  \/ Logout(p)
  \/ \E c \in Chars, w \in Worlds : SelectCharacter(p, c, w)
  \/ BindCharacter(p)

ModeratorRoutes(p) ==
  \/ \E t \in Tokens : KickSession(p, t)
  \/ \E c \in Chars : KickCharacter(p, c)
  \/ \E u \in Users : Deactivate(p, u) \/ Activate(p, u) \/ DeleteUser(p, u)
  \/ RemoveSessionsOfBanned(p)
  \/ \E c \in Chars : ReadManaged(p, c)
  \/ EvictSessions(p)
  \/ Tombstone(p)
  \/ DeleteCharacter(p)

ProcessStep(p) ==
  \/ Start(p) \/ Insert(p) \/ Login(p) \/ Validate(p) \/ PlayerRoutes(p) \/ ModeratorRoutes(p)
  \/ SweepGuests(p) \/ SweeperDies(p) \/ DatabaseError(p) \/ Crash(p)

Next == Tick \/ \E p \in Procs : ProcessStep(p)

Spec == Init /\ [][Next]_vars

(***************************************************************************)
(* Fairness: the event loop serves a request it has begun (uvicorn awaits  *)
(* the handler), an operator starts a stopped process again, and asyncio   *)
(* wakes the sweeper up after its sleep.                                   *)
(***************************************************************************)
\* What the process does next in a request, by what it waits for.
LogsIn(p)    == CreateSessionFails(p) \/ \E t \in Tokens : CreateSession(p, t)
Validates(p) == UpdateActivity(p) \/ ResolveUser(p) \/ RemoveExpired(p)
Answers(p)   == Reject(p) \/ Logout(p)
Completes(p) == \/ BindCharacter(p) \/ RemoveSessionsOfBanned(p)
                \/ EvictSessions(p) \/ Tombstone(p) \/ DeleteCharacter(p)

FairnessOf(p) ==
  /\ WF_vars(Start(p)) /\ WF_vars(LogsIn(p)) /\ WF_vars(Validates(p))
  /\ WF_vars(Answers(p)) /\ WF_vars(Completes(p))
  /\ SF_vars(SweepGuests(p))

TimePasses == WF_vars(Tick)

Fairness == TimePasses /\ \A p \in Procs : FairnessOf(p)

FairSpec == Spec /\ Fairness

-----------------------------------------------------------------------------
TypeOK ==
  /\ clock \in Nat
  /\ sweepers \subseteq Procs
  /\ accounts \subseteq Users
  /\ purged \subseteq Users
  /\ active \subseteq Users
  /\ tombstoned \subseteq Users
  /\ guestUntil \in [Users -> Nat \cup {NULL}]
  /\ chars \subseteq Chars
  /\ deleted \subseteq Chars
  /\ owner \in [Chars -> Users \cup {NULL}]
  /\ sessions \in [Tokens -> SessionRow \cup {NULL}]
  /\ issued \subseteq Tokens
  /\ req \in [Procs -> Request]

\* Every session row refers to rows that exist and agree with it: its user,
\* and for an in-world session its character, in that character's world, not
\* owned by somebody else.  Foreign keys, triggers and the order of the
\* statements in the sweeps keep it so, whatever the processes interleave.
SessionIntegrity ==
  \A t \in live :
    LET row == sessions[t]
    IN /\ row.user \in accounts
       /\ row.char = NULL <=> row.world = NULL
       /\ row.char # NULL => /\ row.char \in chars
                             /\ row.world = HomeWorld[row.char]
                             /\ owner[row.char] \in {row.user, NULL}

\* An owner is a row of users, and only rows of characters have one: ON DELETE
\* SET NULL and the detaching UPDATE of the sweeps leave no dangling owner.
OwnersExist ==
  \A c \in Chars : owner[c] # NULL => c \in chars /\ owner[c] \in accounts

\* The three tables agree: what a session or a character refers to is there, and
\* says the same.
TablesAgree == SessionIntegrity /\ OwnersExist

\* allow_multiple_sessions = false: a login replaces the user's sessions, so
\* no interleaving of logins leaves two rows for one user.
SingleSession ==
  ~AllowMultiple => \A t1, t2 \in live : sessions[t1].user = sessions[t2].user => t1 = t2

\* An in-world session always belongs to the owner of its character
\* (docs/source/database.rst on the triggers).  True of one server process.
InWorldOwned ==
  \A t \in live : sessions[t].char # NULL => owner[sessions[t].char] = sessions[t].user

\* A banned account has no session once the ban is through: no login that
\* passed the is_active check before the ban completes after it.  True of one
\* process in which no repository call fails.
BannedHasNoSession ==
  \A u \in accounts \ active :
    (\A p \in Procs : req[p].pc = "banned" => req[p].target # u) => SessionsOf(u) = {}

\* Whatever other processes committed since a request began (its account purged, its
\* session kicked, its character deleted), the handler that serves it has a next call
\* to make, a stopped process can start, and a sweeper that finds guests can purge them.
CanGoOn(p) ==
  LET pc == req[p].pc
  IN /\ pc \in {"down", "starting"} => ENABLED <<Start(p)>>_vars
     /\ pc = "login" => ENABLED <<LogsIn(p)>>_vars
     /\ pc \in {"touch", "resolve", "expired"} => ENABLED <<Validates(p)>>_vars
     /\ pc = "dispatch" => ENABLED <<Answers(p)>>_vars
     /\ pc \in {"bind", "banned", "evict", "erase"} => ENABLED <<Completes(p)>>_vars
     /\ pc = "idle" /\ p \in sweepers /\ ExpiredGuests # {} => ENABLED <<SweepGuests(p)>>_vars

NobodyIsStuck == \A p \in Procs : CanGoOn(p)

\* An expired guest account is eventually purged, unless it was tombstoned: the
\* sweeper and the start-up clean-up leave no visitor account behind.  True as
\* long as no sweep fails; docs/source/security.rst makes no such exception.
ExpiredGuestsPurged ==
  \A u \in Users :
    (guestUntil[u] # NULL /\ u \in accounts /\ guestUntil[u] <= clock)
      ~> (u \notin accounts \/ u \in tombstoned)

\* A ban that was begun ends with the account's sessions gone, even when the
\* user's other requests keep coming.
BanRemovesSessions ==
  \A u \in Users, p \in Procs :
    (req[p].pc = "banned" /\ req[p].target = u) ~> (SessionsOf(u) = {})

\* What the server owes the accounts it closes, it does in the end: the sweeps
\* reach every expired guest, and every ban reaches the sessions.
CleanupsComplete == ExpiredGuestsPurged /\ BanRemovesSessions

(***************************************************************************)
(* The session table implements the life cycle of its ids.                 *)
(***************************************************************************)
PhaseOf(t) ==
  IF t \notin issued THEN "fresh"
  ELSE IF sessions[t] = NULL THEN "over"
  ELSE IF sessions[t].char = NULL THEN "account" ELSE "inWorld"

Lifecycle == INSTANCE SessionLifecycle WITH
  phase     <- [t \in Tokens |-> PhaseOf(t)],
  holder    <- [t \in Tokens |-> IF sessions[t] = NULL THEN NULL ELSE sessions[t].user],
  character <- [t \in Tokens |-> IF sessions[t] = NULL THEN NULL ELSE sessions[t].char]

\* Whatever handlers, sweeps, faults and processes do to the table, a session id
\* keeps its account, moves only forward, and is never reused.
ImplementsLifecycle == Lifecycle!LifecycleSpec
=============================================================================
