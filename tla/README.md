# Verification of the PipeWorks MUD server

TLA+ models of the server in `src/mud_server/`, TLC configurations that check
them on small instances, and TLAPS proofs of what matters most for every
instance. Paths below are relative to `src/mud_server/` unless they start with
`docs/` or `tests/`.

    tlc -workers 2 -config SessionsNoFault.cfg MCSessionStore.tla
    tlapm SessionStoreProofs.tla

Each run is one `.cfg`; `PROJECT.json` says which module each belongs to, which
lines each definition translates, and which mutation of the code each property
detects.

## The system

A FastAPI application in one uvicorn process, an event loop in one thread, and a
SQLite file. Route handlers are `async def` but contain no `await` on the way
from the first to the last repository call, so **inside one process handlers do
not interleave**. Interleaving comes from five places, and these decide what is
modelled:

1. every repository function opens its own connection and commits its own
   transaction (`db/connection.py`), so a handler is a *sequence* of
   transactions: the process may die, a call may raise, or a second process on
   the same file (WAL and busy timeout are set for "local multi-process
   development") may commit in between;
2. the guest sweeper task (`api/server.py`) runs between requests;
3. the axis engine is written to be called from several threads
   (`axis/engine.py`, `tests/test_axis/test_engine_chat.py`);
4. bus handlers re-enter the bus while an emit iterates over them, and coroutines
   wait for events with a timeout (`core/bus.py`);
5. policy and ledger files are written next to database rows, without a common
   transaction.

### Inventory

| Component | State | Operations | Talks to | What is hard | What makes it correct |
|---|---|---|---|---|---|
| Sessions and accounts: `api/auth.py`, `api/routes/{auth,admin}.py`, `db/{users,sessions}_repo.py`, `db/schema.py` | tables users, sessions (with triggers and foreign keys) | login, validate, select character, logout, kick, ban, unban, delete, purge of guests | characters, configuration | check and write are different transactions; sliding expiry; crash between steps; NULL in triggers | a revoked id stays revoked; rows agree with each other; a ban takes effect; an in-world session belongs to the owner |
| World access and administration: `db/worlds_repo.py`, `api/permissions.py`, `api/routes/admin.py` | roles, activity, invitations, slots | list worlds, create and administer accounts, roles, passwords, characters | login, provisioning | every request is legal on its own; three places decide on one offer | no chain of requests leads around the role hierarchy; what is offered is accepted |
| Characters and provisioning: `services/character_provisioning.py`, `db/{characters,axis}_repo.py`, guest registration in `api/routes/auth.py` | character rows, axis scores, slots | register guest, provision, create, tombstone, delete | users, worlds, external name generator | names looked up without their world; slot count before insert; best-effort rollback | slots are never exceeded; a registration ends with everything or nothing |
| Axis engine: `axis/*`, `db/events_repo.py` | per-character locks, score rows, ledger | resolve a chat interaction | ledger, axis rows, chat | two locks per interaction, read–compute–write over four transactions, swallowed failures | no deadlock, no lost update, scores in [0.0, 1.0] |
| Axis state: `db/axis_repo.py`, `db/events_repo.py` | registry, scores, events, snapshots | seed a registry, seed a character, apply a profile, apply an event | provisioning, axis engine | deltas computed in one transaction and applied in another; labels against overlapping or open ranges | scores are what the events say; a profile takes hold |
| Condition axis service: `services/condition_axis_service.py` | counters | generate | external entity generator, policies | retries that end in different ways; the policy changes while the generator is asked | each request is counted once; an answer fits the bundle it names |
| Event bus: `core/bus.py` | handler lists, bounded log, sequence, futures | emit, on, once, unsubscribe, wait_for | game engine, plugins | re-entrance, list mutated while iterated, timeout against answer | gapless log, registration order, nobody sleeps through his event |
| Ledger: `ledger/writer.py` | one JSONL file per world | append, verify | axis engine, translation | torn line after a crash, a second flush after the lock, advisory lock, tail read of bounded size | an accident costs one acknowledged line at most; "corrupt" means damaged |
| Policy control plane: `services/policy/*`, `db/policy_repo.py`, `api/routes/policies.py` | variants, validations, activation pointers and events, publish runs, artifacts on disk | upsert, validate, activate, replay, import, publish | every reader of policies | one step of several failing; files against rows | the pointers equal the replay of the events; what is published is what is in force |
| Policy resolution and image prompts: `services/policy/runtime_resolution.py`, `api/routes/lab.py` | none of their own | resolve a prompt, an axis bundle, an image bundle; compile a prompt | policies | four readers with look-ups of their own; ties in the choice of clothes | all read the same; the best entry is chosen |
| Game engine and chat: `core/engine.py`, `db/{chat,characters}_repo.py`, `api/routes/game.py` | locations, inventories, messages | move, recall, look, take, drop, say, yell, whisper | axis engine, translation, bus | a command is up to seven transactions, each of which finds the character by name again | a whisper is read by two people only; an "ok" is true |
| Worlds: `core/world*.py` | static world data, zones loaded lazily | load a zone, resolve a room | policy | processes load different zones; rooms share one namespace | – |
| Translation: `translation/*` | a seed in the renderer | render out-of-character text | external language model, ledger | a sticky seed, an answer later than the state it was asked for | the same input asks the same; the ledger tells what was said |
| Configuration, start of a server, password policy: `config.py`, `cli.py`, `api/server.py`, `api/password_policy.py` | settings, first superuser, port | load, run, create-superuser, validate | database, environment | count then insert, look then bind; precedence of three sources | a start fails for a reason; the documented source counts |
| Terminal and web clients | none of the server's | user interface over HTTP | – | – | – |

## Modules

| Module | Models | Proofs |
|---|---|---|
| `SessionStore` | accounts, characters, sessions: start-up, sweeper, all session-changing routes | `SessionStoreProofs` |
| `SessionLifecycle` | abstract: what a session id promises | `SessionStoreProofs` |
| `AxisResolvers` | the grammar's resolvers and the clamp | in `AxisEngineProofs` |
| `AxisEngine` | threads, locks, reads, ledger append, score transactions | `AxisEngineProofs` |
| `AxisInteraction` | abstract: an interaction is one step | – |
| `EventBus` | emit, subscriptions, waits, log | `EventBusProofs` |
| `Provisioning` | guest registration, generated-name provisioning, slots, seeding, rollback | `ProvisioningProofs` |
| `LedgerFile` | one file, its writers, lock, raw writes, the check at start-up | `LedgerFileProofs` |
| `PolicyControl` | variants, pointers, audit events, publish runs, export files | `PolicyControlProofs` |
| `GamePlay` | commands, locations, inventories, chat, zones, removal of characters | `GamePlayProofs` |
| `Access` | roles, administration of accounts, worlds offered and entered | `ServicesProofs` |
| `ConditionAxis`, `AxisPayload` | generation with retries and counters; how a payload becomes scores | `ServicesProofs` |
| `AxisState` | registry, scores, events, snapshots of one character | `ServicesProofs` |
| `Translation` | profile, arming, rendering, validation, ledger event | `ServicesProofs` |
| `Startup`, `Settings` | servers that start together; where a setting comes from | `ServicesProofs` |
| `PolicyResolution`, `ImagePrompt` | the readers of activated policies; the choice of blocks | `ServicesProofs` (the lookups) |
| `PasswordRules` | what a password policy rejects, and its score | `ServicesProofs` |
| `ServiceCalls` | the services and functions above beside each other, with what the functions are called with | `ServicesProofs` |
| `Absent` | the value that stands for None | |
| `MCSessionStore`, `MCAxisEngine`, `MCProvisioning`, `MCLedgerFile`, `MCPolicyControl`, `MCGamePlay`, `MCServices` | constants for TLC | |

`SessionStore`, `Provisioning` and `Access` each look at accounts: the first at what
sessions need call by call, the second at what a registration writes call by call,
the third at who may do what to whom, with each route as one step. `AxisEngine`
writes the scores of many characters step by step; `AxisState` has one character,
whole events, and the profiles that come from outside the engine.

### SessionStore

*State.* `accounts`, `active`, `tombstoned`, `guestUntil` are the columns of
`users`; `purged` are ids whose row was hard-deleted (AUTOINCREMENT never reuses
one). `chars`, `owner`, `deleted` are `characters`. `sessions[t]` is the row with
session id `t`; `issued` the ids handed out so far. `req[p]` is the request
process `p` is serving: which step comes next, and **what the handler has read
and still believes** (the session id, the user, the character). `sweepers` are
the processes whose background task is alive.

*Actions.* One action is one repository call, with the conditions on it in the
route. Where the code makes two calls there are two actions and a `pc` between
them: `CheckCredentials` / `CreateSession`, `ReadSession` / `UpdateActivity` /
`ResolveUser`, `SelectCharacter` / `BindCharacter`, `Deactivate` /
`RemoveSessionsOfBanned`, `ReadManaged` / `EvictSessions` / `Tombstone` or
`DeleteCharacter`. `TriggerAllows` is the SQL trigger with its three-valued
comparison: a detached character has owner NULL, `NULL != user_id` is not true,
so the row passes. `Detached` and the order of the statements in
`PurgeExpiredGuests` stand for the foreign keys' `ON DELETE`. `DatabaseError(p)`
ends the request wherever it is (FastAPI answers 500) and fails a start that is in
progress; `SweeperDies` is the same error in the background task, which has no
`try`. `Crash(p)` forgets everything but the tables.

*Abstractions.* Passwords are either right or the login never begins. Roles are
superuser and player: `MayManage` keeps what the hierarchy says of those two; the
whole hierarchy, passwords and role changes are in `Access`. World permissions do
not restrict `SelectCharacter` (they only refuse more). `CreateUser` and
`CreateCharacter` stand for registration and provisioning, whose own steps are in
`Provisioning`. A password change that ends the sessions of its user is a kick.

*Abstract specification.* `SessionLifecycle` has three variables per id (phase,
holder, character) and three steps: begin, enter the world, end. The mapping
reads them off `sessions` and `issued`.

### AxisEngine

*State.* `scores` and `ledger` outlive the process; `lock[p]` is the lock table
of process `p`; `turn[t]` is what thread `t` holds in local variables, including
the two snapshots it read.

*Actions.* `Begin` is `_resolve_ids`, which takes any two characters, one and the same
included; `Addressable` says whom the game passes on: anybody but oneself, and oneself in
a whisper, whose sender the game does not refuse as target. `LockFirst` and `LockSecond`
acquire in `sorted` order, and `threading.Lock` is not reentrant, so who whispers to
himself waits for himself in the second; `ReadSpeaker`, `ReadListener`, `AppendLedger`, `ApplySpeaker`,
`ApplyListener` are one transaction or append each; `Release` is the `finally`.
A failed append or transaction is logged and swallowed, so the step goes on
without its effect; a read that raises goes to `Release`. `Added` is
`apply_axis_event`: it adds and **does not clamp**. Scores, gaps and magnitudes
are multiples of `1/Top`, to which the product in `dominance_shift` is rounded, as
floats are to theirs; the code's threshold 1e-12 for "no change" is zero here.

*Abstract specification.* `AxisInteraction` takes both current scores and
writes both new ones at once. An interaction takes place where its ledger line
is appended; the mapping adds to the stored scores what threads have still to
apply.

### EventBus

*State.* `handlers[ty]` is the list the code iterates; `stack` the emits in
progress with the position of each list iterator (`next`), the handler that
runs (`running`) and those subscribed when the emit began (`due`). `regs`
records every subscription (the code's closures; each has its own callable, so
that the code's `list.remove` by equality removes that one). `calls` and
`latest` are history. `wait[w]` and `promises` are the futures of `wait_for`.

*Actions.* `Emit` runs to the loop (log first, then notify). `CallNext` is one
turn of the loop, `HandlerEnds` the return of a sync handler, with or without an
exception, and the `finally` of `once`; `FinishEmit` resolves the futures and
returns. While a handler runs the bus may be called again: `Emit`, `Subscribe`,
`Unsubscribe`, `ClearEventLog`. `WaitFor` and `TimeOut` need the event loop, so
they happen between emits (`stack = <<>>`).

### Provisioning

*State.* `accounts` and `rows` are the users and characters the repositories see;
`used` the character ids handed out (AUTOINCREMENT). `job[p]` is the registration
or provisioning process `p` is at: what it has decided (user, world, name), the
row it inserted (`mine`, which the code does **not** keep) and the row
`get_character_by_name` returned (`found`, the code's `character_id`).
`limit` is the configured slot limit of each world, which differs between
initial states and never changes. `outrun` and `crossed` are history, kept by `Observe` beside
every step: who counted slots before another INSERT of that account came in, and whose
guest name another process had at the same time. `rows[c].profile` is the character whose entity state was applied to row `c`.

*Actions.* A guest goes `StartGuest` (the name is free in every world),
`CreateGuest`, `CountSlots`, `InsertCharacter`, `LookUp`, `Seed`, `ReadSnapshot`; a
generated character `StartGenerated`, `GenerateName` and then the same, with a new
name when the INSERT collides. `create_character_for_user` is two actions,
because `sqlite3` opens its transaction at the INSERT: the SELECT that counts slots
is not covered by it; with two registering processes both may count before either inserts.
`LookUp` ignores the world, as the query does. A failing
step of a guest registration goes to `UndoCharacter` and `UndoUser`
(`_rollback_guest_registration`) or to `DeleteRefused`; a `DatabaseError` answers 500
and undoes nothing. `Tombstone` and `DeleteCharacter` are administrators in
processes that are not at a job.

*Abstractions.* The name generator returns any name or fails. Entity state is
applied as a whole or not at all: `apply_entity_state_to_character` reads and
writes in two transactions, but only somebody chatting with a character that is
still being created could come between. An absent entity state, one that changes no
axis and an exception are one action, `SeedFails`, since they lead to the same step.

### LedgerFile

*State.* `closed` and `open` are the file: its complete lines and the bytes after the
last newline. `lock` holds the flock; `pc`, `event`, `done` and `failed` say where
each writer is in `append_event`, how much of its line is written and whether its
flush raised. `acked` are the events whose `append_event` returned. `verdict` is the
latest answer of `verify_world_ledger`. `stray` counts the accidents: raw writes
outside the lock and lines left unfinished.

*Actions.* A line is two halves of JSON text and a newline, written by one or more raw
writes (`Write`), since the buffer is smaller than a long line. `WriteFails` releases
the lock, but leaving the `with` block closes the file and flushes the rest of the
buffer **after** that (`LateWrite`), and the event is reported as not written all the
same. `Crash` drops the lock, as the kernel does. The check of a starting
process (`Start`, `Verified`) takes no lock and reads the tail in one chunk. `Shape`
says how the tail reader sees a line: as it is, split at a character that
`splitlines` takes for a line end and `json.dumps(ensure_ascii=False)` leaves alone,
or cut because it is longer than the chunk.

### PolicyControl

*State.* `row`, `validated`, `pointer`, `events`, `runs` are the tables of one world and
of one client profile in it; `files` and `latest` the export root. `pc[p]` and the
variables after it are the call process `p` is in, with everything it has read.
`torn` and `clean` are history: files whose writing was stopped, and calls that
nothing overlapped and in which nothing failed.

*Actions.* One action is one transaction or one file operation: a save validates,
then writes; an activation sets the pointer with its audit event, then compares the
pointers with the replayed events **in two further transactions**; a publish reads the
pointers of both scopes and every row by itself, records its run, then truncates
and fills the artifact, then `latest.json`; reading a run back writes both files again;
an import saves and activates its rows in the order of their types' priorities. `Stop`
may end a call between any two.

*Abstractions.* A content is a number (0: malformed) and the Layer 1 rows it
refers to. Hashes are compared as the values they are hashes of. `updated_at` and
the actors' names are left out.

### GamePlay

*State.* `state`, `loc`, `inv`, `chat` are the tables, `online` the characters with a
session, `zones[p]` the zones process `p` has loaded. The rest is the command each process
is carrying out: who, with what argument, who was found, which rooms are left, and the
answer. `alone` is history: nothing overlapped the command.

*Actions.* One action is one repository call, up to seven for a command: a character
is found by name again in each. Inside one process commands are not interleaved, so a
process carries out one at a time; two processes interleave call by call. `Spread` (a
yell) inserts room by room and counts the rooms it did not reach; `ReadBag` and `WriteBag`
are the two transactions of pickup and drop; a whisper is stored some calls
after its target was found. Administrators kick, tombstone (which renames), delete
and prune; a process that restarts has only the listed zones loaded.

### Access

*State.* `role`, `inactive`, `reset` (passwords), `open` worlds, `grants` and the number
of characters each account has in each world. `raised` is history: accounts whose role
was last set by a superuser.

*Actions.* Each route is one step, since inside one process nothing comes between its
check and its effect: registration, creation of accounts, role and password changes,
ban, unban, deletion, invitations, opening and closing of worlds, creation and removal
of characters. `Decide` is `_resolve_world_access_for_row`, `RouteAdmits` what the
creation route says of the same account and world, and the slot count is the
repository's: three decisions about one offer.

### ConditionAxis, AxisPayload and AxisState

`ConditionAxis` is `generate_condition_axis` in several threads: the bundle is
resolved once, the generator asked up to `_UPSTREAM_MAX_ATTEMPTS` times, each attempt
ends in one of the ways `_UPSTREAM_METRICS` counts, and activations go on meanwhile.
`AxisPayload` is how an answer becomes scores: numbers as they are, labels through
thresholds or through their place in the ordering; names are kept as written, because
the code looks some up stripped and in lower case and others not.

`AxisState` is one character's rows in `db/axis_repo.py` and `db/events_repo.py`: the
registry a starting server seeds, the scores, the events, the two snapshots. A profile
is applied in two actions (`ReadProfile` computes deltas, `ApplyProfile` applies them),
and chat interactions apply events of their own in between. The order of a label in
the registry is its last place in the policy's list.

### Translation

`BeginTranslation` builds the character's profile and goes to the model; `Render` arms
the renderer's seed (only if there is a hash: the seed of the previous translation
stays otherwise), asks the model, and validates what it says; `RecordTranslation`
writes the ledger event, with the state the translation **began** with. `sheet` is the
character's axis state and may change at any time. `asked`, `said` and `audit` are
what the model was asked, the players were told, and the ledger holds. A raw answer is a
sequence of lines, each speech, stage direction or the sentinel, of some length, quoted
or not: what `OutputValidator` tells apart.

### Startup and Settings

`Startup` is `mud-server run` in several processes and `create-superuser`: count the
users, insert the first administrator, read the axis bundle, look for a port, bind it. `rivals` is
history: what others took since a process looked. `Settings` is `load_config` as a
function of the file, the example file and the environment, and `find_available_port`.

### PolicyResolution, ImagePrompt and PasswordRules

Functions of the activated policies or of a password, without state.
`PolicyResolution` holds the runtime's three readers and their diagnostics, with their
error codes; `ImagePrompt` the lab's compiler with its choice of blocks, and the hash
of the snapshot; `PasswordRules` what `PasswordPolicy.validate` rejects and how it
scores. TLC evaluates them on tables (below).

## Runs

Bounds are chosen so that each scenario named in the hazards fits: two users of
whom one may manage the other; enough session ids for both to be logged in and,
with three, for one to log in again; clocks long enough for one expiry and one
renewal; as many subscriptions, calls, commands or interactions as overlap in a
scenario.

| Run | Instance | Distinct states | Shows |
|---|---|---|---|
| `sessions_one_process` | 2 users, 2 characters in 2 worlds, 3 ids, 1 process; crashes and failures anywhere | 2.1 M | the tables agree (`TablesAgree`), an in-world session belongs to its character's owner |
| `sessions_two_processes` | 2 users, 1 character, 2 ids, 2 processes | 1.8 M | the tables agree here too (a character's row may go between the check and the bind), one session per account, `SessionLifecycle` is implemented (a late activity update revives no row) and no request gets stuck (`NobodyIsStuck`), although the steps of two handlers interleave |
| `sessions_no_fault` | 2 users, 1 character, 2 ids, 1 process, no fault, fair | 0.1 M | a banned account has no session and every ban completes; expired guests are purged |
| `axis` | 2 threads, 3 characters, 2 axes, 2 channels, 2 interactions, 2 initial score tables; whispers to oneself; failures and crashes; fair | 0.1 M | interactions wait for each other for ever only behind a character that whispers to itself, every other one ends, no lost update and scores in range; until the first failure `AxisInteraction` is implemented (a swallowed failure applies half an interaction) |
| `bus` | 1 type, 3 events, 2 subscriptions, 2 waiting coroutines, log of 2 | 0.8 M | gapless log; delivery in the order of registration, only a removal costs a handler an event; every waiter wakes and its first outcome stands |
| `provisioning` | 2 users, 2 characters, 2 worlds (limits 0 or 1, and 2), 2 names, 2 attempts; 2 processes that register, create and administer, with failures | 0.4 M | the slot limit is exceeded only by an INSERT between a count and its own, by one per further process; a guest registration whose name nobody else has at work ends with everything or nothing |
| `ledger` | 2 writers, 3 events, failing and killed appends; fair | 0.9 M | an accident costs one acknowledged event at most, "corrupt" means damaged (or being written), an append that has begun ends |
| `policy` | 2 processes, 3 calls, a block and a registry that refers to it, 2 variants, 2 scopes, 2 artifacts from elsewhere; calls stop anywhere | 1.0 M | pointers are the replay of the events, nothing invalid is stored, a reported mismatch is interference, publishes and imports do what they report |
| `play` | 2 processes, 3 characters of whom one takes over a name, 2 zones of which one is loaded lazily, 3 rooms, 1 item, 2 commands, 2 creations or removals; failures and restarts | 1.4 M | whispers stay private, a yell is in every room it does not report as missed, an "ok" is true |
| `services` | see below | 0.3 M | the services that hold little state, one in each behaviour |
| `policy_location` | 1 artifact with a location and a registry | – | **violated**: `ClosedArtifactImports` |
| `play_names` | 2 characters of one name in 2 worlds | – | **violated**: `LocatedAtHome` |

`services` runs `ServiceCalls`, which composes the smaller modules. They share no variable, so their
product would show nothing that each alone does not: `subject` picks one at the start
and the others rest. Its instances: 3 users and 2 worlds, one of them by invitation;
2 threads, 2 requests, 2 attempts and 2 axis bundles; 2 writers and 3 events of one
character; 2 translation services, 2 translations and hashes, renderers armed in any
way; 2 starting servers, 3 starts, ports 8000 and 8001 of which another program may hold
the second. For the functions, `input` is one row of a table: all passwords of up to
four of seven characters, some 1 700 combinations of file, example and environment,
states of the policies, clothing registries, payloads, and raw answers of up to two
lines.

Process symmetry is used in `policy` and `play`, symmetry of ids in the `sessions`
runs without liveness and in `provisioning` (users, names, character ids and processes); never with
a liveness property. `provisioning` looks at states through `MCView`, which drops what an idle
process keeps of its last job: no action and no property reads that again. Deadlock is not checked where the bounds stop the model (no more
events, interactions, calls or ids); `sessions_one_process` never stops, since a
process can always be restarted, and deadlock is checked there. The type invariants
of the other proved modules are proved and not run.

### Fairness

`SessionStore!Fairness`, process by process (`FairnessOf`): the event loop finishes a request it has begun (weak
fairness of its steps; uvicorn awaits the handler), the clock advances, a
stopped process is started again, and the sweeper wakes up (strong fairness,
because requests come between: `asyncio.sleep` returns in spite of them).
Nothing is assumed about users: logins, commands and bans may never come.
`AxisEngine!FairSpec` and `LedgerFile!FairSpec`: a thread that can take its next
step takes it. A free `threading.Lock` or flock need not be given to a particular
waiter; weak fairness is enough because only finitely many interactions, or appends,
begin. Who whispers to himself, and whoever needs a lock he holds, never goes on;
`InteractionEnds` says so. The other specifications state no fairness and have no liveness property.

## Disagreements met

Two have a run of their own:

* `services/policy/artifact_import.py:285`: the priority table has no entry for the
  Layer 1 type `location`, so its rows come after the registries that refer to them,
  although the docstring (line 250) says Layer 1 rows are imported first
  (`policy_location`).
* `db/characters_repo.py:470`: `set_character_room` resolves the name in its world and
  then looks the row up by name alone: of two characters of one name the older one is
  moved, into the other's world, although the docstring (line 462) says
  "world-scoped" (`play_names`).

Seven more have a configuration beside the modules, which TLC finds violated, e.g.
`tlc -config SessionsOwnership.cfg MCSessionStore.tla` (`BusSkip.cfg` belongs to
`EventBus`, the others to the `MC` module of their component):

* `SessionsOwnership.cfg` – `db/schema.py`: the update trigger lets a session bind a
  character without an owner, although `docs/source/database.rst` says an in-world
  session must match its ownership; reached with two processes.
* `SessionsSweep.cfg` – `api/server.py`: an exception in the sweeper's loop ends it;
  guests are then not "automatically purged".
* `AxisSelf.cfg` – `axis/engine.py:163`: a character that whispers to itself takes its lock
  twice and blocks for ever, and so does whoever needs it afterwards, although the engine says
  "Locks are always acquired in ascending ID order to prevent deadlocks when two interactions
  share a character" (line 26) and `docs/source/axis_state.rst` repeats it; `whisper` does not
  refuse the sender as target. `OnlySelfTalkBlocks` shows that nothing else blocks.
* `ServicesWorlds.cfg` – `config.py:537`: a `[world_policy.x]` section takes over the
  defaults of the file before the environment is read, so a default set in the
  environment does not reach that world, although the docstring of `load_config` (line 659)
  ranks environment variables highest. `SourcesRank` leaves this case out.
* `ProvisioningProfile.cfg` – `services/character_provisioning.py:351`: the new character
  is looked up by name in every world, although `db/characters_repo.py` warns that
  this is "a silent correctness bug in multi-world contexts"; the profile of an
  existing character is overwritten and the new one has none.
* `BusSkip.cfg` – `core/bus.py`: "all sync handlers have been called" fails when a
  handler unsubscribes during the loop, as every one-time handler does.
* `LedgerSeparator.cfg` – `ledger/writer.py:522`: the tail reader splits at U+2028 and its
  like, which the writer does not escape, and cuts a line longer than its chunk; an
  undamaged ledger is then reported as corrupt.

Seen while modelling, without a configuration of their own:

*Sessions and accounts.* The comment of `lifespan` says start-up clears the sessions of
previous runs, the code clears expired ones only. Unban (`api/routes/admin.py:386`)
activates a *permanently deleted* account, which can then log in. Two processes make
the role checks of `manage_user` stale; its exception for one's own password never
passes `can_manage_role`. The list of worlds shows `can_create` although
`naming_mode` "manual" makes the route refuse players. When two processes register, the name
`register_guest` found free may be taken in another world before its INSERT, and a
rollback then deletes the other character.

*Axis state and generation.* The score transaction does not clamp, so two processes (whose
locks are separate) can leave [0.0, 1.0]. Numeric scores of the generator are not
clamped either, label scores are. Policy axes written in mixed case never find their
thresholds, and a payload of labels alone is then refused as incomplete; the
success counter includes generations that are later refused. Labels stored in a
snapshot go stale after a new registry was seeded.

*Policies.* An activation overtaken by another answers 500 after its commit. Reading an
old publish run moves `latest.json` back to it. A published artifact may lack Layer 1
rows that its registries refer to. An import activates its accepted rows although
others are in error, and an error of the database aborts it as a whole. Nothing calls `reload_axis_engine` or
`reload_translation_service`. A malformed version in a manifest raises a `ValueError`,
which answers 500 and stops every start (`core/engine.py:166` catches `PolicyServiceError`
only). Clothing candidates with equal rank, priority and id are compared as
dictionaries, which is a `TypeError`. The snapshot's `policy_hash` covers the whole content
of the bundle, the runtime's only axes, thresholds and resolution.

*Game and chat.* A whisper whose recipient has vanished is stored for the whole room. A yell into another
zone is stored under the raw reference `zone:room`, where nobody reads it. Recall emits no
PLAYER_MOVED, although `core/engine.py:1241` says so. After a restart a character in a
lazily loaded zone is "not in a valid room". Pickup and drop ignore what the write
returned. "w" is both west and whisper, and the second never runs.

*Bus, ledger, translation, start.* A one-time handler that emits its own event type is
called again, from inside itself. Futures that timed out stay on the wait list until the
next event of their type. The comment at `ledger/writer.py:71` ("only the audit
record is lost") leaves out that an abandoned line takes the next acknowledged one with it. The
renderer stays deterministic once it was armed, although the docstring of `translate`
says that without a hash the seed is skipped; the validator looks for the
sentinel before it strips quotes; a lab profile with no `active_axes` has none, the
game's has all. Flags with unreadable text are False. Processes that start together race between COUNT and
INSERT of the first superuser (`db/schema.py:526`), which ends one of them, and between the
look for a port and its bind (`api/server.py:297`). The first superuser needs 8 characters of
password where the standard policy asks for 12; `p4ssw0rd1` is not recognised as
common, since 1 stands for i.

## Proofs

The theorems hold for any number of users, characters, ids, processes,
threads, names, limits, subscriptions, events, policies, rooms and any bounds. The only
assumptions are the named ASSUMEs in the modules (types of the constants; NULL or None is
none of the values; every option has a kind and a default; a generation asks at least once; the inputs of `ServiceCalls` are of their types) and, where stated, that there is one process, that every ledger line is plain, that no call fails or is killed
(the ban, the clean-ups), that nobody is stuck (the clean-ups), that no policy is a location and foreign artifacts are sound (the import), or that no
name is borne in two worlds (commands).

`SessionStoreProofs`

* **`TypeCorrect`**: `SessionStore!TypeOK`, action by action.
* **`IntegrityHolds`**: `TablesAgree`, inductive together with `TypeOK`: a user's row goes
  only in the transaction that removes its sessions and detaches its characters, a
  character's row only when no session holds it. The central lemmas are `StepEffect` and
  `RowsEvolve`: a step removes rows, renews an expiry, opens one row, or binds one row that
  passed the trigger, and nothing else.
* **`SingleSessionHolds`**: from the same lemma, when several sessions are not
  allowed.
* **`OwnershipHolds`**: `InWorldOwned` when there is one process. The inductive
  invariant adds that the id a request was validated with still belongs to the user
  it was validated for (`ActsForHolder`, which needs that live ids were issued), and
  what the handler has checked (`ChecksHold`: the character it is about to bind is owned
  by the session's user, the character it is about to erase has no session). That stays
  true because no other request runs in between; with two processes it does not, as
  `SessionsOwnership.cfg` shows.
* **`LifecycleImplemented`**: the session table refines `SessionLifecycle`, so an ended id
  never returns, whatever other processes read before; every step is one of three
  abstract steps or a stutter. Needs that a request about to bind holds a
  character (`BindsCharacter`).
* **`BanHolds`**: `BannedHasNoSession` with one process and without failures. Between the
  two calls of a ban the account is inactive and may have sessions; who is about to be
  logged in is active (`LoginIsActive`), because nothing comes in between the read of
  `is_active` and the INSERT. A second process, or a ban whose second call fails, leaves a
  session; therefore the hypotheses.
* **`CleanupsHappen`**: `CleanupsComplete`, from `FairSpec`, for any number of processes, when
  no call fails and none is killed. `TheWay` lists which call may follow which (`After`); where
  a process is, one of its weakly fair steps can be taken until it is taken (`MovesOn`), so
  along these finitely many places every process comes back to "idle" (`ComesBack`), where its
  sweeper runs (`Sweeping`). A guest that is due stays due until it is purged or tombstoned
  (`StaysDue`), hence the strongly fair sweep can be taken again and again, and purges it. A ban
  waits for one step only. That the steps can be taken where the code waits for them is
  the hypothesis `[]NobodyIsStuck`: the provers treat ENABLED as an unknown, so that invariant is
  TLC's (`sessions_two_processes`, where the other process interferes).

`AxisEngineProofs`

* **`RangeHolds`**: `ScoresSound` when all threads share one process, for any
  resolvers, magnitudes and failures. The inductive invariant: from the second lock to the
  release a thread holds both locks (`Holds`, hence `Exclusion`), so nobody else writes
  those two rows, so the snapshot is what the rows hold, so a delta clamped against the
  snapshot lands in range.
* **`DeadlockFreedom`**: `OnlySelfTalkBlocks`, whoever talks to whom and however many processes
  there are. A thread that holds one lock and waits for another waits for the one with the
  higher id, or for its own if it serves a whisper to oneself. Along a chain of waiting
  without such a thread the ids rise, and of threads that all wait for each other's locks none
  would wait for the highest.
* **`AtomicityHolds`** (`InteractionsAreAtomic`): the threads of one process implement
  `AxisInteraction`. The abstract scores (`Mapped`) are the ones to come for both parties of an
  interaction that is recorded and not yet applied, and the stored ones for everybody
  else; by `Exclusion` there is at most one such interaction per character. The ledger
  append is then the abstract step, and the two transactions that follow stutter.

`ProvisioningProofs`

* **`TypeCorrect`**: types, with what a busy process has put into its job (`JobsKnow`).
* **`SlotsHold`**: `SlotOvershoot`, for any number of processes. The bound on
  characters alone is not inductive: a process that has counted and not yet inserted
  is as good as a character. The invariant `Slots` counts both (`Owned` and
  `Inserting`); the count puts at most every registrar there, the INSERT moves one over. That
  nobody exceeds the limit unless he was outrun is `Counted`: who is about to insert and
  was not has room, since no other step adds to that account and world.
* **`AllOrNothingHolds`**: `RegistrationAllOrNothing`, for any number of processes and without
  an assumption. The invariant `Guests` says, step by step, what a registration has made so far,
  as long as it was not `crossed`: then it is `Alone` with its name, so the name stays free
  until its own INSERT, so the unscoped lookup returns its own row, so the rollback deletes that
  row and no other (`JobStep`, `OtherStep`). `Companions` says what holds of every
  job, alone or not: no two registrations share an account. An administrator may take the row away at any time.

`EventBusProofs`

* **`LogIsComplete`**: the log is the last events without a gap. The inductive
  invariant is the property and the types of log and sequence.
* **`DeliveryIsSound`** (`DeliveryHolds`). The invariant `Deliveries` relates every emit
  on the stack to the list it iterates over while others change it: the lists
  are in registration order, the calls made lie before the iterator, who lies before it
  uncalled is excused by the removal of an older handler that was due, and a
  one-time handler that was called and still subscribes is running.
* **`WaitsAreSound`** (`WaitsHold`): who waits is registered under its type (`Waits`),
  so the emit that passes its event wakes it; and nothing writes to a wait that has
  an outcome.

`LedgerFileProofs`

* **`TypeCorrect`**, **`DamageHolds`**: `DamageIsBounded`. Acknowledged events that lack a
  line are not all that can be lost: an append under way whose line was already
  spoiled (`Doomed`) counts, and so does an unfinished line that nobody is writing
  (`Abandoned`), which will spoil the next. `Bounded` counts all three against the
  accidents; `Locked` says that whoever writes holds the lock.
* **`CorruptionHolds`**: `CorruptMeansDamaged`, when every line is plain. Without an accident
  every closed line is an event's (`Whole`), and only a line that is being written is
  unfinished, so the check at start-up finds nothing. With the line separator U+2028 in a
  line it does, as `LedgerSeparator.cfg` shows; hence the assumption.

`PolicyControlProofs`

* **`TypeCorrect`**, **`StorageHolds`** (`StoredIsValid`), **`HistoryHolds`**
  (`PointersReplay`), from one inductive invariant: what a call holds between its
  transactions (`Held`) was validated, and rows are replaced but never removed, so what
  was there when it was checked is there when it is used; and an
  activation adds the event that is the last of its policy and scope (`LastThere`,
  `EventAdded`) in the transaction that sets the pointer.
* **`MismatchHolds`** (`MismatchIsInterference`): a call that nobody overlapped is alone on its
  way (`Watched`), so the pointers it read are those of now when it reads the events, and
  by `PointersReplay` these agree.
* **`PublishIsSound`** (`PublishHolds`). A call that nobody overlapped is alone, so what it
  has read is what is live; `PublishBy` says place by place which of manifest, contents, file
  and `latest.json` equal what is live by then. For `latest.json` under interference and
  crashes, `Accounted` follows each file from its truncation on: complete, being written,
  or torn.
* **`ImportIsSound`** (`ImportHolds`). Place by place, what an import has accepted is
  stored as the artifact has it and, if it activates, pointed to (`AcceptedBy`, `RowsBy`,
  `PointedBy`); and as long as what an artifact's rows refer to is in the artifact, what is
  next refers only to what is stored already, because Layer 1 goes first (`ErrorFreeBy`).
  The one Layer 1 type the import order does not know is excluded (`NoLocations`);
  `PolicyLocation.cfg` shows why. Artifacts this code exported are valid (`Exported`); of
  foreign ones it is assumed (`MirrorIsSound`).

`GamePlayProofs`

* **`TypeCorrect`**, **`PrivacyHolds`** (`WhispersPrivate`). A whisper is stored by
  name, some calls after its target was found. Names of characters that are there are
  unique in a world (`Unique`), tombstones are renamed and ids not reused, so while the
  target is there its name finds nobody else (`Aimed`), and a message once stored refers
  to the row and not to the name (`Addressed`).
* **`YellsArrive`** (`YellReaches`). What a yell has left behind is counted as missed or
  told (`ChatBy`); a deletion keeps the message, and a prune spares those of a command
  that is still running.
* **`CommandsDone`** (`OkMeansDone`), when no name is borne in two worlds. A command that nobody
  disturbed is the only one of that name and its character is there (`AloneBy`), so
  the row its name finds is its own (`SoleRow`) and the others write to other rows;
  where it is and what it carries follow call by call (`PlacedBy`, `CarriedBy`), and whom a
  kick finds by name alone is of its world (`FoundBy`). With twins in two worlds the engine moves
  the wrong one, as `PlayNames.cfg` shows; hence the hypothesis.

`ServicesProofs`

* **`RolesHold`** (`RolesGuarded`): every path to an elevated role passes a check that
  only a superuser passes, and the first superuser is above every check.
* **`OffersHold`** (`OfferHolds`): the three decisions are one formula of open, granted
  and full; the slots are an inductive bound.
* **`HashesDetermine`**, **`AuditsHold`**, together **`TranslationsTraced`** (`Traceable`): a request with a hash arms the renderer with that
  hash before it asks (`Seeded`); each event is what the translation of its turn asked and
  said, and a turn records once (`Recorded`).
* **`ExitsHold`** (`ExitsExplained`): between its look and its use, what a process looked at
  is as it was, or it knows a rival (`Foreseen`).
* **`RequestsAreCounted`** (`EachCountedOnce`): with the requests that ended and those in
  flight counted, what is left to show is that retries stay within the limit. `Accounted` gives each
  request in flight the attempts it has left (`Attempts`); retries and attempts left
  together never exceed what the requests were allowed.
* **`AnswersFit`** (`AnswersFitTheirBundle`): the scores are made and looked over by the policy
  the request resolved, which it holds, not by the one that is active when the generator answers.
* **`PayloadIsRead`**, the rules of `PayloadRead` for any payload: the first of the three
  numbers wins, then the first of the three labels; the scores of a label are midpoints or
  places in the ordering, both monotone. `WellFormed` policies have bounds that are numbers or absent;
  an ordering has at most one label more than there are scores (`Full`), otherwise the
  division gives two neighbours one score.
* **`EventsExplainScores`** (`EventsReplay`): the events before the k-th say where an axis
  stands (`LeftAt`); an event writes the scores and itself in one transaction, and what it
  writes on is what the last event on that axis left. An axis that had no event still has the
  default (`Replays`).
* **`ProfilesTakeHold`** (`ProfileTakesHold`): until the next event the deltas a writer
  computed are the ones that lead from the scores of now to the labels' (`FreshProfiles`; by
  `Counted` the number of events is told by the seed); each range holds the score of its
  own label only.
* **`ValidatorIsExact`** (with the lemma `LabShows`), **`SettingsRank`**, **`LookupsMeet`**,
  **`BestWorn`**, **`LevelsAreNested`**: the
  functions behind `OutputClean`, `ConfigurationRules` and `PoliciesAreRead`, for every
  input: any output of the model, any options and files, whatever rows the pointers of a
  world and a client profile resolve to (`EffectiveRows`; that this leaves one row for each
  type and key is `EffectiveResolved`), any registries and slots whose entries
  can be compared (`Comparable`), passwords of any length over any alphabet. `BestWorn` rests on
  `SomeoneOutranks`: when no two entries that fit tie, one outranks all others, because
  ranks are linearly ordered and the list is finite (the least counterexample has none).
* **`ConfigurationHolds`**, **`PoliciesHold`**, **`OutputHolds`**: `ConfigurationRules`,
  `PoliciesAreRead` and `OutputClean` of `ServiceCalls`, that is, for the calls the composed services
  get. What they are called with is a constant of the module, and its type a named assumption
  (`PasswordInputsType`, `PolicyInputsType`, `WearInputsType`, `PayloadInputsType`,
  `RawInputsType`), as wide as the code takes: TLC evaluates the assumptions on the instance's
  tables. The input of a behaviour stays one of the inputs (`Asked`), and there each theorem
  above applies.
* **`ServicesHold`**: the other properties of `services`, of the composition. A step of one
  service changes nothing of the others, so each of them runs as its own specification says
  (`ServicesRun`).

### Model-checked only

* `InteractionEnds` and `AppendEnds`. Each waits for a lock that others may take first, as often
  as they have interactions or appends left to begin: the argument is an induction over these
  and, for two locks, along the chain of who waits for whom. A temporal induction is an
  instance of the induction theorem for a temporal formula, which the provers cannot form.
  (`CleanupsComplete` needs none, since nobody waits for anybody there.)
* `NobodyIsStuck`: ENABLED, see `CleanupsHappen`.

## Not modelled

* The terminal and web clients: user interfaces over the HTTP interface, without server state.
* Read-only routes, metrics, logging, message texts, and the administration's inspection of
  tables: no state changes.
* The template of the translation prompt, the language model and the name generator:
  external; the models take any answer.
* The world catalogue of `init-db`, the interactive prompts of the command line, and the
  start of axis engine and translation service from `world.json`. A repeated `init-db`
  re-activates worlds.
* The legacy visitor branch of the guest purge, and `reset_for_testing` of the bus.
* `tools/`, `deploy/` and the documentation builds.

What comes next: the import of the world catalogue against `Access`.
