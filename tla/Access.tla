------------------------------- MODULE Access -------------------------------
(***************************************************************************)
(* Roles, permissions, the administration of accounts, and who may enter a *)
(* world or create a character in it.  The routes of one server process    *)
(* have no await between their checks and their writes, so that each is    *)
(* one step.  Invitations (world_permissions) and the activity of a world  *)
(* are changed by the operator, in the database.                           *)
(***************************************************************************)
EXTENDS Absent

CONSTANTS
  Users,
  Root,          \* the superuser that create-superuser made
  Worlds,
  CreationMode,  \* CreationMode[w]: "open" or "invite"
  NamingMode,    \* NamingMode[w]: "generated" or "manual"
  SlotLimit,     \* SlotLimit[w]: as configured, not validated
  Invitations,   \* what the operator may grant: pairs of an account and a world
  Closable,      \* the worlds that the operator closes and opens
  SelfCreate,    \* player_self_create_enabled
  Registration   \* account_registration_mode = "open"

ASSUME AccessTypes == Root \in Users /\ SlotLimit \in [Worlds -> Int]

VARIABLES
  role,       \* users.role, NULL when there is no such account
  inactive,   \* accounts with is_active = 0
  reset,      \* accounts whose password somebody else set last
  grants,     \* world_permissions
  open,       \* worlds with is_active = 1
  count,      \* characters of an account in a world
  raised      \* history: accounts that a superuser gave the elevated role they have

accessVars == <<role, inactive, reset, grants, open, count, raised>>

-----------------------------------------------------------------------------
Roles == {"player", "worldbuilder", "admin", "superuser"}

ASSUME NullIsNoRole == NULL \notin Roles

Granted ==
  [player       |-> {"play_game", "chat"},
   worldbuilder |-> {"play_game", "chat", "edit_world", "create_rooms", "create_items"},
   admin        |-> {"play_game", "chat", "create_users", "kick_users", "ban_users", "view_logs",
                     "edit_world", "stop_server"},
   superuser    |-> {"full_access"}]

HasPermission(r, permission) ==
  r \in Roles /\ (r = "superuser" \/ permission \in Granted[r])

Level(r) ==
  LET known == [player |-> 0, worldbuilder |-> 1, admin |-> 2, superuser |-> 3]
  IN IF r \in DOMAIN known THEN known[r] ELSE 0

\* Mutant of CanManageRole: equals manage each other.
CanManageEquals(manager, target) == Level(manager) >= Level(target)

CanManageRole(manager, target) == Level(manager) > Level(target)

Elevated(r) == r \in {"admin", "superuser"}

AtLeastZero(n) == IF n > 0 THEN n ELSE 0

\* Mutant of Decide: the slots are compared only with the limit itself.
DecideTooFar(u, w) ==
  LET access == Elevated(role[u]) \/ <<u, w>> \in grants \/ count[u][w] > 0 \/ CreationMode[w] = "open"
      reason == IF w \notin open THEN "world_inactive"
                ELSE IF ~access THEN "invite_required"
                ELSE IF count[u][w] > AtLeastZero(SlotLimit[w]) THEN "slot_limit_reached" ELSE "ok"
  IN [access |-> reason \in {"slot_limit_reached", "ok"}, create |-> reason = "ok", reason |-> reason]

\* _resolve_world_access_for_row.
Decide(u, w) ==
  LET access == Elevated(role[u]) \/ <<u, w>> \in grants \/ count[u][w] > 0 \/ CreationMode[w] = "open"
      reason == IF w \notin open THEN "world_inactive"
                ELSE IF ~access THEN "invite_required"
                ELSE IF count[u][w] >= AtLeastZero(SlotLimit[w]) THEN "slot_limit_reached" ELSE "ok"
  IN [access |-> reason \in {"slot_limit_reached", "ok"}, create |-> reason = "ok", reason |-> reason]

\* The worlds list_worlds_for_user shows, each with its decision.
Listed(u, includeInactive, includeInvite) ==
  {w \in Worlds : /\ includeInactive \/ w \in open
                  /\ Elevated(role[u]) \/ includeInvite \/ Decide(u, w).access}

\* The sessions of an inactive account are gone, and it cannot log in.
Acts(m, permission) == role[m] # NULL /\ m \notin inactive /\ HasPermission(role[m], permission)

-----------------------------------------------------------------------------
AccessInit ==
  /\ role = [u \in Users |-> IF u = Root THEN "superuser" ELSE NULL]
  /\ inactive = {}
  /\ reset = {}
  /\ grants = {}
  /\ open = Worlds
  /\ count = [u \in Users |-> [w \in Worlds |-> 0]]
  /\ raised = {Root}

NewAccount(u, r) ==
  /\ role[u] = NULL
  /\ role' = [role EXCEPT ![u] = r]
  /\ reset' = reset \ {u}
  /\ UNCHANGED <<inactive, grants, open, count>>

\* The history of a role r that m gave t.
Raise(m, t, r) ==
  raised' = IF Elevated(r) /\ role[m] = "superuser" THEN raised \cup {t} ELSE raised \ {t}

Register(u) == Registration /\ NewAccount(u, "player") /\ UNCHANGED raised

\* Mutant of AllowedToCreate: an administrator makes administrators.
AllowedUpToOwn(r) == {q \in Roles : Level(q) <= Level(r)}

AllowedToCreate(r) ==
  IF r = "admin" THEN {"player", "worldbuilder"} ELSE IF r = "superuser" THEN Roles ELSE {}

CreateUser(m, u, r) ==
  /\ Acts(m, "create_users")
  /\ r \in AllowedToCreate(role[m])
  /\ NewAccount(u, r)
  /\ Raise(m, u, r)

\* The checks every branch of manage_user makes; the exception it makes for one's
\* own password never gets past the comparison of the roles.
Manages(m, t, permission, ownAllowed) ==
  /\ Acts(m, permission)
  /\ role[t] # NULL
  /\ m # t \/ ownAllowed
  /\ CanManageRole(role[m], role[t])

ChangeRole(m, t, r) ==
  /\ Manages(m, t, "manage_users", FALSE)
  /\ CanManageRole(role[m], r)
  /\ role' = [role EXCEPT ![t] = r]
  /\ Raise(m, t, r)
  /\ UNCHANGED <<inactive, reset, grants, open, count>>

Ban(m, t) ==
  /\ Manages(m, t, "ban_users", FALSE)
  /\ inactive' = inactive \cup {t}
  /\ UNCHANGED <<role, reset, grants, open, count, raised>>

Unban(m, t) ==
  /\ Manages(m, t, "ban_users", FALSE)
  /\ inactive' = inactive \ {t}
  /\ UNCHANGED <<role, reset, grants, open, count, raised>>

\* delete_user keeps the row, inactive and tombstoned; the name stays taken.
Delete(m, t) ==
  /\ Manages(m, t, "manage_users", FALSE)
  /\ role[m] = "superuser"
  /\ inactive' = inactive \cup {t}
  /\ count' = [count EXCEPT ![t] = [w \in Worlds |-> 0]]
  /\ UNCHANGED <<role, reset, grants, open, raised>>

SetPassword(m, t) ==
  /\ Manages(m, t, "manage_users", TRUE)
  /\ reset' = IF m = t THEN reset \ {t} ELSE reset \cup {t}
  /\ UNCHANGED <<role, inactive, grants, open, count, raised>>

ChangeOwnPassword(u) ==
  /\ role[u] # NULL /\ u \notin inactive
  /\ reset' = reset \ {u}
  /\ UNCHANGED <<role, inactive, grants, open, count, raised>>

\* provision_generated_character_for_user and create_character_for_user; the
\* failures after the slot check are those of the module Provisioning.
Provision(u, w) ==
  /\ count[u][w] < AtLeastZero(SlotLimit[w])
  /\ count' = [count EXCEPT ![u][w] = @ + 1]
  /\ UNCHANGED <<role, inactive, reset, grants, open, raised>>

\* The checks of /characters/create, in its order.
RouteAdmits(u, w) ==
  /\ SelfCreate
  /\ Decide(u, w).reason # "world_inactive"
  /\ Decide(u, w).access
  /\ NamingMode[w] = "generated" \/ Elevated(role[u])
  /\ Decide(u, w).create \/ Decide(u, w).reason # "slot_limit_reached"

CreateCharacter(u, w) ==
  /\ role[u] # NULL /\ u \notin inactive
  /\ RouteAdmits(u, w)
  /\ Provision(u, w)

\* An administrator gives a character to an account, invited or not.
GiveCharacter(m, t, w) ==
  /\ Acts(m, "create_users")
  /\ role[t] # NULL
  /\ m = t \/ CanManageRole(role[m], role[t])
  /\ w \in open
  /\ Provision(t, w)

RemoveCharacter(m, t, w) ==
  /\ Acts(m, "manage_users")
  /\ count[t][w] > 0
  /\ count' = [count EXCEPT ![t][w] = @ - 1]
  /\ UNCHANGED <<role, inactive, reset, grants, open, raised>>

\* The operator.
Grant(u, w) ==
  /\ grants' = grants \cup {<<u, w>>}
  /\ UNCHANGED <<role, inactive, reset, open, count, raised>>
Revoke(u, w) ==
  /\ grants' = grants \ {<<u, w>>}
  /\ UNCHANGED <<role, inactive, reset, open, count, raised>>
Toggle(w) ==
  /\ open' = IF w \in open THEN open \ {w} ELSE open \cup {w}
  /\ UNCHANGED <<role, inactive, reset, grants, count, raised>>

AccessNext ==
  \/ \E u \in Users : Register(u) \/ ChangeOwnPassword(u)
  \/ \E m, t \in Users : Ban(m, t) \/ Unban(m, t) \/ Delete(m, t) \/ SetPassword(m, t)
  \/ \E m, t \in Users, r \in Roles : CreateUser(m, t, r) \/ ChangeRole(m, t, r)
  \/ \E u \in Users, w \in Worlds : CreateCharacter(u, w)
  \/ \E i \in Invitations : Grant(i[1], i[2]) \/ Revoke(i[1], i[2])
  \/ \E m, t \in Users, w \in Worlds : GiveCharacter(m, t, w) \/ RemoveCharacter(m, t, w)
  \/ \E w \in Closable : Toggle(w)

AccessSpec == AccessInit /\ [][AccessNext]_accessVars

-----------------------------------------------------------------------------
\* No sequence of requests costs the server its superuser: the first one keeps
\* role, activity and password, whoever else was made superuser meanwhile.
SuperuserStays == role[Root] = "superuser" /\ Root \notin inactive /\ Root \notin reset

\* Whatever administrators do, among themselves and to the accounts they made: an
\* account is elevated only as long as the last word on its role was a superuser's.
ElevatedBySuperuser == \A u \in Users : Elevated(role[u]) => u \in raised

\* The hierarchy of roles holds at its top and below: no chain of requests leads
\* around can_manage_role.
RolesGuarded == SuperuserStays /\ ElevatedBySuperuser

\* What the list of worlds offers, the creation route and the provisioning behind
\* it accept: except where self-service is off or names are given by hand, an
\* account gets a character in exactly the worlds it is shown as free to create
\* in, and its slots never exceed the limit.
OfferHolds ==
  \A u \in Users : role[u] # NULL =>
    \A w \in Worlds :
      LET offered   == w \in Listed(u, FALSE, FALSE) /\ Decide(u, w).create
          admitted  == RouteAdmits(u, w) /\ count[u][w] < AtLeastZero(SlotLimit[w])
          reserved  == ~SelfCreate \/ (NamingMode[w] # "generated" /\ ~Elevated(role[u]))
      IN /\ admitted <=> (offered /\ ~reserved)
         /\ count[u][w] <= AtLeastZero(SlotLimit[w])
=============================================================================
