--------------------------- MODULE ServicesProofs ---------------------------
(***************************************************************************)
(* The services whose machines are small: administration of accounts,      *)
(* translation, the start of servers, the payload of the generator, the    *)
(* condition axis service, and the axis state of a character; and the      *)
(* functions: settings, readers of policies, passwords.                    *)
(***************************************************************************)
EXTENDS ServiceCalls, FiniteSetTheorems, SequenceTheorems, WellFoundedInduction, TLAPS

-----------------------------------------------------------------------------
(***************************************************************************)
(* What several services share                                             *)
(***************************************************************************)
\* The least of some numbers, and the greatest index below another.
LEMMA LeastNumber ==
  ASSUME NEW S \in SUBSET Nat, S # {}
  PROVE  \E m \in S : \A n \in S : m <= n
<1> DEFINE less == OpToRel(<, Nat)
<1>1. IsWellFoundedOn(less, Nat)
  BY NatLessThanWellFounded
<1>2. \A m, n \in Nat : n < m => <<n, m>> \in less
  BY DEF OpToRel
<1> HIDE DEF less
<1>3. PICK m \in S : \A n \in S : ~(<<n, m>> \in less)
  BY <1>1, WFMin
<1>4. m \in Nat /\ \A n \in S : n \in Nat /\ ~(n < m)
  BY <1>2, <1>3
<1>5. \A n \in S : m <= n
  BY <1>4
<1> QED
  BY <1>5

LEMMA LastIndex ==
  ASSUME NEW k \in Int, NEW S \in SUBSET (1..(k - 1)), S # {}
  PROVE  Max(S) \in S /\ \A y \in S : y <= Max(S)
<1> DEFINE T == {k - x : x \in S}
<1>1. T \subseteq Nat /\ T # {}
  <2>1. \A x \in S : x \in Int /\ k - x \in Nat
    OBVIOUS
  <2> QED
    BY <2>1
<1>2. PICK t \in T : \A u \in T : t <= u
  BY <1>1, LeastNumber
<1>3. PICK x \in S : t = k - x
  BY <1>2
<1>4. ASSUME NEW y \in S PROVE x >= y
  <2>1. k - y \in T /\ t <= k - y
    BY <1>2
  <2> QED
    BY <1>3, <2>1
<1>5. Max(S) \in S /\ \A y \in S : Max(S) >= y
  BY <1>4 DEF Max
<1> QED
  BY <1>5

\* The first element that is there.
LEMMA FirstFound ==
  ASSUME NEW s, DOMAIN s \subseteq Nat
  PROVE  \/ /\ \A i \in DOMAIN s : s[i] = NULL
            /\ FirstOf(s) = NULL
         \/ \E i \in DOMAIN s : /\ s[i] # NULL /\ FirstOf(s) = s[i]
                                /\ \A j \in DOMAIN s : j < i => s[j] = NULL
<1> DEFINE given == {i \in DOMAIN s : s[i] # NULL}
<1>1. CASE given = {}
  BY <1>1 DEF FirstOf
<1>2. CASE given # {}
  <2> DEFINE first == CHOOSE i \in given : \A j \in given : i <= j
  <2>1. \E i \in given : \A j \in given : i <= j
    BY <1>2, LeastNumber
  <2>2. first \in given /\ \A j \in given : first <= j
    BY <2>1
  <2>3. FirstOf(s) = s[first]
    BY <1>2 DEF FirstOf
  <2> HIDE DEF first
  <2>4. \A j \in DOMAIN s : j < first => s[j] = NULL
    <3> SUFFICES ASSUME NEW j \in DOMAIN s, j < first, s[j] # NULL PROVE FALSE
      OBVIOUS
    <3>1. j \in given /\ first <= j /\ j \in Nat /\ first \in Nat
      BY <2>2
    <3> QED
      BY <3>1
  <2> QED
    BY <2>2, <2>3, <2>4
<1> QED
  BY <1>1, <1>2

-----------------------------------------------------------------------------
(***************************************************************************)
(* Access                                                                  *)
(***************************************************************************)
AccessTypeOK ==
  /\ role \in [Users -> Roles \cup {NULL}]
  /\ count \in [Users -> [Worlds -> Nat]]

\* Nobody outranks a superuser, and nobody outranks himself.
LEMMA Ranks ==
  ASSUME NEW r \in Roles \cup {NULL}
  PROVE  /\ ~CanManageRole(r, "superuser")
         /\ CanManageRole(r, "admin") => r = "superuser"
BY DEF CanManageRole, Level, Roles

LEMMA AccessTyped == AccessTypeOK /\ [AccessNext]_accessVars => AccessTypeOK'
<1> SUFFICES ASSUME AccessTypeOK, [AccessNext]_accessVars PROVE AccessTypeOK'
  OBVIOUS
<1> USE DEF AccessTypeOK
<1>1. ASSUME NEW u \in Users, NEW r \in Roles, NewAccount(u, r) PROVE AccessTypeOK'
  BY <1>1 DEF NewAccount
<1>2. ASSUME NEW u \in Users, NEW w \in Worlds, Provision(u, w) PROVE AccessTypeOK'
  <2>1. count[u] \in [Worlds -> Nat] /\ count[u][w] + 1 \in Nat  OBVIOUS
  <2>2. count' = [count EXCEPT ![u] = [count[u] EXCEPT ![w] = count[u][w] + 1]]
    BY <1>2 DEF Provision
  <2> QED  BY <1>2, <2>1, <2>2 DEF Provision
<1>3. ASSUME NEW t \in Users, NEW m \in Users, NEW r \in Roles, ChangeRole(m, t, r) PROVE AccessTypeOK'
  BY <1>3 DEF ChangeRole
<1>4. ASSUME NEW t \in Users, NEW m \in Users, Delete(m, t) PROVE AccessTypeOK'
  BY <1>4 DEF Delete
<1>5. ASSUME NEW t \in Users, NEW m \in Users, NEW w \in Worlds, RemoveCharacter(m, t, w) PROVE AccessTypeOK'
  <2>1. count[t] \in [Worlds -> Nat] /\ count[t][w] - 1 \in Nat
    BY <1>5 DEF RemoveCharacter
  <2>2. count' = [count EXCEPT ![t] = [count[t] EXCEPT ![w] = count[t][w] - 1]]
    BY <1>5 DEF RemoveCharacter
  <2> QED  BY <1>5, <2>1, <2>2 DEF RemoveCharacter
<1>6. CASE UNCHANGED <<role, count>>
  BY <1>6
<1>7. CASE AccessNext
  <2>1. "player" \in Roles  BY DEF Roles
  <2> QED
    BY <1>1, <1>2, <1>3, <1>4, <1>5, <1>6, <1>7, <2>1
       DEF AccessNext, Register, ChangeOwnPassword, Ban, Unban, SetPassword, CreateUser,
           CreateCharacter, GiveCharacter, Grant, Revoke, Toggle
<1> QED
  BY <1>6, <1>7 DEF accessVars

\* What an administrator does to an account, the first superuser escapes.
LEMMA RootEscapes ==
  ASSUME AccessTypeOK, SuperuserStays, NEW m \in Users, NEW t \in Users, NEW permission, NEW own,
         Manages(m, t, permission, own)
  PROVE  t # Root
BY Ranks DEF Manages, AccessTypeOK, SuperuserStays

LEMMA AccessGuarded == AccessTypeOK /\ RolesGuarded /\ [AccessNext]_accessVars => RolesGuarded'
<1> SUFFICES ASSUME AccessTypeOK, RolesGuarded, [AccessNext]_accessVars PROVE RolesGuarded'
  OBVIOUS
<1> USE DEF RolesGuarded, SuperuserStays, ElevatedBySuperuser, AccessTypeOK
<1>1. ASSUME NEW u \in Users, Register(u) PROVE RolesGuarded'
  <2>1. u # Root  BY <1>1, NullIsNoRole DEF Register, NewAccount, Roles
  <2> QED  BY <1>1, <2>1, AccessTypes DEF Register, NewAccount, Elevated
<1>2. ASSUME NEW m \in Users, NEW u \in Users, NEW r \in Roles, CreateUser(m, u, r) PROVE RolesGuarded'
  <2>1. u # Root  BY <1>2, NullIsNoRole DEF CreateUser, NewAccount, Roles
  <2>2. Elevated(r) => role[m] = "superuser"  BY <1>2 DEF CreateUser, AllowedToCreate, Elevated
  <2> QED  BY <1>2, <2>1, <2>2, AccessTypes DEF CreateUser, NewAccount, Raise, Elevated
<1>3. ASSUME NEW m \in Users, NEW t \in Users, NEW r \in Roles, ChangeRole(m, t, r) PROVE RolesGuarded'
  <2>1. t # Root  BY <1>3, RootEscapes DEF ChangeRole
  <2>2. Elevated(r) => role[m] = "superuser"
    BY <1>3, Ranks DEF ChangeRole, Elevated
  <2> QED  BY <1>3, <2>1, <2>2, AccessTypes DEF ChangeRole, Raise, Elevated
<1>4. ASSUME NEW m \in Users, NEW t \in Users, Ban(m, t) \/ Delete(m, t) \/ SetPassword(m, t) PROVE RolesGuarded'
  <2>1. t # Root  BY <1>4, RootEscapes DEF Ban, Delete, SetPassword
  <2> QED  BY <1>4, <2>1 DEF Ban, Delete, SetPassword
<1>5. CASE /\ UNCHANGED <<role, raised>>
           /\ inactive' \subseteq inactive /\ reset' \subseteq reset
  BY <1>5
<1>6. CASE AccessNext
  BY <1>1, <1>2, <1>3, <1>4, <1>5, <1>6
     DEF AccessNext, ChangeOwnPassword, Unban, CreateCharacter, GiveCharacter, Provision,
         RemoveCharacter, Grant, Revoke, Toggle
<1> QED
  BY <1>5, <1>6 DEF accessVars

\* No sequence of administrative requests unseats the superuser or raises an
\* account without one, for any number of accounts, worlds and invitations.
THEOREM RolesHold == AccessSpec => []RolesGuarded
<1>1. AccessInit => AccessTypeOK /\ RolesGuarded
  BY AccessTypes, NullIsNoRole
     DEF AccessInit, AccessTypeOK, RolesGuarded, SuperuserStays, ElevatedBySuperuser, Elevated, Roles
<1> QED
  BY <1>1, AccessTyped, AccessGuarded, PTL DEF AccessSpec

\* The slots of a world, negative ones counting as none.
Within == \A u \in Users, w \in Worlds : count[u][w] <= AtLeastZero(SlotLimit[w])

LEMMA SlotsStay == AccessTypeOK /\ Within /\ [AccessNext]_accessVars => Within'
<1> SUFFICES ASSUME AccessTypeOK, Within, [AccessNext]_accessVars PROVE Within'
  OBVIOUS
<1> USE DEF Within, AccessTypeOK
<1>0. \A w \in Worlds : AtLeastZero(SlotLimit[w]) \in Nat
  BY AccessTypes DEF AtLeastZero
<1>1. ASSUME NEW u \in Users, NEW w \in Worlds, Provision(u, w) PROVE Within'
  <2> SUFFICES ASSUME NEW v \in Users, NEW x \in Worlds PROVE count'[v][x] <= AtLeastZero(SlotLimit[x])
    OBVIOUS
  <2>1. count' = [count EXCEPT ![u] = [count[u] EXCEPT ![w] = count[u][w] + 1]]
    BY <1>1 DEF Provision
  <2>2. count[u] \in [Worlds -> Nat]  OBVIOUS
  <2>3. CASE v = u /\ x = w
    <3>1. count'[v][x] = count[u][w] + 1  BY <2>1, <2>2, <2>3
    <3> QED  BY <1>0, <1>1, <2>2, <2>3, <3>1 DEF Provision
  <2>4. CASE ~(v = u /\ x = w)
    <3>1. count'[v][x] = count[v][x]  BY <2>1, <2>2, <2>4
    <3> QED  BY <3>1
  <2> QED  BY <2>3, <2>4
<1>2. ASSUME NEW m \in Users, NEW t \in Users, Delete(m, t) PROVE Within'
  <2>1. count' = [count EXCEPT ![t] = [w \in Worlds |-> 0]]  BY <1>2 DEF Delete
  <2> QED  BY <1>0, <2>1
<1>3. ASSUME NEW m \in Users, NEW t \in Users, NEW w \in Worlds, RemoveCharacter(m, t, w) PROVE Within'
  <2> SUFFICES ASSUME NEW v \in Users, NEW x \in Worlds PROVE count'[v][x] <= AtLeastZero(SlotLimit[x])
    OBVIOUS
  <2>1. count' = [count EXCEPT ![t] = [count[t] EXCEPT ![w] = count[t][w] - 1]]
    BY <1>3 DEF RemoveCharacter
  <2>2. count[t] \in [Worlds -> Nat] /\ count[v] \in [Worlds -> Nat]  OBVIOUS
  <2>3. count'[v][x] \in {count[v][x], count[v][x] - 1}  BY <2>1, <2>2
  <2> QED  BY <1>0, <2>2, <2>3
<1>4. CASE count' = count
  BY <1>4
<1>5. CASE AccessNext
  BY <1>1, <1>2, <1>3, <1>4, <1>5
     DEF AccessNext, Register, NewAccount, ChangeOwnPassword, Ban, Unban, SetPassword, CreateUser,
         ChangeRole, CreateCharacter, GiveCharacter, Grant, Revoke, Toggle
<1> QED
  BY <1>4, <1>5 DEF accessVars

\* The list of worlds, the creation route and the provisioning decide alike, and
\* slots are kept, for any accounts, worlds, modes and limits.
THEOREM OffersHold == AccessSpec => []OfferHolds
<1>1. AccessInit => AccessTypeOK /\ Within
  BY AccessTypes DEF AccessInit, AccessTypeOK, Within, AtLeastZero, Roles
<1>2. AccessTypeOK /\ Within => OfferHolds
  <2> SUFFICES ASSUME AccessTypeOK, Within, NEW u \in Users, NEW w \in Worlds
               PROVE  /\ RouteAdmits(u, w) /\ count[u][w] < AtLeastZero(SlotLimit[w])
                           <=> /\ w \in Listed(u, FALSE, FALSE) /\ Decide(u, w).create
                               /\ ~(~SelfCreate \/ (NamingMode[w] # "generated" /\ ~Elevated(role[u])))
                      /\ count[u][w] <= AtLeastZero(SlotLimit[w])
    BY DEF OfferHolds
  <2> DEFINE enters == w \in open /\ (Elevated(role[u]) \/ <<u, w>> \in grants \/ count[u][w] > 0
                                       \/ CreationMode[w] = "open")
             full   == count[u][w] >= AtLeastZero(SlotLimit[w])
  <2>1. count[u][w] <= AtLeastZero(SlotLimit[w])
    BY DEF Within
  <2>2. count[u][w] < AtLeastZero(SlotLimit[w]) <=> ~full
    BY AccessTypes DEF AccessTypeOK, AtLeastZero
  <2>3. /\ Decide(u, w).access <=> enters
        /\ Decide(u, w).create <=> enters /\ ~full
        /\ Decide(u, w).reason = "world_inactive" <=> w \notin open
        /\ Decide(u, w).reason = "slot_limit_reached" <=> enters /\ full
    BY DEF Decide
  <2>4. enters => w \in open /\ w \in Listed(u, FALSE, FALSE)
    BY <2>3 DEF Listed
  <2> HIDE DEF enters, full
  <2> QED
    BY <2>1, <2>2, <2>3, <2>4 DEF RouteAdmits
<1> QED
  BY <1>1, <1>2, AccessTyped, SlotsStay, PTL DEF AccessSpec

-----------------------------------------------------------------------------
(***************************************************************************)
(* Translation                                                             *)
(***************************************************************************)
Profiles == {NULL} \cup {Profile(axes) : axes \in Sheets}
Texts    == {NULL} \cup {Validate(raw) : raw \in Raws}
Statuses == {NULL, "unresolved", "api_error", "validation_failed", "success"}
Wanted   == Hashes \cup {NULL}
Outcomes == [status : Statuses, hash : Wanted, profile : Profiles, text : Texts]
Queries  == [hash : Wanted, profile : Profiles, seed : Wanted]

TransTypeOK ==
  /\ sheet \in Sheets
  /\ armed \in [Services -> Wanted]
  /\ turn \in [Services -> [pc : {"idle", "render", "record"}, hash : Wanted, profile : Profiles,
                            text : Texts, status : Statuses]]
  /\ said \in Seq(Outcomes) /\ audit \in Seq(Outcomes) /\ asked \in Seq(Queries)

LEMMA TransTyped == TransTypeOK /\ [TransNext]_transVars => TransTypeOK'
<1> SUFFICES ASSUME TransTypeOK, [TransNext]_transVars PROVE TransTypeOK'
  OBVIOUS
<1> USE DEF TransTypeOK
<1>1. ASSUME NEW s \in Services, NEW hash \in Wanted, BeginTranslation(s, hash) PROVE TransTypeOK'
  <2>1. NULL \in Texts /\ NULL \in Profiles /\ NULL \in Statuses /\ Profile(sheet) \in Profiles
    BY DEF Texts, Profiles, Statuses
  <2>2. CASE sheet = NULL
    <3> DEFINE outcome == [status |-> "unresolved", hash |-> hash, profile |-> NULL, text |-> NULL]
    <3>1. outcome \in Outcomes  BY <2>1 DEF Outcomes, Statuses
    <3>2. said' = Append(said, outcome) /\ UNCHANGED <<sheet, armed, turn, audit, asked>>
      BY <1>1, <2>2 DEF BeginTranslation
    <3> HIDE DEF outcome
    <3>3. said' \in Seq(Outcomes)  BY <3>1, <3>2, AppendProperties
    <3> QED  BY <3>2, <3>3
  <2>3. CASE sheet # NULL
    <3>1. turn' = [turn EXCEPT ![s] = [pc |-> "render", hash |-> hash, profile |-> Profile(sheet),
                                       text |-> NULL, status |-> NULL]]
      BY <1>1, <2>3 DEF BeginTranslation
    <3> QED  BY <1>1, <2>1, <2>3, <3>1 DEF BeginTranslation
  <2> QED  BY <2>2, <2>3
<1>2. ASSUME NEW s \in Services, NEW raw \in Raws \cup {NULL}, Render(s, raw) PROVE TransTypeOK'
  <2>1. Arming(s, turn[s].hash) \in Wanted  BY DEF Arming
  <2>2. armed' \in [Services -> Wanted]  BY <1>2, <2>1 DEF Render
  <2>3. [hash |-> turn[s].hash, profile |-> turn[s].profile, seed |-> armed'[s]] \in Queries
    BY <2>2 DEF Queries
  <2>4. asked' \in Seq(Queries)  BY <1>2, <2>3, AppendProperties DEF Render
  <2>5. turn' \in [Services -> [pc : {"idle", "render", "record"}, hash : Wanted, profile : Profiles,
                                text : Texts, status : Statuses]]
    <3>1. (IF Answered(raw) THEN Validate(raw) ELSE NULL) \in Texts  BY DEF Texts, Answered
    <3>2. {"api_error", "validation_failed", "success"} \subseteq Statuses  BY DEF Statuses
    <3> QED  BY <1>2, <3>1, <3>2 DEF Render
  <2> QED  BY <1>2, <2>2, <2>4, <2>5 DEF Render
<1>3. ASSUME NEW s \in Services, NEW written \in BOOLEAN, RecordTranslation(s, written) PROVE TransTypeOK'
  <2>1. Event(s) \in Outcomes  BY DEF Event, Outcomes
  <2>2. said' \in Seq(Outcomes)  BY <1>3, <2>1, AppendProperties DEF RecordTranslation, Event
  <2>3. audit' \in Seq(Outcomes)  BY <1>3, <2>1, AppendProperties DEF RecordTranslation
  <2>4. NoTurn \in [pc : {"idle", "render", "record"}, hash : Wanted, profile : Profiles,
                    text : Texts, status : Statuses]
    BY DEF NoTurn, Wanted, Profiles, Texts, Statuses
  <2> QED  BY <1>3, <2>2, <2>3, <2>4 DEF RecordTranslation
<1>4. ASSUME NEW axes \in Sheets, ChangeSheet(axes) PROVE TransTypeOK'
  BY <1>4 DEF ChangeSheet
<1>5. CASE UNCHANGED transVars
  BY <1>5 DEF transVars
<1> QED
  BY <1>1, <1>2, <1>3, <1>4, <1>5 DEF TransNext, Wanted

\* A request with a hash was sampled with the hash as its seed.
Seeded == Deterministic => \A i \in DOMAIN asked : asked[i].hash # NULL => asked[i].seed = asked[i].hash

\* f says which outcome each event of the ledger records.
Records(f, ledger, outcomes) ==
  /\ f \in [DOMAIN ledger -> DOMAIN outcomes] /\ IsInjective(f)
  /\ \A i \in DOMAIN ledger : ledger[i] = outcomes[f[i]]

WasAsked(queries, hash, profile) ==
  \E j \in DOMAIN queries : queries[j].hash = hash /\ queries[j].profile = profile

Recorded ==
  /\ \E f \in [DOMAIN audit -> DOMAIN said] : Records(f, audit, said)
  /\ \A i \in DOMAIN audit : WasAsked(asked, audit[i].hash, audit[i].profile)
  /\ \A s \in Services : turn[s].pc = "record" => WasAsked(asked, turn[s].hash, turn[s].profile)

TransInv == TransTypeOK /\ Seeded /\ Recorded

LEMMA InitTransInv == TransInit => TransInv
<1> SUFFICES ASSUME TransInit PROVE TransInv
  OBVIOUS
<1>1. TransTypeOK
  <2>1. armed \in [Services -> Wanted]  BY DEF TransInit, Wanted
  <2>2. NoTurn \in [pc : {"idle", "render", "record"}, hash : Wanted, profile : Profiles,
                    text : Texts, status : Statuses]
    BY DEF NoTurn, Wanted, Profiles, Texts, Statuses
  <2>3. said \in Seq(Outcomes) /\ audit \in Seq(Outcomes) /\ asked \in Seq(Queries)
    BY DEF TransInit
  <2> QED  BY <2>1, <2>2, <2>3 DEF TransInit, TransTypeOK
<1>2. Seeded
  BY DEF TransInit, Seeded
<1>3. Recorded
  <2> DEFINE none == [i \in {} |-> 0]
  <2>0. DOMAIN audit = {} /\ asked = <<>>  BY DEF TransInit
  <2>1. none \in [DOMAIN audit -> DOMAIN said] /\ Records(none, audit, said)
    BY <2>0 DEF Records, IsInjective
  <2>2. \A s \in Services : turn[s].pc # "record"  BY DEF TransInit, NoTurn
  <2> QED  BY <2>0, <2>1, <2>2 DEF Recorded
<1> QED
  BY <1>1, <1>2, <1>3 DEF TransInv

LEMMA StepSeeded == TransTypeOK /\ Seeded /\ [TransNext]_transVars => Seeded'
<1> SUFFICES ASSUME TransTypeOK, Seeded, [TransNext]_transVars PROVE Seeded'
  OBVIOUS
<1>1. ASSUME NEW s \in Services, NEW raw \in Raws \cup {NULL}, Render(s, raw) PROVE Seeded'
  <2> DEFINE query == [hash |-> turn[s].hash, profile |-> turn[s].profile, seed |-> armed'[s]]
  <2>1. armed'[s] = Arming(s, turn[s].hash) /\ Arming(s, turn[s].hash) \in Wanted
    BY <1>1 DEF Render, TransTypeOK, Arming
  <2>2. query \in Queries  BY <2>1 DEF Queries, TransTypeOK
  <2>3. asked' = Append(asked, query)  BY <1>1 DEF Render
  <2>4. Deterministic /\ query.hash # NULL => query.seed = query.hash  BY <2>1 DEF Arming
  <2> HIDE DEF query
  <2> QED  BY <2>2, <2>3, <2>4, AppendProperties DEF Seeded, TransTypeOK
<1>2. CASE UNCHANGED asked
  BY <1>2 DEF Seeded
<1> QED
  BY <1>1, <1>2 DEF TransNext, BeginTranslation, RecordTranslation, ChangeSheet, transVars

LEMMA StepRecorded == TransTypeOK /\ Recorded /\ [TransNext]_transVars => Recorded'
<1> SUFFICES ASSUME TransTypeOK, Recorded, [TransNext]_transVars PROVE Recorded'
  OBVIOUS
<1> PICK f \in [DOMAIN audit -> DOMAIN said] : Records(f, audit, said)
  BY DEF Recorded
<1>1. ASSUME NEW s \in Services, NEW hash \in Wanted, BeginTranslation(s, hash) PROVE Recorded'
  <2>1. DOMAIN said \subseteq DOMAIN said' /\ \A i \in DOMAIN said : said'[i] = said[i]
    <3>1. Len(said) \in Nat /\ DOMAIN said = 1..Len(said)  BY DEF TransTypeOK
    <3>2. said' = said \/ \E e : said' = Append(said, e)
      BY <1>1 DEF BeginTranslation
    <3> QED  BY <3>1, <3>2
  <2>2. f \in [DOMAIN audit' -> DOMAIN said'] /\ Records(f, audit', said')
    BY <1>1, <2>1 DEF Records, BeginTranslation
  <2>3. \A v \in Services : turn'[v].pc = "record" => turn'[v] = turn[v]
    BY <1>1 DEF BeginTranslation, TransTypeOK, NoTurn
  <2> QED  BY <1>1, <2>2, <2>3 DEF Recorded, WasAsked, BeginTranslation
<1>2. ASSUME NEW s \in Services, NEW raw \in Raws \cup {NULL}, Render(s, raw) PROVE Recorded'
  <2> DEFINE query == [hash |-> turn[s].hash, profile |-> turn[s].profile, seed |-> armed'[s]]
  <2>1. asked' = Append(asked, query)  BY <1>2 DEF Render
  <2>2. Len(asked) \in Nat /\ DOMAIN asked = 1..Len(asked)  BY DEF TransTypeOK
  <2>3. /\ DOMAIN asked' = 1..(Len(asked) + 1) /\ asked'[Len(asked) + 1] = query
        /\ \A i \in DOMAIN asked : asked'[i] = asked[i]
    BY <2>1, <2>2
  <2>4. \A h, p : WasAsked(asked, h, p) => WasAsked(asked', h, p)
    BY <2>2, <2>3 DEF WasAsked
  <2>5. WasAsked(asked', turn[s].hash, turn[s].profile)
    BY <2>2, <2>3 DEF WasAsked
  <2>6. \A v \in Services : /\ turn'[v].hash = turn[v].hash /\ turn'[v].profile = turn[v].profile
                            /\ v # s => turn'[v] = turn[v]
    BY <1>2 DEF Render, TransTypeOK
  <2>7. \A v \in Services : turn'[v].pc = "record" => WasAsked(asked', turn'[v].hash, turn'[v].profile)
    BY <2>4, <2>5, <2>6 DEF Recorded
  <2> QED  BY <1>2, <2>4, <2>7 DEF Recorded, Records, Render
<1>3. ASSUME NEW s \in Services, NEW written \in BOOLEAN, RecordTranslation(s, written) PROVE Recorded'
  <2> DEFINE n == Len(audit)  k == Len(said)
  <2>1. /\ n \in Nat /\ k \in Nat /\ DOMAIN audit = 1..n /\ DOMAIN said = 1..k
    BY DEF TransTypeOK
  <2>2. said' = Append(said, Event(s))  BY <1>3 DEF RecordTranslation, Event
  <2>3. /\ DOMAIN said' = 1..(k + 1) /\ said'[k + 1] = Event(s)
        /\ \A i \in 1..k : said'[i] = said[i]
    BY <2>1, <2>2
  <2>4. WasAsked(asked, Event(s).hash, Event(s).profile)
    BY <1>3 DEF Recorded, RecordTranslation, Event
  <2>5. \A v \in Services : turn'[v].pc = "record" => turn'[v] = turn[v]
    BY <1>3 DEF RecordTranslation, TransTypeOK, NoTurn
  <2>6. \A v \in Services : turn'[v].pc = "record" => WasAsked(asked', turn'[v].hash, turn'[v].profile)
    BY <1>3, <2>5 DEF Recorded, RecordTranslation
  <2>7. CASE written
    <3> DEFINE g == [i \in 1..(n + 1) |-> IF i = n + 1 THEN k + 1 ELSE f[i]]
    <3>1. audit' = Append(audit, Event(s))  BY <1>3, <2>7 DEF RecordTranslation
    <3>2. /\ DOMAIN audit' = 1..(n + 1) /\ audit'[n + 1] = Event(s)
          /\ \A i \in 1..n : audit'[i] = audit[i]
      BY <2>1, <3>1
    <3>3. \A i \in 1..n : f[i] \in 1..k  BY <2>1
    <3>4. g \in [DOMAIN audit' -> DOMAIN said']
      BY <2>1, <2>3, <3>2, <3>3
    <3>5. IsInjective(g)
      BY <2>1, <3>3 DEF IsInjective, Records
    <3>6. \A i \in DOMAIN audit' : audit'[i] = said'[g[i]]
      BY <2>1, <2>3, <3>2, <3>3 DEF Records
    <3>7. \A i \in DOMAIN audit' : WasAsked(asked', audit'[i].hash, audit'[i].profile)
      <4>1. asked' = asked  BY <1>3 DEF RecordTranslation
      <4>2. WasAsked(asked, audit'[n + 1].hash, audit'[n + 1].profile)  BY <2>4, <3>2
      <4>3. \A i \in 1..n : WasAsked(asked, audit'[i].hash, audit'[i].profile)
        BY <2>1, <3>2 DEF Recorded
      <4> QED  BY <2>1, <3>2, <4>1, <4>2, <4>3
    <3> HIDE DEF g
    <3>8. Records(g, audit', said')  BY <3>4, <3>5, <3>6 DEF Records
    <3> QED  BY <2>6, <3>4, <3>7, <3>8 DEF Recorded
  <2>8. CASE ~written
    <3>1. audit' = audit /\ asked' = asked  BY <1>3, <2>8 DEF RecordTranslation
    <3>2. f \in [DOMAIN audit' -> DOMAIN said'] /\ Records(f, audit', said')
      BY <2>1, <2>3, <3>1 DEF Records
    <3> QED  BY <2>6, <3>1, <3>2 DEF Recorded, WasAsked
  <2> QED  BY <2>7, <2>8
<1>4. CASE UNCHANGED <<turn, said, audit, asked>>
  BY <1>4 DEF Recorded, Records, WasAsked
<1> QED
  BY <1>1, <1>2, <1>3, <1>4 DEF TransNext, Wanted, ChangeSheet, transVars

LEMMA TransInvariant == TransSpec => []TransInv
<1>1. TransInv /\ [TransNext]_transVars => TransInv'
  BY TransTyped, StepSeeded, StepRecorded DEF TransInv
<1> QED
  BY <1>1, InitTransInv, PTL DEF TransSpec

\* In deterministic mode the hash alone decides the seed, for any number of
\* services, translations and earlier seeds.
THEOREM HashesDetermine == TransSpec => []HashDetermines
<1>1. TransInv => HashDetermines
  BY DEF TransInv, Seeded, HashDetermines
<1> QED
  BY <1>1, TransInvariant, PTL

\* The ledger's events are what the players were told, once each, for any number
\* of services and translations and whatever the character's state becomes.
THEOREM AuditsHold == TransSpec => []AuditIsWhatWasSaid
<1>1. TransInv => AuditIsWhatWasSaid
  BY DEF TransInv, Recorded, Records, WasAsked, AuditIsWhatWasSaid
<1> QED
  BY <1>1, TransInvariant, PTL

\* A translation can be traced, from its seed to its hash and from its event to what
\* was said, for any number of services and translations.
THEOREM TranslationsTraced == TransSpec => []Traceable
BY HashesDetermine, AuditsHold, PTL DEF Traceable

-----------------------------------------------------------------------------
(***************************************************************************)
(* What the validator lets through                                         *)
(***************************************************************************)
LEMMA FirstShown ==
  ASSUME NEW raw \in Seq(LineTypes), Shown(raw) # {}
  PROVE  Min(Shown(raw)) \in Shown(raw)
<1>1. Shown(raw) \in SUBSET Nat
  BY DEF Shown
<1> QED
  BY <1>1, LeastNumber DEF Min

\* The validator lets through one clean line of bounded length and nothing else, for
\* any output of the model, any mode and any bound.
THEOREM ValidatorIsExact ==
  ASSUME NEW raw \in Seq(LineTypes), MaxOutput \in Int
  PROVE  ValidatorExact(raw)
<1> DEFINE full == {i \in DOMAIN raw : raw[i].length > 0}
           text == Validate(raw)
           first == Min(Shown(raw))
<1>1. full \subseteq Shown(raw) /\ full = {i \in Shown(raw) : raw[i].length > 0}
  BY DEF Shown
<1>2. ASSUME text # NULL
      PROVE  /\ text.length > 0 /\ (MaxOutput >= 0 => text.length <= MaxOutput)
             /\ \E i \in full : /\ raw[i].length >= text.length /\ raw[i].kind = text.kind
                                /\ Strict => full = {i} /\ text.kind # "stage" /\ text.length = raw[i].length
  <2>1. Shown(raw) # {} /\ ~(Cut(raw[first].length) <= 0)
    BY <1>2 DEF Validate
  <2>2. first \in Shown(raw) /\ raw[first] \in LineTypes
    BY <2>1, FirstShown DEF Shown
  <2>3. text = [kind |-> raw[first].kind, length |-> Cut(raw[first].length)]
    BY <1>2, <2>1 DEF Validate
  <2>4. Strict => Shown(raw) = {first} /\ raw[first].kind # "stage" /\ ~(raw[first].length > MaxOutput)
    BY <1>2 DEF Validate
  <2> HIDE DEF first, text
  <2>5. /\ raw[first].length \in Nat /\ first \in full /\ Cut(raw[first].length) > 0
        /\ Cut(raw[first].length) <= raw[first].length
        /\ MaxOutput >= 0 => Cut(raw[first].length) <= MaxOutput
        /\ ~(raw[first].length > MaxOutput) => Cut(raw[first].length) = raw[first].length
    <3>1. raw[first].length \in Nat
      BY <2>2 DEF LineTypes
    <3>2. Cut(raw[first].length) > 0 /\ Cut(raw[first].length) <= raw[first].length
      BY <2>1, <3>1 DEF Cut
    <3> QED
      BY <1>1, <2>2, <3>1, <3>2 DEF Cut
  <2>6. Strict => full = {first}
    BY <1>1, <2>4, <2>5
  <2> QED
    BY <2>1, <2>3, <2>4, <2>5, <2>6
<1>3. ASSUME NEW i \in full, Shown(raw) = {i}, raw[i].kind = "speech", raw[i].length <= MaxOutput
      PROVE  text = [kind |-> "speech", length |-> raw[i].length]
  <2>1. first = i
    BY <1>3, FirstShown
  <2>2. raw[i].length \in Nat /\ raw[i].length > 0
    <3>1. i \in DOMAIN raw /\ raw[i].length > 0 /\ raw[i] \in LineTypes
      OBVIOUS
    <3> QED
      BY <3>1 DEF LineTypes
  <2>3. ~(raw[i].length > MaxOutput) /\ Cut(raw[i].length) = raw[i].length /\ ~(raw[i].length <= 0)
    BY <1>3, <2>2 DEF Cut
  <2> QED
    BY <1>3, <2>1, <2>3 DEF Validate
<1> QED
  BY <1>2, <1>3 DEF ValidatorExact

\* The laboratory shows the game's profile, for any axes and subset of them.
LEMMA LabShows ==
  ASSUME NEW axes
  PROVE  LabShowsTheGame(axes)
BY DEF LabShowsTheGame, LabProfile, Profile

-----------------------------------------------------------------------------
(***************************************************************************)
(* The start of a server                                                   *)
(***************************************************************************)
\* find_available_port returns a port that is not busy, or all are.
LEMMA PortFound ==
  ASSUME NEW preferred \in Nat, NEW busy
  PROVE  LET port == FindPort(preferred, busy, FirstPort, LastPort)
         IN /\ port \in Nat \cup {NULL}
            /\ port # NULL => port \notin busy
            /\ port = NULL => \A q \in FirstPort..LastPort : q \in busy
<1> DEFINE free == {p \in FirstPort..LastPort : p # preferred /\ p \notin busy}
<1>1. free \in SUBSET Nat  BY PortTypes
<1>2. free # {} => Min(free) \in free  BY <1>1, LeastNumber DEF Min
<1> QED
  BY <1>1, <1>2, PortTypes DEF FindPort

StartTypeOK ==
  /\ start \in [Starters -> [pc : {"down", "count", "admin", "axes", "discover", "bind", "serving"} \cup Exits,
                             port : Nat \cup {NULL}]]
  /\ rivals \in [Starters -> SUBSET {"account", "port", "range"}]

\* What p found, it finds still, or somebody took it since.
Foreseen ==
  \A p \in Starters :
    /\ start[p].pc = "admin" /\ Admin \in DOMAIN accounts => "account" \in rivals[p]
    /\ start[p].pc = "bind" /\ start[p].port \in Busy => "port" \in rivals[p]

StartInv == StartTypeOK /\ Foreseen /\ ExitsExplained

LEMMA InitStartInv == StartInit => StartInv
<1> SUFFICES ASSUME StartInit PROVE StartInv
  OBVIOUS
<1>1. start = [p \in Starters |-> [pc |-> "down", port |-> NULL]]
  BY DEF StartInit, Down
<1>2. rivals = [p \in Starters |-> {}]
  BY DEF StartInit
<1>3. StartTypeOK
  BY <1>1, <1>2 DEF StartTypeOK
<1> QED
  BY <1>1, <1>3 DEF StartInv, Foreseen, ExitsExplained

\* Ports become busy only when a server binds one.
LEMMA NoneBinds ==
  ASSUME foreign' = foreign,
         \A q \in Starters : start'[q].pc = "serving" => start[q].pc = "serving" /\ start'[q] = start[q]
  PROVE  Busy' \subseteq Busy
<1> SUFFICES ASSUME NEW port \in Busy', port \notin foreign PROVE port \in Busy
  BY DEF Busy
<1>1. PICK q \in Starters : start'[q].pc = "serving" /\ port = start'[q].port
  BY DEF Busy
<1> QED
  BY <1>1 DEF Busy

\* A step that moves p alone, to another place than the bind or the INSERT of the
\* first administrator, or nobody.
LEMMA Moves ==
  ASSUME StartInv, NEW p \in Starters, NEW s,
         s \in [pc : {"down", "count", "axes", "discover"} \cup Exits, port : Nat \cup {NULL}],
         start' = [start EXCEPT ![p] = s], foreign' = foreign,
         \A q \in Starters : q # p => rivals[q] \subseteq rivals'[q],
         rivals' \in [Starters -> SUBSET {"account", "port", "range"}],
         \A q \in Starters : q # p /\ accounts' # accounts => "account" \in rivals'[q],
         s.pc = "exited: account" => "account" \in rivals'[p],
         s.pc = "exited: port" => "port" \in rivals'[p],
         s.pc = "exited: range" => "range" \in rivals'[p]
  PROVE  StartInv'
<1> USE DEF StartInv, StartTypeOK
<1>1. start'[p] = s /\ \A q \in Starters : q # p => start'[q] = start[q]
  OBVIOUS
<1>2. start' \in [Starters -> [pc : {"down", "count", "admin", "axes", "discover", "bind", "serving"} \cup Exits,
                               port : Nat \cup {NULL}]]
  BY DEF Exits
<1>3. s.pc \notin {"admin", "bind", "serving"}
  BY DEF Exits
<1>4. Busy' \subseteq Busy
  BY <1>1, <1>3, NoneBinds
<1>5. Foreseen'
  BY <1>1, <1>3, <1>4 DEF Foreseen
<1>6. ExitsExplained'
  BY <1>1 DEF ExitsExplained
<1> QED
  BY <1>2, <1>5, <1>6

LEMMA StepStartInv == StartInv /\ [StartNext]_startVars => StartInv'
<1> SUFFICES ASSUME StartInv, [StartNext]_startVars PROVE StartInv'
  OBVIOUS
<1> USE DEF StartInv, StartTypeOK
<1>1. ASSUME NEW p \in Starters, CreateSchema(p) PROVE StartInv'
  <2> DEFINE s == [pc |-> "count", port |-> NULL]
  <2>1. start' = [start EXCEPT ![p] = s]
    BY <1>1 DEF CreateSchema
  <2> QED
    BY <1>1, <2>1, Moves DEF CreateSchema
<1>2. ASSUME NEW p \in Starters, CountUsers(p) PROVE StartInv'
  <2>1. CASE NeedsAdmin
    <3>1. start' = [start EXCEPT ![p] = [pc |-> "admin", port |-> start[p].port]]
      BY <1>2, <2>1 DEF CountUsers, At
    <3>2. start'[p].pc = "admin" /\ \A q \in Starters : q # p => start'[q] = start[q]
      BY <3>1
    <3>3. Busy' \subseteq Busy
      BY <1>2, <3>2, NoneBinds DEF CountUsers
    <3>4. StartTypeOK'
      BY <1>2, <3>1 DEF CountUsers
    <3>5. Foreseen'
      BY <1>2, <2>1, <3>2, <3>3 DEF CountUsers, NeedsAdmin, Foreseen
    <3>6. ExitsExplained'
      BY <1>2, <3>2 DEF CountUsers, ExitsExplained
    <3> QED
      BY <3>4, <3>5, <3>6
  <2>2. CASE ~NeedsAdmin
    <3> DEFINE s == [pc |-> "axes", port |-> start[p].port]
    <3>1. start' = [start EXCEPT ![p] = s]
      BY <1>2, <2>2 DEF CountUsers, At
    <3> QED
      BY <1>2, <3>1, Moves DEF CountUsers
  <2> QED
    BY <2>1, <2>2
<1>3. ASSUME NEW p \in Starters, InsertAdmin(p) PROVE StartInv'
  <2>1. CASE Admin \in DOMAIN accounts
    <3> DEFINE s == [pc |-> "exited: account", port |-> start[p].port]
    <3>1. start' = [start EXCEPT ![p] = s]
      BY <1>3, <2>1 DEF InsertAdmin, At
    <3>2. "account" \in rivals'[p]
      BY <1>3, <2>1 DEF InsertAdmin, Foreseen
    <3> QED
      BY <1>3, <2>1, <3>1, <3>2, Moves DEF InsertAdmin, Exits
  <2>2. CASE Admin \notin DOMAIN accounts
    <3> DEFINE s == [pc |-> "axes", port |-> start[p].port]
    <3>1. start' = [start EXCEPT ![p] = s]
      BY <1>3, <2>2 DEF InsertAdmin, At
    <3>2. rivals' = [q \in Starters |-> IF q = p THEN rivals[q] ELSE rivals[q] \cup {"account"}]
      BY <1>3, <2>2 DEF InsertAdmin, Took
    <3>3. rivals' \in [Starters -> SUBSET {"account", "port", "range"}]
      BY <3>2
    <3> QED
      BY <1>3, <2>2, <3>1, <3>2, <3>3, Moves DEF InsertAdmin
  <2> QED
    BY <2>1, <2>2
<1>4. ASSUME NEW p \in Starters, BootstrapAxes(p) PROVE StartInv'
  <2>1. PICK pc \in {"exited: policy", "discover"} :
          start' = [start EXCEPT ![p] = [pc |-> pc, port |-> start[p].port]]
    BY <1>4 DEF BootstrapAxes, At
  <2> DEFINE s == [pc |-> pc, port |-> start[p].port]
  <2>2. s \in [pc : {"down", "count", "axes", "discover"} \cup Exits, port : Nat \cup {NULL}]
    BY DEF Exits
  <2> QED
    BY <1>4, <2>1, <2>2, Moves DEF BootstrapAxes
<1>5. ASSUME NEW p \in Starters, Discover(p) PROVE StartInv'
  <2> DEFINE port == FindPort(Preferred[p], Busy, FirstPort, LastPort)
  <2>1. /\ port \in Nat \cup {NULL}
        /\ port # NULL => port \notin Busy
        /\ port = NULL => \A q \in FirstPort..LastPort : q \in Busy
    BY PortFound, PortTypes
  <2>2. start' = [start EXCEPT ![p] = [pc |-> IF port = NULL THEN "exited: range" ELSE "bind", port |-> port]]
    BY <1>5 DEF Discover
  <2> HIDE DEF port
  <2>3. port = NULL => "range" \in rivals'[p]
    BY <1>5, <2>1 DEF Discover
  <2>4. \A q \in Starters : q # p => start'[q] = start[q] /\ rivals'[q] = rivals[q]
    BY <1>5, <2>2 DEF Discover
  <2>5. rivals' \in [Starters -> SUBSET {"account", "port", "range"}]
    BY <1>5 DEF Discover
  <2>6. CASE port = NULL
    <3> DEFINE s == [pc |-> "exited: range", port |-> port]
    <3>1. start' = [start EXCEPT ![p] = s]
      BY <2>2, <2>6
    <3> QED
      BY <1>5, <2>1, <2>3, <2>4, <2>5, <2>6, <3>1, Moves DEF Discover, Exits
  <2>7. CASE port # NULL
    <3>1. start'[p] = [pc |-> "bind", port |-> port]
      BY <2>2, <2>7
    <3>2. Busy' \subseteq Busy
      BY <1>5, <2>4, <3>1, NoneBinds DEF Discover
    <3>3. StartTypeOK'
      BY <2>1, <2>2, <2>5, <2>7
    <3>4. Foreseen'
      BY <1>5, <2>1, <2>4, <2>7, <3>1, <3>2 DEF Discover, Foreseen
    <3>5. start'[p].pc = "bind"
      BY <3>1
    <3>6. ExitsExplained'
      BY <2>4, <3>5 DEF ExitsExplained
    <3> QED
      BY <3>3, <3>4, <3>6
  <2> QED
    BY <2>6, <2>7
<1>6. ASSUME NEW p \in Starters, Bind(p) PROVE StartInv'
  <2>1. CASE start[p].port \in Busy
    <3> DEFINE s == [pc |-> "exited: port", port |-> start[p].port]
    <3>1. start' = [start EXCEPT ![p] = s]
      BY <1>6, <2>1 DEF Bind, At
    <3>2. "port" \in rivals'[p]
      BY <1>6, <2>1 DEF Bind, Foreseen
    <3> QED
      BY <1>6, <2>1, <3>1, <3>2, Moves DEF Bind, Exits
  <2>2. CASE start[p].port \notin Busy
    <3>1. start' = [start EXCEPT ![p] = [pc |-> "serving", port |-> start[p].port]]
      BY <1>6, <2>2 DEF Bind, At
    <3>2. \A q \in Starters : q # p => start'[q] = start[q] /\ rivals'[q] = rivals[q] \cup {"port"}
      BY <1>6, <2>2, <3>1 DEF Bind, Took
    <3>3. start'[p].pc = "serving"
      BY <3>1
    <3>4. StartTypeOK'
      BY <1>6, <2>2, <3>1 DEF Bind, Took
    <3>5. Foreseen'
      BY <1>6, <3>2, <3>3 DEF Bind, Foreseen
    <3>6. ExitsExplained'
      BY <3>2, <3>3 DEF ExitsExplained
    <3> QED
      BY <3>4, <3>5, <3>6
  <2> QED
    BY <2>1, <2>2
<1>7. ASSUME NEW p \in Starters, Stop(p) PROVE StartInv'
  <2> DEFINE s == [pc |-> "down", port |-> NULL]
  <2>1. start' = [start EXCEPT ![p] = s]
    BY <1>7 DEF Stop, Down
  <2> QED
    BY <1>7, <2>1, Moves DEF Stop
<1>8. CASE CreateSuperuser
  <2>1. Busy' \subseteq Busy
    BY <1>8, NoneBinds DEF CreateSuperuser
  <2>2. CASE command \in DOMAIN accounts
    BY <1>8, <2>1, <2>2 DEF CreateSuperuser, Foreseen, ExitsExplained
  <2>3. CASE command \notin DOMAIN accounts
    <3>1. rivals' = [q \in Starters |-> rivals[q] \cup {"account"}]
      BY <1>8, <2>3 DEF CreateSuperuser
    <3>2. StartTypeOK'
      BY <1>8, <3>1 DEF CreateSuperuser
    <3> QED
      BY <1>8, <2>1, <3>1, <3>2 DEF CreateSuperuser, Foreseen, ExitsExplained
  <2> QED
    BY <2>2, <2>3
<1>9. CASE UNCHANGED <<foreign, accounts, start, rivals>>
  <2>1. Busy' = Busy
    BY <1>9 DEF Busy
  <2> QED
    BY <1>9, <2>1 DEF Foreseen, ExitsExplained
<1> QED
  BY <1>1, <1>2, <1>3, <1>4, <1>5, <1>6, <1>7, <1>8, <1>9
     DEF StartNext, CheckName, ActivateManifests, startVars

\* A start that ends before it serves lost a race, or found all ports taken, for any
\* number of servers, ports and starts.
THEOREM ExitsHold == StartSpec => []ExitsExplained
<1>1. StartInv => ExitsExplained
  BY DEF StartInv
<1> QED
  BY <1>1, InitStartInv, StepStartInv, PTL DEF StartSpec

-----------------------------------------------------------------------------
(***************************************************************************)
(* The generator's payload                                                 *)
(***************************************************************************)
LEMMA BoundsBounded ==
  ASSUME NEW b, {b.min, b.max} \subseteq Amount, b.min # NULL \/ b.max # NULL
  PROVE  Bounded(FromBounds(b)) \in 0..Full
<1>1. FromBounds(b) \in Int
  BY NullIsNoNumber DEF FromBounds, Amount
<1> QED
  BY <1>1, NullIsNoNumber DEF Bounded

\* A part of Full in d steps: within Full, and strictly growing while the steps
\* are not finer than Full.
LEMMA Portion ==
  ASSUME NEW d \in Nat \ {0}, NEW x \in 0..d
  PROVE  (x * Full) \div d \in 0..Full
<1> DEFINE q == (x * Full) \div d
<1>1. x * Full \in Nat /\ x * Full <= d * Full
  BY NullIsNoNumber
<1>2. q \in Int /\ q * d <= x * Full /\ x * Full < q * d + d
  BY <1>1
<1> QED
  BY <1>1, <1>2, NullIsNoNumber

LEMMA PortionGrows ==
  ASSUME NEW d \in Nat \ {0}, d <= Full, NEW x \in 0..d, NEW y \in 0..d, x < y
  PROVE  (x * Full) \div d < (y * Full) \div d
<1> DEFINE q == (x * Full) \div d  r == (y * Full) \div d
<1>1. x * Full \in Nat /\ y * Full \in Nat
  BY NullIsNoNumber
<1>2. /\ q \in Int /\ q * d <= x * Full
      /\ r \in Int /\ y * Full < r * d + d
  BY <1>1
<1>3. x * Full + Full <= y * Full
  <2>1. x + 1 <= y /\ Full \in Nat /\ x \in Nat /\ y \in Nat
    BY NullIsNoNumber
  <2>2. (x + 1) * Full <= y * Full
    BY <2>1
  <2>3. (x + 1) * Full = x * Full + Full
    BY <2>1
  <2> QED
    BY <2>2, <2>3
<1>4. q * d + d < r * d + d
  BY <1>1, <1>2, <1>3, NullIsNoNumber
<1> QED
  BY <1>2, <1>4

\* A label of an ordering has a score within Full.
LEMMA SpreadBounded ==
  ASSUME NEW o, o \in Seq(Range(o)), NEW l \in Range(o)
  PROVE  Spread(o, l) \in 0..Full
<1> DEFINE at == {i \in DOMAIN o : o[i] = l}  n == Len(o)
<1>1. n \in Nat /\ DOMAIN o = 1..n
  OBVIOUS
<1>2. PICK k \in Int : k = n + 1
  BY <1>1
<1>3. Max(at) \in 1..n
  <2>1. at # {} /\ at \in SUBSET (1..(k - 1))
    BY <1>1, <1>2 DEF Range
  <2> HIDE DEF at
  <2>2. Max(at) \in 1..(k - 1)
    BY <2>1, LastIndex
  <2> QED
    BY <1>1, <1>2, <2>2
<1>4. CASE n = 1
  <2>1. Full \div 2 \in 0..Full
    BY NullIsNoNumber
  <2> QED
    BY <1>4, <2>1 DEF Spread
<1>5. CASE n # 1
  <2>1. n - 1 \in Nat \ {0} /\ Max(at) - 1 \in 0..(n - 1)
    BY <1>1, <1>3, <1>5
  <2>2. ((Max(at) - 1) * Full) \div (n - 1) \in 0..Full
    BY <2>1, Portion
  <2> QED
    BY <1>5, <2>2 DEF Spread
<1> QED
  BY <1>4, <1>5

LEMMA ScoresBounded ==
  ASSUME NEW policy, WellFormed(policy), NEW axis, NEW l \in DOMAIN LabelScores(policy, axis)
  PROVE  LabelScores(policy, axis)[l] \in 0..Full
<1> DEFINE graded  == IF axis \in DOMAIN policy.thresholds THEN policy.thresholds[axis] ELSE <<>>
           usable  == {m \in DOMAIN graded : graded[m].min # NULL \/ graded[m].max # NULL}
           ordered == IF axis \in DOMAIN policy.axes THEN policy.axes[axis] ELSE <<>>
<1>1. LabelScores(policy, axis) =
        IF usable # {} THEN [m \in usable |-> Bounded(FromBounds(graded[m]))]
        ELSE [m \in Range(ordered) |-> Spread(ordered, m)]
  BY DEF LabelScores
<1>2. CASE usable # {}
  <2>1. l \in usable /\ LabelScores(policy, axis)[l] = Bounded(FromBounds(graded[l]))
    BY <1>1, <1>2
  <2>2. axis \in DOMAIN policy.thresholds /\ graded = policy.thresholds[axis]
    BY <2>1
  <2>3. {graded[l].min, graded[l].max} \subseteq Amount
    BY <2>1, <2>2 DEF WellFormed
  <2> QED
    BY <2>1, <2>3, BoundsBounded
<1>3. CASE usable = {}
  <2>1. l \in Range(ordered) /\ LabelScores(policy, axis)[l] = Spread(ordered, l)
    BY <1>1, <1>3
  <2>2. axis \in DOMAIN policy.axes /\ ordered = policy.axes[axis]
    BY <2>1 DEF Range
  <2>3. ordered \in Seq(Range(ordered))
    BY <2>2 DEF WellFormed
  <2> HIDE DEF ordered
  <2> QED
    BY <2>1, <2>3, SpreadBounded
<1> QED
  BY <1>2, <1>3

\* The labels of an ordering that no threshold overrides get growing scores, when there
\* are no more of them than scores.
LEMMA OrderKept ==
  ASSUME NEW policy, WellFormed(policy), NEW axis,
         axis \in DOMAIN policy.axes => Len(policy.axes[axis]) - 1 <= Full
  PROVE  LabelsKeepOrder(policy, axis)
<1> DEFINE scores == LabelScores(policy, axis)  o == policy.axes[axis]
<1>1. \A l \in DOMAIN scores : scores[l] \in 0..Full
  BY ScoresBounded
<1>2. ASSUME axis \in DOMAIN policy.axes, axis \notin DOMAIN policy.thresholds, IsInjective(o),
             NEW i \in DOMAIN o, NEW j \in DOMAIN o, i < j
      PROVE  scores[o[i]] < scores[o[j]]
  <2>1. scores = [m \in Range(o) |-> Spread(o, m)]
    BY <1>2 DEF LabelScores
  <2>2. o \in Seq(Range(o))
    BY <1>2 DEF WellFormed
  <2> DEFINE n == Len(o)
  <2>3. n \in Nat /\ DOMAIN o = 1..n /\ n > 1 /\ n # 1 /\ n - 1 <= Full
    BY <1>2, <2>2
  <2>4. ASSUME NEW k \in DOMAIN o PROVE scores[o[k]] = ((k - 1) * Full) \div (n - 1)
    <3>1. {m \in DOMAIN o : o[m] = o[k]} = {k}
      BY <1>2 DEF IsInjective
    <3>2. Max({k}) = k
      BY <2>3, <2>4 DEF Max
    <3> QED
      <4>1. scores[o[k]] = Spread(o, o[k])
        BY <2>1, <2>4 DEF Range
      <4>2. Max({m \in DOMAIN o : o[m] = o[k]}) = k
        BY <3>1, <3>2
      <4> HIDE DEF o, scores
      <4> QED
        BY <2>3, <4>1, <4>2 DEF Spread
  <2> HIDE DEF o, n, scores
  <2>5. n - 1 \in Nat \ {0} /\ i - 1 \in 0..(n - 1) /\ j - 1 \in 0..(n - 1) /\ i - 1 < j - 1
    BY <1>2, <2>3
  <2>6. ((i - 1) * Full) \div (n - 1) < ((j - 1) * Full) \div (n - 1)
    BY <2>3, <2>5, PortionGrows
  <2> QED
    BY <2>4, <2>6
<1> QED
  BY <1>1, <1>2 DEF LabelsKeepOrder

\* The six places in which Normalize looks for a name's score.
LEMMA Places ==
  ASSUME NEW policy, NEW payload, NEW n, NEW s,
         s = [i \in 1..3 |-> Stated(payload, Groups[i], n)] \o [i \in 1..3 |-> Graded(policy, payload, Groups[i], n)]
  PROVE  /\ DOMAIN s = 1..6
         /\ \A i \in 1..3 : /\ s[i] = Stated(payload, Groups[i], n)
                            /\ s[i + 3] = Graded(policy, payload, Groups[i], n)
<1> DEFINE a == [i \in 1..3 |-> Stated(payload, Groups[i], n)]
           b == [i \in 1..3 |-> Graded(policy, payload, Groups[i], n)]
           S == {a[i] : i \in 1..3} \cup {b[i] : i \in 1..3}
<1>1. a \in [1..3 -> S] /\ b \in [1..3 -> S] /\ 3 \in Nat
  OBVIOUS
<1>2. a \in Seq(S) /\ b \in Seq(S) /\ Len(a) = 3 /\ Len(b) = 3
  BY <1>1
<1>3. /\ Len(a \o b) = 6 /\ a \o b \in Seq(S)
      /\ \A i \in 1..6 : (a \o b)[i] = IF i <= 3 THEN a[i] ELSE b[i - 3]
  BY <1>2, ConcatProperties
<1>4. DOMAIN s = 1..6
  BY <1>3
<1>5. ASSUME NEW i \in 1..3 PROVE s[i] = a[i] /\ s[i + 3] = b[i]
  BY <1>3
<1> QED
  BY <1>4, <1>5

LEMMA NumbersFirst ==
  ASSUME NEW policy, WellFormed(policy), NEW payload
  PROVE  NumbersBeatLabels(policy, payload)
<1> DEFINE axes == Normalize(policy, payload)
           Gives(n, i)  == Stated(payload, Groups[i], n) # NULL
           Grades(n, i) == payload[Groups[i]][n].label \in DOMAIN LabelScores(policy, Token[n])
           ScoredAt(n) == [i \in 1..3 |-> Stated(payload, Groups[i], n)]
                      \o [i \in 1..3 |-> Graded(policy, payload, Groups[i], n)]
<1> SUFFICES ASSUME NEW n \in Names
             PROVE  IF \E i \in 1..3 : Gives(n, i)
                    THEN \E i \in 1..3 : /\ Gives(n, i) /\ \A j \in 1..(i - 1) : ~Gives(n, j)
                                         /\ n \in DOMAIN axes /\ axes[n] = payload[Groups[i]][n].score
                    ELSE IF \E i \in 1..3 : Grades(n, i)
                         THEN n \in DOMAIN axes /\ axes[n] \in 0..Full
                         ELSE n \notin DOMAIN axes
  BY DEF NumbersBeatLabels
<1>1. n \in DOMAIN axes <=> FirstOf(ScoredAt(n)) # NULL
  BY DEF Normalize
<1>2. n \in DOMAIN axes => axes[n] = FirstOf(ScoredAt(n))
  BY DEF Normalize
<1> HIDE DEF axes
<1>3. PICK s : s = ScoredAt(n)
  OBVIOUS
<1>4. /\ DOMAIN s = 1..6
      /\ \A i \in 1..3 : /\ s[i] = Stated(payload, Groups[i], n)
                         /\ s[i + 3] = Graded(policy, payload, Groups[i], n)
  BY <1>3, Places
<1> HIDE DEF At
<1>5. ASSUME NEW i \in 1..3
      PROVE  /\ Grades(n, i) => s[i + 3] \in 0..Full /\ s[i + 3] # NULL
             /\ ~Grades(n, i) => s[i + 3] = NULL
  <2> DEFINE l == payload[Groups[i]][n].label  scores == LabelScores(policy, Token[n])
  <2>1. s[i + 3] = IF l \in DOMAIN scores THEN scores[l] ELSE NULL
    BY <1>4 DEF Graded
  <2>2. l \in DOMAIN scores => scores[l] \in 0..Full
    BY ScoresBounded
  <2> HIDE DEF l, scores
  <2>3. \A x \in 0..Full : x # NULL
    BY NullIsNoNumber
  <2> QED
    BY <2>1, <2>2, <2>3 DEF l, scores
<1>6. CASE \A i \in DOMAIN s : s[i] = NULL /\ FirstOf(s) = NULL
  <2>1. FirstOf(s) = NULL /\ \A i \in 1..3 : s[i] = NULL /\ s[i + 3] = NULL
    BY <1>4, <1>6
  <2> QED
    BY <1>1, <1>3, <1>4, <1>5, <2>1
<1>7. ASSUME NEW i \in DOMAIN s, s[i] # NULL, FirstOf(s) = s[i], \A j \in DOMAIN s : j < i => s[j] = NULL
      PROVE  IF \E k \in 1..3 : Gives(n, k)
             THEN \E k \in 1..3 : /\ Gives(n, k) /\ \A j \in 1..(k - 1) : ~Gives(n, j)
                                  /\ n \in DOMAIN axes /\ axes[n] = payload[Groups[k]][n].score
             ELSE IF \E k \in 1..3 : Grades(n, k)
                  THEN n \in DOMAIN axes /\ axes[n] \in 0..Full
                  ELSE n \notin DOMAIN axes
  <2>1. n \in DOMAIN axes /\ axes[n] = s[i]
    BY <1>1, <1>2, <1>3, <1>7
  <2>2. CASE i \in 1..3
    <3>1. Gives(n, i) /\ axes[n] = payload[Groups[i]][n].score
      BY <1>4, <1>7, <2>1, <2>2 DEF Stated
    <3>2. \A j \in 1..(i - 1) : j \in DOMAIN s /\ j < i /\ j \in 1..3
      BY <1>4, <2>2
    <3>3. \A j \in 1..(i - 1) : ~Gives(n, j)
      BY <1>4, <1>7, <3>2
    <3> QED
      BY <2>1, <2>2, <3>1, <3>3
  <2>3. CASE i \notin 1..3
    <3>1. i \in 4..6 /\ i - 3 \in 1..3 /\ i - 3 + 3 = i
      BY <1>4, <1>7, <2>3
    <3>2. \A j \in 1..3 : j \in DOMAIN s /\ j < i
      BY <1>4, <3>1
    <3>3. \A j \in 1..3 : ~Gives(n, j)
      BY <1>4, <1>7, <3>2
    <3>4. Grades(n, i - 3) /\ s[i] \in 0..Full
      BY <1>5, <1>7, <3>1
    <3> QED
      BY <2>1, <3>1, <3>3, <3>4
  <2> QED
    BY <2>2, <2>3
<1>8. DOMAIN s \subseteq Nat
  BY <1>4
<1> QED
  BY <1>6, <1>7, <1>8, FirstFound

\* The generator's answer is read as the policy says, for every policy and every
\* payload: numbers beat labels, labels get scores within Full that grow along
\* their ordering.
THEOREM PayloadIsRead ==
  ASSUME NEW policy, WellFormed(policy), Graduated(policy), NEW payload
  PROVE  NumbersBeatLabels(policy, payload) /\ \A axis : LabelsKeepOrder(policy, axis)
BY NumbersFirst, OrderKept DEF Graduated

-----------------------------------------------------------------------------
(***************************************************************************)
(* The condition axis service                                              *)
(***************************************************************************)
Calls == [pc : {"idle", "policy", "post"}, wanted : {NULL} \cup Bundles, ok : BOOLEAN,
          bundle : {NULL, "broken"} \cup Bundles, attempt : 0..MaxAttempts]

GenTypeOK ==
  /\ metrics \in [Counters -> Nat]
  /\ call \in [Threads -> Calls]
  /\ active \in {NULL, "broken"} \cup Bundles
  /\ answer = [t \in Threads |-> answer[t]]
  /\ \A t \in Threads : call[t].pc = "post" => call[t].attempt \in 1..MaxAttempts

LEMMA Rests == AtRest \in Calls /\ AtRest.pc = "idle"
BY AttemptsType DEF AtRest, Calls

LEMMA Asks ==
  ASSUME NEW wanted \in {NULL} \cup Bundles, NEW okay \in BOOLEAN,
         NEW request, request = [AtRest EXCEPT !.pc = "policy", !.wanted = wanted, !.ok = okay]
  PROVE  request \in Calls /\ request.pc = "policy"
BY Rests DEF Calls

LEMMA MetricsTyped ==
  ASSUME GenTypeOK, NEW c \in Counters, Record(c)
  PROVE  metrics' \in [Counters -> Nat]
BY DEF GenTypeOK, Record

LEMMA AnswerTyped ==
  ASSUME GenTypeOK, NEW t \in Threads, NEW status, NEW bundle, NEW axes, Answer(t, status, bundle, axes),
         metrics' \in [Counters -> Nat], UNCHANGED active
  PROVE  GenTypeOK'
<1>1. call' \in [Threads -> Calls] /\ \A u \in Threads : call'[u] = IF u = t THEN AtRest ELSE call[u]
  BY Rests DEF Answer, GenTypeOK
<1>2. answer' = [u \in Threads |-> answer'[u]]
  BY DEF Answer, GenTypeOK
<1> QED
  BY <1>1, <1>2, Rests DEF GenTypeOK

LEMMA GenTyped == GenTypeOK /\ [GenNext]_genVars => GenTypeOK'
<1> SUFFICES ASSUME GenTypeOK, [GenNext]_genVars PROVE GenTypeOK'
  OBVIOUS
<1>1. ASSUME NEW t \in Threads, NEW r \in Requests, BeginGeneration(t, r.seed, r.wanted, r.strict, r.inputs)
      PROVE  GenTypeOK'
  <2>1. r.wanted \in {NULL} \cup Bundles
    BY DEF Requests
  <2>2. CASE Refuse(t, 422)
    BY <1>1, <2>2, AnswerTyped DEF BeginGeneration, Refuse, GenTypeOK
  <2>3. CASE UNCHANGED answer /\ call' = [call EXCEPT ![t] =
               [AtRest EXCEPT !.pc = "policy", !.wanted = r.wanted, !.ok = ~r.strict \/ ValidInputs(r.inputs)]]
    <3>1. PICK okay \in BOOLEAN : okay = (~r.strict \/ ValidInputs(r.inputs))
      BY Zenon
    <3>2. PICK request : request = [AtRest EXCEPT !.pc = "policy", !.wanted = r.wanted, !.ok = okay]
      OBVIOUS
    <3>3. request \in Calls /\ request.pc = "policy"
      BY <2>1, <3>2, Asks
    <3>4. call' = [call EXCEPT ![t] = request]
      BY <2>3, <3>1, <3>2, Zenon
    <3> QED
      BY <1>1, <2>3, <3>3, <3>4 DEF BeginGeneration, GenTypeOK
  <2> QED
    BY <1>1, <2>2, <2>3 DEF BeginGeneration
<1>2. ASSUME NEW t \in Threads, ResolvePolicy(t) PROVE GenTypeOK'
  <2>1. CASE \E status : Refuse(t, status) /\ UNCHANGED metrics
    BY <1>2, <2>1, AnswerTyped DEF ResolvePolicy, Refuse, GenTypeOK
  <2>2. CASE /\ call' = [call EXCEPT ![t] = [@ EXCEPT !.pc = "post", !.bundle = active, !.attempt = 1]]
             /\ Record("requests")
             /\ UNCHANGED answer
    <3> DEFINE posting == [call[t] EXCEPT !.pc = "post", !.bundle = active, !.attempt = 1]
    <3>1. posting \in Calls /\ posting.attempt \in 1..MaxAttempts
      <4>1. call[t] \in Calls /\ active \in {NULL, "broken"} \cup Bundles
        BY DEF GenTypeOK
      <4>2. 1 \in 0..MaxAttempts /\ 1 \in 1..MaxAttempts
        BY AttemptsType
      <4> QED
        BY <4>1, <4>2 DEF Calls
    <3>2. call' = [call EXCEPT ![t] = posting]
      BY <2>2
    <3>3. metrics' \in [Counters -> Nat]
      BY <2>2, MetricsTyped DEF Counters
    <3> HIDE DEF posting
    <3> QED
      BY <1>2, <2>2, <3>1, <3>2, <3>3 DEF ResolvePolicy, GenTypeOK
  <2> QED
    BY <1>2, <2>1, <2>2 DEF ResolvePolicy
<1>3. ASSUME NEW t \in Threads, NEW outcome, Retry(t, outcome), UNCHANGED active PROVE GenTypeOK'
  <2> DEFINE again == [call[t] EXCEPT !.attempt = call[t].attempt + 1]
  <2>1. again \in Calls /\ again.attempt \in 1..MaxAttempts
    BY <1>3, AttemptsType DEF GenTypeOK, Calls, Retry
  <2>2. call' = [call EXCEPT ![t] = again]
    BY <1>3 DEF Retry
  <2>3. metrics' \in [Counters -> Nat]
    BY <1>3, MetricsTyped DEF Counters, Retry
  <2> HIDE DEF again
  <2> QED
    BY <1>3, <2>1, <2>2, <2>3 DEF Retry, GenTypeOK
<1>4. ASSUME NEW t \in Threads, NEW outcome \in Ended, Record(outcome), NEW bundle, NEW axes, NEW status,
             Answer(t, status, bundle, axes), UNCHANGED active
      PROVE  GenTypeOK'
  BY <1>4, AnswerTyped, MetricsTyped DEF Counters
<1>5. ASSUME NEW t \in Threads, NEW outcome \in Retriable, PostFails(t, outcome) PROVE GenTypeOK'
  BY <1>3, <1>4, <1>5 DEF PostFails, Refuse, Retriable, Ended
<1>6. ASSUME NEW t \in Threads, Posted(t) PROVE GenTypeOK'
  BY <1>4, <1>5, <1>6 DEF Posted, PostRefused, PostUnreadable, PostSucceeds, Refuse, Ended
<1>7. ASSUME NEW b \in Bundles \cup {NULL, "broken"}, ActivateBundle(b) PROVE GenTypeOK'
  BY <1>7 DEF ActivateBundle, GenTypeOK
<1>8. CASE UNCHANGED genVars
  BY <1>8 DEF genVars, GenTypeOK
<1> QED
  BY <1>1, <1>2, <1>6, <1>7, <1>8 DEF GenNext

\* The outcomes so far, and the attempts that requests in flight have left.
Settled  == metrics["timeouts"] + metrics["exceptions"] + metrics["unsupported"]
              + metrics["http"] + metrics["json"] + metrics["shape"] + metrics["success"]
Attempts == {p \in Threads \X (1..(MaxAttempts - 1)) : p[1] \in InFlight /\ call[p[1]].attempt <= p[2]}

\* An attempt that is left may still become a retry.
Accounted ==
  /\ IsFiniteSet(InFlight) /\ IsFiniteSet(Attempts)
  /\ metrics["requests"] = Settled + Cardinality(InFlight)
  /\ metrics["retries"] + Cardinality(Attempts) <= (MaxAttempts - 1) * metrics["requests"]

\* A thread that is in flight ends its request under one outcome.
LEMMA EndCounts ==
  ASSUME GenTypeOK, Accounted, NEW t \in Threads, call[t].pc = "post", NEW c \in Ended, Record(c),
         NEW status, NEW bundle, NEW axes, Answer(t, status, bundle, axes)
  PROVE  Accounted'
<1>1. \A u \in Threads : call'[u] = IF u = t THEN AtRest ELSE call[u]
  BY DEF Answer, GenTypeOK
<1>2. InFlight' = InFlight \ {t} /\ t \in InFlight
  BY <1>1, Rests DEF InFlight
<1>3. Attempts' \subseteq Attempts
  BY <1>1, <1>2 DEF Attempts, InFlight
<1>4. /\ IsFiniteSet(InFlight') /\ Cardinality(InFlight') = Cardinality(InFlight) - 1
      /\ Cardinality(InFlight) \in Nat
  BY <1>2, FS_RemoveElement, FS_CardinalityType DEF Accounted
<1>5. /\ IsFiniteSet(Attempts') /\ Cardinality(Attempts') <= Cardinality(Attempts)
      /\ Cardinality(Attempts') \in Nat /\ Cardinality(Attempts) \in Nat
  BY <1>3, FS_Subset, FS_CardinalityType DEF Accounted
<1>6. \A d \in Counters : metrics[d] \in Nat /\ metrics'[d] = IF d = c THEN metrics[d] + 1 ELSE metrics[d]
  BY DEF GenTypeOK, Record
<1>7. Settled' = Settled + 1 /\ metrics'["requests"] = metrics["requests"] /\ metrics'["retries"] = metrics["retries"]
  BY <1>6 DEF Settled, Ended, Counters
<1>8. Settled \in Nat /\ metrics["retries"] \in Nat
  BY <1>6 DEF Settled, Ended, Counters
<1>9. metrics'["requests"] = Settled' + Cardinality(InFlight')
  BY <1>4, <1>7, <1>8 DEF Accounted
<1>10. metrics'["retries"] + Cardinality(Attempts') <= (MaxAttempts - 1) * metrics'["requests"]
  <2> DEFINE bound == (MaxAttempts - 1) * metrics["requests"]
  <2>1. bound \in Int /\ metrics["retries"] + Cardinality(Attempts) <= bound
    BY <1>6, AttemptsType DEF Accounted, Counters
  <2>2. (MaxAttempts - 1) * metrics'["requests"] = bound
    BY <1>7
  <2> HIDE DEF bound
  <2> QED
    BY <1>5, <1>7, <1>8, <2>1, <2>2
<1> QED
  BY <1>4, <1>5, <1>9, <1>10 DEF Accounted

\* A retry uses one of the attempts that were left.
LEMMA RetryCounts ==
  ASSUME GenTypeOK, Accounted, NEW t \in Threads, call[t].pc = "post", NEW outcome, Retry(t, outcome)
  PROVE  Accounted'
<1> DEFINE k == call[t].attempt
<1>1. k \in 1..(MaxAttempts - 1)
  BY AttemptsType DEF GenTypeOK, Retry
<1>2. /\ \A u \in Threads : call'[u].pc = call[u].pc
      /\ \A u \in Threads : call'[u].attempt = IF u = t THEN k + 1 ELSE call[u].attempt
  BY DEF Retry, GenTypeOK, Calls
<1>3. InFlight' = InFlight /\ t \in InFlight
  BY <1>2 DEF InFlight
<1>4. Attempts' = Attempts \ {<<t, k>>} /\ <<t, k>> \in Attempts
  <2>1. <<t, k>> \in Attempts
    BY <1>1, <1>3 DEF Attempts
  <2>2. ASSUME NEW u \in Threads, NEW i \in 1..(MaxAttempts - 1), u \in InFlight
        PROVE  call'[u].attempt <= i <=> call[u].attempt <= i /\ ~(u = t /\ i = k)
    <3>1. CASE u = t
      BY <1>1, <1>2, <3>1
    <3>2. CASE u # t
      BY <1>2, <3>2
    <3> QED
      BY <3>1, <3>2
  <2>3. ASSUME NEW p PROVE p \in Attempts' <=> p \in Attempts /\ p # <<t, k>>
    <3>1. CASE p \in Threads \X (1..(MaxAttempts - 1))
      BY <1>3, <2>2, <3>1 DEF Attempts
    <3>2. CASE p \notin Threads \X (1..(MaxAttempts - 1))
      BY <3>2 DEF Attempts
    <3> QED
      BY <3>1, <3>2
  <2> HIDE DEF k
  <2> QED
    BY <2>1, <2>3
<1>5. /\ IsFiniteSet(Attempts') /\ Cardinality(Attempts') = Cardinality(Attempts) - 1
      /\ Cardinality(Attempts) \in Nat
  BY <1>4, FS_RemoveElement, FS_CardinalityType DEF Accounted
<1>6. \A d \in Counters : metrics[d] \in Nat /\ metrics'[d] = IF d = "retries" THEN metrics[d] + 1 ELSE metrics[d]
  BY DEF GenTypeOK, Retry, Record
<1>7. /\ Settled' = Settled /\ metrics'["requests"] = metrics["requests"]
      /\ metrics'["retries"] = metrics["retries"] + 1 /\ metrics["retries"] \in Nat
  BY <1>6 DEF Settled, Ended, Counters
<1>8. metrics'["retries"] + Cardinality(Attempts') = metrics["retries"] + Cardinality(Attempts)
  BY <1>5, <1>7
<1> QED
  BY <1>3, <1>5, <1>7, <1>8 DEF Accounted

\* A thread that joins has all its retries left.
LEMMA JoinCounts ==
  ASSUME GenTypeOK, Accounted, NEW t \in Threads, call[t].pc = "policy", Record("requests"),
         call' = [call EXCEPT ![t] = [@ EXCEPT !.pc = "post", !.bundle = active, !.attempt = 1]]
  PROVE  Accounted'
<1> DEFINE n == MaxAttempts - 1  own == {t} \X (1..n)
<1>1. /\ call'[t].pc = "post" /\ call'[t].attempt = 1
      /\ \A u \in Threads : u # t => call'[u] = call[u]
  BY DEF GenTypeOK, Calls
<1>2. InFlight' = InFlight \cup {t} /\ t \notin InFlight
  BY <1>1 DEF InFlight
<1>3. Attempts' = Attempts \cup own /\ Attempts \cap own = {}
  <2>1. ASSUME NEW p PROVE p \in Attempts' <=> p \in Attempts \/ p \in own
    <3>1. CASE p \in Threads \X (1..n) /\ p[1] = t
      BY <1>1, <1>2, <3>1 DEF Attempts
    <3>2. CASE p \in Threads \X (1..n) /\ p[1] # t
      BY <1>1, <1>2, <3>2 DEF Attempts
    <3>3. CASE p \notin Threads \X (1..n)
      BY <3>3 DEF Attempts
    <3> QED
      BY <3>1, <3>2, <3>3
  <2>2. \A p \in Attempts : p \notin own
    BY <1>2 DEF Attempts
  <2> QED
    BY <2>1, <2>2
<1>4. n \in Nat
  BY AttemptsType
<1>5. IsFiniteSet(own) /\ Cardinality(own) = n
  <2>1. IsFiniteSet({t}) /\ Cardinality({t}) = 1
    BY FS_Singleton
  <2>2. IsFiniteSet(1..n) /\ Cardinality(1..n) = n
    BY <1>4, FS_Interval
  <2>3. IsFiniteSet(own) /\ Cardinality(own) = Cardinality({t}) * Cardinality(1..n)
    BY <2>1, <2>2, FS_Product
  <2> QED
    BY <1>4, <2>1, <2>2, <2>3
<1> HIDE DEF n, own
<1>6. /\ IsFiniteSet(Attempts') /\ Cardinality(Attempts') = Cardinality(Attempts) + n
      /\ Cardinality(Attempts) \in Nat
  <2>1. Cardinality(Attempts \cap own) = 0
    BY <1>3, FS_EmptySet
  <2>2. /\ IsFiniteSet(Attempts \cup own)
        /\ Cardinality(Attempts \cup own) = Cardinality(Attempts) + Cardinality(own) - Cardinality(Attempts \cap own)
        /\ Cardinality(Attempts) \in Nat
    BY <1>5, FS_Union, FS_CardinalityType DEF Accounted
  <2> QED
    BY <1>3, <1>4, <1>5, <2>1, <2>2
<1>7. /\ IsFiniteSet(InFlight') /\ Cardinality(InFlight') = Cardinality(InFlight) + 1
      /\ Cardinality(InFlight) \in Nat
  BY <1>2, FS_AddElement, FS_CardinalityType DEF Accounted
<1>8. \A d \in Counters : metrics[d] \in Nat /\ metrics'[d] = IF d = "requests" THEN metrics[d] + 1 ELSE metrics[d]
  BY DEF GenTypeOK, Record
<1>9. /\ Settled' = Settled /\ Settled \in Nat /\ metrics'["retries"] = metrics["retries"]
      /\ metrics'["requests"] = metrics["requests"] + 1 /\ metrics["requests"] \in Nat
      /\ metrics["retries"] \in Nat
  BY <1>8 DEF Settled, Ended, Counters
<1>10. metrics'["requests"] = Settled' + Cardinality(InFlight')
  BY <1>7, <1>9 DEF Accounted
<1>11. n * metrics'["requests"] = n * metrics["requests"] + n /\ n * metrics["requests"] \in Nat
  BY <1>4, <1>9
<1>12. metrics["retries"] + Cardinality(Attempts) <= n * metrics["requests"]
  BY DEF Accounted, n
<1>13. metrics'["retries"] + Cardinality(Attempts') <= n * metrics'["requests"]
  BY <1>4, <1>6, <1>9, <1>11, <1>12
<1> QED
  BY <1>6, <1>7, <1>10, <1>13 DEF Accounted, n

\* Who is not in flight, and does not join, counts for nothing.
LEMMA RestCounts ==
  ASSUME Accounted, UNCHANGED metrics,
         \A u \in Threads : (call[u].pc = "post" \/ call'[u].pc = "post") => call'[u] = call[u]
  PROVE  Accounted'
<1>1. InFlight' = InFlight
  BY DEF InFlight
<1>2. Attempts' = Attempts
  BY <1>1 DEF Attempts, InFlight
<1> QED
  BY <1>1, <1>2 DEF Accounted, Settled

LEMMA StaysAccounted == GenTypeOK /\ Accounted /\ [GenNext]_genVars => Accounted'
<1> SUFFICES ASSUME GenTypeOK, Accounted, [GenNext]_genVars PROVE Accounted'
  OBVIOUS
<1>1. ASSUME NEW t \in Threads, NEW status, NEW bundle, NEW axes, Answer(t, status, bundle, axes),
             UNCHANGED metrics, call[t].pc # "post"
      PROVE  Accounted'
  <2>1. \A u \in Threads : call'[u] = IF u = t THEN AtRest ELSE call[u]
    BY <1>1 DEF Answer, GenTypeOK
  <2> QED
    BY <1>1, <2>1, Rests, RestCounts
<1>2. ASSUME NEW t \in Threads, NEW r \in Requests, BeginGeneration(t, r.seed, r.wanted, r.strict, r.inputs)
      PROVE  Accounted'
  <2>1. CASE Refuse(t, 422)
    BY <1>1, <1>2, <2>1 DEF BeginGeneration, Refuse
  <2>2. CASE call' = [call EXCEPT ![t] =
               [AtRest EXCEPT !.pc = "policy", !.wanted = r.wanted, !.ok = ~r.strict \/ ValidInputs(r.inputs)]]
    <3>1. call'[t].pc = "policy" /\ \A u \in Threads : u # t => call'[u] = call[u]
      BY <2>2 DEF GenTypeOK, AtRest
    <3> QED
      BY <1>2, <3>1, RestCounts DEF BeginGeneration
  <2> QED
    BY <1>2, <2>1, <2>2 DEF BeginGeneration
<1>3. ASSUME NEW t \in Threads, ResolvePolicy(t) PROVE Accounted'
  <2>1. CASE \E status : Refuse(t, status) /\ UNCHANGED metrics
    BY <1>1, <1>3, <2>1 DEF ResolvePolicy, Refuse
  <2>2. CASE /\ call' = [call EXCEPT ![t] = [@ EXCEPT !.pc = "post", !.bundle = active, !.attempt = 1]]
             /\ Record("requests")
    BY <1>3, <2>2, JoinCounts DEF ResolvePolicy
  <2> QED
    BY <1>3, <2>1, <2>2 DEF ResolvePolicy
<1>4. ASSUME NEW t \in Threads, NEW outcome \in Retriable, PostFails(t, outcome) PROVE Accounted'
  BY <1>4, RetryCounts, EndCounts DEF PostFails, Refuse, Retriable, Ended
<1>5. ASSUME NEW t \in Threads, Posted(t) PROVE Accounted'
  BY <1>4, <1>5, EndCounts DEF Posted, PostRefused, PostUnreadable, PostSucceeds, Refuse, Ended
<1>6. ASSUME NEW b \in Bundles \cup {NULL, "broken"}, ActivateBundle(b) PROVE Accounted'
  BY <1>6, RestCounts DEF ActivateBundle
<1>7. CASE UNCHANGED genVars
  BY <1>7, RestCounts DEF genVars
<1> QED
  BY <1>2, <1>3, <1>5, <1>6, <1>7 DEF GenNext

LEMMA InitAccounted == GenInit => GenTypeOK /\ Accounted
<1> SUFFICES ASSUME GenInit PROVE GenTypeOK /\ Accounted
  OBVIOUS
<1>1. InFlight = {} /\ Attempts = {}
  BY Rests DEF GenInit, InFlight, Attempts
<1>2. IsFiniteSet({}) /\ Cardinality({}) = 0
  BY FS_EmptySet
<1>3. \A c \in Counters : metrics[c] = 0
  BY DEF GenInit
<1>4. Settled = 0 /\ metrics["requests"] = 0 /\ metrics["retries"] = 0
  BY <1>3 DEF Settled, Counters, Ended
<1>5. (MaxAttempts - 1) * 0 = 0
  BY AttemptsType
<1>6. GenTypeOK
  BY Rests DEF GenInit, GenTypeOK
<1> QED
  BY <1>1, <1>2, <1>4, <1>5, <1>6 DEF Accounted

\* Every request that reached the generator is counted under one outcome or in
\* flight, and retries stay within their bound, for any number of threads,
\* bundles, attempts and requests.
THEOREM RequestsAreCounted == GenSpec => []EachCountedOnce
<1>1. GenTypeOK /\ Accounted => EachCountedOnce
  <2> SUFFICES ASSUME GenTypeOK, Accounted PROVE EachCountedOnce
    OBVIOUS
  <2>1. Cardinality(Attempts) \in Nat
    BY FS_CardinalityType DEF Accounted
  <2>2. metrics["retries"] \in Nat /\ metrics["requests"] \in Nat
    BY DEF GenTypeOK, Counters
  <2>3. (MaxAttempts - 1) * metrics["requests"] \in Int
    BY <2>2, AttemptsType
  <2> QED
    BY <2>1, <2>2, <2>3 DEF Accounted, EachCountedOnce, Settled
<1> QED
  BY <1>1, InitAccounted, GenTyped, StaysAccounted, PTL DEF GenSpec

LEMMA AnswerFits ==
  ASSUME GenTypeOK, AnswersFitTheirBundle, NEW t \in Threads, NEW status, NEW bundle, NEW axes,
         Answer(t, status, bundle, axes),
         status = 200 => MissingAxes(Policy[bundle], axes) = {}
  PROVE  AnswersFitTheirBundle'
<1>1. \A u \in Threads : answer'[u] = IF u = t THEN [status |-> status, bundle |-> bundle, axes |-> axes]
                                       ELSE answer[u]
  BY DEF Answer, GenTypeOK
<1>2. \A b, x : MissingAxes(Policy[b], x)' = MissingAxes(Policy[b], x)
  BY DEF MissingAxes, RequiredAxes
<1> QED
  BY <1>1, <1>2 DEF AnswersFitTheirBundle

\* The generator's answers are complete for the bundle they name, for any bundles,
\* payloads and activations in between.
THEOREM AnswersFit == GenSpec => []AnswersFitTheirBundle
<1>1. GenInit => AnswersFitTheirBundle
  BY DEF GenInit, AnswersFitTheirBundle
<1>2. GenTypeOK /\ AnswersFitTheirBundle /\ [GenNext]_genVars => AnswersFitTheirBundle'
  <2> SUFFICES ASSUME GenTypeOK, AnswersFitTheirBundle, [GenNext]_genVars PROVE AnswersFitTheirBundle'
    OBVIOUS
  <2>1. ASSUME NEW t \in Threads, NEW status \in {422, 404, 501, 502, 504}, Refuse(t, status)
        PROVE  AnswersFitTheirBundle'
    <3>1. Answer(t, status, NULL, <<>>) /\ status # 200
      BY <2>1 DEF Refuse
    <3> QED
      BY <3>1, AnswerFits
  <2>2. CASE UNCHANGED answer
    BY <2>2 DEF AnswersFitTheirBundle, MissingAxes, RequiredAxes
  <2>3. ASSUME NEW t \in Threads, NEW payload \in Payloads, PostSucceeds(t, payload)
        PROVE  AnswersFitTheirBundle'
    <3> DEFINE axes == Normalize(Policy[call[t].bundle], payload)
    <3>1. \/ Refuse(t, 502)
          \/ /\ MissingAxes(Policy[call[t].bundle], axes) = {}
             /\ Answer(t, 200, call[t].bundle, axes)
      BY <2>3 DEF PostSucceeds, CompletedWith
    <3> HIDE DEF axes
    <3> QED
      BY <2>1, <3>1, AnswerFits
  <2>4. ASSUME NEW t \in Threads, Posted(t) PROVE AnswersFitTheirBundle'
    BY <2>1, <2>2, <2>3, <2>4 DEF Posted, PostFails, PostRefused, PostUnreadable, Retry
  <2>5. ASSUME NEW t \in Threads, ResolvePolicy(t) PROVE AnswersFitTheirBundle'
    BY <2>1, <2>2, <2>5 DEF ResolvePolicy
  <2>6. ASSUME NEW t \in Threads, NEW r \in Requests,
               BeginGeneration(t, r.seed, r.wanted, r.strict, r.inputs)
        PROVE  AnswersFitTheirBundle'
    BY <2>1, <2>2, <2>6 DEF BeginGeneration
  <2> QED
    BY <2>2, <2>4, <2>5, <2>6 DEF GenNext, ActivateBundle, genVars
<1>3. GenInit => GenTypeOK
  BY InitAccounted
<1> QED
  BY <1>1, <1>2, <1>3, GenTyped, PTL DEF GenSpec

-----------------------------------------------------------------------------
(***************************************************************************)
(* The axis state of a character                                           *)
(***************************************************************************)
AllAxes == UNION {DOMAIN policy.axes : policy \in Registries}
Deltas   == UNION {[S -> Int] : S \in SUBSET AllAxes}
Happenings == UNION {[S -> [old : Int, new : Int, delta : Int]] : S \in SUBSET AllAxes}

\* An axis whose values have bounds that are numbers, or none.
Measured(n) == \A l \in DOMAIN registry[n] : {registry[n][l].min, registry[n][l].max} \subseteq Amount

AxisTypeOK ==
  /\ DOMAIN registry \subseteq AllAxes /\ \A n \in DOMAIN registry : Measured(n)
  /\ score \in Deltas
  /\ events \in Seq(Happenings)
  /\ pending = [w \in Writers |-> pending[w]]
  /\ \A w \in Writers : pending[w] # NULL => pending[w].deltas \in Deltas

\* Before the character is created nothing happens to it; then every event takes the
\* next seed.
Counted ==
  /\ base = NULL => events = <<>> /\ current = NULL /\ \A w \in Writers : pending[w] = NULL
  /\ base # NULL => base.seed = 1 /\ seed = 1 + Len(events)

\* FirstOf of two.
LEMMA FirstOfTwo ==
  ASSUME NEW a, NEW b
  PROVE  FirstOf(<<a, b>>) = IF a # NULL THEN a ELSE b
<1> DEFINE s == <<a, b>>  given == {i \in DOMAIN s : s[i] # NULL}
<1>1. DOMAIN s = {1, 2} /\ s[1] = a /\ s[2] = b
  OBVIOUS
<1> HIDE DEF s
<1>2. given = {} => a = NULL /\ b = NULL
  BY <1>1
<1>3. CASE a # NULL
  <2>1. 1 \in given /\ \A j \in given : 1 <= j
    BY <1>1, <1>3
  <2>2. \A i \in given : (\A j \in given : i <= j) => i = 1
    BY <1>1, <2>1
  <2>3. (CHOOSE i \in given : \A j \in given : i <= j) = 1
    BY <2>1, <2>2
  <2> QED
    BY <1>1, <1>3, <2>1, <2>3 DEF FirstOf, s
<1>4. CASE a = NULL /\ b # NULL
  <2>1. given = {2}
    BY <1>1, <1>4
  <2>2. (CHOOSE i \in given : \A j \in given : i <= j) = 2
    BY <2>1
  <2> QED
    BY <1>1, <1>4, <2>1, <2>2 DEF FirstOf, s
<1>5. CASE a = NULL /\ b = NULL
  <2>1. given = {}
    BY <1>1, <1>5
  <2> QED
    BY <1>5, <2>1 DEF FirstOf, s
<1> QED
  BY <1>3, <1>4, <1>5

\* A label the registry has stands for a number, any other for none.
LEMMA ScoreIsNumber ==
  ASSUME AxisTypeOK, NEW n, NEW l
  PROVE  /\ ScoreFor(n, l) \in Amount
         /\ ScoreFor(n, l) # NULL <=> n \in DOMAIN registry /\ l \in DOMAIN registry[n]
         /\ Default \in Int
<1>1. Default \in Int
  BY NullIsNoNumber DEF Default
<1>2. CASE n \in DOMAIN registry /\ l \in DOMAIN registry[n]
  <2>1. {registry[n][l].min, registry[n][l].max} \subseteq Amount
    BY <1>2 DEF AxisTypeOK, Measured
  <2>2. FromBounds(registry[n][l]) \in Amount
    BY <2>1 DEF FromBounds, Amount
  <2>3. FirstOf(<<FromBounds(registry[n][l]), Default>>) \in Int
    BY <1>1, <2>2, FirstOfTwo, NullIsNoNumber DEF Amount
  <2> QED
    BY <1>1, <1>2, <2>3, NullIsNoNumber DEF ScoreFor, Amount
<1>3. CASE ~(n \in DOMAIN registry /\ l \in DOMAIN registry[n])
  BY <1>1, <1>3 DEF ScoreFor, Amount
<1> QED
  BY <1>2, <1>3

LEMMA ScoreOfNumber == AxisTypeOK => \A n : ScoreOf(n) \in Int
BY NullIsNoNumber DEF AxisTypeOK, ScoreOf, Default, Deltas

\* What an event does: the scores it moves, the entry it leaves.
LEMMA EventEffect ==
  ASSUME AxisTypeOK, NEW deltas \in Deltas, ApplyEvent(deltas)
  PROVE  /\ score' \in [DOMAIN score \cup DOMAIN deltas -> Int]
         /\ \A n \in DOMAIN score' :
              score'[n] = IF n \in DOMAIN deltas THEN ScoreOf(n) + deltas[n] ELSE score[n]
         /\ score' \in Deltas
         /\ \E e \in Happenings : /\ events' = Append(events, e)
                               /\ DOMAIN e = DOMAIN deltas
                               /\ \A n \in DOMAIN deltas :
                                    e[n] = [old |-> ScoreOf(n), new |-> score'[n], delta |-> deltas[n]]
<1>1. PICK S \in SUBSET AllAxes : deltas \in [S -> Int]
  BY DEF Deltas
<1>2. PICK T \in SUBSET AllAxes : score \in [T -> Int]
  BY DEF AxisTypeOK, Deltas
<1>3. \A n : ScoreOf(n) \in Int
  BY ScoreOfNumber
<1>4. score' = [n \in T \cup S |-> IF n \in S THEN ScoreOf(n) + deltas[n] ELSE score[n]]
  BY <1>1, <1>2 DEF ApplyEvent, Updated
<1>5. score' \in [T \cup S -> Int]
  BY <1>1, <1>2, <1>3, <1>4
<1>6. score' \in Deltas
  BY <1>5 DEF Deltas
<1> DEFINE e == [n \in DOMAIN deltas |-> [old |-> ScoreOf(n), new |-> score'[n], delta |-> deltas[n]]]
<1>7. e \in [S -> [old : Int, new : Int, delta : Int]]
  BY <1>1, <1>3, <1>5
<1>8. e \in Happenings
  BY <1>7 DEF Happenings
<1>9. events' = Append(events, e)
  BY DEF ApplyEvent
<1> QED
  BY <1>1, <1>2, <1>4, <1>5, <1>6, <1>8, <1>9

LEMMA EventTyped ==
  ASSUME AxisTypeOK, NEW deltas \in Deltas, ApplyEvent(deltas)
  PROVE  /\ score' \in Deltas /\ events' \in Seq(Happenings)
         /\ Len(events) \in Nat /\ Len(events') = Len(events) + 1
<1>1. score' \in Deltas
  BY EventEffect
<1>2. PICK e \in Happenings : events' = Append(events, e)
  BY EventEffect
<1>3. events \in Seq(Happenings)
  BY DEF AxisTypeOK
<1> QED
  BY <1>1, <1>2, <1>3, AppendProperties

LEMMA ProfileTyped ==
  ASSUME AxisTypeOK, NEW w \in Writers, NEW entity, ReadProfile(w, entity)
  PROVE  pending'[w].deltas \in Deltas /\ \A v \in Writers : v # w => pending'[v] = pending[v]
<1> DEFINE labels == Flattened(entity)
           moved  == {n \in DOMAIN labels : ScoreFor(n, labels[n]) \notin {NULL, ScoreOf(n)}}
           deltas == [n \in moved |-> ScoreFor(n, labels[n]) - ScoreOf(n)]
<1>1. pending' = [pending EXCEPT ![w] = [labels |-> labels, at |-> seed, registry |-> registry,
                                         deltas |-> deltas]]
  BY DEF ReadProfile
<1>2. \A n \in moved : ScoreFor(n, labels[n]) \in Int /\ n \in DOMAIN registry
  BY ScoreIsNumber DEF Amount
<1>3. moved \in SUBSET AllAxes
  BY <1>2 DEF AxisTypeOK
<1>4. deltas \in [moved -> Int]
  BY <1>2, ScoreOfNumber
<1>5. deltas \in Deltas
  BY <1>3, <1>4 DEF Deltas
<1> HIDE DEF labels, moved, deltas
<1> QED
  BY <1>1, <1>5 DEF AxisTypeOK

LEMMA AxisTyped == AxisTypeOK /\ [AxisStateNext]_axisStateVars => AxisTypeOK'
<1> SUFFICES ASSUME AxisTypeOK, [AxisStateNext]_axisStateVars PROVE AxisTypeOK'
  OBVIOUS
<1>1. ASSUME NEW policy \in Registries, SeedRegistry(policy) PROVE AxisTypeOK'
  <2>1. registry' = [n \in DOMAIN registry \cup DOMAIN policy.axes |->
                       IF n \in DOMAIN policy.axes THEN Values(policy, n) ELSE registry[n]]
    BY <1>1 DEF SeedRegistry
  <2>2. DOMAIN registry' \subseteq AllAxes
    BY <2>1 DEF AxisTypeOK, AllAxes
  <2>3. ASSUME NEW n \in DOMAIN registry' PROVE Measured(n)'
    <3>1. CASE n \in DOMAIN policy.axes /\ n \in DOMAIN policy.thresholds
      <4>1. /\ DOMAIN registry'[n] = DOMAIN policy.thresholds[n]
            /\ \A l \in DOMAIN registry'[n] : /\ registry'[n][l].min = policy.thresholds[n][l].min
                                              /\ registry'[n][l].max = policy.thresholds[n][l].max
        BY <2>1, <3>1 DEF Values
      <4> QED
        BY <3>1, <4>1, RangeTypes DEF Measured, Amount
    <3>2. CASE n \in DOMAIN policy.axes /\ n \notin DOMAIN policy.thresholds /\ n \notin DOMAIN registry
      <4>1. registry'[n] = <<>>
        BY <2>1, <3>2 DEF Values
      <4> QED
        BY <4>1 DEF Measured
    <3>3. CASE n \in DOMAIN registry /\ ~(n \in DOMAIN policy.axes /\ n \in DOMAIN policy.thresholds)
      <4>1. registry'[n] = registry[n]
        BY <2>1, <3>3 DEF Values
      <4> QED
        BY <3>3, <4>1 DEF Measured, AxisTypeOK
    <3> QED
      BY <2>1, <3>1, <3>2, <3>3
  <2> QED
    BY <1>1, <2>2, <2>3 DEF AxisTypeOK, SeedRegistry
<1>2. CASE SeedCharacter
  <2>1. score' \in [DOMAIN registry -> Int]
    BY <1>2, ScoreIsNumber DEF SeedCharacter
  <2>2. score' \in Deltas
    BY <2>1 DEF Deltas, AxisTypeOK
  <2> QED
    BY <1>2, <2>2 DEF AxisTypeOK, SeedCharacter, Measured
<1>3. ASSUME NEW w \in Writers, NEW entity \in Entities, ReadProfile(w, entity) PROVE AxisTypeOK'
  <2>1. pending' = [v \in Writers |-> pending'[v]]
    BY <1>3 DEF AxisTypeOK, ReadProfile
  <2> QED
    BY <1>3, <2>1, ProfileTyped DEF AxisTypeOK, ReadProfile, Measured
<1>4. ASSUME NEW w \in Writers, ApplyProfile(w) PROVE AxisTypeOK'
  <2>1. pending[w].deltas \in Deltas /\ ApplyEvent(pending[w].deltas)
    BY <1>4 DEF ApplyProfile, AxisTypeOK
  <2>2. score' \in Deltas /\ events' \in Seq(Happenings)
    BY <2>1, EventTyped
  <2>3. registry' = registry /\ pending' = [pending EXCEPT ![w] = NULL]
    BY <1>4 DEF ApplyProfile, ApplyEvent
  <2> QED
    BY <2>2, <2>3 DEF AxisTypeOK, Measured
<1>5. ASSUME NEW w \in Writers, AbandonProfile(w) PROVE AxisTypeOK'
  BY <1>5 DEF AxisTypeOK, AbandonProfile, Measured
<1>6. ASSUME NEW deltas \in Shifts, Interact(deltas) PROVE AxisTypeOK'
  <2>1. deltas \in Deltas /\ ApplyEvent(deltas)
    BY <1>6, ShiftTypes DEF Interact, AxisTypeOK, Deltas
  <2>2. score' \in Deltas /\ events' \in Seq(Happenings)
    BY <2>1, EventTyped
  <2> QED
    BY <1>6, <2>2 DEF AxisTypeOK, Measured, Interact, ApplyEvent
<1>7. CASE UNCHANGED axisStateVars
  BY <1>7 DEF AxisTypeOK, Measured, axisStateVars
<1> QED
  BY <1>1, <1>2, <1>3, <1>4, <1>5, <1>6, <1>7 DEF AxisStateNext

\* An event of a character that is there, and nothing else of what is counted.
LEMMA CountedEvent ==
  ASSUME AxisTypeOK, Counted, base # NULL, NEW deltas \in Deltas, ApplyEvent(deltas)
  PROVE  Counted'
<1>1. Len(events') = Len(events) + 1 /\ Len(events) \in Nat
  BY EventTyped
<1> QED
  BY <1>1 DEF Counted, ApplyEvent

LEMMA StaysCounted == AxisTypeOK /\ Counted /\ [AxisStateNext]_axisStateVars => Counted'
<1> SUFFICES ASSUME AxisTypeOK, Counted, [AxisStateNext]_axisStateVars PROVE Counted'
  OBVIOUS
<1>1. CASE SeedCharacter
  <2>1. base' = Snapshot(score', 1) /\ base'.seed = 1
    BY <1>1 DEF SeedCharacter, Snapshot
  <2> QED
    BY <1>1, <2>1 DEF Counted, SeedCharacter
<1>2. ASSUME NEW w \in Writers, NEW entity \in Entities, ReadProfile(w, entity) PROVE Counted'
  BY <1>2 DEF Counted, ReadProfile
<1>3. ASSUME NEW w \in Writers, ApplyProfile(w) PROVE Counted'
  <2>1. pending[w].deltas \in Deltas /\ base # NULL
    BY <1>3 DEF ApplyProfile, AxisTypeOK, Counted
  <2> QED
    BY <1>3, <2>1, CountedEvent DEF ApplyProfile
<1>4. ASSUME NEW deltas \in Shifts, Interact(deltas) PROVE Counted'
  <2>1. deltas \in Deltas
    BY <1>4, ShiftTypes DEF Interact, AxisTypeOK, Deltas
  <2> QED
    BY <1>4, <2>1, CountedEvent DEF Interact
<1>5. ASSUME NEW w \in Writers, AbandonProfile(w) PROVE Counted'
  BY <1>5 DEF Counted, AbandonProfile, AxisTypeOK
<1>6. CASE UNCHANGED <<base, current, seed, events, pending>>
  BY <1>6 DEF Counted
<1> QED
  BY <1>1, <1>2, <1>3, <1>4, <1>5, <1>6 DEF AxisStateNext, SeedRegistry, axisStateVars

\* The earlier events are where they were.
LEMMA LeftKept ==
  ASSUME events \in Seq(Happenings), NEW e \in Happenings, events' = Append(events, e),
         NEW n, NEW k \in 1..(Len(events) + 1)
  PROVE  LeftAt(n, k)' = LeftAt(n, k)
<1> DEFINE earlier == {i \in 1..(k - 1) : n \in DOMAIN events[i]}
<1>1. \A i \in 1..(k - 1) : events'[i] = events[i]
  BY AppendProperties
<1>2. earlier' = earlier
  BY <1>1
<1>3. k \in Int /\ earlier \in SUBSET (1..(k - 1))
  OBVIOUS
<1>4. earlier # {} => Max(earlier) \in 1..(k - 1)
  BY <1>3, LastIndex
<1>5. LeftAt(n, k) = IF earlier = {} THEN Default ELSE events[Max(earlier)][n].new
  BY DEF LeftAt
<1>6. LeftAt(n, k)' = IF earlier' = {} THEN Default ELSE events'[Max(earlier')][n].new
  BY DEF LeftAt, Default
<1> HIDE DEF earlier
<1> QED
  BY <1>1, <1>2, <1>4, <1>5, <1>6

\* The newest event is the last one on its axes.
LEMMA LeftNow ==
  ASSUME events \in Seq(Happenings), NEW e \in Happenings, events' = Append(events, e), NEW n,
         NEW k, k = Len(events) + 1, NEW j, j = k + 1
  PROVE  LeftAt(n, j)' = IF n \in DOMAIN e THEN e[n].new ELSE LeftAt(n, k)
<1> DEFINE earlier == {i \in 1..(k - 1) : n \in DOMAIN events[i]}
           now     == {i \in 1..(j - 1) : n \in DOMAIN events'[i]}
<1>1. /\ k \in Nat /\ j - 1 = k
      /\ events'[k] = e /\ \A i \in 1..(k - 1) : events'[i] = events[i]
  BY AppendProperties
<1>a. LeftAt(n, k) = IF earlier = {} THEN Default ELSE events[Max(earlier)][n].new
  BY DEF LeftAt
<1>b. LeftAt(n, j)' = IF now = {} THEN Default ELSE events'[Max(now)][n].new
  BY DEF LeftAt, Default
<1>2. CASE n \in DOMAIN e
  <2>1. k \in now /\ now \subseteq 1..k
    BY <1>1, <1>2
  <2>2. \A x \in now : (\A y \in now : x >= y) => x = k
    BY <1>1, <2>1
  <2>3. \A y \in now : k >= y
    BY <1>1, <2>1
  <2>4. Max(now) = k
    BY <2>1, <2>2, <2>3 DEF Max
  <2> HIDE DEF earlier, now
  <2> QED
    BY <1>1, <1>2, <1>b, <2>1, <2>4
<1>3. CASE n \notin DOMAIN e
  <2>1. now = earlier
    <3>1. \A i \in now : i \in 1..(k - 1)
      BY <1>1, <1>3
    <3> QED
      BY <1>1, <3>1
  <2>2. k \in Int /\ earlier \in SUBSET (1..(k - 1))
    BY <1>1
  <2> HIDE DEF earlier, now
  <2>3. earlier # {} => Max(earlier) \in 1..(k - 1)
    BY <1>1, <2>2, LastIndex
  <2> QED
    BY <1>1, <1>3, <1>a, <1>b, <2>1, <2>3
<1> QED
  BY <1>2, <1>3

Replays == EventsReplay /\ \A i \in DOMAIN events : DOMAIN events[i] \subseteq DOMAIN score

LEMMA EventReplays ==
  ASSUME AxisTypeOK, Counted, Replays, base # NULL, NEW deltas \in Deltas, ApplyEvent(deltas)
  PROVE  Replays'
<1> DEFINE c == Len(events)
<1>1. events \in Seq(Happenings) /\ c \in Nat /\ DOMAIN events = 1..c
  BY DEF AxisTypeOK
<1>2. PICK e \in Happenings : /\ events' = Append(events, e)
                           /\ DOMAIN e = DOMAIN deltas
                           /\ \A n \in DOMAIN deltas :
                                e[n] = [old |-> ScoreOf(n), new |-> score'[n], delta |-> deltas[n]]
  BY EventEffect
<1>3. /\ DOMAIN events' = 1..(c + 1) /\ Len(events') = c + 1
      /\ events'[c + 1] = e /\ \A i \in 1..c : events'[i] = events[i]
  BY <1>1, <1>2, AppendProperties
<1>4. /\ DOMAIN score' = DOMAIN score \cup DOMAIN deltas
      /\ \A n \in DOMAIN score' :
           score'[n] = IF n \in DOMAIN deltas THEN ScoreOf(n) + deltas[n] ELSE score[n]
  BY EventEffect
<1>5. PICK k, j : k = c + 1 /\ j = k + 1
  OBVIOUS
<1>6. ASSUME NEW n PROVE ScoreOf(n) = LeftAt(n, k)
  <2>1. CASE n \in DOMAIN score
    BY <1>5, <2>1 DEF Replays, EventsReplay, ScoreOf
  <2>2. CASE n \notin DOMAIN score
    <3>1. {i \in 1..(k - 1) : n \in DOMAIN events[i]} = {}
      BY <1>1, <1>5, <2>2 DEF Replays
    <3> QED
      BY <2>2, <3>1 DEF ScoreOf, LeftAt
  <2> QED
    BY <2>1, <2>2
<1>7. ASSUME NEW n \in DOMAIN score', NEW i \in DOMAIN events', n \in DOMAIN events'[i]
      PROVE  /\ events'[i][n].old = LeftAt(n, i)'
             /\ events'[i][n].new = events'[i][n].old + events'[i][n].delta
  <2>1. LeftAt(n, i)' = LeftAt(n, i)
    BY <1>1, <1>2, <1>3, LeftKept
  <2>2. CASE i \in 1..c
    <3>1. n \in DOMAIN score /\ i \in DOMAIN events /\ events'[i] = events[i]
      BY <1>1, <1>3, <1>7, <2>2 DEF Replays
    <3> QED
      BY <1>7, <2>1, <3>1 DEF Replays, EventsReplay
  <2>3. CASE i = k
    <3>1. n \in DOMAIN deltas /\ events'[i] = e
      BY <1>2, <1>3, <1>5, <1>7, <2>3
    <3>2. score'[n] = ScoreOf(n) + deltas[n]
      BY <1>4, <3>1
    <3> QED
      BY <1>2, <1>6, <2>1, <2>3, <3>1, <3>2
  <2> QED
    BY <1>1, <1>3, <1>5, <2>2, <2>3
<1>8. ASSUME NEW n \in DOMAIN score' PROVE score'[n] = LeftAt(n, j)'
  <2>1. LeftAt(n, j)' = IF n \in DOMAIN e THEN e[n].new ELSE LeftAt(n, k)
    BY <1>1, <1>2, <1>5, LeftNow
  <2>2. CASE n \in DOMAIN deltas
    BY <1>2, <2>1, <2>2
  <2>3. CASE n \notin DOMAIN deltas
    <3>1. n \in DOMAIN score /\ score'[n] = score[n]
      BY <1>4, <2>3
    <3> QED
      BY <1>2, <1>6, <2>1, <2>3, <3>1 DEF ScoreOf
  <2> QED
    BY <2>2, <2>3
<1>9. /\ DOMAIN current'.axes = DOMAIN score'
      /\ \A n \in DOMAIN score' : current'.axes[n].score = score'[n]
      /\ current'.seed = base'.seed + Len(events')
  <2>1. current' = Snapshot(score', seed') /\ base' = base /\ seed' = seed + 1
    BY DEF ApplyEvent
  <2>2. /\ DOMAIN current'.axes = DOMAIN score' /\ current'.seed = seed + 1
        /\ \A n \in DOMAIN score' : current'.axes[n].score = score'[n]
    BY <2>1 DEF Snapshot
  <2>3. seed = 1 + c /\ base.seed = 1
    BY DEF Counted
  <2> QED
    BY <1>1, <1>3, <2>1, <2>2, <2>3
<1>10. \A i \in DOMAIN events' : DOMAIN events'[i] \subseteq DOMAIN score'
  BY <1>1, <1>2, <1>3, <1>4 DEF Replays
<1>11. Len(events') + 1 = j
  BY <1>3, <1>5
<1>12. EventsReplay'
  BY <1>7, <1>8, <1>9, <1>11 DEF EventsReplay
<1> QED
  BY <1>10, <1>12 DEF Replays

LEMMA StaysReplayed == AxisTypeOK /\ Counted /\ Replays /\ [AxisStateNext]_axisStateVars => Replays'
<1> SUFFICES ASSUME AxisTypeOK, Counted, Replays, [AxisStateNext]_axisStateVars PROVE Replays'
  OBVIOUS
<1>1. CASE SeedCharacter
  <2>1. events' = <<>> /\ score' = [n \in DOMAIN registry |-> Default]
    BY <1>1 DEF SeedCharacter, Counted
  <2>2. \A n : LeftAt(n, 1)' = Default
    <3> SUFFICES ASSUME NEW n PROVE LeftAt(n, 1)' = Default
      OBVIOUS
    <3>1. 1..(1 - 1) = {}
      OBVIOUS
    <3> QED
      BY <3>1 DEF LeftAt, Default
  <2>3. current' = Snapshot(score', 1) /\ base' = current'
    BY <1>1 DEF SeedCharacter
  <2>4. /\ DOMAIN current'.axes = DOMAIN score' /\ current'.seed = 1 /\ base'.seed = 1
        /\ \A n \in DOMAIN score' : current'.axes[n].score = score'[n]
    BY <2>3 DEF Snapshot
  <2>5. Len(events') = 0 /\ DOMAIN events' = {}
    BY <2>1
  <2> QED
    BY <2>1, <2>2, <2>4, <2>5 DEF Replays, EventsReplay
<1>2. ASSUME NEW w \in Writers, ApplyProfile(w) PROVE Replays'
  <2>1. pending[w].deltas \in Deltas /\ base # NULL
    BY <1>2 DEF ApplyProfile, AxisTypeOK, Counted
  <2> QED
    BY <1>2, <2>1, EventReplays DEF ApplyProfile
<1>3. ASSUME NEW deltas \in Shifts, Interact(deltas) PROVE Replays'
  <2>1. deltas \in Deltas
    BY <1>3, ShiftTypes DEF Interact, AxisTypeOK, Deltas
  <2> QED
    BY <1>3, <2>1, EventReplays DEF Interact
<1>4. CASE UNCHANGED <<score, base, current, events>>
  <2>1. \A n, k : LeftAt(n, k)' = LeftAt(n, k)
    BY <1>4 DEF LeftAt, Default
  <2> QED
    BY <1>4, <2>1 DEF Replays, EventsReplay
<1> QED
  BY <1>1, <1>2, <1>3, <1>4
     DEF AxisStateNext, SeedRegistry, ReadProfile, AbandonProfile, axisStateVars

AxisInv == AxisTypeOK /\ Counted /\ Replays

LEMMA InitAxisInv == AxisStateInit => AxisInv
<1> SUFFICES ASSUME AxisStateInit PROVE AxisInv
  OBVIOUS
<1>1. score \in [{} -> Int] /\ DOMAIN score = {} /\ registry = <<>> /\ events = <<>>
  BY DEF AxisStateInit
<1>2. score \in Deltas
  BY <1>1 DEF Deltas
<1>3. AxisTypeOK
  BY <1>1, <1>2 DEF AxisStateInit, AxisTypeOK
<1> QED
  BY <1>1, <1>3 DEF AxisStateInit, AxisInv, Counted, Replays, EventsReplay

LEMMA AxisInvariant == AxisStateSpec => []AxisInv
<1>1. AxisInv /\ [AxisStateNext]_axisStateVars => AxisInv'
  BY AxisTyped, StaysCounted, StaysReplayed DEF AxisInv
<1> QED
  BY <1>1, InitAxisInv, PTL DEF AxisStateSpec

\* The ledger of a character's events explains its scores and its snapshot, for any
\* axis bundles, processes, profiles and interactions.
THEOREM EventsExplainScores == AxisStateSpec => []EventsReplay
<1>1. AxisInv => EventsReplay
  BY DEF AxisInv, Replays
<1> QED
  BY <1>1, AxisInvariant, PTL

\* What a label stands for in the registry that was read.
ScoreIn(rows, n, l) ==
  IF n \notin DOMAIN rows \/ l \notin DOMAIN rows[n] THEN NULL
  ELSE FirstOf(<<FromBounds(rows[n][l]), Default>>)

\* The deltas that take the scores of now to what the labels stand for.
Wanting(rows, labels) ==
  [n \in {m \in DOMAIN labels : ScoreIn(rows, m, labels[m]) \notin {NULL, ScoreOf(m)}} |->
     ScoreIn(rows, n, labels[n]) - ScoreOf(n)]

\* Until the next event the deltas of a profile are the right ones.
FreshProfiles ==
  \A w \in Writers : pending[w] # NULL =>
    /\ pending[w].at \in Nat /\ pending[w].at <= seed
    /\ pending[w].at = seed => \E rows, labels : /\ rows = pending[w].registry /\ labels = pending[w].labels
                                                 /\ pending[w].deltas = Wanting(rows, labels)

LEMMA StaysFresh == AxisInv /\ FreshProfiles /\ [AxisStateNext]_axisStateVars => FreshProfiles'
<1> SUFFICES ASSUME AxisInv, FreshProfiles, [AxisStateNext]_axisStateVars,
                    NEW w \in Writers, pending'[w] # NULL
             PROVE  /\ pending'[w].at \in Nat /\ pending'[w].at <= seed'
                    /\ pending'[w].at = seed' => \E rows, labels :
                         /\ rows = pending'[w].registry /\ labels = pending'[w].labels
                         /\ pending'[w].deltas = Wanting(rows, labels)'
  BY DEF FreshProfiles
<1> USE DEF AxisInv
<1>1. Len(events) \in Nat
  BY DEF AxisTypeOK
<1>2. CASE pending'[w] = pending[w] /\ UNCHANGED <<score, seed>>
  <2>1. \A n : ScoreOf(n)' = ScoreOf(n)
    BY <1>2 DEF ScoreOf, Default
  <2>2. \A rows, labels : Wanting(rows, labels)' = Wanting(rows, labels)
    BY <2>1 DEF Wanting, ScoreIn, Default
  <2> QED
    BY <1>2, <2>2 DEF FreshProfiles
<1>3. CASE pending'[w] = pending[w] /\ seed' = seed + 1
  <2>1. pending[w].at \in Nat /\ pending[w].at <= seed /\ seed \in Nat
    BY <1>1, <1>3 DEF FreshProfiles, Counted
  <2> QED
    BY <1>3, <2>1
<1>4. ASSUME NEW entity \in Entities, ReadProfile(w, entity)
      PROVE  /\ pending'[w].at \in Nat /\ pending'[w].at <= seed'
             /\ pending'[w].at = seed' => \E rows, labels :
                  /\ rows = pending'[w].registry /\ labels = pending'[w].labels
                  /\ pending'[w].deltas = Wanting(rows, labels)'
  <2> DEFINE labels == Flattened(entity)
             moved  == {n \in DOMAIN labels : ScoreFor(n, labels[n]) \notin {NULL, ScoreOf(n)}}
             deltas == [n \in moved |-> ScoreFor(n, labels[n]) - ScoreOf(n)]
  <2>1. pending'[w] = [labels |-> labels, at |-> seed, registry |-> registry, deltas |-> deltas]
    BY <1>4 DEF ReadProfile, AxisTypeOK
  <2>2. seed' = seed /\ seed \in Nat /\ UNCHANGED score
    BY <1>1, <1>4 DEF ReadProfile, Counted
  <2>3. deltas = Wanting(registry, labels)
    BY DEF Wanting, ScoreIn, ScoreFor
  <2>4. \A n : ScoreOf(n)' = ScoreOf(n)
    BY <2>2 DEF ScoreOf, Default
  <2>5. \A rows, given : Wanting(rows, given)' = Wanting(rows, given)
    BY <2>4 DEF Wanting, ScoreIn, Default
  <2> HIDE DEF labels, deltas
  <2> QED
    BY <2>1, <2>2, <2>3, <2>5
<1>5. ASSUME NEW v \in Writers, NEW entity \in Entities, ReadProfile(v, entity), v # w
      PROVE  pending'[w] = pending[w] /\ UNCHANGED <<score, seed>>
  BY <1>5 DEF ReadProfile, AxisTypeOK
<1>6. ASSUME NEW v \in Writers, AbandonProfile(v)
      PROVE  pending'[w] = pending[w] /\ UNCHANGED <<score, seed>>
  BY <1>6 DEF AbandonProfile, AxisTypeOK
<1>7. ASSUME NEW v \in Writers, ApplyProfile(v)
      PROVE  pending'[w] = pending[w] /\ seed' = seed + 1
  BY <1>7 DEF ApplyProfile, ApplyEvent, AxisTypeOK
<1>8. ASSUME NEW deltas \in Shifts, Interact(deltas)
      PROVE  pending'[w] = pending[w] /\ seed' = seed + 1
  BY <1>8 DEF Interact, ApplyEvent
<1>9. ASSUME NEW policy \in Registries, SeedRegistry(policy)
      PROVE  pending'[w] = pending[w] /\ UNCHANGED <<score, seed>>
  BY <1>9 DEF SeedRegistry
<1>10. ~SeedCharacter
  BY DEF SeedCharacter, Counted
<1>11. CASE UNCHANGED axisStateVars
  BY <1>2, <1>11 DEF axisStateVars
<1> QED
  BY <1>2, <1>3, <1>4, <1>5, <1>6, <1>7, <1>8, <1>9, <1>10, <1>11 DEF AxisStateNext

\* The row of a label whose score only that label's range contains is found again.
LEMMA LabelFound ==
  ASSUME AxisTypeOK, NEW n \in DOMAIN registry, NEW l \in DOMAIN registry[n], Separated(registry[n])
  PROVE  LabelFor(n, ScoreFor(n, l)) = l
<1> DEFINE rows == registry[n]
           s    == FirstOf(<<FromBounds(rows[l]), Default>>)
           fits == {k \in DOMAIN rows : InRange(rows[k], s)}
<1>1. ScoreFor(n, l) = s
  BY DEF ScoreFor
<1>2. InRange(rows[l], s) /\ \A k \in DOMAIN rows \ {l} : ~InRange(rows[k], s)
  BY DEF Separated
<1>3. {rows[l].min, rows[l].max} \subseteq Amount
  BY DEF AxisTypeOK, Measured
<1>4. Precedes(rows[l], rows[l])
  BY <1>3 DEF Precedes, Amount
<1> HIDE DEF s
<1>5. l \in fits /\ fits = {l}
  BY <1>2
<1>6. (CHOOSE k \in fits : \A j \in fits : Precedes(rows[k], rows[j])) = l
  BY <1>4, <1>5
<1> QED
  BY <1>1, <1>5, <1>6 DEF LabelFor

LEMMA ProfileShows ==
  ASSUME AxisInv, FreshProfiles, NEW w \in Writers, ApplyProfile(w),
         pending[w].at = seed, pending[w].registry = registry,
         NEW n \in DOMAIN pending[w].labels, n \in DOMAIN registry,
         pending[w].labels[n] \in DOMAIN registry[n], Separated(registry[n]),
         n \in DOMAIN current'.axes
  PROVE  current'.axes[n].label = pending[w].labels[n]
<1> DEFINE l == pending[w].labels[n]  deltas == pending[w].deltas
<1>1. ApplyEvent(deltas) /\ deltas \in Deltas
  BY DEF ApplyProfile, AxisInv, AxisTypeOK
<1>2. deltas = Wanting(registry, pending[w].labels)
  BY DEF ApplyProfile, FreshProfiles
<1>3. ScoreIn(registry, n, l) = ScoreFor(n, l) /\ ScoreFor(n, l) \in Int
  BY ScoreIsNumber DEF ScoreIn, ScoreFor, AxisInv, Amount
<1>4. current' = Snapshot(score', seed')
  BY <1>1 DEF ApplyEvent
<1>5. n \in DOMAIN score' /\ current'.axes[n].label = LabelFor(n, score'[n])
  BY <1>4 DEF Snapshot
<1>6. /\ DOMAIN score' = DOMAIN score \cup DOMAIN deltas
      /\ score'[n] = IF n \in DOMAIN deltas THEN ScoreOf(n) + deltas[n] ELSE score[n]
  BY <1>1, <1>5, EventEffect DEF AxisInv
<1>7. ScoreOf(n) \in Int
  BY ScoreOfNumber DEF AxisInv
<1>8. score'[n] = ScoreFor(n, l)
  <2>1. CASE ScoreFor(n, l) = ScoreOf(n)
    <3>1. n \notin DOMAIN deltas
      BY <1>2, <1>3, <2>1 DEF Wanting
    <3> QED
      BY <1>5, <1>6, <2>1, <3>1 DEF ScoreOf
  <2>2. CASE ScoreFor(n, l) # ScoreOf(n)
    <3>1. n \in DOMAIN deltas /\ deltas[n] = ScoreFor(n, l) - ScoreOf(n)
      BY <1>2, <1>3, <2>2, NullIsNoNumber DEF Wanting
    <3> QED
      BY <1>3, <1>6, <1>7, <3>1
  <2> QED
    BY <2>1, <2>2
<1> QED
  BY <1>5, <1>8, LabelFound DEF AxisInv

\* A profile that no event and no other axis bundle came between shows in the
\* character's state, for any thresholds that keep the labels apart.
THEOREM ProfilesTakeHold == AxisStateSpec => ProfileTakesHold
<1> DEFINE Step == \A w \in Writers :
       (pending[w] # NULL /\ seed' = seed + 1 /\ pending'[w] = NULL
          /\ pending[w].at = seed /\ pending[w].registry = registry) =>
         \A n \in DOMAIN pending[w].labels :
           (n \in DOMAIN registry /\ pending[w].labels[n] \in DOMAIN registry[n] /\ Separated(registry[n])
              /\ n \in DOMAIN current'.axes) =>
             current'.axes[n].label = pending[w].labels[n]
<1>1. AxisStateInit => FreshProfiles
  BY DEF AxisStateInit, FreshProfiles
<1>2. AxisInv /\ FreshProfiles /\ [AxisStateNext]_axisStateVars => [Step]_axisStateVars
  <2> SUFFICES ASSUME AxisInv, FreshProfiles, AxisStateNext, NEW w \in Writers,
                      pending[w] # NULL, seed' = seed + 1, pending'[w] = NULL,
                      pending[w].at = seed, pending[w].registry = registry
               PROVE  \A n \in DOMAIN pending[w].labels :
                        (n \in DOMAIN registry /\ pending[w].labels[n] \in DOMAIN registry[n]
                           /\ Separated(registry[n]) /\ n \in DOMAIN current'.axes) =>
                          current'.axes[n].label = pending[w].labels[n]
    OBVIOUS
  <2>1. seed \in Nat
    BY DEF FreshProfiles
  <2>2. ApplyProfile(w)
    <3>1. \A policy \in Registries : ~SeedRegistry(policy)
      BY DEF SeedRegistry
    <3>2. ~SeedCharacter
      BY DEF AxisInv, Counted, SeedCharacter
    <3>3. \A v \in Writers : /\ ~AbandonProfile(v)
                             /\ \A entity \in Entities : ~ReadProfile(v, entity)
      BY <2>1 DEF AbandonProfile, ReadProfile
    <3>4. \A deltas \in Shifts : ~Interact(deltas)
      BY DEF Interact
    <3>5. \A v \in Writers : ApplyProfile(v) => v = w
      BY DEF ApplyProfile, AxisInv, AxisTypeOK
    <3> QED
      BY <3>1, <3>2, <3>3, <3>4, <3>5 DEF AxisStateNext
  <2> QED
    BY <2>2, ProfileShows
<1>3. [][Step]_axisStateVars => ProfileTakesHold
  BY PTL DEF ProfileTakesHold
<1> QED
  BY <1>1, <1>2, <1>3, AxisInvariant, StaysFresh, PTL DEF AxisStateSpec

-----------------------------------------------------------------------------
(***************************************************************************)
(* Where a setting comes from                                              *)
(***************************************************************************)
\* A source that decides says the same whatever came before it, and any other leaves
\* what came before it.
LEMMA OverlaySays ==
  ASSUME NEW cfg, NEW source, NEW o \in Options \cap DOMAIN cfg, NEW before
  PROVE  Overlay(cfg, source)[o] = IF Decides(o, source) THEN Parsed(o, source[o], before) ELSE cfg[o]
BY OptionTypes DEF Overlay, Decides, Parsed

\* The first source that decides, if it is the first of all or the only one.
LEMMA LeastDeciding ==
  ASSUME NEW S \in SUBSET {1, 2, 3}
  PROVE  /\ 1 \in S => Min(S) = 1
         /\ \A k \in 1..3 : S = {k} => Min(S) = k
<1>1. ASSUME 1 \in S PROVE Min(S) = 1
  <2>1. 1 \in S /\ \A y \in S : 1 <= y
    BY <1>1
  <2>2. Min(S) \in S /\ \A y \in S : Min(S) <= y
    BY <2>1 DEF Min
  <2>3. Min(S) \in {1, 2, 3} /\ Min(S) <= 1
    BY <2>1, <2>2
  <2> QED
    BY <2>3
<1>2. ASSUME NEW k \in 1..3, S = {k} PROVE Min(S) = k
  <2>1. k \in S /\ \A y \in S : k <= y
    BY <1>2
  <2>2. Min(S) \in S
    BY <2>1 DEF Min
  <2> QED
    BY <1>2, <2>2
<1> QED
  BY <1>1, <1>2

LEMMA TwoSources ==
  ASSUME NEW cfg, NEW low, NEW high, NEW o \in Options, o \in DOMAIN cfg, cfg[o] = BuiltIn[o]
  PROVE  Overlay(Overlay(cfg, low), high)[o] = Ranked(o, <<high, low>>)
<1> DEFINE sources  == <<high, low>>
           deciding == {i \in DOMAIN sources : Decides(o, sources[i])}
<1>1. DOMAIN sources = {1, 2} /\ sources[1] = high /\ sources[2] = low
  OBVIOUS
<1> HIDE DEF sources
<1>2. /\ deciding \in SUBSET {1, 2}
      /\ 1 \in deciding <=> Decides(o, high)
      /\ 2 \in deciding <=> Decides(o, low)
  BY <1>1
<1>3. Overlay(cfg, low)[o] = IF Decides(o, low) THEN Parsed(o, low[o], BuiltIn[o]) ELSE BuiltIn[o]
  BY OverlaySays
<1>4. o \in DOMAIN Overlay(cfg, low)
  BY DEF Overlay
<1>5. Overlay(Overlay(cfg, low), high)[o]
        = IF Decides(o, high) THEN Parsed(o, high[o], BuiltIn[o]) ELSE Overlay(cfg, low)[o]
  BY <1>4, OverlaySays
<1> HIDE DEF deciding
<1>6. Overlay(Overlay(cfg, low), high)[o]
        = IF deciding = {} THEN BuiltIn[o] ELSE Parsed(o, sources[Min(deciding)][o], BuiltIn[o])
  <2>1. CASE 1 \in deciding
    <3>1. Min(deciding) = 1  BY <1>2, <2>1, LeastDeciding
    <3> QED  BY <1>1, <1>2, <1>5, <2>1, <3>1
  <2>2. CASE 1 \notin deciding /\ 2 \in deciding
    <3>1. deciding = {2}  BY <1>2, <2>2
    <3>2. Min(deciding) = 2  BY <1>2, <3>1, LeastDeciding
    <3> QED  BY <1>1, <1>2, <1>3, <1>5, <2>2, <3>2
  <2>3. CASE 1 \notin deciding /\ 2 \notin deciding
    <3>1. deciding = {}  BY <1>2, <2>3
    <3> QED  BY <1>2, <1>3, <1>5, <2>3, <3>1
  <2> QED
    BY <2>1, <2>2, <2>3
<1> QED
  BY <1>6 DEF deciding, sources, Ranked

\* A source in between that does not decide, or comes after one that does, changes
\* nothing.
LEMMA SilentBetween ==
  ASSUME NEW o, NEW high, NEW mid, NEW low, Decides(o, mid) => Decides(o, high)
  PROVE  Ranked(o, <<high, mid, low>>) = Ranked(o, <<high, low>>)
<1> DEFINE three == <<high, mid, low>>
           two   == <<high, low>>
           of(sources) == {i \in DOMAIN sources : Decides(o, sources[i])}
<1>1. /\ DOMAIN three = {1, 2, 3} /\ three[1] = high /\ three[2] = mid /\ three[3] = low
      /\ DOMAIN two = {1, 2} /\ two[1] = high /\ two[2] = low
  OBVIOUS
<1> HIDE DEF three, two
<1>2. /\ of(three) \in SUBSET {1, 2, 3} /\ of(two) \in SUBSET {1, 2, 3}
      /\ 1 \in of(three) <=> Decides(o, high)
      /\ 1 \in of(two) <=> Decides(o, high)
      /\ ~Decides(o, high) => of(three) = (IF Decides(o, low) THEN {3} ELSE {})
      /\ ~Decides(o, high) => of(two) = (IF Decides(o, low) THEN {2} ELSE {})
  BY <1>1
<1>3. CASE Decides(o, high)
  <2>1. Min(of(three)) = 1 /\ Min(of(two)) = 1
    BY <1>2, <1>3, LeastDeciding
  <2>2. Ranked(o, three) = Parsed(o, high[o], BuiltIn[o]) /\ Ranked(o, two) = Parsed(o, high[o], BuiltIn[o])
    BY <1>1, <1>2, <1>3, <2>1 DEF Ranked
  <2> QED
    BY <2>2 DEF three, two
<1>4. CASE ~Decides(o, high) /\ Decides(o, low)
  <2>1. Min(of(three)) = 3 /\ Min(of(two)) = 2
    BY <1>2, <1>4, LeastDeciding
  <2>2. Ranked(o, three) = Parsed(o, low[o], BuiltIn[o]) /\ Ranked(o, two) = Parsed(o, low[o], BuiltIn[o])
    BY <1>1, <1>2, <1>4, <2>1 DEF Ranked
  <2> QED
    BY <2>2 DEF three, two
<1>5. CASE ~Decides(o, high) /\ ~Decides(o, low)
  <2>1. Ranked(o, three) = BuiltIn[o] /\ Ranked(o, two) = BuiltIn[o]
    BY <1>2, <1>5 DEF Ranked
  <2> QED
    BY <2>1 DEF three, two
<1> QED
  BY <1>3, <1>4, <1>5

\* For any options, files and environment: an option is the environment's, else the
\* file's, else built in; a world's section comes before these, wherever it does not
\* stand between the environment and a default.
THEOREM SettingsRank ==
  ASSUME NEW ini, NEW example, NEW env
  PROVE  SourcesRank(ini, example, env)
<1> DEFINE file   == FileOf(ini, example)
           loaded == LoadConfig(ini, example, env)
<1> SUFFICES ASSUME loaded # NULL
             PROVE  /\ \A o \in Options : loaded.cfg[o] = Ranked(o, <<Variables(env), file.options>>)
                    /\ \A w \in DOMAIN file.worlds, o \in WorldOptions :
                         ~DefaultFromEnv(o, w, file, env) =>
                           WorldPolicy(loaded, w)[o]
                             = Ranked(o, <<file.worlds[w], Variables(env), file.options>>)
  BY DEF SourcesRank
<1> DEFINE cfg == Overlay(BuiltIn, file.options)
<1>1. loaded = [LoadIni(file) EXCEPT !.cfg = Overlay(@, Variables(env))]
  BY DEF LoadConfig
<1> HIDE DEF file
<1>2. /\ loaded.cfg = Overlay(cfg, Variables(env))
      /\ loaded.worlds = [w \in DOMAIN file.worlds |-> Overlay([o \in WorldOptions |-> cfg[o]], file.worlds[w])]
  BY <1>1 DEF LoadIni
<1> HIDE DEF loaded
<1>3. ASSUME NEW o \in Options PROVE loaded.cfg[o] = Ranked(o, <<Variables(env), file.options>>)
  <2>1. o \in DOMAIN BuiltIn
    BY OptionTypes
  <2>2. Overlay(cfg, Variables(env))[o] = Ranked(o, <<Variables(env), file.options>>)
    BY <2>1, TwoSources
  <2> QED
    BY <1>2, <2>2
<1>4. ASSUME NEW w \in DOMAIN file.worlds, NEW o \in WorldOptions, ~DefaultFromEnv(o, w, file, env)
      PROVE  WorldPolicy(loaded, w)[o] = Ranked(o, <<file.worlds[w], Variables(env), file.options>>)
  <2>1. WorldPolicy(loaded, w) = Overlay([x \in WorldOptions |-> cfg[x]], file.worlds[w])
    BY <1>2 DEF WorldPolicy
  <2>2. o \in Options /\ o \in DOMAIN BuiltIn
    BY OptionTypes
  <2>3. Overlay([x \in WorldOptions |-> cfg[x]], file.worlds[w])[o] = Overlay(cfg, file.worlds[w])[o]
    BY <2>2 DEF Overlay
  <2>4. Overlay(cfg, file.worlds[w])[o] = Ranked(o, <<file.worlds[w], file.options>>)
    BY <2>2, TwoSources
  <2>5. Ranked(o, <<file.worlds[w], Variables(env), file.options>>)
          = Ranked(o, <<file.worlds[w], file.options>>)
    BY <1>4, SilentBetween DEF DefaultFromEnv
  <2> QED
    BY <2>1, <2>3, <2>4, <2>5
<1> QED
  BY <1>3, <1>4

-----------------------------------------------------------------------------
(***************************************************************************)
(* The readers of activated policies                                       *)
(***************************************************************************)
\* One row at most for each type and key.
Resolved(p) ==
  /\ IsFiniteSet(p.effective) /\ NULL \notin p.effective
  /\ \A row \in p.effective : row.key \in STRING
  /\ \A row, other \in p.effective : row.type = other.type /\ row.key = other.key => row = other

LEMMA RowFound ==
  ASSUME NEW p, Resolved(p), NEW row \in p.effective
  PROVE  RowOf(p, row.type, row.key) = row
<1> DEFINE rows == {other \in OfType(p, row.type) : other.key = row.key}
<1>1. rows = {row}
  BY DEF Resolved, OfType
<1>2. RowOf(p, row.type, row.key) = CHOOSE other \in rows : TRUE
  BY <1>1 DEF RowOf
<1> QED
  BY <1>1, <1>2

\* A prompt found without being named is the one that naming it finds.
LEMMA PromptsMeet ==
  ASSUME NEW p, Resolved(p), NEW row \in OfType(p, "prompt")
  PROVE  PromptTemplate(p, NULL) = IF OfType(p, "prompt") = {row}
                                   THEN PromptTemplate(p, [type |-> "prompt", key |-> row.key])
                                   ELSE Error(409, "AMBIGUOUS")
<1> DEFINE rows == OfType(p, "prompt")
<1>1. IsFiniteSet(rows) /\ row \in rows /\ row \in p.effective /\ row.type = "prompt" /\ row # NULL
  <2>1. rows \subseteq p.effective  BY DEF OfType
  <2> QED  BY <2>1, FS_Subset DEF Resolved, OfType
<1>2. RowOf(p, "prompt", row.key) = row
  BY <1>1, RowFound
<1>3. CASE rows = {row}
  <2>1. Cardinality(rows) = 1
    BY <1>3, FS_Singleton
  <2>2. SelectRow(p, "prompt", NULL) = row
    BY <1>3, <2>1 DEF SelectRow
  <2>3. row.key # NULL
    BY <1>1, NullIsNoText DEF Resolved
  <2>4. SelectRow(p, "prompt", row.key) = row
    BY <1>2, <2>3 DEF SelectRow
  <2>5. PICK selector : selector = [type |-> "prompt", key |-> row.key]
    OBVIOUS
  <2>6. selector # NULL /\ selector.type = "prompt" /\ selector.key = row.key
    <3>1. row.key \in STRING
      BY <1>1 DEF Resolved
    <3>2. selector \in [type : {"prompt"}, key : STRING]
      BY <2>5, <3>1
    <3> QED
      BY <2>5, <3>2, NullIsNoText
  <2>7. PromptTemplate(p, NULL) = PromptTemplate(p, selector)
    BY <1>1, <2>2, <2>4, <2>6 DEF PromptTemplate
  <2> QED
    BY <1>3, <2>5, <2>7
<1>4. CASE rows # {row}
  <2>1. Cardinality(rows) # 1
    <3>1. ASSUME Cardinality(rows) = 1 PROVE FALSE
      <4>1. PICK x : rows = {x}
        BY <1>1, <3>1, FS_Singleton
      <4> QED
        BY <1>1, <1>4, <4>1
    <3> QED
      BY <3>1
  <2>2. SelectRow(p, "prompt", NULL) = NULL
    BY <2>1 DEF SelectRow
  <2> QED
    BY <1>1, <1>4, <2>2 DEF PromptTemplate
<1> QED
  BY <1>3, <1>4

\* The runtime's bundle is the one that the hash of the snapshots covers.
LEMMA BundleHashed ==
  ASSUME NEW p, AxisBundle(p).status = 200
  PROVE  PolicyHash(p) = AxisBundle(p).row
<1> DEFINE m == p.manifest  row == RowOf(p, "axis_bundle", m.axis.id)
<1>1. ManifestError(p) = NULL
  <2>1. ASSUME ManifestError(p) # NULL PROVE FALSE
    <3>1. AxisBundle(p) = ManifestError(p)  BY <2>1 DEF AxisBundle
    <3>2. ManifestError(p).status \in {404, 409}  BY <2>1 DEF ManifestError, Error
    <3> QED  BY <3>1, <3>2
  <2> QED  BY <2>1
<1>2. /\ m.axis # NULL /\ m.axis.id # NULL /\ row # NULL
      /\ IsObject(p.content[row])
      /\ AxisBundle(p).row = row
  BY <1>1 DEF AxisBundle, Error
<1> QED
  BY <1>1, <1>2 DEF PolicyHash

\* A list of which nothing is there.
LEMMA NothingFound ==
  ASSUME NEW s, DOMAIN s \subseteq Nat
  PROVE  FirstOf(s) = NULL <=> \A i \in DOMAIN s : s[i] = NULL
BY FirstFound

\* Diagnostics and compiler agree about a manifest that can be read.
LEMMA CompilerAgrees ==
  ASSUME NEW p, ManifestError(p) = NULL
  PROVE  LET part(name) == CompilePart(p, name)
         IN CompileRefusal(p) = NULL
              <=> /\ p.manifest.order # NULL /\ p.manifest.order # <<>> /\ p.manifest.inputs # NULL
                  /\ \A name \in {"descriptor", "tone", "species", "clothing"} : IsObject(part(name))
                  /\ part("descriptor").text
<1> DEFINE part(name) == CompilePart(p, name)
           tests == <<
       IF p.manifest.order = NULL \/ p.manifest.order = <<>> THEN "order" ELSE NULL,
       IF p.manifest.inputs = NULL THEN "inputs" ELSE NULL,
       IF part("descriptor") = NULL THEN "descriptor" ELSE NULL,
       IF part("tone") = NULL THEN "tone" ELSE NULL,
       IF part("species") = NULL THEN "species" ELSE NULL,
       IF part("clothing") = NULL THEN "clothing" ELSE NULL,
       IF ~IsObject(part("descriptor")) \/ ~part("descriptor").text THEN "descriptor" ELSE NULL,
       IF ~IsObject(part("tone")) THEN "tone" ELSE NULL,
       IF ~IsObject(part("species")) THEN "species" ELSE NULL,
       IF ~IsObject(part("clothing")) THEN "clothing" ELSE NULL>>
<1>1. CompileRefusal(p) = FirstOf(tests)
  BY Zenon DEF CompileRefusal
<1>2. "order" # NULL /\ "inputs" # NULL /\ "descriptor" # NULL /\ "tone" # NULL /\ "species" # NULL
      /\ "clothing" # NULL
  BY NullIsNoReason
<1>3. DOMAIN tests = 1..10
  OBVIOUS
<1>4. FirstOf(tests) = NULL <=> \A i \in 1..10 : tests[i] = NULL
  BY <1>3, NothingFound
<1>5. /\ tests[1] = NULL <=> p.manifest.order # NULL /\ p.manifest.order # <<>>
      /\ tests[2] = NULL <=> p.manifest.inputs # NULL
  BY <1>2
<1>6. /\ tests[3] = NULL <=> part("descriptor") # NULL
      /\ tests[4] = NULL <=> part("tone") # NULL
      /\ tests[5] = NULL <=> part("species") # NULL
      /\ tests[6] = NULL <=> part("clothing") # NULL
  BY <1>2
<1>7. /\ tests[7] = NULL <=> IsObject(part("descriptor")) /\ part("descriptor").text
      /\ tests[8] = NULL <=> IsObject(part("tone"))
      /\ tests[9] = NULL <=> IsObject(part("species"))
      /\ tests[10] = NULL <=> IsObject(part("clothing"))
  BY <1>2
<1> HIDE DEF tests
<1>8. (\A i \in 1..10 : tests[i] = NULL)
        <=> /\ tests[1] = NULL /\ tests[2] = NULL /\ tests[3] = NULL /\ tests[4] = NULL /\ tests[5] = NULL
            /\ tests[6] = NULL /\ tests[7] = NULL /\ tests[8] = NULL /\ tests[9] = NULL /\ tests[10] = NULL
  OBVIOUS
<1>9. \A name : IsObject(part(name)) => part(name) # NULL
  BY DEF IsObject
<1> HIDE DEF part
<1>10. FirstOf(tests) = NULL
         <=> /\ p.manifest.order # NULL /\ p.manifest.order # <<>> /\ p.manifest.inputs # NULL
             /\ \A name \in {"descriptor", "tone", "species", "clothing"} : IsObject(part(name))
             /\ part("descriptor").text
  BY <1>4, <1>5, <1>6, <1>7, <1>8, <1>9
<1> QED
  BY <1>1, <1>10 DEF part

LEMMA PartsMeet ==
  ASSUME NEW p, NEW part
  PROVE  PartFound(p, part) <=> IsObject(CompilePart(p, part))
BY DEF PartFound, CompilePart, IsObject

LEMMA ResolvedMeet ==
  ASSUME NEW p, Resolved(p)
  PROVE  LookupsAgree(p)
<1> DEFINE found == ImageBundle(p)
           Parts == {"descriptor", "tone", "species", "clothing"}
<1>1. ASSUME found.status = 200
      PROVE  CompileRefusal(p) = NULL
               <=> /\ found.missing \subseteq {"axis_bundle"}
                   /\ CompilePart(p, "descriptor").text
                   /\ p.manifest.order # <<>>
  <2>1. ManifestError(p) = NULL
    <3>1. ASSUME ManifestError(p) # NULL PROVE FALSE
      <4>1. found = ManifestError(p)  BY <3>1 DEF ImageBundle
      <4>2. ManifestError(p).status \in {404, 409}  BY <3>1 DEF ManifestError, Error
      <4> QED  BY <1>1, <4>1, <4>2
    <3> QED  BY <3>1
  <2>2. AxisBundle(p).status # 500
    BY <1>1, <2>1 DEF ImageBundle
  <2>3. DOMAIN ImageParts(p) = Parts
    BY DEF ImageParts
  <2>4. found.missing = {part \in Parts : ~PartFound(p, part)}
                    \cup (IF p.manifest.order = NULL THEN {"order"} ELSE {})
                    \cup (IF p.manifest.inputs = NULL THEN {"inputs"} ELSE {})
                    \cup (IF AxisBundle(p).status # 200 THEN {"axis_bundle"} ELSE {})
    BY <2>1, <2>2, <2>3 DEF ImageBundle
  <2>5. found.missing \subseteq {"axis_bundle"}
          <=> /\ \A part \in Parts : PartFound(p, part)
              /\ p.manifest.order # NULL /\ p.manifest.inputs # NULL
    BY <2>4
  <2>6. (\A part \in Parts : PartFound(p, part)) <=> \A part \in Parts : IsObject(CompilePart(p, part))
    BY PartsMeet
  <2> QED
    BY <2>1, <2>5, <2>6, CompilerAgrees
<1>2. AxisBundle(p).status = 200 => PolicyHash(p) = AxisBundle(p).row
  BY BundleHashed
<1> QED
  BY <1>1, <1>2, PromptsMeet DEF LookupsAgree

\* A client profile's pointers over a world's leave one row for each policy.
LEMMA EffectiveResolved ==
  ASSUME NEW world, NEW client, Pointers(world), Pointers(client),
         NEW p, p.effective = EffectiveRows(world, client)
  PROVE  Resolved(p)
<1> DEFINE Q == DOMAIN world \cup DOMAIN client
           Row(q) == [type |-> q.type, key |-> q.key,
                      variant |-> IF q \in DOMAIN client THEN client[q] ELSE world[q]]
<1>1. p.effective = {Row(q) : q \in Q}
  BY DEF EffectiveRows
<1>2. IsFiniteSet(Q)
  BY FS_Union DEF Pointers
<1>3. Q \subseteq [type : STRING, key : STRING]
  BY DEF Pointers
<1>4. \A q \in Q : Row(q) \in [type : STRING, key : STRING, variant : STRING]
  <2> SUFFICES ASSUME NEW q \in Q PROVE Row(q) \in [type : STRING, key : STRING, variant : STRING]
    OBVIOUS
  <2>1. q.type \in STRING /\ q.key \in STRING
    BY <1>3
  <2>2. (IF q \in DOMAIN client THEN client[q] ELSE world[q]) \in STRING
    BY DEF Pointers
  <2> QED
    BY <2>1, <2>2
<1>5. IsFiniteSet(p.effective)
  <2> HIDE DEF Q, Row
  <2>1. PICK f : f = [q \in Q |-> Row(q)]
    OBVIOUS
  <2>2. f \in Surjection(Q, p.effective)
    BY <1>1, <2>1 DEF Surjection
  <2> QED
    BY <1>2, <2>2, FS_Surjection
<1>6. \A q, other \in Q : Row(q).type = Row(other).type /\ Row(q).key = Row(other).key => q = other
  BY <1>3
<1>7. \A q \in Q : Row(q).key \in STRING /\ Row(q) # NULL
  BY <1>4, NullIsNoText
<1> HIDE DEF Q, Row
<1> QED
  BY <1>1, <1>5, <1>6, <1>7 DEF Resolved

\* The four lookups agree, whatever is activated for a world and a client profile.
THEOREM LookupsMeet ==
  ASSUME NEW world, NEW client, Pointers(world), Pointers(client),
         NEW p, p.effective = EffectiveRows(world, client)
  PROVE  LookupsAgree(p)
BY EffectiveResolved, ResolvedMeet

-----------------------------------------------------------------------------
(***************************************************************************)
(* What a compiled prompt shows                                            *)
(***************************************************************************)
RankTriples == {0, 1} \X Int \X Int

LEMMA RanksOrdered ==
  /\ \A a, b \in RankTriples : a = b \/ Outranks(a, b) \/ Outranks(b, a)
  /\ \A a, b, c \in RankTriples : Outranks(a, b) /\ Outranks(b, c) => Outranks(a, c)
BY DEF RankTriples, Outranks

LEMMA RankTyped ==
  ASSUME NEW entries, Comparable(entries), NEW e \in Range(entries)
  PROVE  /\ Rank(e) \in RankTriples
         /\ Rank(e)[1] = (IF e.when.fallback THEN 0 ELSE 1) /\ Rank(e)[2] = e.priority /\ Rank(e)[3] = e.id
<1>1. e.when.fallback \in BOOLEAN /\ e.priority \in Int /\ e.id \in Int
  BY DEF Comparable
<1> QED
  BY <1>1 DEF Rank, RankTriples

\* Of the entries that fit, when none of them tie, one outranks the others; if not, some
\* entry would be the first with which there is none.
LEMMA SomeoneOutranks ==
  ASSUME NEW entries, NEW r, DOMAIN entries = 1..Len(entries), Len(entries) \in Nat, Comparable(entries),
         ~Tied(entries, r)
  PROVE  LET fits == {e \in Range(entries) : ClothingMatches(e, r)}
         IN fits = {} \/ \E e \in fits : \A f \in fits \ {e} : Outranks(Rank(e), Rank(f))
<1> DEFINE fits == {e \in Range(entries) : ClothingMatches(e, r)}
           Upto(k) == {e \in fits : \E i \in 1..k : entries[i] = e}
           Led(k) == Upto(k) = {} \/ \E e \in Upto(k) : \A f \in Upto(k) \ {e} : Outranks(Rank(e), Rank(f))
           bad == {k \in 0..Len(entries) : ~Led(k)}
<1>1. \A e \in fits : Rank(e) \in RankTriples
  BY RankTyped
<1>2. \A e, f \in fits : e # f => Rank(e) # Rank(f)
  BY DEF Tied
<1> HIDE DEF fits
<1>3. bad = {}
  <2> SUFFICES ASSUME bad # {} PROVE FALSE
    OBVIOUS
  <2>1. PICK k \in bad : \A n \in bad : k <= n
    <3>1. bad \in SUBSET Nat  OBVIOUS
    <3> HIDE DEF bad
    <3> QED  BY <3>1, LeastNumber
  <2>2. k \in 0..Len(entries) /\ ~Led(k)
    OBVIOUS
  <2>3. k # 0
    BY <2>2
  <2>4. PICK j \in 0..Len(entries) : k = j + 1
    BY <2>2, <2>3
  <2>5. Led(j)
    <3>1. j \notin bad
      <4>1. k \in Nat /\ ~(k <= j)
        BY <2>2, <2>4
      <4> HIDE DEF bad
      <4> QED
        BY <2>1, <4>1
    <3> HIDE DEF Led
    <3> QED
      BY <3>1
  <2>6. \A e : e \in Upto(k) <=> e \in Upto(j) \/ (e \in fits /\ e = entries[k])
    <3>1. \A i : i \in 1..k <=> i \in 1..j \/ i = k
      BY <2>4
    <3> QED
      BY <3>1
  <2>7. Upto(j) \subseteq fits
    OBVIOUS
  <2>8. ~(Upto(k) = {} \/ \E e \in Upto(k) : \A f \in Upto(k) \ {e} : Outranks(Rank(e), Rank(f)))
    BY <2>2
  <2>9. Upto(j) = {} \/ \E e \in Upto(j) : \A f \in Upto(j) \ {e} : Outranks(Rank(e), Rank(f))
    BY <2>5
  <2> HIDE DEF Upto, Led, bad
  <2>10. CASE entries[k] \notin fits
    BY <2>6, <2>8, <2>9, <2>10
  <2>11. CASE entries[k] \in fits
    <3>1. PICK new \in fits : new = entries[k]
      BY <2>11
    <3>2. CASE Upto(j) = {}
      BY <2>6, <2>8, <3>1, <3>2
    <3>3. CASE Upto(j) # {}
      <4>1. PICK e \in Upto(j) : \A f \in Upto(j) \ {e} : Outranks(Rank(e), Rank(f))
        BY <2>9, <3>3
      <4>2. e \in fits /\ e \in Upto(k) /\ new \in Upto(k)
        BY <2>6, <2>7, <3>1
      <4>3. CASE new = e
        BY <2>6, <2>8, <3>1, <4>1, <4>2, <4>3
      <4>4. CASE new # e /\ Outranks(Rank(e), Rank(new))
        BY <2>6, <2>8, <3>1, <4>1, <4>2, <4>4
      <4>5. CASE new # e /\ Outranks(Rank(new), Rank(e))
        <5>1. \A f \in Upto(j) : Outranks(Rank(new), Rank(f))
          BY <1>1, <2>7, <4>1, <4>2, <4>5, RanksOrdered
        <5> QED
          BY <2>6, <2>8, <3>1, <4>2, <5>1
      <4> QED
        BY <1>1, <1>2, <4>2, <4>3, <4>4, <4>5, RanksOrdered
    <3> QED
      BY <3>2, <3>3
  <2> QED
    BY <2>10, <2>11
<1>4. Led(Len(entries))
  <2>1. Len(entries) \in 0..Len(entries) /\ Len(entries) \notin bad
    BY <1>3
  <2> QED
    BY <2>1
<1>5. Upto(Len(entries)) = fits
  BY DEF Range, fits
<1> QED
  BY <1>4, <1>5 DEF fits

\* The entry chosen fits, and beats every other that fits.
LEMMA ChosenBeats ==
  ASSUME NEW entries, NEW r, DOMAIN entries = 1..Len(entries), Len(entries) \in Nat, Comparable(entries),
         ~Tied(entries, r), NEW e \in Range(entries), ClothingMatches(e, r)
  PROVE  LET f == SelectClothing(entries, r)
         IN /\ f # NULL /\ f \in Range(entries) /\ ClothingMatches(f, r)
            /\ f.when.fallback => e.when.fallback
            /\ (e.when.fallback = f.when.fallback) => e.priority <= f.priority
<1> DEFINE fits == {x \in Range(entries) : ClothingMatches(x, r)}
<1>1. PICK f : f = SelectClothing(entries, r)
  OBVIOUS
<1>2. e \in fits
  OBVIOUS
<1>3. \E x \in fits : \A y \in fits \ {x} : Outranks(Rank(x), Rank(y))
  BY <1>2, SomeoneOutranks
<1>4. f = CHOOSE x \in fits : \A y \in fits \ {x} : Outranks(Rank(x), Rank(y))
  BY <1>1, <1>2 DEF SelectClothing
<1>5. f \in fits /\ \A y \in fits \ {f} : Outranks(Rank(f), Rank(y))
  BY <1>3, <1>4
<1>6. f \in Range(entries) /\ ClothingMatches(f, r) /\ f # NULL
  BY <1>5 DEF Comparable
<1>7. e = f \/ Outranks(Rank(f), Rank(e))
  BY <1>2, <1>5
<1>8. e.when.fallback \in BOOLEAN /\ f.when.fallback \in BOOLEAN /\ e.priority \in Int /\ f.priority \in Int
  BY <1>6 DEF Comparable
<1>9. (f.when.fallback => e.when.fallback) /\ ((e.when.fallback = f.when.fallback) => e.priority <= f.priority)
  <2>1. CASE e = f
    BY <1>8, <2>1
  <2>2. CASE Outranks(Rank(f), Rank(e))
    <3>1. /\ Rank(f)[1] = (IF f.when.fallback THEN 0 ELSE 1) /\ Rank(f)[2] = f.priority
          /\ Rank(e)[1] = (IF e.when.fallback THEN 0 ELSE 1) /\ Rank(e)[2] = e.priority
      BY <1>6, RankTyped
    <3> QED
      BY <1>8, <2>2, <3>1 DEF Outranks
  <2> QED
    BY <1>7, <2>1, <2>2
<1> QED
  BY <1>1, <1>6, <1>9

LEMMA TiesShare ==
  ASSUME NEW entries, NEW r, Tied(entries, r)
  PROVE  \E e, f \in Range(entries) : e # f /\ e.id = f.id /\ e.priority = f.priority
<1>1. PICK e \in Range(entries), f \in Range(entries) : e # f /\ Rank(e) = Rank(f)
  BY DEF Tied
<1>2. Rank(e)[3] = Rank(f)[3] /\ Rank(e)[2] = Rank(f)[2]
  BY <1>1
<1>3. e.id = f.id /\ e.priority = f.priority
  BY <1>2 DEF Rank
<1> QED
  BY <1>1, <1>3

\* Two sequences one after the other.
LEMMA Joined ==
  ASSUME NEW n \in Nat, NEW k \in Nat, NEW s, NEW t, s = [i \in 1..n |-> s[i]], t = [i \in 1..k |-> t[i]]
  PROVE  /\ DOMAIN (s \o t) = 1..(n + k)
         /\ \A i \in 1..n : (s \o t)[i] = s[i]
         /\ \A i \in 1..k : (s \o t)[i + n] = t[i]
<1> DEFINE V == {s[i] : i \in 1..n} \cup {t[i] : i \in 1..k}
<1>1. s \in [1..n -> V] /\ t \in [1..k -> V]
  OBVIOUS
<1> HIDE DEF V
<1>2. s \in Seq(V) /\ t \in Seq(V) /\ Len(s) = n /\ Len(t) = k
  BY <1>1
<1>3. /\ s \o t \in Seq(V) /\ Len(s \o t) = n + k
      /\ \A i \in 1..(n + k) : (s \o t)[i] = IF i <= n THEN s[i] ELSE t[i - n]
  BY <1>2, ConcatProperties
<1>4. DOMAIN (s \o t) = 1..(n + k)
  BY <1>3
<1>5. \A i \in 1..n : i \in 1..(n + k) /\ i <= n
  OBVIOUS
<1>6. \A i \in 1..k : i + n \in 1..(n + k) /\ ~(i + n <= n) /\ (i + n) - n = i
  OBVIOUS
<1> QED
  BY <1>3, <1>4, <1>5, <1>6

\* The reasons of the compiler before it looks at the request.
LEMMA CompilerReasons ==
  ASSUME NEW p
  PROVE  CompileRefusal(p) \in {NULL, "manifest", "order", "inputs", "descriptor", "tone", "species", "clothing"}
<1> DEFINE part(name) == CompilePart(p, name)
           tests == <<
       IF p.manifest.order = NULL \/ p.manifest.order = <<>> THEN "order" ELSE NULL,
       IF p.manifest.inputs = NULL THEN "inputs" ELSE NULL,
       IF part("descriptor") = NULL THEN "descriptor" ELSE NULL,
       IF part("tone") = NULL THEN "tone" ELSE NULL,
       IF part("species") = NULL THEN "species" ELSE NULL,
       IF part("clothing") = NULL THEN "clothing" ELSE NULL,
       IF ~IsObject(part("descriptor")) \/ ~part("descriptor").text THEN "descriptor" ELSE NULL,
       IF ~IsObject(part("tone")) THEN "tone" ELSE NULL,
       IF ~IsObject(part("species")) THEN "species" ELSE NULL,
       IF ~IsObject(part("clothing")) THEN "clothing" ELSE NULL>>
<1>1. CompileRefusal(p) = IF ManifestError(p) # NULL THEN "manifest" ELSE FirstOf(tests)
  BY Zenon DEF CompileRefusal
<1>2. DOMAIN tests = 1..10
      /\ \A i \in 1..10 : tests[i] \in {NULL, "order", "inputs", "descriptor", "tone", "species", "clothing"}
  OBVIOUS
<1> HIDE DEF tests
<1>3. FirstOf(tests) = NULL \/ \E i \in DOMAIN tests : FirstOf(tests) = tests[i]
  BY <1>2, FirstFound
<1> QED
  BY <1>1, <1>2, <1>3

\* Why the compiler refuses a request.
LEMMA RefusalFound ==
  ASSUME NEW p, NEW r, DOMAIN r.slots = 1..Len(r.slots), Len(r.slots) \in Nat
  PROVE  LET made == Compile(p, r)
         IN /\ made.refused = "TypeError" => \E s \in DOMAIN r.slots : Tied(r.slots[s], r)
            /\ made.refused = NULL =>
                 /\ \A s \in DOMAIN r.slots : SlotRefusal(r.slots[s], r) = NULL
                 /\ DOMAIN made.prompt = DOMAIN p.manifest.order
                 /\ \A i \in DOMAIN p.manifest.order : p.manifest.order[i] = "clothing_block" =>
                      made.prompt[i] = Clothing(r.slots, r)
<1> DEFINE species == SelectSpecies(r.speciesEntries, r)
           early == <<IF MissingInputs(p.manifest.inputs, r.given) # {} THEN "runtime inputs" ELSE NULL,
                      IF species = NULL THEN "no species" ELSE NULL,
                      IF species # NULL /\ species.text = NULL THEN "species text" ELSE NULL>>
           late == [s \in DOMAIN r.slots |-> SlotRefusal(r.slots[s], r)]
           tests == early \o late
           refusal == IF CompileRefusal(p) # NULL THEN CompileRefusal(p) ELSE FirstOf(tests)
           Block(name) == CASE name = "species_canon_block"     -> <<species.text>>
                            [] name = "descriptor_layer_output" -> <<"descriptor">>
                            [] name = "clothing_block"          -> Clothing(r.slots, r)
                            [] name = "tone_profile_block"      -> r.tone
                            [] OTHER                            -> <<>>
<1>1. PICK n \in Nat : n = Len(r.slots) /\ DOMAIN r.slots = 1..n
  OBVIOUS
<1>2. /\ \A i \in 1..3 : early[i] \in {NULL, "runtime inputs", "no species", "species text"}
      /\ early = [i \in 1..3 |-> early[i]]
  OBVIOUS
<1>3. late = [i \in 1..n |-> late[i]] /\ \A s \in 1..n : late[s] = SlotRefusal(r.slots[s], r)
  BY <1>1
<1>4. Compile(p, r) = IF refusal # NULL THEN [refused |-> refusal, prompt |-> <<>>]
                      ELSE [refused |-> NULL,
                            prompt |-> [i \in DOMAIN p.manifest.order |-> Block(p.manifest.order[i])]]
  BY Zenon DEF Compile
<1>5. refusal = IF CompileRefusal(p) # NULL THEN CompileRefusal(p) ELSE FirstOf(tests)
  OBVIOUS
<1> HIDE DEF early, late, refusal, Block, species
<1>6. \A i \in 1..(3 + n) : i \in 1..3 \/ \E s \in 1..n : i = s + 3
  <2> SUFFICES ASSUME NEW i \in 1..(3 + n), i \notin 1..3 PROVE \E s \in 1..n : i = s + 3
    OBVIOUS
  <2>1. i - 3 \in 1..n /\ i = (i - 3) + 3
    OBVIOUS
  <2> QED
    BY <2>1
<1>7. /\ DOMAIN tests = 1..(3 + n)
      /\ \A i \in 1..3 : tests[i] = early[i]
      /\ \A s \in 1..n : tests[s + 3] = SlotRefusal(r.slots[s], r)
  <2>1. tests = early \o late
    BY DEF tests
  <2> HIDE DEF tests
  <2>2. PICK m \in Nat : m = 3
    OBVIOUS
  <2>3. /\ early = [i \in 1..m |-> early[i]]
        /\ late = [i \in 1..n |-> late[i]]
    BY <1>2, <1>3, <2>2
  <2>4. /\ DOMAIN (early \o late) = 1..(m + n)
        /\ \A i \in 1..m : (early \o late)[i] = early[i]
        /\ \A s \in 1..n : (early \o late)[s + m] = late[s]
    BY ONLY <2>3, Joined, n \in Nat, m \in Nat
  <2> QED
    BY <1>3, <2>1, <2>2, <2>4
<1> HIDE DEF tests
<1>8. DOMAIN tests \subseteq Nat
  BY <1>7
<1>9. ASSUME Compile(p, r).refused = "TypeError" PROVE \E s \in DOMAIN r.slots : Tied(r.slots[s], r)
  <2>1. refusal = "TypeError"
    <3>1. CASE refusal = NULL
      <4>1. Compile(p, r).refused = NULL
        BY <1>4, <3>1
      <4> QED
        BY <1>9, <4>1, NullIsNoReason
    <3>2. CASE refusal # NULL
      <4>1. Compile(p, r).refused = refusal
        BY <1>4, <3>2
      <4> QED
        BY <1>9, <4>1
    <3> QED
      BY <3>1, <3>2
  <2>2. FirstOf(tests) = "TypeError"
    BY <1>5, <2>1, CompilerReasons
  <2>3. PICK i \in DOMAIN tests : tests[i] = "TypeError"
    BY <1>8, <2>2, FirstFound, NullIsNoReason
  <2>4. PICK s \in 1..n : SlotRefusal(r.slots[s], r) = "TypeError"
    <3>1. i \notin 1..3
      BY <1>2, <1>7, <2>3, NullIsNoReason
    <3>2. PICK s \in 1..n : i = s + 3
      BY <1>6, <1>7, <2>3, <3>1
    <3> QED
      BY <1>7, <2>3, <3>2
  <2>5. Tied(r.slots[s], r)
    BY <2>4, NullIsNoReason DEF SlotRefusal
  <2> QED
    BY <1>1, <2>5
<1>10. ASSUME Compile(p, r).refused = NULL
       PROVE  /\ \A s \in DOMAIN r.slots : SlotRefusal(r.slots[s], r) = NULL
              /\ DOMAIN Compile(p, r).prompt = DOMAIN p.manifest.order
              /\ \A i \in DOMAIN p.manifest.order : p.manifest.order[i] = "clothing_block" =>
                   Compile(p, r).prompt[i] = Clothing(r.slots, r)
  <2>1. refusal = NULL
    BY <1>4, <1>10
  <2>2. FirstOf(tests) = NULL
    BY <1>5, <2>1
  <2>3. \A i \in DOMAIN tests : tests[i] = NULL
    BY <1>8, <2>2, NothingFound
  <2>4. \A s \in 1..n : SlotRefusal(r.slots[s], r) = NULL
    <3>1. \A s \in 1..n : s + 3 \in 1..(3 + n)
      OBVIOUS
    <3> QED
      BY <1>7, <2>3, <3>1
  <2>5. Compile(p, r).prompt = [i \in DOMAIN p.manifest.order |-> Block(p.manifest.order[i])]
    BY <1>4, <2>1
  <2>6. Block("clothing_block") = Clothing(r.slots, r)
    BY DEF Block
  <2> QED
    BY <1>1, <2>4, <2>5, <2>6
<1> QED
  BY <1>9, <1>10

\* A compiled prompt shows in each slot the best that fits, and a request trips over two
\* entries only if they share priority and id, for any registries whose entries have a
\* priority, an id and a fallback that can be compared, in any number of slots.
THEOREM BestWorn ==
  ASSUME NEW p, NEW r, DOMAIN r.slots = 1..Len(r.slots), Len(r.slots) \in Nat,
         \A s \in DOMAIN r.slots : /\ DOMAIN r.slots[s] = 1..Len(r.slots[s]) /\ Len(r.slots[s]) \in Nat
                                   /\ Comparable(r.slots[s])
  PROVE  BestIsWorn(p, r)
<1> DEFINE Fits(s) == {e \in Range(r.slots[s]) : ClothingMatches(e, r)}
           Beaten(e, f) == /\ f.when.fallback => e.when.fallback
                           /\ (e.when.fallback = f.when.fallback) => e.priority <= f.priority
<1>1. PICK made : made = Compile(p, r)
  OBVIOUS
<1>2. ASSUME made.refused = "TypeError"
      PROVE  \E s \in DOMAIN r.slots : \E e, f \in Range(r.slots[s]) :
               e # f /\ e.id = f.id /\ e.priority = f.priority
  BY <1>1, <1>2, RefusalFound, TiesShare
<1>3. ASSUME made.refused = NULL, "clothing_block" \in Range(p.manifest.order),
             NEW s \in DOMAIN r.slots, Fits(s) # {}
      PROVE  \E f \in Fits(s) : /\ \E i \in DOMAIN made.prompt : f.text \in Range(made.prompt[i])
                                /\ \A e \in Fits(s) : Beaten(e, f)
  <2>1. PICK f : f = SelectClothing(r.slots[s], r)
    OBVIOUS
  <2>2. ~Tied(r.slots[s], r)
    <3>1. SlotRefusal(r.slots[s], r) = NULL
      BY <1>1, <1>3, RefusalFound
    <3> QED
      BY <3>1, NullIsNoReason DEF SlotRefusal
  <2>3. \A e \in Fits(s) : f # NULL /\ f \in Fits(s) /\ Beaten(e, f)
    BY <2>1, <2>2, ChosenBeats
  <2>4. f # NULL /\ f \in Fits(s)
    BY <1>3, <2>3
  <2>5. PICK i \in DOMAIN p.manifest.order : p.manifest.order[i] = "clothing_block"
    BY <1>3 DEF Range
  <2>6. i \in DOMAIN made.prompt /\ made.prompt[i] = Clothing(r.slots, r)
    BY <1>1, <1>3, <2>5, RefusalFound
  <2>7. s \in DOMAIN Clothing(r.slots, r) /\ Clothing(r.slots, r)[s] = f.text
    BY <2>1, <2>4 DEF Clothing
  <2>8. f.text \in Range(made.prompt[i])
    BY <2>6, <2>7 DEF Range
  <2> QED
    BY <2>3, <2>4, <2>6, <2>8
<1> QED
  BY <1>1, <1>2, <1>3 DEF BestIsWorn

-----------------------------------------------------------------------------
(***************************************************************************)
(* The password policy                                                     *)
(***************************************************************************)

LEMMA Mirrored ==
  ASSUME NEW p \in Passwords
  PROVE  LET m == Reverse(p)
         IN /\ m \in Passwords /\ Len(m) = Len(p) /\ Len(p) \in Nat
            /\ \A i \in 1..Len(p) : m[i] = p[Len(p) - i + 1]
            /\ Reverse(m) = p
<1>1. PICK n \in Nat : n = Len(p)
  BY DEF Passwords
<1>2. DOMAIN p = 1..n /\ p \in [1..n -> DOMAIN Code]
  BY <1>1 DEF Passwords
<1>3. PICK m : m = [i \in 1..n |-> p[n - i + 1]]
  OBVIOUS
<1>4. m = Reverse(p)
  BY <1>1, <1>3 DEF Reverse
<1>5. m \in [1..n -> DOMAIN Code]
  BY <1>2, <1>3
<1>6. m \in Passwords /\ Len(m) = n
  BY <1>5 DEF Passwords
<1>7. Reverse(m) = [i \in 1..n |-> m[n - i + 1]]
  BY <1>6 DEF Reverse
<1>8. \A i \in 1..n : n - i + 1 \in 1..n /\ n - (n - i + 1) + 1 = i
  OBVIOUS
<1>9. \A i \in 1..n : m[n - i + 1] = p[i]
  BY <1>3, <1>8
<1>10. Reverse(m) = p
  BY <1>2, <1>7, <1>9
<1> QED
  BY <1>1, <1>3, <1>4, <1>6, <1>10

\* Backwards, what went up goes down.
LEMMA SequenceMirrored ==
  ASSUME NEW p \in Passwords, Sequential(p)
  PROVE  Sequential(Reverse(p))
<1>1. PICK n \in Nat : n = Len(p)
  BY DEF Passwords
<1>2. PICK m : m = Reverse(p)
  OBVIOUS
<1>3. Len(m) = n /\ \A j \in 1..n : m[j] = p[n - j + 1] /\ p[j] \in DOMAIN Code
  <2>1. Len(m) = n /\ \A j \in 1..n : m[j] = p[n - j + 1]
    BY <1>1, <1>2, Mirrored
  <2>2. \A j \in 1..n : p[j] \in DOMAIN Code
    BY <1>1 DEF Passwords
  <2> QED
    BY <2>1, <2>2
<1>4. PICK i \in 1..(n - 2), d \in {1, -1} : \A j \in {i, i + 1} : Code[Lower[p[j + 1]]] = Code[Lower[p[j]]] + d
  BY <1>1 DEF Sequential, IsSequence
<1>5. PICK k \in 1..(n - 2) : k = n - 1 - i
  OBVIOUS
<1>6. m[k] = p[i + 2] /\ m[k + 1] = p[i + 1] /\ m[k + 2] = p[i]
  <2>1. n - k + 1 = i + 2 /\ n - (k + 1) + 1 = i + 1 /\ n - (k + 2) + 1 = i
    BY <1>5
  <2> QED
    BY <1>3, <2>1
<1>7. \A j \in {i, i + 1, i + 2} : Code[Lower[p[j]]] \in Int
  <2>1. \A j \in {i, i + 1, i + 2} : p[j] \in DOMAIN Code
    BY <1>3
  <2> QED
    BY <2>1, CharTypes
<1>8. Code[Lower[p[i + 1]]] = Code[Lower[p[i]]] + d /\ Code[Lower[p[i + 2]]] = Code[Lower[p[i + 1]]] + d
  <2>1. i + 1 + 1 = i + 2
    OBVIOUS
  <2> QED
    BY <1>4, <2>1
<1>9. PICK e \in {1, -1} : e = -d
  OBVIOUS
<1>10. Code[Lower[m[k + 1]]] = Code[Lower[m[k]]] + e /\ Code[Lower[m[k + 2]]] = Code[Lower[m[k + 1]]] + e
  BY <1>6, <1>7, <1>8, <1>9
<1>11. \A j \in {k, k + 1} : Code[Lower[m[j + 1]]] = Code[Lower[m[j]]] + e
  <2>1. k + 1 + 1 = k + 2
    OBVIOUS
  <2> QED
    BY <1>10, <2>1
<1>12. IsSequence(m, k)
  BY <1>11 DEF IsSequence
<1> QED
  BY <1>2, <1>3, <1>12 DEF Sequential

LEMMA RunMirrored ==
  ASSUME NEW p \in Passwords, NEW allowed \in Nat, Repeated(p, allowed)
  PROVE  Repeated(Reverse(p), allowed)
<1>1. PICK n \in Nat : n = Len(p)
  BY DEF Passwords
<1>2. PICK m : m = Reverse(p)
  OBVIOUS
<1>3. Len(m) = n /\ \A j \in 1..n : m[j] = p[n - j + 1]
  BY <1>1, <1>2, Mirrored
<1>4. PICK i \in 1..(n - allowed) : \A j \in i..(i + allowed) : p[j] = p[i]
  BY <1>1 DEF Repeated
<1>5. PICK k \in 1..(n - allowed) : k = n + 1 - allowed - i
  OBVIOUS
<1>6. ASSUME NEW j \in k..(k + allowed) PROVE m[j] = p[i]
  <2>1. j \in 1..n /\ n - j + 1 \in i..(i + allowed)
    BY <1>5
  <2> QED
    BY <1>3, <1>4, <2>1
<1>7. \A j \in k..(k + allowed) : m[j] = m[k]
  BY <1>6
<1> QED
  BY <1>2, <1>3, <1>7 DEF Repeated

\* A run of more than three is a run of more than two.
LEMMA ShorterRun ==
  ASSUME NEW p \in Passwords, Repeated(p, 3)
  PROVE  Repeated(p, 2)
<1>1. PICK n \in Nat : n = Len(p)
  BY DEF Passwords
<1>2. PICK i \in 1..(n - 3) : \A j \in i..(i + 3) : p[j] = p[i]
  BY <1>1 DEF Repeated
<1>3. i \in 1..(n - 2) /\ \A j \in i..(i + 2) : p[j] = p[i]
  BY <1>2
<1> QED
  BY <1>1, <1>3 DEF Repeated

LEMMA ErrorsMirrored ==
  ASSUME NEW p \in Passwords, NEW policy, policy.maxRepeated \in Nat
  PROVE  Errors(policy, p) \ {"common"} = Errors(policy, Reverse(p)) \ {"common"}
<1>1. PICK m : m = Reverse(p)
  OBVIOUS
<1>2. m \in Passwords /\ Reverse(m) = p /\ Len(m) = Len(p) /\ Len(p) \in Nat
      /\ \A i \in 1..Len(p) : m[i] = p[Len(p) - i + 1]
  BY <1>1, Mirrored
<1>3. Sequential(m) <=> Sequential(p)
  BY <1>1, <1>2, SequenceMirrored
<1>4. Repeated(m, policy.maxRepeated) <=> Repeated(p, policy.maxRepeated)
  BY <1>1, <1>2, RunMirrored
<1>5. ClassesIn(m) = ClassesIn(p)
  <2>1. PICK n \in Nat : n = Len(p)
    BY <1>2
  <2>2. DOMAIN p = 1..n /\ DOMAIN m = 1..n
    BY <1>2, <2>1 DEF Passwords
  <2>3. \A i \in 1..n : n - i + 1 \in 1..n /\ m[i] = p[n - i + 1] /\ p[i] = m[n - i + 1]
    <3>1. \A i \in 1..n : n - i + 1 \in 1..n /\ n - (n - i + 1) + 1 = i
      OBVIOUS
    <3> QED
      BY <1>2, <2>1, <3>1
  <2> QED
    BY <2>2, <2>3 DEF ClassesIn
<1>6. ASSUME NEW s \in Passwords, NEW q \in Passwords, Len(s) = Len(q), ClassesIn(s) = ClassesIn(q),
             Sequential(s) <=> Sequential(q),
             Repeated(s, policy.maxRepeated) <=> Repeated(q, policy.maxRepeated),
             NEW x, x # "common", x \in Errors(policy, s)
      PROVE  x \in Errors(policy, q)
  BY <1>6 DEF Errors
<1> QED
  BY <1>1, <1>2, <1>3, <1>4, <1>5, <1>6

LEMMA EntropyCounts ==
  ASSUME NEW p \in Passwords
  PROVE  Entropy(p) \in Nat /\ ClassesIn(p) \in SUBSET AllClasses /\ Cardinality(ClassesIn(p)) \in Nat
<1>1. ClassesIn(p) \in SUBSET AllClasses
  <2>1. \A i \in DOMAIN p : p[i] \in DOMAIN Code
    BY DEF Passwords
  <2>2. \A i \in DOMAIN p : Classes[p[i]] \in SUBSET AllClasses
    BY <2>1, CharTypes
  <2> QED
    BY <2>2 DEF ClassesIn
<1>2. Cardinality(ClassesIn(p)) \in Nat
  <2>1. IsFiniteSet({"upper", "lower", "digit", "special"})
    <3>1. /\ IsFiniteSet({"upper"} \cup {"lower"}) /\ IsFiniteSet({"digit"} \cup {"special"})
      BY FS_Singleton, FS_Union
    <3>2. IsFiniteSet(({"upper"} \cup {"lower"}) \cup ({"digit"} \cup {"special"}))
      BY <3>1, FS_Union
    <3>3. ({"upper"} \cup {"lower"}) \cup ({"digit"} \cup {"special"}) = {"upper", "lower", "digit", "special"}
      OBVIOUS
    <3> QED
      BY <3>2, <3>3
  <2> QED
    BY <1>1, <2>1, FS_Subset, FS_CardinalityType DEF AllClasses
<1>3. PICK n \in Nat : n = Len(p)
  BY DEF Passwords
<1> DEFINE pairs   == Cardinality({i \in 1..(n - 1) : p[i] = p[i + 1]})
           triples == Cardinality({i \in 1..(n - 2) : \A j \in {i, i + 1} : Code[p[j + 1]] = Code[p[j]] + 1})
           x == n * Bits[ClassesIn(p)] - pairs - 2 * triples
<1>4. pairs \in Nat /\ triples \in Nat
  <2>1. IsFiniteSet(1..(n - 1)) /\ IsFiniteSet(1..(n - 2))
    BY FS_Interval
  <2> QED
    BY <2>1, FS_Subset, FS_CardinalityType
<1>5. Bits[ClassesIn(p)] \in Nat
  BY <1>1, CharTypes
<1>6. Entropy(p) = Max({0, x})
  BY <1>3 DEF Entropy
<1> HIDE DEF pairs, triples
<1>7. x \in Int
  BY <1>4, <1>5
<1> HIDE DEF x
<1>8. PICK top \in {0, x} : top >= 0 /\ top >= x
  BY <1>7
<1>9. \E y \in {0, x} : \A z \in {0, x} : y >= z
  BY <1>7, <1>8
<1>10. Max({0, x}) \in {0, x} /\ \A z \in {0, x} : Max({0, x}) >= z
  BY <1>9 DEF Max
<1> QED
  BY <1>1, <1>2, <1>6, <1>7, <1>10

LEMMA ScoreBounded ==
  ASSUME NEW p \in Passwords, NEW policy, policy.min \in Nat
  PROVE  Score(policy, p) \in 0..(IF Valid(policy, p) THEN 100 ELSE 25)
<1>1. PICK n \in Nat : n = Len(p)
  BY DEF Passwords
<1>2. PICK e \in Nat : e = Entropy(p)
  BY EntropyCounts
<1>3. PICK c \in Nat : c = Cardinality(ClassesIn(p))
  BY EntropyCounts
<1>4. PICK lowest \in Nat : lowest = policy.min
  OBVIOUS
<1>5. e \div 2 \in Nat
  OBVIOUS
<1> DEFINE sum == AtMost(40, 4 * n) + AtMost(30, e \div 2) + 5 * c
                    + (IF n > lowest THEN AtMost(10, 2 * (n - lowest)) ELSE 0)
<1>6. sum \in Nat
  BY <1>5 DEF AtMost
<1>7. Score(policy, p) = IF Valid(policy, p) THEN AtMost(100, sum) ELSE AtMost(25, AtMost(100, sum))
  BY <1>1, <1>2, <1>3, <1>4 DEF Score
<1> HIDE DEF sum
<1> QED
  BY <1>6, <1>7 DEF AtMost

\* The levels are nested, mirrored and bounded for passwords of any length, over any
\* characters, and for levels of any length in the proportion of the presets.
THEOREM LevelsAreNested ==
  ASSUME NEW p \in Passwords, NEW unit \in Nat
  PROVE  LevelsNest(p, unit)
<1> DEFINE L(name) == Preset(name, unit)
<1>1. /\ L("basic").min = 2 * unit /\ L("basic").max = 32 * unit /\ L("basic").require = {}
      /\ L("basic").common = TRUE /\ L("basic").maxRepeated = 3
      /\ ~L("basic").sequential /\ ~L("basic").repeated
  BY DEF Preset
<1>2. /\ L("standard").min = 3 * unit /\ L("standard").max = 32 * unit /\ L("standard").require = {}
      /\ L("standard").common = TRUE /\ L("standard").maxRepeated = 3
      /\ L("standard").sequential = TRUE /\ L("standard").repeated = TRUE
  BY DEF Preset
<1>3. /\ L("strict").min = 4 * unit /\ L("strict").max = 32 * unit
      /\ L("strict").common = TRUE /\ L("strict").maxRepeated = 2
      /\ L("strict").sequential = TRUE /\ L("strict").repeated = TRUE
  BY DEF Preset
<1> HIDE DEF L
<1>4. Len(p) \in Nat
  BY DEF Passwords
<1>5. ASSUME Valid(L("strict"), p) PROVE Valid(L("standard"), p)
  <2>1. /\ ~(Len(p) < 4 * unit) /\ ~(Len(p) > 32 * unit) /\ ~IsCommon(p) /\ ~Sequential(p) /\ ~Repeated(p, 2)
    BY <1>3, <1>5 DEF Valid, Errors
  <2>2. ~(Len(p) < 3 * unit) /\ ~Repeated(p, 3)
    BY <1>4, <2>1, ShorterRun
  <2> QED
    BY <1>2, <2>1, <2>2 DEF Valid, Errors
<1>6. ASSUME Valid(L("standard"), p) PROVE Valid(L("basic"), p)
  <2>1. ~(Len(p) < 3 * unit) /\ ~(Len(p) > 32 * unit) /\ ~IsCommon(p)
    BY <1>2, <1>6 DEF Valid, Errors
  <2>2. ~(Len(p) < 2 * unit)
    BY <1>4, <2>1
  <2> QED
    BY <1>1, <2>1, <2>2 DEF Valid, Errors
<1>7. ASSUME NEW name \in {"basic", "standard", "strict"}
      PROVE  /\ Errors(L(name), p) \ {"common"} = Errors(L(name), Reverse(p)) \ {"common"}
             /\ Score(L(name), p) \in 0..(IF Valid(L(name), p) THEN 100 ELSE 25)
  <2>1. L(name).maxRepeated \in Nat /\ L(name).min \in Nat
    BY <1>1, <1>2, <1>3
  <2> QED
    BY <2>1, ErrorsMirrored, ScoreBounded
<1> QED
  BY <1>5, <1>6, <1>7 DEF LevelsNest, L

-----------------------------------------------------------------------------
(***************************************************************************)
(* The services beside each other                                          *)
(***************************************************************************)
\* Each service runs as its own specification says, whatever runs beside it.
LEMMA ServicesRun == Spec => AccessSpec /\ GenSpec /\ AxisStateSpec /\ TransSpec /\ StartSpec
<1>1. Init => AccessInit /\ GenInit /\ AxisStateInit /\ TransInit /\ StartInit
  BY DEF Init
<1>2. [Next]_vars => /\ [AccessNext]_accessVars /\ [GenNext]_genVars /\ [AxisStateNext]_axisStateVars
                     /\ [TransNext]_transVars /\ [StartNext]_startVars
  <2>1. CASE Next
    BY <2>1 DEF Next
  <2>2. CASE UNCHANGED vars
    BY <2>2 DEF vars
  <2> QED
    BY <2>1, <2>2
<1> QED
  BY <1>1, <1>2, PTL DEF Spec, AccessSpec, GenSpec, AxisStateSpec, TransSpec, StartSpec

\* What is asked stays asked.
Asked == subject \in DOMAIN Inputs => input \in Inputs[subject]

LEMMA AskedHolds == Spec => []Asked
<1>1. Init => Asked
  <2>1. \A s \in {"access", "generation", "state", "translation", "start"} : s \notin DOMAIN Inputs
    BY DEF Inputs
  <2> QED
    BY <2>1 DEF Init, Asked
<1>2. Asked /\ [Next]_vars => Asked'
  <2>1. [Next]_vars => UNCHANGED <<subject, input>>
    BY DEF Next, Alone, vars
  <2> QED
    BY <2>1 DEF Asked, Inputs
<1> QED
  BY <1>1, <1>2, PTL DEF Spec

\* Settings rank and password levels nest, for whatever files, variables and passwords
\* come up.
THEOREM ConfigurationHolds == Spec => []ConfigurationRules
<1>1. Asked => ConfigurationRules
  <2> SUFFICES ASSUME Asked PROVE ConfigurationRules
    OBVIOUS
  <2>1. SettingsRanked
    BY SettingsRank DEF SettingsRanked
  <2>2. PasswordLevels
    <3> SUFFICES ASSUME subject = "password" PROVE LevelsNest(input, 1)
      BY DEF PasswordLevels
    <3>1. input \in Passwords
      BY PasswordInputsType DEF Asked, Inputs
    <3> QED
      BY <3>1, LevelsAreNested
  <2> QED
    BY <2>1, <2>2 DEF ConfigurationRules
<1> QED
  BY <1>1, AskedHolds, PTL

\* What is read of the policies is what they say, whatever is activated, registered,
\* asked for and generated.
THEOREM PoliciesHold == Spec => []PoliciesAreRead
<1>1. Asked => PoliciesAreRead
  <2> SUFFICES ASSUME Asked PROVE PoliciesAreRead
    OBVIOUS
  <2>1. ASSUME subject = "policies" PROVE LookupsAgree(StateOf(input))
    <3>1. input \in PolicyInputs
      BY <2>1 DEF Asked, Inputs
    <3>2. Pointers(input.world) /\ Pointers(input.client)
      BY <3>1, PolicyInputsType
    <3>3. StateOf(input).effective = EffectiveRows(input.world, input.client)
      BY DEF StateOf
    <3> QED
      BY <3>2, <3>3, LookupsMeet
  <2>2. ASSUME subject = "clothes" PROVE BestIsWorn(input[1], input[2])
    <3>1. input \in WearInputs
      BY <2>2 DEF Asked, Inputs
    <3>2. PICK r : r = input[2]
      OBVIOUS
    <3>3. /\ DOMAIN r.slots = 1..Len(r.slots) /\ Len(r.slots) \in Nat
          /\ \A s \in DOMAIN r.slots : /\ DOMAIN r.slots[s] = 1..Len(r.slots[s]) /\ Len(r.slots[s]) \in Nat
                                       /\ Comparable(r.slots[s])
      BY <3>1, <3>2, WearInputsType DEF Listing
    <3> QED
      BY <3>2, <3>3, BestWorn
  <2>3. ASSUME subject = "payload"
        PROVE  NumbersBeatLabels(input[1], input[2]) /\ \A axis \in Tokens : LabelsKeepOrder(input[1], axis)
    <3>1. input \in PayloadInputs
      BY <2>3 DEF Asked, Inputs
    <3>2. WellFormed(input[1]) /\ Graduated(input[1])
      BY <3>1, PayloadInputsType
    <3> QED
      BY <3>2, PayloadIsRead
  <2> QED
    BY <2>1, <2>2, <2>3 DEF PoliciesAreRead, PoliciesAgree, ClothesFit, PayloadRead
<1> QED
  BY <1>1, AskedHolds, PTL

\* The validator is exact and the laboratory shows the game, whatever the model says and
\* the sheets hold.
THEOREM OutputHolds == Spec => []OutputClean
<1>1. Asked => OutputClean
  <2> SUFFICES ASSUME Asked PROVE OutputClean
    OBVIOUS
  <2>1. ASSUME subject = "output" PROVE ValidatorExact(input)
    <3>1. input \in Seq(LineTypes) /\ MaxOutput \in Int
      BY <2>1, RawInputsType DEF Asked, Inputs
    <3> QED
      BY <3>1, ValidatorIsExact
  <2> QED
    BY <2>1, LabShows DEF OutputClean
<1> QED
  BY <1>1, AskedHolds, PTL

\* All that the services promise holds of them beside each other.
THEOREM ServicesHold ==
  Spec => /\ []RolesGuarded /\ []OfferHolds /\ []EachCountedOnce /\ []AnswersFitTheirBundle
          /\ []EventsReplay /\ ProfileTakesHold /\ []Traceable /\ []ExitsExplained
BY ServicesRun, RolesHold, OffersHold, RequestsAreCounted, AnswersFit, EventsExplainScores,
   ProfilesTakeHold, TranslationsTraced, ExitsHold, PTL
=============================================================================
