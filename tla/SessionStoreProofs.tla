------------------------- MODULE SessionStoreProofs -------------------------
(***************************************************************************)
(* What holds of SessionStore for any users, characters, ids, processes    *)
(* and configuration.                                                      *)
(***************************************************************************)
EXTENDS SessionStore, TLAPS

USE DEF userVars, charVars, sessVars

-----------------------------------------------------------------------------
(***************************************************************************)
(* Request records stay well typed.                                        *)
(***************************************************************************)
LEMMA AtType ==
  ASSUME NEW pc \in Pcs
  PROVE  At(pc) \in Request
  BY DEF At, Request, Ops

LEMMA FinishType ==
  ASSUME TypeOK, NEW p \in Procs, Finish(p)
  PROVE  req' \in [Procs -> Request]
<1>1. At("idle") \in Request
  BY AtType DEF Pcs
<1> QED
  BY <1>1 DEF Finish, TypeOK

LEMMA GotoType ==
  ASSUME TypeOK, NEW p \in Procs, NEW pc \in Pcs, Goto(p, pc)
  PROVE  req' \in [Procs -> Request]
<1>1. [req[p] EXCEPT !.pc = pc] \in Request
  BY DEF TypeOK, Request
<1> QED
  BY <1>1 DEF Goto, TypeOK

\* A live row is a row; removing rows keeps the table well typed.
LEMMA LiveRows ==
  ASSUME TypeOK, NEW t \in live
  PROVE  t \in Tokens /\ sessions[t] \in SessionRow
  BY DEF TypeOK, live

LEMMA WithoutType ==
  ASSUME TypeOK, NEW T
  PROVE  Without(T) \in [Tokens -> SessionRow \cup {NULL}]
  BY DEF TypeOK, Without

LEMMA DetachedType ==
  ASSUME TypeOK, NEW U
  PROVE  Detached(U) \in [Chars -> Users \cup {NULL}]
  BY DEF TypeOK, Detached

LEMMA ExpiryType ==
  ASSUME TypeOK
  PROVE  NextExpiry \in Nat \cup {NULL}
  BY ConfigType DEF NextExpiry, TypeOK

-----------------------------------------------------------------------------
LEMMA InitTypeOK == Init => TypeOK
<1>1. At("down") \in Request
  BY AtType DEF Pcs
<1> QED
  BY <1>1, SuperusersAreUsers DEF Init, TypeOK

LEMMA StepTypeOK == TypeOK /\ [Next]_vars => TypeOK'
<1> SUFFICES ASSUME TypeOK, [Next]_vars
             PROVE  TypeOK'
  OBVIOUS
<1>1. CASE Tick
  BY <1>1 DEF Tick, TypeOK
<1>2. CASE UNCHANGED vars
  BY <1>2 DEF vars, TypeOK
<1>3. ASSUME NEW p \in Procs, ProcessStep(p)
      PROVE  TypeOK'
  <2>1. CASE CleanupExpiredSessions(p)
    <3>1. req' \in [Procs -> Request]
      BY <2>1, GotoType DEF CleanupExpiredSessions, Pcs
    <3> QED
      BY <2>1, <3>1, WithoutType DEF CleanupExpiredSessions, TypeOK
  <2>2. CASE CleanupExpiredGuests(p)
    <3>1. req' \in [Procs -> Request]
      BY <2>2, FinishType DEF CleanupExpiredGuests
    <3>2. /\ owner' \in [Chars -> Users \cup {NULL}]
          /\ sessions' \in [Tokens -> SessionRow \cup {NULL}]
      BY <2>2, DetachedType, WithoutType DEF CleanupExpiredGuests, PurgeExpiredGuests
    <3> QED
      BY <2>2, <3>1, <3>2 DEF CleanupExpiredGuests, PurgeExpiredGuests, ExpiredGuests, TypeOK
  <2>3. CASE Insert(p)
    <3>1. ASSUME NEW u \in Users, NEW guest \in BOOLEAN, CreateUser(p, u, guest)
          PROVE  TypeOK'
      <4>1. clock + GuestLifetime \in Nat
        BY ConfigType DEF TypeOK
      <4> QED
        BY <3>1, <4>1 DEF CreateUser, TypeOK
    <3>2. ASSUME NEW c \in Chars, NEW u \in Users, CreateCharacter(p, c, u)
          PROVE  TypeOK'
      BY <3>2 DEF CreateCharacter, TypeOK
    <3> QED
      BY <2>3, <3>1, <3>2 DEF Insert
  <2>4. CASE Login(p)
    <3>1. ASSUME NEW u \in Users, CheckCredentials(p, u)
          PROVE  TypeOK'
      <4>1. [At("login") EXCEPT !.user = u] \in Request
        BY AtType DEF Pcs, At, Request, Ops
      <4> QED
        BY <3>1, <4>1 DEF CheckCredentials, TypeOK
    <3>2. ASSUME NEW t \in Tokens, CreateSession(p, t)
          PROVE  TypeOK'
      <4> DEFINE u == req[p].user
      <4>1. u \in Users
        BY <3>2 DEF CreateSession, TypeOK
      <4>2. SessionFor(u) \in SessionRow
        BY <4>1, ExpiryType DEF SessionFor, SessionRow
      <4>3. sessions' \in [Tokens -> SessionRow \cup {NULL}]
        BY <3>2, <4>2, WithoutType DEF CreateSession, TypeOK
      <4>4. req' \in [Procs -> Request]
        BY <3>2, FinishType DEF CreateSession
      <4> QED
        BY <3>2, <4>3, <4>4 DEF CreateSession, TypeOK
    <3>3. CASE CreateSessionFails(p)
      BY <3>3, FinishType DEF CreateSessionFails, TypeOK
    <3> QED
      BY <2>4, <3>1, <3>2, <3>3 DEF Login
  <2>5. CASE Validate(p)
    <3>1. ASSUME NEW t \in Tokens, NEW op \in Ops, ReadSession(p, t, op)
          PROVE  TypeOK'
      <4>1. sessions[t].user \in Users
        BY <3>1, LiveRows DEF ReadSession, SessionRow
      <4>2. /\ [At("expired") EXCEPT !.tok = t] \in Request
            /\ [At("touch") EXCEPT !.tok = t, !.op = op, !.user = sessions[t].user] \in Request
        BY <4>1, AtType DEF Pcs, At, Request
      <4> QED
        BY <3>1, <4>2 DEF ReadSession, TypeOK
    <3>2. CASE RemoveExpired(p)
      BY <3>2, FinishType, WithoutType DEF RemoveExpired, TypeOK
    <3>3. CASE UpdateActivity(p)
      <4>1. req' \in [Procs -> Request]
        BY <3>3, GotoType DEF UpdateActivity, Pcs
      <4>2. ASSUME NEW t \in live
            PROVE  [sessions[t] EXCEPT !.expires = NextExpiry] \in SessionRow
        BY <4>2, LiveRows, ExpiryType DEF SessionRow
      <4>3. sessions' \in [Tokens -> SessionRow \cup {NULL}]
        BY <3>3, <4>2 DEF UpdateActivity, TypeOK
      <4> QED
        BY <3>3, <4>1, <4>3 DEF UpdateActivity, TypeOK
    <3>4. CASE ResolveUser(p)
      <4>1. req' \in [Procs -> Request]
        BY <3>4, GotoType, FinishType DEF ResolveUser, Pcs
      <4> QED
        BY <3>4, <4>1 DEF ResolveUser, TypeOK
    <3>5. CASE Reject(p)
      BY <3>5, FinishType DEF Reject, TypeOK
    <3> QED
      BY <2>5, <3>1, <3>2, <3>3, <3>4, <3>5 DEF Validate
  <2>6. CASE PlayerRoutes(p)
    <3>1. CASE Logout(p)
      BY <3>1, FinishType, WithoutType DEF Logout, TypeOK
    <3>2. ASSUME NEW c \in Chars, NEW w \in Worlds, SelectCharacter(p, c, w)
          PROVE  TypeOK'
      <4>1. [req[p] EXCEPT !.pc = "bind", !.char = c] \in Request
        BY DEF TypeOK, Request, Pcs
      <4> QED
        BY <3>2, <4>1 DEF SelectCharacter, TypeOK
    <3>3. CASE BindCharacter(p)
      <4> DEFINE t == req[p].tok
                 c == req[p].char
      <4>1. c = NULL \/ c \in Chars
        BY DEF TypeOK, Request
      <4>2. ASSUME t \in live, TriggerAllows([sessions[t] EXCEPT !.char = c, !.world = HomeWorld[c]])
            PROVE  [sessions[t] EXCEPT !.char = c, !.world = HomeWorld[c]] \in SessionRow
        <5>1. sessions[t] \in SessionRow
          BY <4>2, LiveRows
        <5>2. CASE c = NULL
          BY <5>1, <5>2, <4>2 DEF TriggerAllows, SessionRow
        <5>3. CASE c \in Chars
          BY <5>1, <5>3, HomeWorldType DEF SessionRow
        <5> QED
          BY <4>1, <5>2, <5>3
      <4>3. sessions' \in [Tokens -> SessionRow \cup {NULL}]
        BY <3>3, <4>2 DEF BindCharacter, TypeOK
      <4>4. req' \in [Procs -> Request]
        BY <3>3, FinishType DEF BindCharacter
      <4> QED
        BY <3>3, <4>3, <4>4 DEF BindCharacter, TypeOK
    <3> QED
      BY <2>6, <3>1, <3>2, <3>3 DEF PlayerRoutes
  <2>7. CASE ModeratorRoutes(p)
    <3>1. ASSUME NEW t \in Tokens, KickSession(p, t)
          PROVE  TypeOK'
      BY <3>1, FinishType, WithoutType DEF KickSession, TypeOK
    <3>2. ASSUME NEW c \in Chars, KickCharacter(p, c)
          PROVE  TypeOK'
      BY <3>2, FinishType, WithoutType DEF KickCharacter, TypeOK
    <3>3. ASSUME NEW u \in Users, Deactivate(p, u)
          PROVE  TypeOK'
      <4>1. [req[p] EXCEPT !.pc = "banned", !.target = u] \in Request
        BY DEF TypeOK, Request, Pcs
      <4> QED
        BY <3>3, <4>1 DEF Deactivate, TypeOK
    <3>4. ASSUME NEW u \in Users, Activate(p, u)
          PROVE  TypeOK'
      BY <3>4, FinishType DEF Activate, TypeOK
    <3>5. ASSUME NEW u \in Users, DeleteUser(p, u)
          PROVE  TypeOK'
      BY <3>5, FinishType, WithoutType, DetachedType DEF DeleteUser, TypeOK
    <3>6. CASE RemoveSessionsOfBanned(p)
      BY <3>6, FinishType, WithoutType DEF RemoveSessionsOfBanned, TypeOK
    <3>7. ASSUME NEW c \in Chars, ReadManaged(p, c)
          PROVE  TypeOK'
      <4>1. ASSUME NEW o \in Ops
            PROVE  [req[p] EXCEPT !.pc = "evict", !.char = c, !.op = o] \in Request
        BY DEF TypeOK, Request, Pcs
      <4>2. "refused" \in Ops /\ req[p].op \in Ops
        BY DEF Ops, TypeOK, Request
      <4> QED
        BY <3>7, <4>1, <4>2 DEF ReadManaged, TypeOK
    <3>8. CASE EvictSessions(p)
      <4>1. req' \in [Procs -> Request]
        BY <3>8, GotoType, FinishType DEF EvictSessions, Pcs
      <4> QED
        BY <3>8, <4>1, WithoutType DEF EvictSessions, TypeOK
    <3>9. CASE Tombstone(p)
      BY <3>9, FinishType DEF Tombstone, TypeOK
    <3>10. CASE DeleteCharacter(p)
      <4>1. req' \in [Procs -> Request]
        BY <3>10, FinishType DEF DeleteCharacter
      <4> QED
        BY <3>10, <4>1 DEF DeleteCharacter, TypeOK
    <3> QED
      BY <2>7, <3>1, <3>2, <3>3, <3>4, <3>5, <3>6, <3>7, <3>8, <3>9, <3>10 DEF ModeratorRoutes
  <2>8. CASE SweepGuests(p)
    <3>1. /\ owner' \in [Chars -> Users \cup {NULL}]
          /\ sessions' \in [Tokens -> SessionRow \cup {NULL}]
      BY <2>8, DetachedType, WithoutType DEF SweepGuests, PurgeExpiredGuests
    <3> QED
      BY <2>8, <3>1 DEF SweepGuests, PurgeExpiredGuests, ExpiredGuests, TypeOK
  <2>9. CASE DatabaseError(p)
    <3>1. At("idle") \in Request /\ At("down") \in Request
      BY AtType DEF Pcs
    <3> QED
      BY <2>9, <3>1 DEF DatabaseError, TypeOK
  <2>10. CASE Crash(p)
    <3>1. At("down") \in Request
      BY AtType DEF Pcs
    <3> QED
      BY <2>10, <3>1 DEF Crash, TypeOK
  <2>11. CASE SweeperDies(p)
    BY <2>11 DEF SweeperDies, TypeOK
  <2> QED
    BY <1>3, <2>1, <2>2, <2>3, <2>4, <2>5, <2>6, <2>7, <2>8, <2>9, <2>10, <2>11
    DEF ProcessStep, Start
<1> QED
  BY <1>1, <1>2, <1>3 DEF Next

\* The tables and the requests keep their types in every interleaving.
THEOREM TypeCorrect == Spec => []TypeOK
  BY InitTypeOK, StepTypeOK, PTL DEF Spec

-----------------------------------------------------------------------------
(***************************************************************************)
(* What a step does to the tables.  Most actions only move a request on or *)
(* remove session rows; the others are named.                              *)
(***************************************************************************)
TablesKept == UNCHANGED <<accounts, chars, deleted, owner, sessions, issued>>

RowsRemoved ==
  /\ \E T \in SUBSET Tokens : sessions' = Without(T)
  /\ UNCHANGED <<accounts, chars, deleted, owner, issued>>

RowsTouched ==
  \/ PurgeExpiredGuests
  \/ \E p \in Procs :
       \/ \E u \in Users, guest \in BOOLEAN : CreateUser(p, u, guest)
       \/ \E c \in Chars, u \in Users : CreateCharacter(p, c, u)
       \/ \E t \in Tokens : CreateSession(p, t)
       \/ UpdateActivity(p)
       \/ BindCharacter(p)
       \/ \E u \in Users : DeleteUser(p, u)
       \/ Tombstone(p)
       \/ DeleteCharacter(p)

LEMMA LiveAreTokens == live \subseteq Tokens
  BY DEF live

LEMMA StepEffect ==
  ASSUME TypeOK, [Next]_vars
  PROVE  TablesKept \/ RowsRemoved \/ RowsTouched
<1>1. CASE Tick
  BY <1>1 DEF Tick, TablesKept
<1>2. CASE UNCHANGED vars
  BY <1>2 DEF vars, TablesKept
<1>3. ASSUME NEW p \in Procs, ProcessStep(p)
      PROVE  TablesKept \/ RowsRemoved \/ RowsTouched
  <2>0. req[p].tok # NULL => {req[p].tok} \in SUBSET Tokens
    BY DEF TypeOK, Request
  <2>1. CASE Start(p)
    <3>1. Expired \in SUBSET Tokens
      BY LiveAreTokens DEF Expired
    <3> QED
      BY <2>1, <3>1 DEF Start, CleanupExpiredSessions, CleanupExpiredGuests, RowsRemoved, RowsTouched
  <2>2. CASE Insert(p)
    BY <2>2 DEF Insert, RowsTouched
  <2>3. CASE Login(p)
    BY <2>3 DEF Login, CheckCredentials, CreateSessionFails, TablesKept, RowsTouched
  <2>4. CASE Validate(p)
    <3>1. ASSUME RemoveExpired(p)
          PROVE  RowsRemoved
      <4>1. sessions' = Without({req[p].tok} \cap Tokens)
        BY <3>1 DEF RemoveExpired, Without
      <4> QED
        BY <3>1, <4>1 DEF RemoveExpired, RowsRemoved
    <3> QED
      BY <2>4, <3>1 DEF Validate, ReadSession, ResolveUser, Reject, TablesKept, RowsTouched
  <2>5. CASE PlayerRoutes(p)
    <3>1. ASSUME Logout(p)
          PROVE  RowsRemoved
      <4>1. sessions' = Without({req[p].tok} \cap Tokens)
        BY <3>1 DEF Logout, Without
      <4> QED
        BY <3>1, <4>1 DEF Logout, RowsRemoved
    <3> QED
      BY <2>5, <3>1 DEF PlayerRoutes, SelectCharacter, TablesKept, RowsTouched
  <2>6. CASE ModeratorRoutes(p)
    <3>1. ASSUME NEW t \in Tokens, KickSession(p, t)
          PROVE  RowsRemoved
      BY <3>1 DEF KickSession, RowsRemoved
    <3>2. ASSUME NEW c \in Chars, KickCharacter(p, c)
          PROVE  RowsRemoved
      BY <3>2, LiveAreTokens DEF KickCharacter, RowsRemoved, SessionsWith
    <3>3. ASSUME RemoveSessionsOfBanned(p)
          PROVE  RowsRemoved
      BY <3>3, LiveAreTokens DEF RemoveSessionsOfBanned, RowsRemoved, SessionsOf
    <3>4. ASSUME EvictSessions(p)
          PROVE  RowsRemoved
      BY <3>4, LiveAreTokens DEF EvictSessions, RowsRemoved, SessionsWith
    <3>5. ASSUME NEW u \in Users, Deactivate(p, u) \/ Activate(p, u)
          PROVE  TablesKept
      BY <3>5 DEF Deactivate, Activate, TablesKept
    <3>6. ASSUME NEW c \in Chars, ReadManaged(p, c)
          PROVE  TablesKept
      BY <3>6 DEF ReadManaged, TablesKept
    <3> QED
      BY <2>6, <3>1, <3>2, <3>3, <3>4, <3>5, <3>6 DEF ModeratorRoutes, RowsTouched
  <2>7. CASE SweepGuests(p)
    BY <2>7 DEF SweepGuests, RowsTouched
  <2>8. CASE SweeperDies(p) \/ DatabaseError(p) \/ Crash(p)
    BY <2>8 DEF SweeperDies, DatabaseError, Crash, TablesKept
  <2> QED
    BY <1>3, <2>1, <2>2, <2>3, <2>4, <2>5, <2>6, <2>7, <2>8 DEF ProcessStep
<1> QED
  BY <1>1, <1>2, <1>3 DEF Next

\* The rows left by Without(T) are live rows, unchanged.
LEMMA RowsLeft ==
  ASSUME NEW T, sessions' = Without(T)
  PROVE  \A t \in live' : t \in live /\ sessions'[t] = sessions[t] /\ t \notin T
  BY DEF live, Without

\* What UpdateActivity and BindCharacter write over a live row.
LEMMA TouchedRows ==
  ASSUME TypeOK, NEW p \in Procs, UpdateActivity(p)
  PROVE  \A t \in live' : /\ t \in live
                          /\ sessions'[t].user = sessions[t].user
                          /\ sessions'[t].char = sessions[t].char
                          /\ sessions'[t].world = sessions[t].world
  BY LiveRows DEF UpdateActivity, TypeOK, live, SessionRow

LEMMA BoundRows ==
  ASSUME TypeOK, NEW p \in Procs, BindCharacter(p), NEW t \in live'
  PROVE  /\ t \in live
         /\ sessions'[t].user = sessions[t].user
         /\ \/ sessions'[t] = sessions[t]
            \/ /\ t = req[p].tok
               /\ sessions'[t].char = req[p].char
               /\ sessions'[t].char = NULL => sessions'[t].world = NULL
               /\ sessions'[t].char # NULL =>
                    /\ sessions'[t].char \in chars
                    /\ sessions'[t].world = HomeWorld[sessions'[t].char]
                    /\ owner[sessions'[t].char] \in {sessions[t].user, NULL}
<1> DEFINE c   == req[p].char
           row == [sessions[t] EXCEPT !.char = c, !.world = HomeWorld[c]]
<1>1. CASE sessions'[t] = sessions[t]
  BY <1>1 DEF live
<1>2. CASE sessions'[t] # sessions[t]
  <2>1. /\ t = req[p].tok
        /\ t \in live
        /\ TriggerAllows(row)
        /\ sessions'[t] = row
    BY <1>2 DEF BindCharacter, live, TypeOK
  <2>2. sessions[t] \in SessionRow
    BY <2>1, LiveRows
  <2>3. row.user = sessions[t].user /\ row.char = c /\ row.world = HomeWorld[c]
    BY <2>2 DEF SessionRow
  <2> QED
    BY <2>1, <2>3 DEF TriggerAllows
<1> QED
  BY <1>1, <1>2

\* The new row of a login, and the rows it keeps.
LEMMA OpenedRows ==
  ASSUME TypeOK, NEW p \in Procs, NEW n \in Tokens, CreateSession(p, n)
  PROVE  /\ n \in live'
         /\ sessions'[n] = SessionFor(req[p].user)
         /\ \A t \in live' \ {n} : /\ t \in live
                                   /\ sessions'[t] = sessions[t]
                                   /\ AllowMultiple \/ sessions[t].user # req[p].user
<1>1. SessionFor(req[p].user) # NULL
  <2>1. SessionFor(req[p].user) \in SessionRow
    BY ExpiryType DEF CreateSession, TypeOK, SessionFor, SessionRow, Request
  <2> QED
    BY <2>1, NullIsFresh
<1> QED
  BY <1>1 DEF CreateSession, TypeOK, live, Without, SessionsOf

\* Only a login adds rows; every other step removes rows or keeps their users.
LEMMA RowsEvolve ==
  ASSUME TypeOK, [Next]_vars
  PROVE  \/ /\ issued' = issued
            /\ \A t \in live' : t \in live /\ sessions'[t].user = sessions[t].user
         \/ \E p \in Procs, n \in Tokens : CreateSession(p, n)
<1>1. CASE TablesKept
  BY <1>1 DEF TablesKept, live
<1>2. CASE RowsRemoved
  BY <1>2, RowsLeft DEF RowsRemoved
<1>3. CASE PurgeExpiredGuests
  BY <1>3, RowsLeft DEF PurgeExpiredGuests
<1>4. ASSUME NEW p \in Procs, UpdateActivity(p)
      PROVE  /\ issued' = issued
             /\ \A t \in live' : t \in live /\ sessions'[t].user = sessions[t].user
  BY <1>4, TouchedRows DEF UpdateActivity
<1>5. ASSUME NEW p \in Procs, BindCharacter(p)
      PROVE  /\ issued' = issued
             /\ \A t \in live' : t \in live /\ sessions'[t].user = sessions[t].user
  BY <1>5, BoundRows DEF BindCharacter
<1>6. ASSUME NEW p \in Procs, NEW u \in Users, DeleteUser(p, u)
      PROVE  /\ issued' = issued
             /\ \A t \in live' : t \in live /\ sessions'[t].user = sessions[t].user
  BY <1>6, RowsLeft DEF DeleteUser
<1>7. ASSUME UNCHANGED sessVars
      PROVE  /\ issued' = issued
             /\ \A t \in live' : t \in live /\ sessions'[t].user = sessions[t].user
  BY <1>7 DEF live
<1> QED
  BY <1>1, <1>2, <1>3, <1>4, <1>5, <1>6, <1>7, StepEffect
  DEF RowsTouched, CreateUser, CreateCharacter, Tombstone, DeleteCharacter

\* A step of one process leaves the requests of the others alone.
LEMMA OthersKept ==
  ASSUME TypeOK, NEW p \in Procs, ProcessStep(p), NEW q \in Procs \ {p}
  PROVE  req'[q] = req[q]
<1> USE DEF Goto, Finish, TypeOK
<1>1. CASE Start(p)
  BY <1>1 DEF Start, CleanupExpiredSessions, CleanupExpiredGuests
<1>2. CASE Insert(p)
  BY <1>2 DEF Insert, CreateUser, CreateCharacter
<1>3. CASE Login(p)
  BY <1>3 DEF Login, CheckCredentials, CreateSession, CreateSessionFails
<1>4. CASE Validate(p)
  BY <1>4 DEF Validate, ReadSession, RemoveExpired, UpdateActivity, ResolveUser, Reject
<1>5. CASE PlayerRoutes(p)
  BY <1>5 DEF PlayerRoutes, Logout, SelectCharacter, BindCharacter
<1>6. CASE ModeratorRoutes(p)
  BY <1>6 DEF ModeratorRoutes, KickSession, KickCharacter, Deactivate, Activate, DeleteUser,
     RemoveSessionsOfBanned, ReadManaged, EvictSessions, Tombstone, DeleteCharacter
<1>7. CASE SweepGuests(p) \/ SweeperDies(p) \/ DatabaseError(p) \/ Crash(p)
  BY <1>7 DEF SweepGuests, SweeperDies, DatabaseError, Crash
<1> QED
  BY <1>1, <1>2, <1>3, <1>4, <1>5, <1>6, <1>7 DEF ProcessStep

\* How a request comes to the point where it binds a character.
LEMMA StepToBind ==
  ASSUME TypeOK, [Next]_vars, NEW q \in Procs, req'[q].pc = "bind"
  PROVE  \/ req'[q] = req[q]
         \/ \E c \in Chars, w \in Worlds : SelectCharacter(q, c, w)
<1>1. CASE Tick \/ UNCHANGED vars
  BY <1>1 DEF Tick, vars
<1>2. ASSUME ProcessStep(q), ~\E c \in Chars, w \in Worlds : SelectCharacter(q, c, w)
      PROVE  req'[q] = req[q]
  <2> USE DEF Goto, Finish, At, TypeOK, Request
  <2>1. CASE Start(q)
    BY <1>2, <2>1 DEF Start, CleanupExpiredSessions, CleanupExpiredGuests
  <2>2. CASE Insert(q)
    BY <1>2, <2>2 DEF Insert, CreateUser, CreateCharacter
  <2>3. CASE Login(q)
    BY <1>2, <2>3 DEF Login, CheckCredentials, CreateSession, CreateSessionFails
  <2>4. CASE Validate(q)
    <3>1. ASSUME NEW t \in Tokens, NEW op \in Ops, ReadSession(q, t, op)
          PROVE  req'[q] = req[q]
      BY <1>2, <3>1 DEF ReadSession
    <3>2. CASE RemoveExpired(q) \/ Reject(q)
      BY <3>2 DEF RemoveExpired, Reject
    <3>3. CASE UpdateActivity(q) \/ ResolveUser(q)
      BY <3>3 DEF UpdateActivity, ResolveUser
    <3> QED
      BY <2>4, <3>1, <3>2, <3>3 DEF Validate
  <2>5. CASE PlayerRoutes(q)
    BY <1>2, <2>5 DEF PlayerRoutes, Logout, SelectCharacter, BindCharacter
  <2>6. CASE ModeratorRoutes(q)
    <3>1. ASSUME NEW u \in Users, Deactivate(q, u)
          PROVE  req'[q].pc = "banned"
      BY <3>1 DEF Deactivate
    <3>2. ASSUME NEW c \in Chars, ReadManaged(q, c)
          PROVE  req'[q].pc = "evict"
      BY <3>2 DEF ReadManaged
    <3>3. CASE EvictSessions(q)
      BY <3>3 DEF EvictSessions
    <3>4. ASSUME Finish(q)
          PROVE  req'[q].pc = "idle"
      BY <3>4
    <3> QED
      BY <2>6, <3>1, <3>2, <3>3, <3>4 DEF ModeratorRoutes, KickSession, KickCharacter, Activate,
         DeleteUser, RemoveSessionsOfBanned, Tombstone, DeleteCharacter
  <2>7. CASE SweepGuests(q) \/ SweeperDies(q) \/ DatabaseError(q) \/ Crash(q)
    BY <1>2, <2>7 DEF SweepGuests, SweeperDies, DatabaseError, Crash
  <2> QED
    BY <1>2, <2>1, <2>2, <2>3, <2>4, <2>5, <2>6, <2>7 DEF ProcessStep
<1>3. ASSUME NEW p \in Procs \ {q}, ProcessStep(p)
      PROVE  req'[q] = req[q]
  BY <1>3, OthersKept
<1> QED
  BY <1>1, <1>2, <1>3 DEF Next

-----------------------------------------------------------------------------
(***************************************************************************)
(* SessionIntegrity needs OwnersExist, and together they are inductive:    *)
(* the rows a session refers to go away only with the session.             *)
(***************************************************************************)
Integrity == TypeOK /\ SessionIntegrity /\ OwnersExist

LEMMA InitIntegrity == Init => Integrity
  BY InitTypeOK DEF Init, Integrity, SessionIntegrity, OwnersExist, live

LEMMA PurgeIntegrity ==
  ASSUME Integrity, PurgeExpiredGuests
  PROVE  SessionIntegrity' /\ OwnersExist'
<1> DEFINE G == ExpiredGuests
<1>1. owner' = [c \in Chars |-> IF owner[c] \in G THEN NULL ELSE owner[c]]
  BY DEF PurgeExpiredGuests, Detached
<1>2. accounts' = accounts \ G /\ chars' = chars /\ G \subseteq Users
  BY DEF PurgeExpiredGuests, ExpiredGuests, Integrity, TypeOK
<1>3. \A t \in live' : t \in live /\ sessions'[t] = sessions[t] /\ sessions[t].user \notin G
  <2>1. \A t \in live' : /\ t \in live
                         /\ sessions'[t] = sessions[t]
                         /\ t \notin UNION {SessionsOf(u) : u \in G}
    BY RowsLeft DEF PurgeExpiredGuests
  <2> QED
    BY <2>1 DEF SessionsOf
<1>4. OwnersExist'
  BY <1>1, <1>2, NullIsFresh DEF OwnersExist, Integrity
<1>5. SessionIntegrity'
  BY <1>1, <1>2, <1>3 DEF SessionIntegrity, Integrity, TypeOK
<1> QED
  BY <1>4, <1>5

LEMMA StepIntegrity == Integrity /\ [Next]_vars => Integrity'
<1> SUFFICES ASSUME Integrity, [Next]_vars
             PROVE  SessionIntegrity' /\ OwnersExist'
  BY StepTypeOK DEF Integrity
<1> USE DEF Integrity
<1>1. CASE TablesKept
  BY <1>1 DEF TablesKept, SessionIntegrity, OwnersExist, live
<1>2. CASE RowsRemoved
  BY <1>2, RowsLeft DEF RowsRemoved, SessionIntegrity, OwnersExist
<1>3. CASE PurgeExpiredGuests
  BY <1>3, PurgeIntegrity
<1>4. ASSUME NEW p \in Procs, NEW u \in Users, NEW guest \in BOOLEAN, CreateUser(p, u, guest)
      PROVE  SessionIntegrity' /\ OwnersExist'
  BY <1>4 DEF CreateUser, SessionIntegrity, OwnersExist, live
<1>5. ASSUME NEW p \in Procs, NEW c \in Chars, NEW u \in Users, CreateCharacter(p, c, u)
      PROVE  SessionIntegrity' /\ OwnersExist'
  <2>1. \A d \in Chars : owner'[d] = IF d = c THEN u ELSE owner[d]
    BY <1>5 DEF CreateCharacter, TypeOK
  <2>2. c \notin chars /\ u \in accounts /\ chars' = chars \cup {c}
    BY <1>5 DEF CreateCharacter
  <2>3. UNCHANGED <<accounts, sessions>> /\ live' = live
    BY <1>5 DEF CreateCharacter, live
  <2>4. OwnersExist'
    BY <2>1, <2>2, <2>3 DEF OwnersExist
  <2>5. SessionIntegrity'
    BY <2>1, <2>2, <2>3 DEF SessionIntegrity, TypeOK
  <2> QED
    BY <2>4, <2>5
<1>6. ASSUME NEW p \in Procs, NEW t \in Tokens, CreateSession(p, t)
      PROVE  SessionIntegrity' /\ OwnersExist'
  <2>1. UNCHANGED <<accounts, chars, owner>> /\ req[p].user \in accounts
    BY <1>6 DEF CreateSession
  <2>2. /\ sessions'[t] = SessionFor(req[p].user)
        /\ \A x \in live' \ {t} : x \in live /\ sessions'[x] = sessions[x]
    BY <1>6, OpenedRows
  <2>3. SessionIntegrity'
    BY <2>1, <2>2 DEF SessionIntegrity, SessionFor
  <2> QED
    BY <2>1, <2>3 DEF OwnersExist
<1>7. ASSUME NEW p \in Procs, UpdateActivity(p)
      PROVE  SessionIntegrity' /\ OwnersExist'
  <2>1. UNCHANGED <<accounts, chars, owner>>
    BY <1>7 DEF UpdateActivity
  <2> QED
    BY <1>7, <2>1, TouchedRows DEF SessionIntegrity, OwnersExist
<1>8. ASSUME NEW p \in Procs, BindCharacter(p)
      PROVE  SessionIntegrity' /\ OwnersExist'
  <2>1. UNCHANGED <<accounts, chars, owner>>
    BY <1>8 DEF BindCharacter
  <2>2. ASSUME NEW t \in live'
        PROVE  LET row == sessions'[t]
               IN /\ row.user \in accounts
                  /\ row.char = NULL <=> row.world = NULL
                  /\ row.char # NULL => /\ row.char \in chars
                                        /\ row.world = HomeWorld[row.char]
                                        /\ owner[row.char] \in {row.user, NULL}
    <3>1. \A c \in chars : HomeWorld[c] # NULL
      BY HomeWorldType, NullIsFresh DEF TypeOK
    <3> QED
      BY <1>8, <2>2, <3>1, BoundRows DEF SessionIntegrity
  <2> QED
    BY <2>1, <2>2 DEF SessionIntegrity, OwnersExist
<1>9. ASSUME NEW p \in Procs, NEW u \in Users, DeleteUser(p, u)
      PROVE  SessionIntegrity' /\ OwnersExist'
  <2>1. owner' = [c \in Chars |-> IF owner[c] \in {u} THEN NULL ELSE owner[c]]
    BY <1>9 DEF DeleteUser, Detached
  <2>2. UNCHANGED <<accounts, chars>>
    BY <1>9 DEF DeleteUser
  <2>3. \A t \in live' : t \in live /\ sessions'[t] = sessions[t]
    BY <1>9, RowsLeft DEF DeleteUser
  <2> QED
    BY <2>1, <2>2, <2>3 DEF SessionIntegrity, OwnersExist, TypeOK
<1>10. ASSUME NEW p \in Procs, Tombstone(p)
       PROVE  SessionIntegrity' /\ OwnersExist'
  BY <1>10 DEF Tombstone, SessionIntegrity, OwnersExist, TypeOK, live
<1>11. ASSUME NEW p \in Procs, DeleteCharacter(p)
       PROVE  SessionIntegrity' /\ OwnersExist'
  <2>1. UNCHANGED <<accounts, sessions>> /\ live' = live
    BY <1>11 DEF DeleteCharacter, live
  <2> QED
    BY <1>11, <2>1 DEF DeleteCharacter, SessionsWith, SessionIntegrity, OwnersExist, TypeOK
<1> QED
  BY <1>1, <1>2, <1>3, <1>4, <1>5, <1>6, <1>7, <1>8, <1>9, <1>10, <1>11, StepEffect DEF RowsTouched

\* No interleaving of handlers, sweeps, faults and processes leaves a session
\* row that refers to a missing row, or to somebody else's character.
THEOREM IntegrityHolds == Spec => []TablesAgree
<1>1. Integrity => TablesAgree
  BY DEF Integrity, TablesAgree
<1> QED
  BY <1>1, InitIntegrity, StepIntegrity, PTL DEF Spec

-----------------------------------------------------------------------------
(***************************************************************************)
(* One session per account, and no way back for a revoked id.              *)
(***************************************************************************)
LEMMA StepSingle == TypeOK /\ SingleSession /\ [Next]_vars => SingleSession'
<1> SUFFICES ASSUME TypeOK, SingleSession, [Next]_vars, ~AllowMultiple
             PROVE  \A t1, t2 \in live' : sessions'[t1].user = sessions'[t2].user => t1 = t2
  BY DEF SingleSession
<1>0. \A t1, t2 \in live : sessions[t1].user = sessions[t2].user => t1 = t2
  BY DEF SingleSession
<1>1. ASSUME \A t \in live' : t \in live /\ sessions'[t].user = sessions[t].user
      PROVE  \A t1, t2 \in live' : sessions'[t1].user = sessions'[t2].user => t1 = t2
  BY <1>0, <1>1
<1>2. ASSUME NEW p \in Procs, NEW n \in Tokens, CreateSession(p, n)
      PROVE  \A t1, t2 \in live' : sessions'[t1].user = sessions'[t2].user => t1 = t2
  <2>0. sessions'[n] = SessionFor(req[p].user)
    BY <1>2, OpenedRows
  <2>1. sessions'[n].user = req[p].user
    BY <2>0 DEF SessionFor
  <2>2. \A t \in live' \ {n} : /\ t \in live
                               /\ sessions'[t] = sessions[t]
                               /\ sessions[t].user # req[p].user
    BY <1>2, OpenedRows
  <2> QED
    BY <1>0, <2>1, <2>2
<1> QED
  BY <1>1, <1>2, RowsEvolve

\* allow_multiple_sessions = false: never two session rows of one account.
THEOREM SingleSessionHolds == Spec => []SingleSession
<1>1. Init => SingleSession
  BY DEF Init, SingleSession, live
<1> QED
  BY <1>1, InitTypeOK, StepTypeOK, StepSingle, PTL DEF Spec

-----------------------------------------------------------------------------
(***************************************************************************)
(* With one server process nothing is committed between two calls of one   *)
(* handler, so what a handler has checked still holds when it writes.      *)
(***************************************************************************)
\* A request acts for the account whose session it read: ids are not reused
\* and a row keeps its user.  True of any number of processes.
ActsForHolder ==
  \A p \in Procs : req[p].pc \in {"touch", "resolve", "dispatch", "bind"} =>
    /\ req[p].tok \in issued
    /\ req[p].tok \in live => sessions[req[p].tok].user = req[p].user

\* An unused id is told from an ended one by "issued".
LiveIssued == live \subseteq issued

\* What the checks of select_character and manage_character established.
ChecksHold ==
  \A p \in Procs : /\ req[p].pc = "bind" => owner[req[p].char] = req[p].user
                   /\ req[p].pc = "erase" => SessionsWith(req[p].char) = {}

LEMMA StepLiveIssued == TypeOK /\ LiveIssued /\ [Next]_vars => LiveIssued'
<1> SUFFICES ASSUME TypeOK, LiveIssued, [Next]_vars
             PROVE  LiveIssued'
  OBVIOUS
<1>1. ASSUME NEW p \in Procs, NEW n \in Tokens, CreateSession(p, n)
      PROVE  LiveIssued'
  <2>1. issued' = issued \cup {n}
    BY <1>1 DEF CreateSession
  <2>2. \A t \in live' \ {n} : t \in live
    BY <1>1, OpenedRows
  <2> QED
    BY <2>1, <2>2 DEF LiveIssued
<1> QED
  BY <1>1, RowsEvolve DEF LiveIssued

\* An id that was handed out keeps its user for as long as its row is there.
LEMMA HolderKept ==
  ASSUME TypeOK, [Next]_vars, NEW t \in issued
  PROVE  /\ t \in issued'
         /\ t \in live' => t \in live /\ sessions'[t].user = sessions[t].user
<1>1. ASSUME NEW p \in Procs, NEW n \in Tokens, CreateSession(p, n)
      PROVE  /\ t \in issued'
             /\ t \in live' => t \in live /\ sessions'[t].user = sessions[t].user
  <2>1. t # n /\ issued' = issued \cup {n}
    BY <1>1 DEF CreateSession
  <2>2. \A x \in live' \ {n} : x \in live /\ sessions'[x] = sessions[x]
    BY <1>1, OpenedRows
  <2> QED
    BY <2>1, <2>2
<1> QED
  BY <1>1, RowsEvolve

\* How a request comes to hold a session id.
LEMMA StepToHold ==
  ASSUME TypeOK, [Next]_vars, NEW q \in Procs,
         req'[q].pc \in {"touch", "resolve", "dispatch", "bind"}
  PROVE  \/ \E t \in Tokens, op \in Ops : ReadSession(q, t, op)
         \/ /\ req[q].pc \in {"touch", "resolve", "dispatch", "bind"}
            /\ req'[q].tok = req[q].tok
            /\ req'[q].user = req[q].user
<1> USE DEF Goto, Finish, At, TypeOK, Request
<1>1. CASE Tick \/ UNCHANGED vars
  BY <1>1 DEF Tick, vars
<1>2. ASSUME ProcessStep(q), ~\E t \in Tokens, op \in Ops : ReadSession(q, t, op)
      PROVE  /\ req[q].pc \in {"touch", "resolve", "dispatch", "bind"}
             /\ req'[q].tok = req[q].tok
             /\ req'[q].user = req[q].user
  <2>1. CASE Start(q)
    BY <1>2, <2>1 DEF Start, CleanupExpiredSessions, CleanupExpiredGuests
  <2>2. CASE Insert(q)
    <3>1. UNCHANGED req
      BY <2>2 DEF Insert, CreateUser, CreateCharacter
    <3> QED
      BY <1>2, <3>1
  <2>3. CASE Login(q)
    <3>1. ASSUME NEW u \in Users, CheckCredentials(q, u)
          PROVE  req'[q].pc = "login"
      BY <3>1 DEF CheckCredentials
    <3>2. ASSUME Finish(q)
          PROVE  req'[q].pc = "idle"
      BY <3>2
    <3> QED
      BY <1>2, <2>3, <3>1, <3>2 DEF Login, CreateSession, CreateSessionFails
  <2>4. CASE Validate(q)
    <3>1. CASE RemoveExpired(q) \/ Reject(q)
      BY <1>2, <3>1 DEF RemoveExpired, Reject
    <3>2. CASE UpdateActivity(q) \/ ResolveUser(q)
      BY <1>2, <3>2 DEF UpdateActivity, ResolveUser
    <3> QED
      BY <1>2, <2>4, <3>1, <3>2 DEF Validate
  <2>5. CASE PlayerRoutes(q)
    <3>1. ASSUME NEW c \in Chars, NEW w \in Worlds, SelectCharacter(q, c, w)
          PROVE  /\ req[q].pc = "dispatch"
                 /\ req'[q].tok = req[q].tok
                 /\ req'[q].user = req[q].user
      BY <3>1 DEF SelectCharacter, Dispatched
    <3>2. ASSUME Logout(q) \/ BindCharacter(q)
          PROVE  req'[q].pc = "idle"
      BY <3>2 DEF Logout, BindCharacter
    <3> QED
      BY <1>2, <2>5, <3>1, <3>2 DEF PlayerRoutes
  <2>6. CASE ModeratorRoutes(q)
    <3>1. ASSUME NEW u \in Users, Deactivate(q, u)
          PROVE  req'[q].pc = "banned"
      BY <3>1 DEF Deactivate
    <3>2. ASSUME NEW c \in Chars, ReadManaged(q, c)
          PROVE  req'[q].pc = "evict"
      BY <3>2 DEF ReadManaged
    <3>3. ASSUME EvictSessions(q)
          PROVE  req'[q].pc \in {"idle", "erase"}
      BY <3>3 DEF EvictSessions
    <3>4. ASSUME Finish(q)
          PROVE  req'[q].pc = "idle"
      BY <3>4
    <3> QED
      BY <1>2, <2>6, <3>1, <3>2, <3>3, <3>4 DEF ModeratorRoutes, KickSession, KickCharacter, Activate,
         DeleteUser, RemoveSessionsOfBanned, Tombstone, DeleteCharacter
  <2>7. CASE SweepGuests(q) \/ SweeperDies(q) \/ DatabaseError(q) \/ Crash(q)
    BY <1>2, <2>7 DEF SweepGuests, SweeperDies, DatabaseError, Crash
  <2> QED
    BY <1>2, <2>1, <2>2, <2>3, <2>4, <2>5, <2>6, <2>7 DEF ProcessStep
<1>3. ASSUME NEW p \in Procs \ {q}, ProcessStep(p)
      PROVE  req'[q] = req[q]
  BY <1>3, OthersKept
<1> QED
  BY <1>1, <1>2, <1>3 DEF Next

LEMMA StepActsForHolder ==
  TypeOK /\ LiveIssued /\ ActsForHolder /\ [Next]_vars => ActsForHolder'
<1> SUFFICES ASSUME TypeOK, LiveIssued, ActsForHolder, [Next]_vars, NEW q \in Procs,
                    req'[q].pc \in {"touch", "resolve", "dispatch", "bind"}
             PROVE  /\ req'[q].tok \in issued'
                    /\ req'[q].tok \in live' => sessions'[req'[q].tok].user = req'[q].user
  BY DEF ActsForHolder
<1>1. ASSUME NEW t \in Tokens, NEW op \in Ops, ReadSession(q, t, op)
      PROVE  /\ req'[q].tok \in issued'
             /\ req'[q].tok \in live' => sessions'[req'[q].tok].user = req'[q].user
  <2>1. req'[q].tok = t /\ req'[q].user = sessions[t].user /\ t \in live
    BY <1>1 DEF ReadSession, TypeOK, Request, At
  <2>2. UNCHANGED <<sessions, issued>>
    BY <1>1 DEF ReadSession
  <2> QED
    BY <2>1, <2>2 DEF LiveIssued
<1>2. ASSUME req[q].pc \in {"touch", "resolve", "dispatch", "bind"},
             req'[q].tok = req[q].tok, req'[q].user = req[q].user
      PROVE  /\ req'[q].tok \in issued'
             /\ req'[q].tok \in live' => sessions'[req'[q].tok].user = req'[q].user
  <2>1. /\ req[q].tok \in issued
        /\ req[q].tok \in live => sessions[req[q].tok].user = req[q].user
    BY <1>2 DEF ActsForHolder
  <2> QED
    BY <1>2, <2>1, HolderKept
<1> QED
  BY <1>1, <1>2, StepToHold

OneProcess == \A p, q \in Procs : p = q

\* A process at "bind" or "erase" has one call left to make.
LEMMA LastCall ==
  ASSUME TypeOK, NEW q \in Procs, req[q].pc \in {"bind", "erase"}, ProcessStep(q)
  PROVE  /\ req'[q].pc \in {"idle", "down"}
         /\ req[q].pc = "bind"  => BindCharacter(q) \/ UNCHANGED <<chars, owner, sessions>>
         /\ req[q].pc = "erase" => Tombstone(q) \/ DeleteCharacter(q)
                                    \/ UNCHANGED <<chars, owner, sessions>>
<1> USE DEF Finish, At, TypeOK, Request, Dispatched
<1>1. ~Start(q) /\ ~Insert(q) /\ ~SweepGuests(q) /\ ~SweeperDies(q)
  BY DEF Start, CleanupExpiredSessions, CleanupExpiredGuests, Insert, CreateUser, CreateCharacter,
     SweepGuests, SweeperDies
<1>2. ~Login(q) /\ ~Validate(q)
  BY DEF Login, CheckCredentials, CreateSession, CreateSessionFails, Validate, ReadSession,
     RemoveExpired, UpdateActivity, ResolveUser, Reject
<1>3. ASSUME PlayerRoutes(q)
      PROVE  BindCharacter(q) /\ req[q].pc = "bind"
  BY <1>3 DEF PlayerRoutes, Logout, SelectCharacter, BindCharacter
<1>4. ASSUME ModeratorRoutes(q)
      PROVE  (Tombstone(q) \/ DeleteCharacter(q)) /\ req[q].pc = "erase"
  BY <1>4 DEF ModeratorRoutes, KickSession, KickCharacter, Deactivate, Activate, DeleteUser,
     RemoveSessionsOfBanned, ReadManaged, EvictSessions, Tombstone, DeleteCharacter
<1>5. ASSUME DatabaseError(q) \/ Crash(q)
      PROVE  req'[q].pc \in {"idle", "down"} /\ UNCHANGED <<chars, owner, sessions>>
  BY <1>5 DEF DatabaseError, Crash
<1> QED
  BY <1>1, <1>2, <1>3, <1>4, <1>5 DEF ProcessStep, BindCharacter, Tombstone, DeleteCharacter

\* With one process, nothing is written while a request waits at that call.
LEMMA Undisturbed ==
  ASSUME TypeOK, OneProcess, [Next]_vars, NEW q \in Procs, req[q].pc \in {"bind", "erase"},
         req'[q] = req[q]
  PROVE  UNCHANGED <<chars, owner, sessions>>
<1>1. ~ProcessStep(q)
  BY LastCall
<1>2. Tick \/ UNCHANGED vars
  BY <1>1 DEF Next, OneProcess
<1> QED
  BY <1>2 DEF Tick, vars

LEMMA StepToErase ==
  ASSUME TypeOK, [Next]_vars, NEW q \in Procs, req'[q].pc = "erase"
  PROVE  req'[q] = req[q] \/ EvictSessions(q)
<1>1. CASE Tick \/ UNCHANGED vars
  BY <1>1 DEF Tick, vars
<1>2. ASSUME ProcessStep(q), ~EvictSessions(q)
      PROVE  req'[q] = req[q]
  <2> USE DEF Goto, Finish, At, TypeOK, Request
  <2>1. CASE Start(q) \/ Insert(q)
    BY <1>2, <2>1 DEF Start, CleanupExpiredSessions, CleanupExpiredGuests, Insert, CreateUser,
       CreateCharacter
  <2>2. CASE Login(q)
    BY <1>2, <2>2 DEF Login, CheckCredentials, CreateSession, CreateSessionFails
  <2>3. CASE Validate(q)
    <3>1. ASSUME NEW t \in Tokens, NEW op \in Ops, ReadSession(q, t, op)
          PROVE  req'[q].pc \in {"expired", "touch"}
      BY <3>1 DEF ReadSession
    <3>2. ASSUME RemoveExpired(q) \/ UpdateActivity(q) \/ ResolveUser(q) \/ Reject(q)
          PROVE  req'[q].pc \in {"idle", "resolve", "dispatch"}
      BY <3>2 DEF RemoveExpired, UpdateActivity, ResolveUser, Reject
    <3> QED
      BY <1>2, <2>3, <3>1, <3>2 DEF Validate
  <2>4. CASE PlayerRoutes(q)
    BY <1>2, <2>4 DEF PlayerRoutes, Logout, SelectCharacter, BindCharacter
  <2>5. CASE ModeratorRoutes(q)
    <3>1. ASSUME NEW u \in Users, Deactivate(q, u)
          PROVE  req'[q].pc = "banned"
      BY <3>1 DEF Deactivate
    <3>2. ASSUME NEW c \in Chars, ReadManaged(q, c)
          PROVE  req'[q].pc = "evict"
      BY <3>2 DEF ReadManaged
    <3>3. ASSUME Finish(q)
          PROVE  req'[q].pc = "idle"
      BY <3>3
    <3> QED
      BY <1>2, <2>5, <3>1, <3>2, <3>3 DEF ModeratorRoutes, KickSession, KickCharacter, Activate,
         DeleteUser, RemoveSessionsOfBanned, Tombstone, DeleteCharacter
  <2>6. CASE SweepGuests(q) \/ SweeperDies(q) \/ DatabaseError(q) \/ Crash(q)
    BY <1>2, <2>6 DEF SweepGuests, SweeperDies, DatabaseError, Crash
  <2> QED
    BY <1>2, <2>1, <2>2, <2>3, <2>4, <2>5, <2>6 DEF ProcessStep
<1>3. ASSUME NEW p \in Procs \ {q}, ProcessStep(p)
      PROVE  req'[q] = req[q]
  BY <1>3, OthersKept
<1> QED
  BY <1>1, <1>2, <1>3 DEF Next

Ownership == Integrity /\ LiveIssued /\ ActsForHolder /\ ChecksHold /\ InWorldOwned

LEMMA StepChecks == OneProcess /\ Ownership /\ [Next]_vars => ChecksHold'
<1> SUFFICES ASSUME OneProcess, Ownership, [Next]_vars, NEW q \in Procs
             PROVE  /\ req'[q].pc = "bind" => owner'[req'[q].char] = req'[q].user
                    /\ req'[q].pc = "erase" => SessionsWith(req[q].char)' = {}
  BY DEF ChecksHold
<1> USE DEF Ownership, Integrity
<1>1. ASSUME req'[q] = req[q], req'[q].pc \in {"bind", "erase"}
      PROVE  /\ req'[q].pc = "bind" => owner'[req'[q].char] = req'[q].user
             /\ req'[q].pc = "erase" => SessionsWith(req[q].char)' = {}
  <2>1. UNCHANGED <<chars, owner, sessions>>
    BY <1>1, Undisturbed
  <2> QED
    BY <1>1, <2>1 DEF ChecksHold, SessionsWith, live
<1>2. ASSUME NEW c \in Chars, NEW w \in Worlds, SelectCharacter(q, c, w)
      PROVE  owner'[req'[q].char] = req'[q].user /\ req'[q].pc = "bind"
  BY <1>2 DEF SelectCharacter, TypeOK, Request
<1>3. ASSUME EvictSessions(q), req'[q].pc = "erase"
      PROVE  SessionsWith(req[q].char)' = {}
  <2>1. req'[q].char = req[q].char
    BY <1>3 DEF EvictSessions, Goto, Finish, At, TypeOK, Request
  <2>2. \A t \in live' : /\ t \in live
                         /\ sessions'[t] = sessions[t]
                         /\ t \notin SessionsWith(req[q].char)
    BY <1>3, RowsLeft DEF EvictSessions
  <2> QED
    BY <2>1, <2>2 DEF SessionsWith
<1> QED
  BY <1>1, <1>2, <1>3, StepToBind, StepToErase

LEMMA StepOwned == OneProcess /\ Ownership /\ [Next]_vars => InWorldOwned'
<1> SUFFICES ASSUME OneProcess, Ownership, [Next]_vars
             PROVE  \A t \in live' : sessions'[t].char # NULL => owner'[sessions'[t].char] = sessions'[t].user
  BY DEF InWorldOwned
<1> USE DEF Ownership, Integrity
<1>0. \A t \in live : sessions[t].char # NULL => /\ owner[sessions[t].char] = sessions[t].user
                                                 /\ sessions[t].char \in chars
  BY DEF InWorldOwned, SessionIntegrity
<1>1. CASE TablesKept
  BY <1>0, <1>1 DEF TablesKept, live
<1>2. CASE RowsRemoved
  BY <1>0, <1>2, RowsLeft DEF RowsRemoved
<1>3. ASSUME NEW G \in SUBSET Users, owner' = Detached(G),
             \A t \in live' : t \in live /\ sessions'[t] = sessions[t] /\ sessions[t].user \notin G
      PROVE  \A t \in live' : sessions'[t].char # NULL => owner'[sessions'[t].char] = sessions'[t].user
  BY <1>0, <1>3 DEF Detached, TypeOK
<1>4. CASE PurgeExpiredGuests
  <2>1. PICK G \in SUBSET Users : G = ExpiredGuests
    BY DEF ExpiredGuests, TypeOK
  <2>2. \A t \in live' : /\ t \in live
                         /\ sessions'[t] = sessions[t]
                         /\ t \notin UNION {SessionsOf(u) : u \in ExpiredGuests}
    BY <1>4, RowsLeft DEF PurgeExpiredGuests
  <2>3. \A t \in live' : t \in live /\ sessions'[t] = sessions[t] /\ sessions[t].user \notin G
    BY <2>1, <2>2 DEF SessionsOf
  <2> QED
    BY <1>3, <1>4, <2>1, <2>3 DEF PurgeExpiredGuests
<1>5. ASSUME NEW p \in Procs, NEW c \in Chars, NEW u \in Users, CreateCharacter(p, c, u)
      PROVE  \A t \in live' : sessions'[t].char # NULL => owner'[sessions'[t].char] = sessions'[t].user
  BY <1>0, <1>5 DEF CreateCharacter, TypeOK, live
<1>6. ASSUME NEW p \in Procs, NEW n \in Tokens, CreateSession(p, n)
      PROVE  \A t \in live' : sessions'[t].char # NULL => owner'[sessions'[t].char] = sessions'[t].user
  <2>1. sessions'[n] = SessionFor(req[p].user) /\ \A t \in live' \ {n} : t \in live /\ sessions'[t] = sessions[t]
    BY <1>6, OpenedRows
  <2>2. sessions'[n].char = NULL
    BY <2>1 DEF SessionFor
  <2>3. owner' = owner
    BY <1>6 DEF CreateSession
  <2> QED
    BY <1>0, <2>1, <2>2, <2>3
<1>7. ASSUME NEW p \in Procs, UpdateActivity(p)
      PROVE  \A t \in live' : sessions'[t].char # NULL => owner'[sessions'[t].char] = sessions'[t].user
  BY <1>0, <1>7, TouchedRows DEF UpdateActivity
<1>8. ASSUME NEW p \in Procs, BindCharacter(p)
      PROVE  \A t \in live' : sessions'[t].char # NULL => owner'[sessions'[t].char] = sessions'[t].user
  <2>1. owner' = owner /\ req[p].pc = "bind"
    BY <1>8 DEF BindCharacter
  <2>2. owner[req[p].char] = req[p].user
    BY <2>1 DEF ChecksHold
  <2>3. req[p].tok \in live => sessions[req[p].tok].user = req[p].user
    BY <2>1 DEF ActsForHolder
  <2>4. \A t \in live' : /\ t \in live
                         /\ sessions'[t].user = sessions[t].user
                         /\ sessions'[t] # sessions[t] => t = req[p].tok /\ sessions'[t].char = req[p].char
    BY <1>8, BoundRows
  <2> QED
    BY <1>0, <2>1, <2>2, <2>3, <2>4
<1>9. ASSUME NEW p \in Procs, NEW u \in Users, DeleteUser(p, u)
      PROVE  \A t \in live' : sessions'[t].char # NULL => owner'[sessions'[t].char] = sessions'[t].user
  <2>1. \A t \in live' : t \in live /\ sessions'[t] = sessions[t] /\ t \notin SessionsOf(u)
    BY <1>9, RowsLeft DEF DeleteUser
  <2>2. \A t \in live' : t \in live /\ sessions'[t] = sessions[t] /\ sessions[t].user \notin {u}
    BY <2>1 DEF SessionsOf
  <2> QED
    BY <1>3, <1>9, <2>2 DEF DeleteUser
<1>10. ASSUME NEW p \in Procs, Tombstone(p)
       PROVE  \A t \in live' : sessions'[t].char # NULL => owner'[sessions'[t].char] = sessions'[t].user
  <2>1. SessionsWith(req[p].char) = {}
    BY <1>10 DEF Tombstone, ChecksHold
  <2> QED
    BY <1>0, <1>10, <2>1 DEF Tombstone, SessionsWith, TypeOK, live
<1>11. ASSUME NEW p \in Procs, DeleteCharacter(p)
       PROVE  \A t \in live' : sessions'[t].char # NULL => owner'[sessions'[t].char] = sessions'[t].user
  BY <1>0, <1>11 DEF DeleteCharacter, SessionsWith, TypeOK, live
<1>12. ASSUME NEW p \in Procs, NEW u \in Users, NEW guest \in BOOLEAN, CreateUser(p, u, guest)
       PROVE  \A t \in live' : sessions'[t].char # NULL => owner'[sessions'[t].char] = sessions'[t].user
  BY <1>0, <1>12 DEF CreateUser, live
<1> QED
  BY <1>1, <1>2, <1>4, <1>5, <1>6, <1>7, <1>8, <1>9, <1>10, <1>11, <1>12, StepEffect DEF RowsTouched

\* Served by one process, an in-world session always belongs to the owner of
\* its character, though the triggers alone would let a detached one through.
THEOREM OwnershipHolds ==
  ASSUME OneProcess
  PROVE  Spec => []InWorldOwned
<1>1. Init => Ownership
  BY InitIntegrity DEF Init, Ownership, LiveIssued, ActsForHolder, ChecksHold, InWorldOwned, live, At
<1>2. Ownership /\ [Next]_vars => Ownership'
  BY StepIntegrity, StepLiveIssued, StepActsForHolder, StepChecks, StepOwned DEF Ownership, Integrity
<1>3. Ownership => InWorldOwned
  BY DEF Ownership
<1> QED
  BY <1>1, <1>2, <1>3, PTL DEF Spec

-----------------------------------------------------------------------------
(***************************************************************************)
(* The ban.  Between Deactivate and RemoveSessionsOfBanned the account is  *)
(* inactive and may have sessions; a login that read is_active before is   *)
(* what could open one after it.                                           *)
(***************************************************************************)
\* Whoever is about to get a session is active.
LoginIsActive == \A p \in Procs : req[p].pc = "login" => req[p].user \in active

\* A request at one of these calls makes that call next, unless it fails or the
\* process dies.
LEMMA NextCall ==
  ASSUME TypeOK, ~CanFail, ~CanCrash, NEW q \in Procs, req[q].pc \in {"login", "banned"},
         ProcessStep(q)
  PROVE  /\ req'[q].pc = "idle"
         /\ req[q].pc = "banned" => RemoveSessionsOfBanned(q)
<1> USE DEF Finish, At, TypeOK, Request, Dispatched
<1>1. ~Start(q) /\ ~Insert(q) /\ ~SweepGuests(q) /\ ~SweeperDies(q)
  BY DEF Start, CleanupExpiredSessions, CleanupExpiredGuests, Insert, CreateUser, CreateCharacter,
     SweepGuests, SweeperDies
<1>2. ~Validate(q) /\ ~DatabaseError(q) /\ ~Crash(q)
  BY DEF Validate, ReadSession, RemoveExpired, UpdateActivity, ResolveUser, Reject, DatabaseError,
     Crash
<1>5. ~PlayerRoutes(q)
  BY DEF PlayerRoutes, Logout, SelectCharacter, BindCharacter
<1>3. ASSUME Login(q)
      PROVE  req'[q].pc = "idle" /\ req[q].pc = "login"
  BY <1>3 DEF Login, CheckCredentials, CreateSession, CreateSessionFails
<1>4. ASSUME ModeratorRoutes(q)
      PROVE  req'[q].pc = "idle" /\ RemoveSessionsOfBanned(q)
  <2>1. RemoveSessionsOfBanned(q)
    BY <1>4 DEF ModeratorRoutes, KickSession, KickCharacter, Deactivate, Activate, DeleteUser,
       ReadManaged, EvictSessions, Tombstone, DeleteCharacter
  <2> QED
    BY <2>1 DEF RemoveSessionsOfBanned
<1> QED
  BY <1>1, <1>2, <1>3, <1>4, <1>5 DEF ProcessStep

\* How a request comes to the point where it inserts a session.
LEMMA StepToLogin ==
  ASSUME TypeOK, [Next]_vars, NEW q \in Procs, req'[q].pc = "login"
  PROVE  req'[q] = req[q] \/ \E u \in Users : CheckCredentials(q, u)
<1>1. CASE Tick \/ UNCHANGED vars
  BY <1>1 DEF Tick, vars
<1>2. ASSUME ProcessStep(q), ~\E u \in Users : CheckCredentials(q, u)
      PROVE  req'[q] = req[q]
  <2> USE DEF Goto, Finish, At, TypeOK, Request
  <2>1. CASE Start(q) \/ Insert(q)
    BY <1>2, <2>1 DEF Start, CleanupExpiredSessions, CleanupExpiredGuests, Insert, CreateUser,
       CreateCharacter
  <2>2. CASE Login(q)
    BY <1>2, <2>2 DEF Login, CreateSession, CreateSessionFails
  <2>3. CASE Validate(q)
    <3>1. ASSUME NEW t \in Tokens, NEW op \in Ops, ReadSession(q, t, op)
          PROVE  req'[q].pc \in {"expired", "touch"}
      BY <3>1 DEF ReadSession
    <3>2. ASSUME RemoveExpired(q) \/ UpdateActivity(q) \/ ResolveUser(q) \/ Reject(q)
          PROVE  req'[q].pc \in {"idle", "resolve", "dispatch"}
      BY <3>2 DEF RemoveExpired, UpdateActivity, ResolveUser, Reject
    <3> QED
      BY <1>2, <2>3, <3>1, <3>2 DEF Validate
  <2>4. CASE PlayerRoutes(q)
    BY <1>2, <2>4 DEF PlayerRoutes, Logout, SelectCharacter, BindCharacter
  <2>5. CASE ModeratorRoutes(q)
    <3>1. ASSUME NEW u \in Users, Deactivate(q, u)
          PROVE  req'[q].pc = "banned"
      BY <3>1 DEF Deactivate
    <3>2. ASSUME NEW c \in Chars, ReadManaged(q, c)
          PROVE  req'[q].pc = "evict"
      BY <3>2 DEF ReadManaged
    <3>3. ASSUME EvictSessions(q)
          PROVE  req'[q].pc \in {"idle", "erase"}
      BY <3>3 DEF EvictSessions
    <3>4. ASSUME Finish(q)
          PROVE  req'[q].pc = "idle"
      BY <3>4
    <3> QED
      BY <1>2, <2>5, <3>1, <3>2, <3>3, <3>4 DEF ModeratorRoutes, KickSession, KickCharacter, Activate,
         DeleteUser, RemoveSessionsOfBanned, Tombstone, DeleteCharacter
  <2>6. CASE SweepGuests(q) \/ SweeperDies(q) \/ DatabaseError(q) \/ Crash(q)
    BY <1>2, <2>6 DEF SweepGuests, SweeperDies, DatabaseError, Crash
  <2> QED
    BY <1>2, <2>1, <2>2, <2>3, <2>4, <2>5, <2>6 DEF ProcessStep
<1>3. ASSUME NEW p \in Procs \ {q}, ProcessStep(p)
      PROVE  req'[q] = req[q]
  BY <1>3, OthersKept
<1> QED
  BY <1>1, <1>2, <1>3 DEF Next

\* An account is deactivated by a ban or a deletion, or goes away with the purge.
LEMMA StepToInactive ==
  ASSUME TypeOK, [Next]_vars, NEW u \in active, u \notin active'
  PROVE  u \notin accounts' \/ \E p \in Procs : Deactivate(p, u) \/ DeleteUser(p, u)
<1>1. CASE Tick \/ UNCHANGED vars
  BY <1>1 DEF Tick, vars
<1>2. ASSUME NEW p \in Procs, ProcessStep(p)
      PROVE  u \notin accounts' \/ Deactivate(p, u) \/ DeleteUser(p, u)
  <2>1. CASE Start(p) \/ SweepGuests(p)
    <3>1. ASSUME PurgeExpiredGuests
          PROVE  u \notin accounts'
      BY <3>1 DEF PurgeExpiredGuests
    <3> QED
      BY <2>1, <3>1 DEF Start, CleanupExpiredSessions, CleanupExpiredGuests, SweepGuests
  <2>2. CASE Insert(p)
    BY <2>2 DEF Insert, CreateUser, CreateCharacter
  <2>3. CASE Login(p)
    BY <2>3 DEF Login, CheckCredentials, CreateSession, CreateSessionFails
  <2>4. CASE Validate(p)
    BY <2>4 DEF Validate, ReadSession, RemoveExpired, UpdateActivity, ResolveUser, Reject
  <2>5. CASE PlayerRoutes(p)
    BY <2>5 DEF PlayerRoutes, Logout, SelectCharacter, BindCharacter
  <2>6. CASE ModeratorRoutes(p)
    <3>1. ASSUME NEW v \in Users, Deactivate(p, v) \/ DeleteUser(p, v)
          PROVE  v = u
      BY <3>1 DEF Deactivate, DeleteUser
    <3>2. ASSUME NEW v \in Users, Activate(p, v)
          PROVE  FALSE
      BY <3>2 DEF Activate
    <3>3. UNCHANGED active \/ \E v \in Users : Deactivate(p, v) \/ DeleteUser(p, v) \/ Activate(p, v)
      BY <2>6 DEF ModeratorRoutes, KickSession, KickCharacter, RemoveSessionsOfBanned, ReadManaged,
         EvictSessions, Tombstone, DeleteCharacter
    <3> QED
      BY <3>1, <3>2, <3>3
  <2>7. CASE SweeperDies(p) \/ DatabaseError(p) \/ Crash(p)
    BY <2>7 DEF SweeperDies, DatabaseError, Crash
  <2> QED
    BY <1>2, <2>1, <2>2, <2>3, <2>4, <2>5, <2>6, <2>7 DEF ProcessStep
<1> QED
  BY <1>1, <1>2 DEF Next

BanInvariant == Integrity /\ LoginIsActive /\ BannedHasNoSession

LEMMA StepLoginIsActive ==
  OneProcess /\ ~CanFail /\ ~CanCrash /\ TypeOK /\ LoginIsActive /\ [Next]_vars => LoginIsActive'
<1> SUFFICES ASSUME OneProcess, ~CanFail, ~CanCrash, TypeOK, LoginIsActive, [Next]_vars,
                    NEW q \in Procs, req'[q].pc = "login"
             PROVE  req'[q].user \in active'
  BY DEF LoginIsActive
<1>1. CASE req'[q] = req[q]
  <2>1. ~ProcessStep(q)
    BY <1>1, NextCall
  <2>2. Tick \/ UNCHANGED vars
    BY <2>1 DEF Next, OneProcess
  <2> QED
    BY <1>1, <2>2 DEF Tick, vars, LoginIsActive
<1>2. ASSUME NEW u \in Users, CheckCredentials(q, u)
      PROVE  req'[q].user \in active'
  BY <1>2 DEF CheckCredentials, TypeOK, Request, At
<1> QED
  BY <1>1, <1>2, StepToLogin

LEMMA StepBanned == ~CanFail /\ ~CanCrash /\ BanInvariant /\ [Next]_vars => BannedHasNoSession'
<1> SUFFICES ASSUME ~CanFail, ~CanCrash, BanInvariant, [Next]_vars,
                    NEW u \in accounts', u \notin active',
                    \A p \in Procs : req'[p].pc = "banned" => req'[p].target # u,
                    NEW t \in live', sessions'[t].user = u
             PROVE  FALSE
  BY DEF BannedHasNoSession, SessionsOf
<1> USE DEF BanInvariant, Integrity
<1>1. t \in live /\ sessions[t].user = u
  <2>1. ASSUME NEW p \in Procs, NEW n \in Tokens, CreateSession(p, n)
        PROVE  t # n
    <3>1. sessions'[n] = SessionFor(req[p].user)
      BY <2>1, OpenedRows
    <3>2. sessions'[n].user = req[p].user
      BY <3>1 DEF SessionFor
    <3>3. req[p].user \in active'
      BY <2>1 DEF CreateSession, LoginIsActive
    <3> QED
      BY <3>2, <3>3
  <2>2. ASSUME NEW p \in Procs, NEW n \in Tokens, CreateSession(p, n)
        PROVE  t \in live /\ sessions[t].user = u
    <3>1. \A x \in live' \ {n} : x \in live /\ sessions'[x] = sessions[x]
      BY <2>2, OpenedRows
    <3> QED
      BY <2>1, <2>2, <3>1
  <2> QED
    BY <2>2, RowsEvolve
<1>2. u \in accounts
  BY <1>1 DEF SessionIntegrity
<1>3. CASE u \in active
  <2>1. PICK p \in Procs : Deactivate(p, u) \/ DeleteUser(p, u)
    BY <1>3, StepToInactive
  <2>2. ASSUME Deactivate(p, u)
        PROVE  req'[p].pc = "banned" /\ req'[p].target = u
    BY <2>2 DEF Deactivate, TypeOK, Request
  <2>3. ASSUME DeleteUser(p, u)
        PROVE  t \notin SessionsOf(u)
    BY <2>3, RowsLeft DEF DeleteUser
  <2> QED
    BY <1>1, <2>1, <2>2, <2>3 DEF SessionsOf
<1>4. CASE u \notin active
  <2>1. PICK p \in Procs : req[p].pc = "banned" /\ req[p].target = u
    BY <1>1, <1>2, <1>4 DEF BannedHasNoSession, SessionsOf
  <2>2. ProcessStep(p)
    <3>1. req'[p] # req[p]
      BY <2>1
    <3>2. ~Tick /\ ~UNCHANGED vars
      BY <3>1 DEF Tick, vars
    <3> QED
      BY <3>1, <3>2, OthersKept DEF Next
  <2>3. RemoveSessionsOfBanned(p)
    BY <2>1, <2>2, NextCall
  <2>4. t \notin SessionsOf(u)
    BY <2>1, <2>3, RowsLeft DEF RemoveSessionsOfBanned
  <2> QED
    BY <1>1, <2>4 DEF SessionsOf
<1> QED
  BY <1>3, <1>4

\* Once a ban is through, the account has no session, and no login that read
\* is_active before it gives it one: as long as one process serves the file and
\* neither of the ban's two calls is the last one.
THEOREM BanHolds ==
  ASSUME OneProcess, ~CanFail, ~CanCrash
  PROVE  Spec => []BannedHasNoSession
<1>1. Init => BanInvariant
  BY InitIntegrity DEF Init, BanInvariant, LoginIsActive, BannedHasNoSession, SessionsOf, live, At
<1>2. BanInvariant /\ [Next]_vars => BanInvariant'
  BY StepIntegrity, StepLoginIsActive, StepBanned DEF BanInvariant, Integrity
<1>3. BanInvariant => BannedHasNoSession
  BY DEF BanInvariant
<1> QED
  BY <1>1, <1>2, <1>3, PTL DEF Spec

-----------------------------------------------------------------------------
(***************************************************************************)
(* The session table implements SessionLifecycle.                          *)
(***************************************************************************)
\* A request about to bind a session has a character to bind: binding never
\* takes a session back out of the world.
BindsCharacter == \A p \in Procs : req[p].pc = "bind" => req[p].char \in Chars

LEMMA StepBindsCharacter == TypeOK /\ BindsCharacter /\ [Next]_vars => BindsCharacter'
<1> SUFFICES ASSUME TypeOK, BindsCharacter, [Next]_vars, NEW q \in Procs, req'[q].pc = "bind"
             PROVE  req'[q].char \in Chars
  BY DEF BindsCharacter
<1>1. CASE req'[q] = req[q]
  BY <1>1 DEF BindsCharacter
<1>2. ASSUME NEW c \in Chars, NEW w \in Worlds, SelectCharacter(q, c, w)
      PROVE  req'[q].char \in Chars
  BY <1>2 DEF SelectCharacter, TypeOK, Request
<1> QED
  BY <1>1, <1>2, StepToBind

-----------------------------------------------------------------------------
(***************************************************************************)
(* The refinement: initial states map to initial states, and each effect   *)
(* of StepEffect maps to End, Begin, Enter or a stutter.                   *)
(***************************************************************************)
HolderOf(t)    == IF sessions[t] = NULL THEN NULL ELSE sessions[t].user
CharacterOf(t) == IF sessions[t] = NULL THEN NULL ELSE sessions[t].char

LEMMA InitRefines == Init => Lifecycle!LifecycleInit
  BY DEF Init, Lifecycle!LifecycleInit, PhaseOf

\* The abstract open ids are the rows of the table.
LEMMA OpenIsLive ==
  ASSUME LiveIssued
  PROVE  Lifecycle!Open = live
  BY DEF Lifecycle!Open, LiveIssued, PhaseOf, live

LEMMA KeptRefines ==
  ASSUME TypeOK, issued' = issued, live' = live,
         \A t \in live : /\ sessions'[t].user = sessions[t].user
                         /\ sessions'[t].char = sessions[t].char
  PROVE  UNCHANGED Lifecycle!lifecycleVars
<1>1. \A t \in Tokens : (sessions'[t] = NULL) = (sessions[t] = NULL)
  BY DEF live
<1>2. \A t \in Tokens : PhaseOf(t)' = PhaseOf(t)
  BY <1>1 DEF PhaseOf, live
<1> QED
  BY <1>1, <1>2 DEF Lifecycle!lifecycleVars, live

LEMMA RemovedRefines ==
  ASSUME TypeOK, LiveIssued, issued' = issued, NEW T, sessions' = Without(T)
  PROVE  Lifecycle!End
<1>0. PICK R \in SUBSET Tokens : R = T \cap live
  BY LiveAreTokens
<1>1. R \in SUBSET Lifecycle!Open
  BY <1>0, OpenIsLive
<1>2. \A t \in Tokens : /\ t \in R => sessions'[t] = NULL /\ t \in issued
                        /\ t \notin R => sessions'[t] = sessions[t]
  BY <1>0 DEF Without, live, LiveIssued
<1>3. \A t \in Tokens : PhaseOf(t)' = IF t \in R THEN "over" ELSE PhaseOf(t)
  BY <1>2 DEF PhaseOf
<1>4. Lifecycle!Ended(R)
  BY <1>2, <1>3 DEF Lifecycle!Ended
<1> QED
  BY <1>1, <1>4 DEF Lifecycle!End

LEMMA OpenedRefines ==
  ASSUME TypeOK, LiveIssued, NEW p \in Procs, NEW n \in Tokens, CreateSession(p, n),
         NEW u \in Users, u = req[p].user
  PROVE  Lifecycle!Begin(n, u)
<1> DEFINE T == IF AllowMultiple THEN {} ELSE {x \in Lifecycle!Open : HolderOf(x) = u}
<1>1. T = IF AllowMultiple THEN {} ELSE SessionsOf(u)
  BY OpenIsLive DEF SessionsOf, HolderOf, live
<1>2. n \notin issued /\ issued' = issued \cup {n} /\ n \notin live /\ n \notin T
  BY <1>1 DEF CreateSession, LiveIssued, SessionsOf
<1>3. SessionFor(u) # NULL
  BY OpenedRows, NullIsFresh DEF live
<1>4. \A x \in Tokens : sessions'[x] = IF x = n THEN SessionFor(u)
                                       ELSE IF x \in T THEN NULL ELSE sessions[x]
  BY <1>1 DEF CreateSession, Without, TypeOK
<1>5. \A x \in Tokens : PhaseOf(x)' = IF x = n THEN "account"
                                      ELSE IF x \in T THEN "over" ELSE PhaseOf(x)
  BY <1>1, <1>2, <1>3, <1>4 DEF PhaseOf, SessionFor, SessionsOf, LiveIssued
<1>6. \A x \in Tokens : HolderOf(x)' = IF x = n THEN u ELSE IF x \in T THEN NULL ELSE HolderOf(x)
  BY <1>3, <1>4 DEF HolderOf, SessionFor
<1>7. \A x \in Tokens : CharacterOf(x)' = IF x \in T THEN NULL ELSE CharacterOf(x)
  BY <1>2, <1>3, <1>4 DEF CharacterOf, SessionFor, live
<1> QED
  BY <1>2, <1>5, <1>6, <1>7 DEF Lifecycle!Begin, PhaseOf, HolderOf, CharacterOf

LEMMA BoundRefines ==
  ASSUME TypeOK, LiveIssued, BindsCharacter, NEW p \in Procs, BindCharacter(p)
  PROVE  \/ \E t \in Tokens, c \in Chars : Lifecycle!Enter(t, c)
         \/ UNCHANGED Lifecycle!lifecycleVars
<1>1. CASE UNCHANGED sessions
  <2>1. issued' = issued /\ live' = live
    BY <1>1 DEF BindCharacter, live
  <2> QED
    BY <1>1, <2>1, KeptRefines
<1>2. CASE ~UNCHANGED sessions
  <2> DEFINE row == [sessions[req[p].tok] EXCEPT !.char = req[p].char,
                                                 !.world = HomeWorld[req[p].char]]
  <2>1. /\ req[p].tok \in live
        /\ req[p].char \in Chars
        /\ sessions' = [sessions EXCEPT ![req[p].tok] = row]
    BY <1>2 DEF BindCharacter, BindsCharacter
  <2>2. PICK t \in Tokens, c \in Chars : t = req[p].tok /\ c = req[p].char
    BY <2>1 DEF live
  <2>3. sessions[t] \in SessionRow /\ HomeWorld[c] \in Worlds
    BY <2>1, <2>2, LiveRows, HomeWorldType
  <2>4. row \in SessionRow /\ row.user = sessions[t].user /\ row.char = c
    BY <2>2, <2>3 DEF SessionRow
  <2>5. row # NULL /\ c # NULL
    BY <2>4, NullIsFresh
  <2>6. t \in issued /\ issued' = issued
    BY <2>1, <2>2 DEF LiveIssued, BindCharacter
  <2>7. \A x \in Tokens : sessions'[x] = IF x = t THEN row ELSE sessions[x]
    BY <2>1, <2>2 DEF TypeOK
  <2>8. \A x \in Tokens : HolderOf(x)' = HolderOf(x)
    BY <2>1, <2>2, <2>4, <2>5, <2>7 DEF HolderOf, live
  <2>9. \A x \in Tokens : CharacterOf(x)' = IF x = t THEN c ELSE CharacterOf(x)
    BY <2>4, <2>5, <2>7 DEF CharacterOf
  <2>10. \A x \in Tokens : PhaseOf(x)' = IF x = t THEN "inWorld" ELSE PhaseOf(x)
    BY <2>4, <2>5, <2>6, <2>7 DEF PhaseOf
  <2>11. t \in Lifecycle!Open
    BY <2>1, <2>2, OpenIsLive
  <2>12. Lifecycle!Enter(t, c)
    BY <2>8, <2>9, <2>10, <2>11 DEF Lifecycle!Enter, HolderOf, CharacterOf
  <2> QED
    BY <2>12
<1> QED
  BY <1>1, <1>2

Abstracts == TypeOK /\ LiveIssued /\ BindsCharacter

LEMMA StepRefines ==
  ASSUME Abstracts, [Next]_vars
  PROVE  [Lifecycle!LifecycleNext]_(Lifecycle!lifecycleVars)
<1> USE DEF Abstracts
<1>1. ASSUME UNCHANGED sessVars
      PROVE  UNCHANGED Lifecycle!lifecycleVars
  BY <1>1, KeptRefines DEF live
<1>2. CASE TablesKept
  BY <1>1, <1>2 DEF TablesKept
<1>3. CASE RowsRemoved
  BY <1>3, RemovedRefines DEF RowsRemoved, Lifecycle!LifecycleNext
<1>4. CASE PurgeExpiredGuests
  <2>1. PICK T : T = UNION {SessionsOf(u) : u \in ExpiredGuests}
    OBVIOUS
  <2> QED
    BY <1>4, <2>1, RemovedRefines DEF PurgeExpiredGuests, Lifecycle!LifecycleNext
<1>5. ASSUME NEW p \in Procs, NEW n \in Tokens, CreateSession(p, n)
      PROVE  Lifecycle!LifecycleNext
  <2>1. PICK u \in Users : u = req[p].user
    BY <1>5 DEF CreateSession, TypeOK
  <2> QED
    BY <1>5, <2>1, OpenedRefines DEF Lifecycle!LifecycleNext
<1>6. ASSUME NEW p \in Procs, UpdateActivity(p)
      PROVE  UNCHANGED Lifecycle!lifecycleVars
  <2>1. live' = live
    <3>1. \A t \in live : [sessions[t] EXCEPT !.expires = NextExpiry] # NULL
      BY LiveRows, ExpiryType, NullIsFresh DEF SessionRow
    <3> QED
      BY <1>6, <3>1 DEF UpdateActivity, live, TypeOK
  <2>2. issued' = issued
    BY <1>6 DEF UpdateActivity
  <2> QED
    BY <1>6, <2>1, <2>2, TouchedRows, KeptRefines
<1>7. ASSUME NEW p \in Procs, BindCharacter(p)
      PROVE  [Lifecycle!LifecycleNext]_(Lifecycle!lifecycleVars)
  BY <1>7, BoundRefines DEF Lifecycle!LifecycleNext
<1>8. ASSUME NEW p \in Procs, NEW u \in Users, DeleteUser(p, u)
      PROVE  Lifecycle!LifecycleNext
  <2>1. PICK T : T = SessionsOf(u)
    OBVIOUS
  <2> QED
    BY <1>8, <2>1, RemovedRefines DEF DeleteUser, Lifecycle!LifecycleNext
<1> QED
  BY <1>1, <1>2, <1>3, <1>4, <1>5, <1>6, <1>7, <1>8, StepEffect
  DEF RowsTouched, CreateUser, CreateCharacter, Tombstone, DeleteCharacter

\* Whatever the handlers, sweeps, faults and processes do, a session id keeps
\* its account, only moves forward in its life cycle and is never reused.
THEOREM LifecycleImplemented == Spec => ImplementsLifecycle
<1>1. Init => Abstracts
  BY InitTypeOK DEF Init, Abstracts, LiveIssued, BindsCharacter, live, At
<1>2. Abstracts /\ [Next]_vars => Abstracts'
  BY StepTypeOK, StepLiveIssued, StepBindsCharacter DEF Abstracts
<1> QED
  BY <1>1, <1>2, InitRefines, StepRefines, PTL
  DEF Spec, ImplementsLifecycle, Lifecycle!LifecycleSpec

-----------------------------------------------------------------------------
(***************************************************************************)
(* What begins ends.  The fairness of FairSpec takes a request through its *)
(* calls, one weakly fair step each; between two requests the sweeper is   *)
(* strongly fair.  That each of these steps can be taken, NobodyIsStuck,   *)
(* is a hypothesis: the provers do not look into ENABLED, TLC does.        *)
(***************************************************************************)
LEMMA FairToEach == ASSUME NEW p \in Procs PROVE Fairness => FairnessOf(p)
  BY DEF Fairness

\* The calls of a process in the order of its request.
After(pc) ==
  CASE pc = "down"     -> {"starting"}
    [] pc = "idle"     -> {"login", "expired", "touch"}
    [] pc = "touch"    -> {"resolve"}
    [] pc = "resolve"  -> {"dispatch", "idle"}
    [] pc = "dispatch" -> {"bind", "banned", "evict", "idle"}
    [] pc = "evict"    -> {"erase", "idle"}
    [] OTHER           -> {"idle"}

LEMMA TheWay ==
  ASSUME TypeOK, ~CanFail, ~CanCrash, [Next]_vars, NEW p \in Procs, req'[p].pc # req[p].pc
  PROVE  req'[p].pc \in After(req[p].pc)
<1> USE DEF After, Goto, Finish, At, TypeOK, Request, Dispatched
<1>1. ~Tick /\ ~UNCHANGED vars
  BY DEF Tick, vars
<1>2. ASSUME NEW q \in Procs \ {p}, ProcessStep(q)
      PROVE  FALSE
  BY <1>2, OthersKept
<1>3. ProcessStep(p)
  BY <1>1, <1>2 DEF Next
<1>4. CASE Start(p)
  BY <1>4 DEF Start, CleanupExpiredSessions, CleanupExpiredGuests
<1>5. CASE Insert(p) \/ SweepGuests(p) \/ SweeperDies(p) \/ DatabaseError(p) \/ Crash(p)
  BY <1>5 DEF Insert, CreateUser, CreateCharacter, SweepGuests, SweeperDies, DatabaseError, Crash
<1>6. CASE Login(p)
  <2>1. ASSUME NEW u \in Users, CheckCredentials(p, u)
        PROVE  req[p].pc = "idle" /\ req'[p].pc = "login"
    BY <2>1 DEF CheckCredentials
  <2>2. ASSUME NEW t \in Tokens, CreateSession(p, t)
        PROVE  req[p].pc = "login" /\ req'[p].pc = "idle"
    BY <2>2 DEF CreateSession
  <2>3. ASSUME CreateSessionFails(p)
        PROVE  req[p].pc = "login" /\ req'[p].pc = "idle"
    BY <2>3 DEF CreateSessionFails
  <2> QED
    BY <1>6, <2>1, <2>2, <2>3 DEF Login
<1>7. CASE Validate(p)
  <2>1. ASSUME NEW t \in Tokens, NEW op \in Ops, ReadSession(p, t, op)
        PROVE  req[p].pc = "idle" /\ req'[p].pc \in {"expired", "touch"}
    BY <2>1 DEF ReadSession
  <2>2. CASE RemoveExpired(p) \/ UpdateActivity(p) \/ ResolveUser(p) \/ Reject(p)
    BY <2>2 DEF RemoveExpired, UpdateActivity, ResolveUser, Reject
  <2> QED
    BY <1>7, <2>1, <2>2 DEF Validate
<1>8. CASE PlayerRoutes(p)
  BY <1>8 DEF PlayerRoutes, Logout, SelectCharacter, BindCharacter
<1>9. CASE ModeratorRoutes(p)
  <2>1. ASSUME NEW t \in Tokens, KickSession(p, t)
        PROVE  req[p].pc = "dispatch" /\ req'[p].pc = "idle"
    BY <2>1 DEF KickSession
  <2>2. ASSUME NEW c \in Chars, KickCharacter(p, c)
        PROVE  req[p].pc = "dispatch" /\ req'[p].pc = "idle"
    BY <2>2 DEF KickCharacter
  <2>3. ASSUME NEW c \in Chars, ReadManaged(p, c)
        PROVE  req[p].pc = "dispatch" /\ req'[p].pc = "evict"
    BY <2>3 DEF ReadManaged
  <2>4. ASSUME NEW u \in Users, Deactivate(p, u) \/ Activate(p, u) \/ DeleteUser(p, u)
        PROVE  req[p].pc = "dispatch" /\ req'[p].pc \in {"banned", "idle"}
    BY <2>4 DEF Deactivate, Activate, DeleteUser
  <2>5. ASSUME RemoveSessionsOfBanned(p) \/ Tombstone(p) \/ DeleteCharacter(p)
        PROVE  req[p].pc \in {"banned", "erase"} /\ req'[p].pc = "idle"
    BY <2>5 DEF RemoveSessionsOfBanned, Tombstone, DeleteCharacter
  <2>6. ASSUME EvictSessions(p)
        PROVE  req[p].pc = "evict" /\ req'[p].pc \in {"erase", "idle"}
    BY <2>6 DEF EvictSessions
  <2> QED
    BY <1>9, <2>1, <2>2, <2>3, <2>4, <2>5, <2>6 DEF ModeratorRoutes
<1> QED
  BY <1>3, <1>4, <1>5, <1>6, <1>7, <1>8, <1>9 DEF ProcessStep

\* Each fair step moves its process on.
LEMMA FairStepsMove ==
  ASSUME TypeOK, NEW p \in Procs,
         \/ Start(p) \/ LogsIn(p) \/ Validates(p) \/ Answers(p) \/ Completes(p)
  PROVE  req'[p].pc # req[p].pc
<1> USE DEF Goto, Finish, At, TypeOK, Request, Dispatched
<1>1. CASE Start(p)
  BY <1>1 DEF Start, CleanupExpiredSessions, CleanupExpiredGuests
<1>2. CASE LogsIn(p)
  BY <1>2 DEF LogsIn, CreateSession, CreateSessionFails
<1>3. CASE Validates(p)
  BY <1>3 DEF Validates, RemoveExpired, UpdateActivity, ResolveUser
<1>4. CASE Answers(p)
  BY <1>4 DEF Answers, Reject, Logout
<1>5. CASE Completes(p)
  BY <1>5 DEF Completes, BindCharacter, RemoveSessionsOfBanned, EvictSessions, Tombstone,
     DeleteCharacter
<1> QED
  BY <1>1, <1>2, <1>3, <1>4, <1>5

\* The place a fair step starts from; the step takes the process on from there.
LEMMA FairStepsGo ==
  ASSUME TypeOK, ~CanFail, ~CanCrash, [Next]_vars, NEW p \in Procs,
         \/ Start(p) \/ LogsIn(p) \/ Validates(p) \/ Answers(p) \/ Completes(p)
  PROVE  req'[p].pc \in After(req[p].pc)
  BY TheWay, FairStepsMove

\* Wherever a process is in a request, or in its start, it gets to the next place.
GetsOn(p, x) == req[p].pc = x ~> req[p].pc \in After(x)
ComesBackFrom(p, x) == req[p].pc = x ~> req[p].pc = "idle"

LEMMA MovesOn ==
  ASSUME ~CanFail, ~CanCrash, NEW p \in Procs, NEW x \in Pcs \ {"idle"}
  PROVE  FairSpec /\ []NobodyIsStuck => GetsOn(p, x)
<1> DEFINE Here  == req[p].pc = x
           There == req[p].pc \in After(x)
<1>1. TypeOK /\ Here /\ [Next]_vars => Here' \/ There'
  BY TheWay
<1>2. Spec => []TypeOK
  BY TypeCorrect
<1>3. Fairness => FairnessOf(p)
  BY FairToEach
<1>4. CASE x \in {"down", "starting"}
  <2>1. NobodyIsStuck /\ Here => ENABLED <<Start(p)>>_vars
    BY <1>4 DEF NobodyIsStuck, CanGoOn
  <2>2. TypeOK /\ Here /\ [Next]_vars /\ <<Start(p)>>_vars => There'
    BY FairStepsGo
  <2> HIDE DEF Here, There
  <2>3. FairSpec /\ []NobodyIsStuck => (Here ~> There)
    BY <1>1, <1>2, <1>3, <2>1, <2>2, PTL DEF FairSpec, Spec, FairnessOf
  <2> QED
    BY <2>3 DEF Here, There, GetsOn
<1>5. CASE x = "login"
  <2>1. NobodyIsStuck /\ Here => ENABLED <<LogsIn(p)>>_vars
    BY <1>5 DEF NobodyIsStuck, CanGoOn
  <2>2. TypeOK /\ Here /\ [Next]_vars /\ <<LogsIn(p)>>_vars => There'
    BY FairStepsGo
  <2> HIDE DEF Here, There
  <2>3. FairSpec /\ []NobodyIsStuck => (Here ~> There)
    BY <1>1, <1>2, <1>3, <2>1, <2>2, PTL DEF FairSpec, Spec, FairnessOf
  <2> QED
    BY <2>3 DEF Here, There, GetsOn
<1>6. CASE x \in {"touch", "resolve", "expired"}
  <2>1. NobodyIsStuck /\ Here => ENABLED <<Validates(p)>>_vars
    BY <1>6 DEF NobodyIsStuck, CanGoOn
  <2>2. TypeOK /\ Here /\ [Next]_vars /\ <<Validates(p)>>_vars => There'
    BY FairStepsGo
  <2> HIDE DEF Here, There
  <2>3. FairSpec /\ []NobodyIsStuck => (Here ~> There)
    BY <1>1, <1>2, <1>3, <2>1, <2>2, PTL DEF FairSpec, Spec, FairnessOf
  <2> QED
    BY <2>3 DEF Here, There, GetsOn
<1>7. CASE x = "dispatch"
  <2>1. NobodyIsStuck /\ Here => ENABLED <<Answers(p)>>_vars
    BY <1>7 DEF NobodyIsStuck, CanGoOn
  <2>2. TypeOK /\ Here /\ [Next]_vars /\ <<Answers(p)>>_vars => There'
    BY FairStepsGo
  <2> HIDE DEF Here, There
  <2>3. FairSpec /\ []NobodyIsStuck => (Here ~> There)
    BY <1>1, <1>2, <1>3, <2>1, <2>2, PTL DEF FairSpec, Spec, FairnessOf
  <2> QED
    BY <2>3 DEF Here, There, GetsOn
<1>8. CASE x \in {"bind", "banned", "evict", "erase"}
  <2>1. NobodyIsStuck /\ Here => ENABLED <<Completes(p)>>_vars
    BY <1>8 DEF NobodyIsStuck, CanGoOn
  <2>2. TypeOK /\ Here /\ [Next]_vars /\ <<Completes(p)>>_vars => There'
    BY FairStepsGo
  <2> HIDE DEF Here, There
  <2>3. FairSpec /\ []NobodyIsStuck => (Here ~> There)
    BY <1>1, <1>2, <1>3, <2>1, <2>2, PTL DEF FairSpec, Spec, FairnessOf
  <2> QED
    BY <2>3 DEF Here, There, GetsOn
<1> QED
  BY <1>4, <1>5, <1>6, <1>7, <1>8 DEF Pcs

\* A process comes back from every request, and from its start.
LEMMA LastCalls ==
  ASSUME ~CanFail, ~CanCrash, NEW p \in Procs, NEW x \in Pcs \ {"idle"}, After(x) = {"idle"}
  PROVE  FairSpec /\ []NobodyIsStuck => ComesBackFrom(p, x)
<1>1. req[p].pc \in After(x) => req[p].pc = "idle"
  OBVIOUS
<1>2. FairSpec /\ []NobodyIsStuck => GetsOn(p, x)
  BY MovesOn
<1> QED
  BY <1>1, <1>2, PTL DEF GetsOn, ComesBackFrom

LEMMA ComesBack ==
  ASSUME ~CanFail, ~CanCrash, NEW p \in Procs
  PROVE  FairSpec /\ []NobodyIsStuck => []<>(req[p].pc = "idle")
<1>1. /\ FairSpec /\ []NobodyIsStuck => ComesBackFrom(p, "starting")
      /\ FairSpec /\ []NobodyIsStuck => ComesBackFrom(p, "login")
      /\ FairSpec /\ []NobodyIsStuck => ComesBackFrom(p, "expired")
      /\ FairSpec /\ []NobodyIsStuck => ComesBackFrom(p, "bind")
      /\ FairSpec /\ []NobodyIsStuck => ComesBackFrom(p, "banned")
      /\ FairSpec /\ []NobodyIsStuck => ComesBackFrom(p, "erase")
  BY LastCalls DEF Pcs, After
<1>2. FairSpec /\ []NobodyIsStuck => ComesBackFrom(p, "evict")
  <2>1. req[p].pc \in After("evict") => req[p].pc = "erase" \/ req[p].pc = "idle"
    BY DEF After
  <2>2. FairSpec /\ []NobodyIsStuck => GetsOn(p, "evict")
    BY MovesOn DEF Pcs
  <2> QED
    BY <1>1, <2>1, <2>2, PTL DEF GetsOn, ComesBackFrom
<1>3. FairSpec /\ []NobodyIsStuck => ComesBackFrom(p, "dispatch")
  <2>1. req[p].pc \in After("dispatch") => req[p].pc = "bind" \/ req[p].pc = "banned" \/ req[p].pc = "evict" \/ req[p].pc = "idle"
    BY DEF After
  <2>2. FairSpec /\ []NobodyIsStuck => GetsOn(p, "dispatch")
    BY MovesOn DEF Pcs
  <2> QED
    BY <1>1, <1>2, <2>1, <2>2, PTL DEF GetsOn, ComesBackFrom
<1>4. FairSpec /\ []NobodyIsStuck => ComesBackFrom(p, "resolve")
  <2>1. req[p].pc \in After("resolve") => req[p].pc = "dispatch" \/ req[p].pc = "idle"
    BY DEF After
  <2>2. FairSpec /\ []NobodyIsStuck => GetsOn(p, "resolve")
    BY MovesOn DEF Pcs
  <2> QED
    BY <1>3, <2>1, <2>2, PTL DEF GetsOn, ComesBackFrom
<1>5. FairSpec /\ []NobodyIsStuck => ComesBackFrom(p, "touch")
  <2>1. req[p].pc \in After("touch") => req[p].pc = "resolve"
    BY DEF After
  <2>2. FairSpec /\ []NobodyIsStuck => GetsOn(p, "touch")
    BY MovesOn DEF Pcs
  <2> QED
    BY <1>4, <2>1, <2>2, PTL DEF GetsOn, ComesBackFrom
<1>6. FairSpec /\ []NobodyIsStuck => ComesBackFrom(p, "down")
  <2>1. req[p].pc \in After("down") => req[p].pc = "starting"
    BY DEF After
  <2>2. FairSpec /\ []NobodyIsStuck => GetsOn(p, "down")
    BY MovesOn DEF Pcs
  <2> QED
    BY <1>1, <2>1, <2>2, PTL DEF GetsOn, ComesBackFrom
<1>7. TypeOK => \/ req[p].pc = "idle" \/ req[p].pc = "down" \/ req[p].pc = "starting"
                \/ req[p].pc = "login" \/ req[p].pc = "expired" \/ req[p].pc = "touch"
                \/ req[p].pc = "resolve" \/ req[p].pc = "dispatch" \/ req[p].pc = "bind"
                \/ req[p].pc = "banned" \/ req[p].pc = "evict" \/ req[p].pc = "erase"
  BY DEF TypeOK, Request, Pcs
<1>8. Spec => []TypeOK
  BY TypeCorrect
<1> QED
  BY <1>1, <1>2, <1>3, <1>4, <1>5, <1>6, <1>7, <1>8, PTL DEF FairSpec, ComesBackFrom

\* A process that serves requests has its sweeper running.
Sweeping == \A p \in Procs : req[p].pc \notin {"down", "starting"} => p \in sweepers

LEMMA SweepersStay ==
  ASSUME ~CanFail, ~CanCrash, [Next]_vars
  PROVE  sweepers \subseteq sweepers'
<1>1. CASE Tick \/ UNCHANGED vars
  BY <1>1 DEF Tick, vars
<1>2. ASSUME NEW p \in Procs, ProcessStep(p)
      PROVE  sweepers \subseteq sweepers'
  <2>1. CASE Start(p) \/ Insert(p)
    BY <2>1 DEF Start, CleanupExpiredSessions, CleanupExpiredGuests, Insert, CreateUser,
       CreateCharacter
  <2>2. CASE SweepGuests(p) \/ SweeperDies(p) \/ DatabaseError(p) \/ Crash(p)
    BY <2>2 DEF SweepGuests, SweeperDies, DatabaseError, Crash
  <2>5. CASE Login(p)
    BY <2>5 DEF Login, CheckCredentials, CreateSession, CreateSessionFails
  <2>6. CASE Validate(p)
    BY <2>6 DEF Validate, ReadSession, RemoveExpired, UpdateActivity, ResolveUser, Reject
  <2>3. CASE PlayerRoutes(p)
    BY <2>3 DEF PlayerRoutes, Logout, SelectCharacter, BindCharacter
  <2>4. CASE ModeratorRoutes(p)
    BY <2>4 DEF ModeratorRoutes, KickSession, KickCharacter, Deactivate, Activate, DeleteUser,
       RemoveSessionsOfBanned, ReadManaged, EvictSessions, Tombstone, DeleteCharacter
  <2> QED
    BY <1>2, <2>1, <2>2, <2>3, <2>4, <2>5, <2>6 DEF ProcessStep
<1> QED
  BY <1>1, <1>2 DEF Next

\* The last step of a start is the one that starts the sweeper.
LEMMA StartEndsSweeping ==
  ASSUME TypeOK, ~CanFail, ~CanCrash, [Next]_vars, NEW p \in Procs,
         req[p].pc = "starting", req'[p].pc # "starting"
  PROVE  p \in sweepers'
<1> USE DEF Goto, Finish, At, TypeOK, Request, Dispatched
<1>1. ~Tick /\ ~UNCHANGED vars
  BY DEF Tick, vars
<1>2. ASSUME NEW q \in Procs \ {p}, ProcessStep(q)
      PROVE  FALSE
  BY <1>2, OthersKept
<1>3. ProcessStep(p)
  BY <1>1, <1>2 DEF Next
<1>4. ~Insert(p) /\ ~SweepGuests(p) /\ ~SweeperDies(p) /\ ~DatabaseError(p) /\ ~Crash(p)
  BY DEF Insert, CreateUser, CreateCharacter, SweepGuests, SweeperDies, DatabaseError, Crash
<1>5. ~Login(p) /\ ~Validate(p)
  BY DEF Login, CheckCredentials, CreateSession, CreateSessionFails, Validate, ReadSession,
     RemoveExpired, UpdateActivity, ResolveUser, Reject
<1>6. ~PlayerRoutes(p)
  BY DEF PlayerRoutes, Logout, SelectCharacter, BindCharacter
<1>7. ~ModeratorRoutes(p)
  BY DEF ModeratorRoutes, KickSession, KickCharacter, Deactivate, Activate, DeleteUser,
     RemoveSessionsOfBanned, ReadManaged, EvictSessions, Tombstone, DeleteCharacter
<1>8. CleanupExpiredGuests(p)
  BY <1>3, <1>4, <1>5, <1>6, <1>7 DEF ProcessStep, Start, CleanupExpiredSessions
<1> QED
  BY <1>8 DEF CleanupExpiredGuests

LEMMA SweepingHolds ==
  ASSUME ~CanFail, ~CanCrash
  PROVE  Spec => []Sweeping
<1>1. Init => Sweeping
  BY DEF Init, Sweeping, At
<1>2. TypeOK /\ Sweeping /\ [Next]_vars => Sweeping'
  <2> SUFFICES ASSUME TypeOK, Sweeping, [Next]_vars,
                      NEW p \in Procs, req'[p].pc \notin {"down", "starting"}
               PROVE  p \in sweepers'
    BY DEF Sweeping
  <2>1. CASE req[p].pc \notin {"down", "starting"}
    BY <2>1, SweepersStay DEF Sweeping
  <2>2. CASE req[p].pc = "starting"
    BY <2>2, StartEndsSweeping
  <2>3. CASE req[p].pc = "down"
    <3>1. req'[p].pc \in After("down")
      BY <2>3, TheWay
    <3> QED
      BY <3>1 DEF After
  <2> QED
    BY <2>1, <2>2, <2>3
<1> QED
  BY <1>1, <1>2, TypeCorrect, PTL DEF Spec

\* An account that is due stays due until it is purged or tombstoned.
LEMMA StaysDue ==
  ASSUME TypeOK, [Next]_vars, NEW u \in ExpiredGuests, u \in accounts', u \notin tombstoned'
  PROVE  u \in ExpiredGuests'
<1> USE DEF ExpiredGuests
<1>1. CASE Tick \/ UNCHANGED vars
  BY <1>1 DEF Tick, vars, TypeOK
<1>2. ASSUME NEW p \in Procs, ProcessStep(p)
      PROVE  guestUntil'[u] = guestUntil[u] /\ clock' = clock
  <2>1. CASE Start(p) \/ SweepGuests(p)
    BY <2>1 DEF Start, CleanupExpiredSessions, CleanupExpiredGuests, SweepGuests, PurgeExpiredGuests
  <2>2. CASE SweeperDies(p) \/ DatabaseError(p) \/ Crash(p)
    BY <2>2 DEF SweeperDies, DatabaseError, Crash
  <2>3. CASE Insert(p)
    BY <2>3 DEF Insert, CreateUser, CreateCharacter, TypeOK
  <2>4. CASE Login(p)
    BY <2>4 DEF Login, CheckCredentials, CreateSession, CreateSessionFails
  <2>5. CASE Validate(p)
    BY <2>5 DEF Validate, ReadSession, RemoveExpired, UpdateActivity, ResolveUser, Reject
  <2>6. CASE PlayerRoutes(p)
    BY <2>6 DEF PlayerRoutes, Logout, SelectCharacter, BindCharacter
  <2>7. CASE ModeratorRoutes(p)
    BY <2>7 DEF ModeratorRoutes, KickSession, KickCharacter, Deactivate, Activate, DeleteUser,
       RemoveSessionsOfBanned, ReadManaged, EvictSessions, Tombstone, DeleteCharacter
  <2> QED
    BY <1>2, <2>1, <2>2, <2>3, <2>4, <2>5, <2>6, <2>7 DEF ProcessStep
<1> QED
  BY <1>1, <1>2 DEF Next

\* The sweeper of any process purges it: the process keeps coming back to where the
\* sweeper runs, and there the sweep can be taken until it is.
LEMMA GuestGoes ==
  ASSUME ~CanFail, ~CanCrash, NEW p \in Procs, NEW u \in Users
  PROVE  FairSpec /\ []NobodyIsStuck =>
           ((guestUntil[u] # NULL /\ u \in accounts /\ guestUntil[u] <= clock)
              ~> (u \notin accounts \/ u \in tombstoned))
<1> DEFINE Due  == guestUntil[u] # NULL /\ u \in accounts /\ guestUntil[u] <= clock
           Gone == u \notin accounts \/ u \in tombstoned
           Idle == req[p].pc = "idle"
           Kept == u \in ExpiredGuests
<1>1. Due => Gone \/ Kept
  BY DEF ExpiredGuests
<1>2. TypeOK /\ Kept /\ [Next]_vars => Kept' \/ Gone'
  BY StaysDue
<1>3. Kept /\ <<SweepGuests(p)>>_vars => Gone'
  BY DEF SweepGuests, PurgeExpiredGuests
<1>4. NobodyIsStuck /\ Sweeping /\ Idle /\ Kept => ENABLED <<SweepGuests(p)>>_vars
  BY DEF NobodyIsStuck, CanGoOn, Sweeping
<1>5. FairSpec /\ []NobodyIsStuck => []<>Idle
  BY ComesBack
<1>6. Spec => []TypeOK /\ []Sweeping
  BY TypeCorrect, SweepingHolds
<1>7. Fairness => FairnessOf(p)
  BY FairToEach
<1> HIDE DEF Due, Gone, Idle, Kept
<1>8. FairSpec /\ []NobodyIsStuck => (Due ~> Gone)
  BY <1>1, <1>2, <1>3, <1>4, <1>5, <1>6, <1>7, PTL DEF FairSpec, Spec, FairnessOf
<1> QED
  BY <1>8 DEF Due, Gone

\* A ban whose second call is due makes it: no other step moves its process.
LEMMA BanEnds ==
  ASSUME ~CanFail, ~CanCrash, NEW u \in Users, NEW p \in Procs
  PROVE  FairSpec /\ []NobodyIsStuck =>
           ((req[p].pc = "banned" /\ req[p].target = u) ~> (SessionsOf(u) = {}))
<1> DEFINE Begun == req[p].pc = "banned" /\ req[p].target = u
           Out   == SessionsOf(u) = {}
<1>1. ASSUME TypeOK, Begun, RemoveSessionsOfBanned(p)
      PROVE  Out'
  <2>1. \A t \in live' : t \in live /\ sessions'[t] = sessions[t] /\ t \notin SessionsOf(u)
    BY <1>1, RowsLeft DEF RemoveSessionsOfBanned
  <2> QED
    BY <2>1 DEF SessionsOf
<1>2. TypeOK /\ Begun /\ [Next]_vars => Begun' \/ Out'
  <2> SUFFICES ASSUME TypeOK, Begun, [Next]_vars, ~Begun'
               PROVE  Out'
    OBVIOUS
  <2>1. PICK q \in Procs : ProcessStep(q)
    BY DEF Next, Tick, vars
  <2>2. q = p
    BY <2>1, OthersKept
  <2> QED
    BY <1>1, <2>1, <2>2, NextCall
<1>3. TypeOK /\ Begun /\ <<Completes(p)>>_vars => Out'
  <2> SUFFICES ASSUME TypeOK, Begun, Completes(p)
               PROVE  Out'
    OBVIOUS
  <2>1. RemoveSessionsOfBanned(p)
    BY DEF Completes, BindCharacter, EvictSessions, Tombstone, DeleteCharacter
  <2> QED
    BY <1>1, <2>1
<1>4. NobodyIsStuck /\ Begun => ENABLED <<Completes(p)>>_vars
  BY DEF NobodyIsStuck, CanGoOn
<1>5. Spec => []TypeOK
  BY TypeCorrect
<1>6. Fairness => FairnessOf(p)
  BY FairToEach
<1> HIDE DEF Begun, Out
<1>7. FairSpec /\ []NobodyIsStuck => (Begun ~> Out)
  BY <1>2, <1>3, <1>4, <1>5, <1>6, PTL DEF FairSpec, Spec, FairnessOf
<1> QED
  BY <1>7 DEF Begun, Out

\* Where there is a process, and as long as no call fails and none is killed: what the
\* server owes the accounts it closes, it does, for any number of processes and users,
\* if every process that has begun something has a step it can take.
THEOREM CleanupsHappen ==
  ASSUME Procs # {}, ~CanFail, ~CanCrash
  PROVE  FairSpec /\ []NobodyIsStuck => CleanupsComplete
<1>1. PICK q \in Procs : TRUE
  OBVIOUS
<1>2. FairSpec /\ []NobodyIsStuck => ExpiredGuestsPurged
  BY <1>1, GuestGoes DEF ExpiredGuestsPurged
<1>3. FairSpec /\ []NobodyIsStuck => BanRemovesSessions
  BY BanEnds DEF BanRemovesSessions
<1> QED
  BY <1>2, <1>3 DEF CleanupsComplete
=============================================================================
