------------------------------ MODULE Startup ------------------------------
(***************************************************************************)
(* Server processes that start against one database file, as               *)
(* `mud-server run` does, while somebody runs create-superuser: the schema *)
(* and the first administrator, the axis bootstrap of the worlds, the      *)
(* choice of a port and its bind.                                          *)
(***************************************************************************)
EXTENDS Settings

CONSTANTS
  Starters,       \* server processes
  Preferred,      \* Preferred[p]: its configured port
  FirstPort, LastPort,
  Admin, Other,   \* MUD_ADMIN_USER, and a name given to create-superuser
  AdminGiven,     \* both variables are set, the password of 8 characters at least
  OtherAccepted,  \* the standard policy accepts the password of create-superuser
  MaxStarts       \* bound on the starts and on the runs of create-superuser

ASSUME PortTypes ==
  /\ FirstPort \in Nat /\ LastPort \in Nat /\ Preferred \in [Starters -> Nat] /\ NULL \notin Nat
  /\ "idle" \notin {Admin, Other}

VARIABLES
  foreign,    \* ports that other programs hold
  accounts,   \* account -> account_origin
  manifests,  \* the state of the worlds' effective manifests and axis bundles
  start,      \* start[p]: where process p is
  command,    \* create-superuser: "idle" or the name it has found free
  begunStarts,
  rivals      \* history: rivals[p], what others took since p looked

startVars == <<foreign, accounts, manifests, start, command, begunStarts, rivals>>

Down == [pc |-> "down", port |-> NULL]

Exits == {"exited: account", "exited: policy", "exited: range", "exited: port"}

StartInit ==
  /\ foreign \in SUBSET {LastPort}
  /\ accounts = <<>>
  /\ manifests = {}
  /\ start = [p \in Starters |-> Down]
  /\ command = "idle"
  /\ begunStarts = 0
  /\ rivals = [p \in Starters |-> {}]

Busy == foreign \cup {start[p].port : p \in {q \in Starters : start[q].pc = "serving"}}

At(p, pc) == start' = [start EXCEPT ![p] = [pc |-> pc, port |-> start[p].port]]

\* p took something away from whoever looked for it before.
Took(p, thing) == rivals' = [q \in Starters |-> IF q = p THEN rivals[q] ELSE rivals[q] \cup {thing}]

\* Importing the server module runs GameEngine(), which creates the schema.
CreateSchema(p) ==
  /\ start[p].pc \in {"down"} \cup Exits
  /\ begunStarts < MaxStarts
  /\ begunStarts' = begunStarts + 1
  /\ start' = [start EXCEPT ![p] = [pc |-> "count", port |-> NULL]]
  /\ rivals' = [rivals EXCEPT ![p] = {}]
  /\ UNCHANGED <<foreign, accounts, manifests, command>>

\* Mutant of NeedsAdmin: the accounts are not counted.
NeedsAdminAlways == AdminGiven

NeedsAdmin == DOMAIN accounts = {} /\ AdminGiven

\* SELECT COUNT(*) FROM users.
CountUsers(p) ==
  /\ start[p].pc = "count"
  /\ At(p, IF NeedsAdmin THEN "admin" ELSE "axes")
  /\ UNCHANGED <<foreign, accounts, manifests, command, begunStarts, rivals>>

\* The INSERT of the bootstrap superuser fails when the name is taken by then, and
\* nothing catches it.
InsertAdmin(p) ==
  /\ start[p].pc = "admin"
  /\ IF Admin \in DOMAIN accounts
     THEN At(p, "exited: account") /\ UNCHANGED <<accounts, rivals>>
     ELSE /\ accounts' = [n \in DOMAIN accounts \cup {Admin} |->
                            IF n = Admin THEN "system" ELSE accounts[n]]
          /\ At(p, "axes")
          /\ Took(p, "account")
  /\ UNCHANGED <<foreign, manifests, command, begunStarts>>

\* _bootstrap_axis_policies: a world without policy, or with a policy that an error
\* of the service reports, is skipped; a malformed version is a ValueError.
BootstrapAxes(p) ==
  /\ start[p].pc = "axes"
  /\ At(p, IF "malformed" \in manifests THEN "exited: policy" ELSE "discover")
  /\ UNCHANGED <<foreign, accounts, manifests, command, begunStarts, rivals>>

\* cmd_run: nothing is in use that the probe binds.
Discover(p) ==
  /\ start[p].pc = "discover"
  /\ LET port == FindPort(Preferred[p], Busy, FirstPort, LastPort)
     IN start' = [start EXCEPT ![p] = [pc |-> IF port = NULL THEN "exited: range" ELSE "bind", port |-> port]]
  /\ rivals' = [rivals EXCEPT ![p] = (@ \ {"port"}) \cup
                  (IF \A port \in FirstPort..LastPort : port \in Busy THEN {"range"} ELSE {})]
  /\ UNCHANGED <<foreign, accounts, manifests, command, begunStarts>>

Bind(p) ==
  /\ start[p].pc = "bind"
  /\ IF start[p].port \in Busy
     THEN At(p, "exited: port") /\ UNCHANGED rivals
     ELSE At(p, "serving") /\ Took(p, "port")
  /\ UNCHANGED <<foreign, accounts, manifests, command, begunStarts>>

\* A server is stopped, or dies, at any point of its start.
Stop(p) ==
  /\ start[p].pc \in {"count", "admin", "axes", "discover", "bind", "serving"}
  /\ start' = [start EXCEPT ![p] = Down]
  /\ UNCHANGED <<foreign, accounts, manifests, command, begunStarts, rivals>>

\* create-superuser: the check and the INSERT are two connections; a name that is
\* taken by then makes it report a failure.
CheckName(n) ==
  /\ command = "idle"
  /\ begunStarts < MaxStarts
  /\ begunStarts' = begunStarts + 1
  /\ OtherAccepted /\ n \notin DOMAIN accounts
  /\ command' = n
  /\ UNCHANGED <<foreign, accounts, manifests, start, rivals>>

CreateSuperuser ==
  /\ command # "idle"
  /\ command' = "idle"
  /\ IF command \in DOMAIN accounts
     THEN UNCHANGED <<accounts, rivals>>
     ELSE /\ accounts' = [n \in DOMAIN accounts \cup {command} |->
                            IF n = command THEN "superuser" ELSE accounts[n]]
          /\ rivals' = [q \in Starters |-> rivals[q] \cup {"account"}]
  /\ UNCHANGED <<foreign, manifests, start, begunStarts>>

\* Activations change what the starts will find.
ActivateManifests(m) ==
  /\ manifests' = m
  /\ UNCHANGED <<foreign, accounts, start, command, begunStarts, rivals>>

StartNext ==
  \/ \E p \in Starters : \/ CreateSchema(p) \/ CountUsers(p) \/ InsertAdmin(p) \/ BootstrapAxes(p)
                         \/ Discover(p) \/ Bind(p) \/ Stop(p)
  \/ \E n \in {Admin, Other} : CheckName(n)
  \/ CreateSuperuser
  \/ \E m \in SUBSET {"sound", "malformed"} : ActivateManifests(m)

StartSpec == StartInit /\ [][StartNext]_startVars

-----------------------------------------------------------------------------
\* A start ends before it serves only if something took what it had looked for:
\* the name of the first administrator or the port, between its check and its use,
\* or every port of the range; or if a manifest is malformed.
ExitsExplained ==
  \A p \in Starters :
    /\ start[p].pc = "exited: account" => "account" \in rivals[p]
    /\ start[p].pc = "exited: port" => "port" \in rivals[p]
    /\ start[p].pc = "exited: range" => "range" \in rivals[p]
=============================================================================
