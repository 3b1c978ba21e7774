--------------------------- MODULE PolicyControl ---------------------------
(***************************************************************************)
(* The policy control plane of one world: variants, activation pointers    *)
(* and their audit events, publish runs, and the export files beside the   *)
(* database.  A call is a sequence of transactions; the server and the     *)
(* command line are processes on the same database, and any call may stop  *)
(* between two transactions.                                               *)
(***************************************************************************)
EXTENDS Naturals, Sequences, FiniteSets

CONSTANTS
  Procs,
  Policies,
  PolicyType,   \* [Policies -> one of the supported types]
  Variants,
  Offered,      \* what clients ask to save: <<policy, variant, content>>
  None,
  Mirror,       \* the artifact files another database has left in the export root
  MaxJobs,      \* bound on the calls begun
  CanFail       \* calls may fail or stop

Layer1Types == {"image_block", "species_block", "clothing_block", "location",
                "prompt", "tone_profile"}
Layer2Types == {"descriptor_layer", "registry"}
BundleTypes == {"axis_bundle", "manifest_bundle"}

Layer1 == {q \in Policies : PolicyType[q] \in Layer1Types}
Layer2 == {q \in Policies : PolicyType[q] \in Layer2Types}

\* The world's own scope and one client profile's.
Scopes == {"world", "client"}

\* What a stored row says: text 0 stands for fields that are missing or
\* malformed, refs are the Layer 1 variants it points to.
Content == [text : Nat, refs : SUBSET (Policies \X Variants)]
NoRow   == [text |-> 0, refs |-> {}]

ASSUME TypesSupported == PolicyType \in [Policies -> Layer1Types \cup Layer2Types \cup BundleTypes]
ASSUME OfferedType    == Offered \subseteq Policies \X Variants \X Content
ASSUME NoneIsNone     == None \notin Variants /\ None \notin [Policies -> Content]
ASSUME MirrorType     ==
  /\ DOMAIN Mirror \subseteq Scopes \X [Policies -> (Variants \cup {None}) \X Content]
  /\ Mirror \in [DOMAIN Mirror -> [Policies -> Content]]
ASSUME BoundsType     == MaxJobs \in Nat /\ CanFail \in BOOLEAN

VARIABLES
  row,          \* policy_variant: NoRow, or what the row says
  validated,    \* policy_validation_run: policy, variant, verdict
  pointer,      \* policy_activation
  events,       \* the activation rows of policy_audit_event
  runs,         \* policy_publish_run
  files,        \* artifact files by key: the contents, None while unreadable
  latest,       \* latest.json of each scope: a key, None while unreadable
  torn,         \* files whose writing was stopped half way
  jobs,         \* calls begun
  pc,           \* where each process is in its call
  call,         \* upsert, activate, publish, get or import
  scope,        \* the call's scope
  target,       \* the policy and variant being saved or activated
  content,      \* the content being saved
  left,         \* policies a loop has still to visit
  manifest,     \* publish: the manifest; import: the rows of the artifact
  contents,     \* publish: the exported contents; import: those of the artifact
  seen,         \* pointers read earlier in the call
  accepted,     \* import: the rows that may be activated
  activate,     \* import: whether they will be
  errors,       \* import: entries in error
  clean,        \* no other call overlapped this one, and nothing in it failed
  outcome       \* how the call ended

db    == <<row, validated, pointer, events, runs>>
disk  == <<files, latest, torn>>
local == <<pc, call, scope, target, content, left, manifest, contents, seen,
           accepted, activate, errors, clean, outcome>>
vars  == <<db, disk, jobs, local>>

NoPointers == [q \in Policies |-> None]
NoContents == [q \in Policies |-> NoRow]
NoManifest == [q \in Policies |-> <<None, NoRow>>]

\* The policies a manifest lists.
Listed(m) == {q \in Policies : m[q][1] # None}

\* The artifact's path: the scope's directory and the manifest's hash.
Key(s, m) == <<s, m>>

Init ==
  /\ row = [r \in Policies \X Variants |-> NoRow]
  /\ validated = {} /\ events = <<>> /\ runs = <<>>
  /\ pointer = [s \in Scopes |-> NoPointers]
  /\ files = Mirror /\ torn = {}
  /\ latest = [s \in Scopes |-> None]
  /\ jobs = 0
  /\ pc = [p \in Procs |-> "idle"] /\ call = [p \in Procs |-> "none"]
  /\ scope = [p \in Procs |-> "world"]
  /\ target = [p \in Procs |-> <<None, None>>]
  /\ content = [p \in Procs |-> NoRow]
  /\ left = [p \in Procs |-> {}]
  /\ manifest = [p \in Procs |-> NoManifest]
  /\ contents = [p \in Procs |-> NoContents]
  /\ seen = [p \in Procs |-> NoPointers]
  /\ accepted = [p \in Procs |-> NoPointers]
  /\ activate = [p \in Procs |-> FALSE]
  /\ errors = [p \in Procs |-> 0]
  /\ clean = [p \in Procs |-> TRUE]
  /\ outcome = [p \in Procs |-> "none"]

Goto(p, where) == pc' = [pc EXCEPT ![p] = where]

\* The call is over, having succeeded or been refused.
Finish(p, how) ==
  /\ Goto(p, "done")
  /\ outcome' = [outcome EXCEPT ![p] = how]

\* A call begins; it overlaps every call that is not over.
Begin(p, name, where) ==
  /\ pc[p] = "idle"
  /\ jobs < MaxJobs
  /\ jobs' = jobs + 1
  /\ Goto(p, where)
  /\ call' = [call EXCEPT ![p] = name]
  /\ clean' = [q \in Procs |->
                 IF q = p THEN \A r \in Procs : pc[r] \in {"idle", "done"}
                 ELSE clean[q] /\ pc[q] = "idle"]
  /\ UNCHANGED <<db, disk, seen, accepted, errors, outcome>>

\* What the call knew is forgotten.
Forget(p) ==
  /\ Goto(p, "idle")
  /\ call' = [call EXCEPT ![p] = "none"] /\ outcome' = [outcome EXCEPT ![p] = "none"]
  /\ scope' = [scope EXCEPT ![p] = "world"]
  /\ target' = [target EXCEPT ![p] = <<None, None>>]
  /\ content' = [content EXCEPT ![p] = NoRow]
  /\ left' = [left EXCEPT ![p] = {}]
  /\ manifest' = [manifest EXCEPT ![p] = NoManifest]
  /\ contents' = [contents EXCEPT ![p] = NoContents]
  /\ seen' = [seen EXCEPT ![p] = NoPointers]
  /\ accepted' = [accepted EXCEPT ![p] = NoPointers]
  /\ activate' = [activate EXCEPT ![p] = FALSE]
  /\ errors' = [errors EXCEPT ![p] = 0]
  /\ clean' = [clean EXCEPT ![p] = TRUE]
  /\ UNCHANGED <<db, files, latest, jobs>>

\* The answer is sent.
Return(p) ==
  /\ pc[p] = "done"
  /\ Forget(p)
  /\ UNCHANGED torn

\* Anywhere in a call: an exception nobody catches, or the end of the process.
Stop(p) ==
  /\ CanFail
  /\ pc[p] \notin {"idle", "done"}
  /\ torn' = IF pc[p] = "fill" THEN torn \cup {Key(scope[p], manifest[p])} ELSE torn
  /\ Forget(p)

\* A row or a pointer is refused: that is the end of a call about it, and one
\* more entry in error for an import, which goes on.
Refuse(p, how) ==
  IF call[p] = "import"
  THEN /\ errors' = [errors EXCEPT ![p] = @ + 1]
       /\ Goto(p, IF pc[p] = "validate" THEN "next" ELSE "point")
       /\ UNCHANGED outcome
  ELSE Finish(p, how) /\ UNCHANGED errors

-----------------------------------------------------------------------------
(* Saving a variant *)

\* The rows a Layer 2 variant refers to are looked up before anything is
\* written; rows are never deleted.
Valid(q, c) ==
  /\ c.text > 0
  /\ q \in Layer2 =>
       /\ c.refs # {}
       /\ \A ref \in c.refs : ref[1] \in Layer1 /\ row[ref] # NoRow

\* Mutant of Validate: the run is recorded, its verdict is not looked at.
ValidateOnly(p) ==
  /\ pc[p] = "validate"
  /\ validated' = validated \cup {<<target[p], Valid(target[p][1], content[p])>>}
  /\ Goto(p, "write")
  /\ UNCHANGED <<row, pointer, events, runs, disk, jobs, call, scope, target,
                 content, left, manifest, contents, seen, accepted, activate,
                 errors, clean, outcome>>

StartUpsert(p) ==
  \E o \in Offered :
    /\ Begin(p, "upsert", "validate")
    /\ target' = [target EXCEPT ![p] = <<o[1], o[2]>>]
    /\ content' = [content EXCEPT ![p] = o[3]]
    /\ UNCHANGED <<scope, left, manifest, contents, activate>>

\* validate_policy_variant: the run is recorded whatever its verdict.
Validate(p) ==
  /\ pc[p] = "validate"
  /\ LET ok == Valid(target[p][1], content[p])
     IN /\ validated' = validated \cup {<<target[p], ok>>}
        /\ IF ok THEN Goto(p, "write") /\ UNCHANGED <<errors, outcome>>
                 ELSE Refuse(p, "refused")
  /\ UNCHANGED <<row, pointer, events, runs, disk, jobs, call, scope, target,
                 content, left, manifest, contents, seen, accepted, activate, clean>>

\* The identity row, then the variant, each in a transaction; the identity row
\* alone is seen by nobody.  An import keeps the variant for its activation.
WriteVariant(p) ==
  /\ pc[p] = "write"
  /\ row' = [row EXCEPT ![target[p]] = content[p]]
  /\ IF call[p] = "import"
     THEN /\ accepted' = [accepted EXCEPT ![p][target[p][1]] = target[p][2]]
          /\ Goto(p, "next") /\ UNCHANGED outcome
     ELSE Finish(p, "ok") /\ UNCHANGED accepted
  /\ UNCHANGED <<validated, pointer, events, runs, disk, jobs, call, scope, target,
                 content, left, manifest, contents, seen, activate, errors, clean>>

-----------------------------------------------------------------------------
(* Activation *)

\* A rollback takes the variant of an event of the same scope and policy.
StartActivate(p) ==
  \E s \in Scopes, q \in Policies, v \in Variants :
    /\ Begin(p, "activate", "set")
    /\ scope' = [scope EXCEPT ![p] = s]
    /\ target' = [target EXCEPT ![p] = <<q, v>>]
    /\ UNCHANGED <<content, left, manifest, contents, activate>>

\* Mutant of Event: an event always names the world's scope.
EventOfWorld(p) == [scope |-> "world", policy |-> target[p][1], variant |-> target[p][2]]

Event(p) == [scope |-> scope[p], policy |-> target[p][1], variant |-> target[p][2]]

\* One transaction: the variant exists, the pointer moves, the event is appended.
SetActivation(p) ==
  /\ pc[p] = "set"
  /\ IF row[target[p]] = NoRow
     THEN Refuse(p, "refused") /\ UNCHANGED <<pointer, events>>
     ELSE /\ pointer' = [pointer EXCEPT ![scope[p]][target[p][1]] = target[p][2]]
          /\ events' = Append(events, Event(p))
          /\ Goto(p, "pointers") /\ UNCHANGED <<errors, outcome>>
  /\ UNCHANGED <<row, validated, runs, disk, jobs, call, scope, target, content,
                 left, manifest, contents, seen, accepted, activate, clean>>

\* The write, or a read of the check after it, raises.
ActivationFails(p) ==
  /\ CanFail
  /\ pc[p] \in {"set", "pointers", "events"}
  /\ Refuse(p, "refused")
  /\ clean' = [clean EXCEPT ![p] = FALSE]
  /\ UNCHANGED <<db, disk, jobs, call, scope, target, content, left, manifest,
                 contents, seen, accepted, activate>>

\* The pointers of a scope as its events leave them.
EventsOf(s, q) == {i \in DOMAIN events : events[i].scope = s /\ events[i].policy = q}
Last(I)        == CHOOSE i \in I : \A j \in I : j <= i
First(I)       == CHOOSE i \in I : \A j \in I : i <= j

\* Mutant of Replay: the first event of a policy counts.
ReplayFirst(s) ==
  [q \in Policies |->
     IF EventsOf(s, q) = {} THEN None ELSE events[First(EventsOf(s, q))].variant]

Replay(s) ==
  [q \in Policies |->
     IF EventsOf(s, q) = {} THEN None ELSE events[Last(EventsOf(s, q))].variant]

\* assert_activation_replay_consistency reads the pointers, then the events.
ReadPointers(p) ==
  /\ pc[p] = "pointers"
  /\ seen' = [seen EXCEPT ![p] = pointer[scope[p]]]
  /\ Goto(p, "events")
  /\ UNCHANGED <<db, disk, jobs, call, scope, target, content, left, manifest,
                 contents, accepted, activate, errors, clean, outcome>>

ReadEvents(p) ==
  /\ pc[p] = "events"
  /\ IF seen[p] # Replay(scope[p]) THEN Refuse(p, "mismatch")
     ELSE IF call[p] = "import" THEN Goto(p, "point") /\ UNCHANGED <<errors, outcome>>
     ELSE Finish(p, "ok") /\ UNCHANGED errors
  /\ UNCHANGED <<db, disk, jobs, call, scope, target, content, left, manifest,
                 contents, seen, accepted, activate, clean>>

-----------------------------------------------------------------------------
(* Publishing *)

StartPublish(p) ==
  \E s \in Scopes :
    /\ Begin(p, "publish", "world")
    /\ scope' = [scope EXCEPT ![p] = s]
    /\ UNCHANGED <<target, content, left, manifest, contents, activate>>

Overlay(under, over) == [q \in Policies |-> IF over[q] # None THEN over[q] ELSE under[q]]

\* Mutant of ReadClient: the world's pointers cover the client's.
ReadClientUnder(p) ==
  /\ pc[p] = "client"
  /\ seen' = [seen EXCEPT ![p] = Overlay(pointer["client"], seen[p])]
  /\ left' = [left EXCEPT ![p] = {q \in Policies : seen'[p][q] # None}]
  /\ Goto(p, "manifest")
  /\ UNCHANGED <<db, disk, jobs, call, scope, target, content, manifest, contents,
                 accepted, activate, errors, clean, outcome>>

ReadWorld(p) ==
  /\ pc[p] = "world"
  /\ seen' = [seen EXCEPT ![p] = pointer["world"]]
  /\ IF scope[p] = "world"
     THEN /\ left' = [left EXCEPT ![p] = {q \in Policies : pointer["world"][q] # None}]
          /\ Goto(p, "manifest")
     ELSE Goto(p, "client") /\ UNCHANGED left
  /\ UNCHANGED <<db, disk, jobs, call, scope, target, content, manifest, contents,
                 accepted, activate, errors, clean, outcome>>

ReadClient(p) ==
  /\ pc[p] = "client"
  /\ seen' = [seen EXCEPT ![p] = Overlay(seen[p], pointer["client"])]
  /\ left' = [left EXCEPT ![p] = {q \in Policies : seen'[p][q] # None}]
  /\ Goto(p, "manifest")
  /\ UNCHANGED <<db, disk, jobs, call, scope, target, content, manifest, contents,
                 accepted, activate, errors, clean, outcome>>

\* A pointer's row is never missing: rows are not deleted.
ManifestRow(p) ==
  /\ pc[p] = "manifest"
  /\ \E q \in left[p] :
       /\ manifest' = [manifest EXCEPT ![p][q] = <<seen[p][q], row[<<q, seen[p][q]>>]>>]
       /\ left' = [left EXCEPT ![p] = @ \ {q}]
  /\ UNCHANGED <<db, disk, jobs, pc, call, scope, target, content, contents, seen,
                 accepted, activate, errors, clean, outcome>>

Record(p) ==
  /\ pc[p] = "manifest"
  /\ left[p] = {}
  /\ runs' = Append(runs, [scope |-> scope[p], manifest |-> manifest[p]])
  /\ left' = [left EXCEPT ![p] = Listed(manifest[p])]
  /\ Goto(p, "variants")
  /\ UNCHANGED <<row, validated, pointer, events, disk, jobs, call, scope, target,
                 content, manifest, contents, seen, accepted, activate, errors,
                 clean, outcome>>

\* get_publish_run writes the files of a recorded run again.
StartGet(p) ==
  \E r \in DOMAIN runs :
    /\ Begin(p, "get", "variants")
    /\ scope' = [scope EXCEPT ![p] = runs[r].scope]
    /\ manifest' = [manifest EXCEPT ![p] = runs[r].manifest]
    /\ left' = [left EXCEPT ![p] = Listed(runs[r].manifest)]
    /\ UNCHANGED <<target, content, contents, activate>>

\* The exported contents are read again, after the manifest was made.
ContentsRow(p) ==
  /\ pc[p] = "variants"
  /\ \E q \in left[p] :
       /\ contents' = [contents EXCEPT ![p][q] = row[<<q, manifest[p][q][1]>>]]
       /\ left' = [left EXCEPT ![p] = @ \ {q}]
  /\ UNCHANGED <<db, disk, jobs, pc, call, scope, target, content, manifest, seen,
                 accepted, activate, errors, clean, outcome>>

PutFile(k, what) == files' = [f \in DOMAIN files \cup {k} |-> IF f = k THEN what ELSE files[f]]

\* Mutant of OpenArtifact: latest.json is written before the artifact.
OpenArtifactLate(p) ==
  /\ pc[p] = "variants"
  /\ left[p] = {}
  /\ latest' = [latest EXCEPT ![scope[p]] = Key(scope[p], manifest[p])]
  /\ Goto(p, "fill")
  /\ UNCHANGED <<db, files, torn, jobs, call, scope, target, content, left, manifest,
                 contents, seen, accepted, activate, errors, clean, outcome>>

\* Each file is truncated and then written.
OpenArtifact(p) ==
  /\ pc[p] = "variants"
  /\ left[p] = {}
  /\ PutFile(Key(scope[p], manifest[p]), None)
  /\ Goto(p, "fill")
  /\ UNCHANGED <<db, latest, torn, jobs, call, scope, target, content, left, manifest,
                 contents, seen, accepted, activate, errors, clean, outcome>>

FillArtifact(p) ==
  /\ pc[p] = "fill"
  /\ PutFile(Key(scope[p], manifest[p]), contents[p])
  /\ Goto(p, "openlatest")
  /\ UNCHANGED <<db, latest, torn, jobs, call, scope, target, content, left, manifest,
                 contents, seen, accepted, activate, errors, clean, outcome>>

OpenLatest(p) ==
  /\ pc[p] = "openlatest"
  /\ latest' = [latest EXCEPT ![scope[p]] = None]
  /\ Goto(p, "filllatest")
  /\ UNCHANGED <<db, files, torn, jobs, call, scope, target, content, left, manifest,
                 contents, seen, accepted, activate, errors, clean, outcome>>

FillLatest(p) ==
  /\ pc[p] = "filllatest"
  /\ latest' = [latest EXCEPT ![scope[p]] = Key(scope[p], manifest[p])]
  /\ Finish(p, "ok")
  /\ UNCHANGED <<db, files, torn, jobs, call, scope, target, content, left, manifest,
                 contents, seen, accepted, activate, errors, clean>>

-----------------------------------------------------------------------------
(* Importing an artifact *)

\* Only a readable file is parsed; its own hashes then agree.
StartImport(p) ==
  \E k \in DOMAIN files, a \in BOOLEAN :
    /\ files[k] # None
    /\ Begin(p, "import", "next")
    /\ scope' = [scope EXCEPT ![p] = k[1]]
    /\ manifest' = [manifest EXCEPT ![p] = k[2]]
    /\ contents' = [contents EXCEPT ![p] = files[k]]
    /\ left' = [left EXCEPT ![p] = Listed(k[2])]
    /\ activate' = [activate EXCEPT ![p] = a]
    /\ UNCHANGED <<target, content>>

\* _import_priority_for_policy_row; a type that is not in the table comes last.
ByType == [image_block |-> 10, species_block |-> 20, clothing_block |-> 30, prompt |-> 40,
           tone_profile |-> 50, axis_bundle |-> 60, manifest_bundle |-> 70,
           descriptor_layer |-> 80, registry |-> 90]

\* Mutant of Priority: rows are imported in any order.
PriorityFlat(q) == IF PolicyType[q] \in DOMAIN ByType THEN 0 ELSE 99

Priority(q) == IF PolicyType[q] \in DOMAIN ByType THEN ByType[PolicyType[q]] ELSE 99

FirstRows(Q) == {q \in Q : \A r \in Q : Priority(q) <= Priority(r)}

\* Mutant of Unchanged: a row that is there is taken to be the artifact's.
UnchangedIfThere(q, v, c) == row[<<q, v>>] # NoRow

Unchanged(q, v, c) == row[<<q, v>>] # NoRow /\ row[<<q, v>>] = c

\* The next row is skipped if it is there already, and validated otherwise.
NextRow(p) ==
  /\ pc[p] = "next"
  /\ \E q \in FirstRows(left[p]) :
       LET v == manifest[p][q][1]
           c == contents[p][q]
       IN /\ left' = [left EXCEPT ![p] = @ \ {q}]
          /\ target' = [target EXCEPT ![p] = <<q, v>>]
          /\ content' = [content EXCEPT ![p] = c]
          /\ IF Unchanged(q, v, c)
             THEN accepted' = [accepted EXCEPT ![p][q] = v] /\ UNCHANGED pc
             ELSE Goto(p, "validate") /\ UNCHANGED accepted
  /\ UNCHANGED <<db, disk, jobs, call, scope, manifest, contents, seen, activate,
                 errors, clean, outcome>>

\* The rows are through: the pointers that are not yet right are to be set.
ReadCurrent(p) ==
  /\ pc[p] = "next"
  /\ left[p] = {}
  /\ activate[p]
  /\ left' = [left EXCEPT ![p] = {q \in Policies : accepted[p][q] \notin
                                                   {None, pointer[scope[p]][q]}}]
  /\ Goto(p, "point")
  /\ UNCHANGED <<db, disk, jobs, call, scope, target, content, manifest, contents,
                 seen, accepted, activate, errors, clean, outcome>>

\* Mutant of NextPointer: the pointer is set to what is active now.
NextPointerSeen(p) ==
  /\ pc[p] = "point"
  /\ \E q \in left[p] :
       /\ left' = [left EXCEPT ![p] = @ \ {q}]
       /\ target' = [target EXCEPT ![p] = <<pointer[scope[p]][q], q>>]
  /\ Goto(p, "set")
  /\ UNCHANGED <<db, disk, jobs, call, scope, content, manifest, contents, seen,
                 accepted, activate, errors, clean, outcome>>

NextPointer(p) ==
  /\ pc[p] = "point"
  /\ \E q \in left[p] :
       /\ left' = [left EXCEPT ![p] = @ \ {q}]
       /\ target' = [target EXCEPT ![p] = <<q, accepted[p][q]>>]
  /\ Goto(p, "set")
  /\ UNCHANGED <<db, disk, jobs, call, scope, content, manifest, contents, seen,
                 accepted, activate, errors, clean, outcome>>

EndImport(p) ==
  /\ \/ pc[p] = "next" /\ ~activate[p]
     \/ pc[p] = "point"
  /\ left[p] = {}
  /\ Finish(p, "ok")
  /\ UNCHANGED <<db, disk, jobs, call, scope, target, content, left, manifest,
                 contents, seen, accepted, activate, errors, clean>>

Step(p) ==
  \/ StartUpsert(p) \/ StartActivate(p) \/ StartPublish(p) \/ StartGet(p) \/ StartImport(p)
  \/ Validate(p) \/ WriteVariant(p)
  \/ SetActivation(p) \/ ActivationFails(p) \/ ReadPointers(p) \/ ReadEvents(p)
  \/ ReadWorld(p) \/ ReadClient(p) \/ ManifestRow(p) \/ Record(p) \/ ContentsRow(p)
  \/ OpenArtifact(p) \/ FillArtifact(p) \/ OpenLatest(p) \/ FillLatest(p)
  \/ NextRow(p) \/ ReadCurrent(p) \/ NextPointer(p) \/ EndImport(p)
  \/ Stop(p) \/ Return(p)

Next == \E p \in Procs : Step(p)

Spec == Init /\ [][Next]_vars

-----------------------------------------------------------------------------
(* Properties *)

Manifests == [Policies -> (Variants \cup {None}) \X Content]
Pointers  == [Policies -> Variants \cup {None}]

TablesOK ==
  /\ row \in [Policies \X Variants -> Content]
  /\ validated \subseteq (Policies \X Variants) \X BOOLEAN
  /\ pointer \in [Scopes -> Pointers]
  /\ events \in Seq([scope : Scopes, policy : Policies, variant : Variants])
  /\ runs \in Seq([scope : Scopes, manifest : Manifests])

FilesOK ==
  /\ DOMAIN files \subseteq Scopes \X Manifests
  /\ \A k \in DOMAIN files : files[k] = None \/ files[k] \in [Policies -> Content]
  /\ \A s \in Scopes : latest[s] = None \/ latest[s] \in Scopes \X Manifests
  /\ DOMAIN latest = Scopes

ControlOK ==
  /\ jobs \in 0..MaxJobs
  /\ pc \in [Procs -> {"idle", "validate", "write", "set", "pointers", "events",
                       "world", "client", "manifest", "variants", "fill",
                       "openlatest", "filllatest", "next", "point", "done"}]
  /\ call \in [Procs -> {"none", "upsert", "activate", "publish", "get", "import"}]
  /\ outcome \in [Procs -> {"none", "ok", "refused", "mismatch"}]
  /\ scope \in [Procs -> Scopes]
  /\ activate \in [Procs -> BOOLEAN] /\ clean \in [Procs -> BOOLEAN]
  /\ errors \in [Procs -> Nat]

DataOK ==
  /\ target \in [Procs -> (Policies \cup {None}) \X (Variants \cup {None})]
  /\ content \in [Procs -> Content]
  /\ left \in [Procs -> SUBSET Policies]
  /\ manifest \in [Procs -> Manifests]
  /\ contents \in [Procs -> [Policies -> Content]]
  /\ seen \in [Procs -> Pointers] /\ accepted \in [Procs -> Pointers]

\* Tables, files and the variables of the calls hold values of their kind.
TypeOK == TablesOK /\ FilesOK /\ ControlOK /\ DataOK

\* The audit history is complete: replaying a scope's events gives its pointers,
\* whatever stopped where, and every pointer names a stored row.
PointersReplay ==
  \A s \in Scopes :
    /\ pointer[s] = Replay(s)
    /\ \A q \in Policies : pointer[s][q] # None => row[<<q, pointer[s][q]>>] # NoRow

\* Invalid payloads never reach variant storage, by any call: a stored row has a
\* passing validation run, and what a Layer 2 row refers to is there.
StoredIsValid ==
  \A q \in Policies, v \in Variants :
    row[<<q, v>>] # NoRow => Valid(q, row[<<q, v>>]) /\ <<<<q, v>>, TRUE>> \in validated

\* An activation that reports a replay mismatch has been overtaken by another
\* call: the history is right, and the activation it reports on did happen.
MismatchIsInterference ==
  \A p \in Procs :
    outcome[p] = "mismatch" => ~clean[p] /\ \E i \in DOMAIN events : events[i] = Event(p)

Ended(p, name) == pc[p] = "done" /\ call[p] = name /\ outcome[p] = "ok" /\ clean[p]

\* A publish nobody overlapped leaves what is in force in its scope, the client's
\* pointers over the world's, in the file latest.json names.
PublishedIsEffective ==
  \A p \in Procs : Ended(p, "publish") =>
    LET over == IF scope[p] = "client" THEN pointer["client"] ELSE NoPointers
        live == Overlay(pointer["world"], over)
        rows == [q \in Policies |-> IF live[q] = None THEN NoRow ELSE row[<<q, live[q]>>]]
        key  == Key(scope[p], [q \in Policies |-> <<live[q], rows[q]>>])
    IN latest[scope[p]] = key /\ files[key] = rows

\* latest.json never names a file that was not written, and a file it names is
\* unreadable only when the file is being written again or that was stopped.
LatestIsThere ==
  \A s \in Scopes : latest[s] # None =>
    /\ latest[s] \in DOMAIN files
    /\ files[latest[s]] = None =>
         \/ \E p \in Procs : pc[p] = "fill" /\ Key(scope[p], manifest[p]) = latest[s]
         \/ latest[s] \in torn

\* The two together are what a reader of the latest artifact relies on.
PublishHolds == PublishedIsEffective /\ LatestIsThere

\* What an import nobody overlapped says of its rows is so: an accepted row is
\* stored as the artifact has it, and without errors all of them are, and active.
ImportTookEffect ==
  \A p \in Procs : Ended(p, "import") =>
    /\ \A q \in Policies : accepted[p][q] # None => row[<<q, accepted[p][q]>>] = contents[p][q]
    /\ errors[p] = 0 => \A q \in Listed(manifest[p]) :
         /\ accepted[p][q] = manifest[p][q][1]
         /\ activate[p] => pointer[scope[p]][q] = manifest[p][q][1]

\* Layer 1 rows are imported first: if nothing fails, an artifact that holds
\* what its rows refer to is imported without an error.
ClosedArtifactImports ==
  \A p \in Procs :
    Ended(p, "import") /\
    (\A q \in Listed(manifest[p]) : \A ref \in contents[p][q].refs :
        manifest[p][ref[1]][1] = ref[2]) => errors[p] = 0

\* What an import reports is what it did, and what is complete it takes in whole.
ImportHolds == ImportTookEffect /\ ClosedArtifactImports
=============================================================================
