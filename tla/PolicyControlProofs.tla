------------------------- MODULE PolicyControlProofs -------------------------
(***************************************************************************)
(* The audit history replays to the pointers, stored variants are valid,   *)
(* and publishes and imports do what they report, for any number of        *)
(* processes and calls, whatever stops where.                              *)
(***************************************************************************)
EXTENDS PolicyControl, TLAPS

\* What a call in progress holds between its transactions.
HeldBy(p) ==
  /\ pc[p] \in {"validate", "write", "set", "pointers", "events"} =>
       target[p] \in Policies \X Variants
  /\ pc[p] = "write" =>
       Valid(target[p][1], content[p]) /\ <<target[p], TRUE>> \in validated
  /\ pc[p] \in {"idle", "next", "validate", "write", "variants"} =>
       left[p] \subseteq Listed(manifest[p])
  /\ pc[p] \in {"set", "pointers", "events", "point"} =>
       \A q \in left[p] : accepted[p][q] # None
  /\ pc[p] = "manifest" => \A q \in left[p] : seen[p][q] # None
  /\ pc[p] = "idle" => left[p] = {}

Held == \A p \in Procs : HeldBy(p)

-----------------------------------------------------------------------------
\* Tables and files keep their types: few steps touch them.
LEMMA TypesOfRows ==
  ASSUME TypeOK
  PROVE  /\ \A r \in DOMAIN runs : runs[r].scope \in Scopes /\ runs[r].manifest \in Manifests
         /\ \A k \in DOMAIN files : k[1] \in Scopes /\ k[2] \in Manifests
         /\ \A k \in DOMAIN files : files[k] = None \/ files[k] \in [Policies -> Content]
         /\ pointer \in [Scopes -> Pointers]
         /\ row \in [Policies \X Variants -> Content]
         /\ scope \in [Procs -> Scopes]
<1>1. runs \in Seq([scope : Scopes, manifest : Manifests])  BY DEF TypeOK, TablesOK
<1>2. \A r \in DOMAIN runs : runs[r] \in [scope : Scopes, manifest : Manifests]
  <2> DEFINE T == [scope : Scopes, manifest : Manifests]
  <2>1. runs \in Seq(T)  BY <1>1
  <2> HIDE DEF T
  <2>2. \A r \in DOMAIN runs : runs[r] \in T  BY <2>1
  <2> QED  BY <2>2 DEF T
<1>3. \A r \in DOMAIN runs : runs[r].scope \in Scopes /\ runs[r].manifest \in Manifests
  BY <1>2
<1> QED  BY <1>3 DEF TypeOK, TablesOK, FilesOK, ControlOK

LEMMA TablesKept ==
  ASSUME TypeOK, Held, NEW p \in Procs, Step(p)
  PROVE  TablesOK'
<1> USE DEF TypeOK, ControlOK, DataOK, TablesOK, Held, HeldBy
<1>1. CASE StartUpsert(p)  BY <1>1 DEF StartUpsert, Begin, db
<1>2. CASE StartActivate(p)  BY <1>2 DEF StartActivate, Begin, db
<1>3. CASE StartPublish(p)  BY <1>3 DEF StartPublish, Begin, db
<1>4. CASE StartGet(p)  BY <1>4 DEF StartGet, Begin, db
<1>5. CASE StartImport(p)  BY <1>5 DEF StartImport, Begin, db
<1>6. CASE Validate(p)
  <2>1. target[p] \in Policies \X Variants  BY <1>6 DEF Validate
  <2>2. /\ validated' = validated \cup {<<target[p], Valid(target[p][1], content[p])>>}
        /\ UNCHANGED <<row, pointer, events, runs>>
    BY <1>6 DEF Validate
  <2>3. Valid(target[p][1], content[p]) \in BOOLEAN  BY DEF Valid
  <2> QED  BY <2>1, <2>2, <2>3
<1>7. CASE WriteVariant(p)  BY <1>7 DEF WriteVariant, Goto, Finish, db
<1>8. CASE SetActivation(p)
  <2>1. target[p] \in Policies \X Variants /\ UNCHANGED <<row, validated, runs>>
    BY <1>8 DEF SetActivation
  <2>2. CASE row[target[p]] = NoRow  BY <1>8, <2>1, <2>2 DEF SetActivation
  <2>3. CASE row[target[p]] # NoRow
    <3>1. /\ pointer' = [pointer EXCEPT ![scope[p]][target[p][1]] = target[p][2]]
          /\ events' = Append(events, Event(p))
      BY <1>8, <2>3 DEF SetActivation
    <3>2. pointer' \in [Scopes -> Pointers]  BY <2>1, <3>1 DEF Pointers
    <3>3. Event(p) \in [scope : Scopes, policy : Policies, variant : Variants]
      BY <2>1 DEF Event
    <3>4. events' \in Seq([scope : Scopes, policy : Policies, variant : Variants])
      BY <3>1, <3>3
    <3> QED  BY <2>1, <3>2, <3>4
  <2> QED  BY <2>2, <2>3
<1>9. CASE ActivationFails(p)  BY <1>9 DEF ActivationFails, db
<1>10. CASE ReadPointers(p)  BY <1>10 DEF ReadPointers, db
<1>11. CASE ReadEvents(p)  BY <1>11 DEF ReadEvents, db
<1>12. CASE ReadWorld(p)  BY <1>12 DEF ReadWorld, db
<1>13. CASE ReadClient(p)  BY <1>13 DEF ReadClient, db
<1>14. CASE ManifestRow(p)  BY <1>14 DEF ManifestRow, db
<1>15. CASE Record(p)  BY <1>15 DEF Record, Goto, Listed, db, Manifests
<1>16. CASE ContentsRow(p)  BY <1>16 DEF ContentsRow, db
<1>17. CASE OpenArtifact(p)  BY <1>17 DEF OpenArtifact, db
<1>18. CASE FillArtifact(p)  BY <1>18 DEF FillArtifact, db
<1>19. CASE OpenLatest(p)  BY <1>19 DEF OpenLatest, db
<1>20. CASE FillLatest(p)  BY <1>20 DEF FillLatest, db
<1>21. CASE NextRow(p)  BY <1>21 DEF NextRow, db
<1>22. CASE ReadCurrent(p)  BY <1>22 DEF ReadCurrent, db
<1>23. CASE NextPointer(p)  BY <1>23 DEF NextPointer, db
<1>24. CASE EndImport(p)  BY <1>24 DEF EndImport, db
<1>25. CASE Stop(p)  BY <1>25 DEF Stop, Goto, Forget, Key, db
<1>26. CASE Return(p)  BY <1>26 DEF Return, Goto, Forget, db
<1> QED  BY <1>1, <1>2, <1>3, <1>4, <1>5, <1>6, <1>7, <1>8, <1>9, <1>10, <1>11, <1>12, <1>13, <1>14, <1>15, <1>16, <1>17, <1>18, <1>19, <1>20, <1>21, <1>22, <1>23, <1>24, <1>25, <1>26 DEF Step

LEMMA FilesKept ==
  ASSUME TypeOK, Held, NEW p \in Procs, Step(p)
  PROVE  FilesOK'
<1> USE DEF TypeOK, ControlOK, DataOK, FilesOK
<1>1. CASE StartUpsert(p)  BY <1>1 DEF StartUpsert, Begin, disk
<1>2. CASE StartActivate(p)  BY <1>2 DEF StartActivate, Begin, disk
<1>3. CASE StartPublish(p)  BY <1>3 DEF StartPublish, Begin, disk
<1>4. CASE StartGet(p)  BY <1>4 DEF StartGet, Begin, disk
<1>5. CASE StartImport(p)  BY <1>5 DEF StartImport, Begin, disk
<1>6. CASE Validate(p)  BY <1>6 DEF Validate, disk
<1>7. CASE WriteVariant(p)  BY <1>7 DEF WriteVariant, disk
<1>8. CASE SetActivation(p)  BY <1>8 DEF SetActivation, disk
<1>9. CASE ActivationFails(p)  BY <1>9 DEF ActivationFails, disk
<1>10. CASE ReadPointers(p)  BY <1>10 DEF ReadPointers, disk
<1>11. CASE ReadEvents(p)  BY <1>11 DEF ReadEvents, disk
<1>12. CASE ReadWorld(p)  BY <1>12 DEF ReadWorld, disk
<1>13. CASE ReadClient(p)  BY <1>13 DEF ReadClient, disk
<1>14. CASE ManifestRow(p)  BY <1>14 DEF ManifestRow, disk
<1>15. CASE Record(p)  BY <1>15 DEF Record, disk
<1>16. CASE ContentsRow(p)  BY <1>16 DEF ContentsRow, disk
<1>17. CASE OpenArtifact(p)  BY <1>17 DEF OpenArtifact, Goto, PutFile, Key, disk
<1>18. CASE FillArtifact(p)  BY <1>18 DEF FillArtifact, Goto, PutFile, Key, disk
<1>19. CASE OpenLatest(p)  BY <1>19 DEF OpenLatest, Goto, disk
<1>20. CASE FillLatest(p)  BY <1>20 DEF FillLatest, Goto, Finish, Key, disk
<1>21. CASE NextRow(p)  BY <1>21 DEF NextRow, disk
<1>22. CASE ReadCurrent(p)  BY <1>22 DEF ReadCurrent, disk
<1>23. CASE NextPointer(p)  BY <1>23 DEF NextPointer, disk
<1>24. CASE EndImport(p)  BY <1>24 DEF EndImport, disk
<1>25. CASE Stop(p)  BY <1>25 DEF Stop, Goto, Forget, Key, disk
<1>26. CASE Return(p)  BY <1>26 DEF Return, Goto, Forget, disk
<1> QED  BY <1>1, <1>2, <1>3, <1>4, <1>5, <1>6, <1>7, <1>8, <1>9, <1>10, <1>11, <1>12, <1>13, <1>14, <1>15, <1>16, <1>17, <1>18, <1>19, <1>20, <1>21, <1>22, <1>23, <1>24, <1>25, <1>26 DEF Step

\* A call that begins, and one of which something is refused.
LEMMA BeginControl ==
  ASSUME TypeOK, NEW p \in Procs,
         NEW name \in {"upsert", "activate", "publish", "get", "import"},
         NEW where \in {"validate", "set", "world", "variants", "next"},
         Begin(p, name, where), scope' \in [Procs -> Scopes], activate' \in [Procs -> BOOLEAN]
  PROVE  ControlOK'
<1> USE DEF TypeOK, ControlOK, Begin, Goto
<1>1. jobs' \in 0..MaxJobs  BY BoundsType
<1>2. /\ pc' \in [Procs -> {"idle", "validate", "write", "set", "pointers", "events",
                            "world", "client", "manifest", "variants", "fill",
                            "openlatest", "filllatest", "next", "point", "done"}]
      /\ call' \in [Procs -> {"none", "upsert", "activate", "publish", "get", "import"}]
  OBVIOUS
<1>3. \A q \in Procs :
        (IF q = p THEN \A r \in Procs : pc[r] \in {"idle", "done"}
                  ELSE clean[q] /\ pc[q] = "idle") \in BOOLEAN
  OBVIOUS
<1>4. clean' \in [Procs -> BOOLEAN]  BY <1>3
<1> QED  BY <1>1, <1>2, <1>4

LEMMA RefuseControl ==
  ASSUME TypeOK, NEW p \in Procs, NEW how \in {"refused", "mismatch"}, Refuse(p, how),
         UNCHANGED <<jobs, call, scope, activate>>, clean' \in [Procs -> BOOLEAN]
  PROVE  ControlOK'
BY DEF TypeOK, ControlOK, Refuse, Finish, Goto

LEMMA ControlKept ==
  ASSUME TypeOK, Held, NEW p \in Procs, Step(p)
  PROVE  ControlOK'
<1> USE DEF TypeOK, ControlOK
<1>types. /\ \A r \in DOMAIN runs : runs[r].scope \in Scopes
          /\ \A k \in DOMAIN files : k[1] \in Scopes
  BY TypesOfRows
<1>1. CASE StartUpsert(p)
  <2>1. Begin(p, "upsert", "validate")  BY <1>1 DEF StartUpsert
  <2>2. UNCHANGED <<scope, activate>>  BY <1>1 DEF StartUpsert
  <2> QED  BY <2>1, <2>2, BeginControl
<1>2. CASE StartActivate(p)
  <2>1. Begin(p, "activate", "set")  BY <1>2 DEF StartActivate
  <2>2. scope' \in [Procs -> Scopes] /\ UNCHANGED activate  BY <1>2 DEF StartActivate
  <2> QED  BY <2>1, <2>2, BeginControl
<1>3. CASE StartPublish(p)
  <2>1. Begin(p, "publish", "world")  BY <1>3 DEF StartPublish
  <2>2. scope' \in [Procs -> Scopes] /\ UNCHANGED activate  BY <1>3 DEF StartPublish
  <2> QED  BY <2>1, <2>2, BeginControl
<1>4. CASE StartGet(p)
  <2>1. Begin(p, "get", "variants")  BY <1>4 DEF StartGet
  <2>2. scope' \in [Procs -> Scopes] /\ UNCHANGED activate  BY <1>4, <1>types DEF StartGet
  <2> QED  BY <2>1, <2>2, BeginControl
<1>5. CASE StartImport(p)
  <2>1. Begin(p, "import", "next")  BY <1>5 DEF StartImport
  <2>2. scope' \in [Procs -> Scopes]  BY <1>5, <1>types DEF StartImport
  <2>3. PICK a \in BOOLEAN : activate' = [activate EXCEPT ![p] = a]  BY <1>5 DEF StartImport
  <2>4. activate' \in [Procs -> BOOLEAN]  BY <2>3
  <2> QED  BY <2>1, <2>2, <2>4, BeginControl
<1>6. CASE Validate(p)  BY <1>6 DEF Validate, Goto, Refuse, Finish
<1>7. CASE WriteVariant(p)  BY <1>7 DEF WriteVariant, Goto, Finish
<1>8. CASE SetActivation(p)
  <2>1. CASE row[target[p]] = NoRow
    BY <1>8, <2>1, RefuseControl DEF SetActivation
  <2>2. CASE row[target[p]] # NoRow  BY <1>8, <2>2 DEF SetActivation, Goto
  <2> QED  BY <2>1, <2>2
<1>9. CASE ActivationFails(p)
  <2>1. clean' \in [Procs -> BOOLEAN]  BY <1>9 DEF ActivationFails
  <2> QED  BY <1>9, <2>1, RefuseControl DEF ActivationFails
<1>10. CASE ReadPointers(p)  BY <1>10 DEF ReadPointers, Goto
<1>11. CASE ReadEvents(p)  BY <1>11 DEF ReadEvents, Goto, Refuse, Finish
<1>12. CASE ReadWorld(p)  BY <1>12 DEF ReadWorld, Goto
<1>13. CASE ReadClient(p)  BY <1>13 DEF ReadClient, Goto, Overlay
<1>14. CASE ManifestRow(p)  BY <1>14 DEF ManifestRow, Goto
<1>15. CASE Record(p)  BY <1>15 DEF Record, Goto, Listed
<1>16. CASE ContentsRow(p)  BY <1>16 DEF ContentsRow, Goto
<1>17. CASE OpenArtifact(p)  BY <1>17 DEF OpenArtifact, Goto, PutFile, Key
<1>18. CASE FillArtifact(p)  BY <1>18 DEF FillArtifact, Goto, PutFile, Key
<1>19. CASE OpenLatest(p)  BY <1>19 DEF OpenLatest, Goto
<1>20. CASE FillLatest(p)  BY <1>20 DEF FillLatest, Goto, Finish, Key
<1>21. CASE NextRow(p)  BY <1>21 DEF NextRow, Goto, FirstRows, Listed
<1>22. CASE ReadCurrent(p)  BY <1>22 DEF ReadCurrent, Goto
<1>23. CASE NextPointer(p)  BY <1>23 DEF NextPointer, Goto
<1>24. CASE EndImport(p)  BY <1>24 DEF EndImport, Goto, Finish
<1>25. CASE Stop(p)
  <2>1. clean' = [clean EXCEPT ![p] = TRUE] /\ activate' = [activate EXCEPT ![p] = FALSE]
    BY <1>25 DEF Stop, Forget
  <2>2. clean' \in [Procs -> BOOLEAN] /\ activate' \in [Procs -> BOOLEAN]  BY <2>1
  <2> QED  BY <1>25, <2>2 DEF Stop, Forget, Goto, Scopes
<1>26. CASE Return(p)
  <2>1. clean' = [clean EXCEPT ![p] = TRUE] /\ activate' = [activate EXCEPT ![p] = FALSE]
    BY <1>26 DEF Return, Forget
  <2>2. clean' \in [Procs -> BOOLEAN] /\ activate' \in [Procs -> BOOLEAN]  BY <2>1
  <2> QED  BY <1>26, <2>2 DEF Return, Forget, Goto, Scopes
<1> QED  BY <1>1, <1>2, <1>3, <1>4, <1>5, <1>6, <1>7, <1>8, <1>9, <1>10, <1>11, <1>12, <1>13, <1>14, <1>15, <1>16, <1>17, <1>18, <1>19, <1>20, <1>21, <1>22, <1>23, <1>24, <1>25, <1>26 DEF Step

LEMMA PutPointer ==
  ASSUME NEW f \in [Procs -> Pointers], NEW p \in Procs, NEW q \in Policies, NEW v \in Variants
  PROVE  [f EXCEPT ![p][q] = v] \in [Procs -> Pointers]
BY DEF Pointers

LEMMA PutManifest ==
  ASSUME NEW f \in [Procs -> Manifests], NEW p \in Procs, NEW q \in Policies,
         NEW v \in Variants, NEW c \in Content
  PROVE  [f EXCEPT ![p][q] = <<v, c>>] \in [Procs -> Manifests]
<1>1. <<v, c>> \in (Variants \cup {None}) \X Content  OBVIOUS
<1> QED  BY <1>1 DEF Manifests

LEMMA PutContents ==
  ASSUME NEW f \in [Procs -> [Policies -> Content]], NEW p \in Procs, NEW q \in Policies,
         NEW c \in Content
  PROVE  [f EXCEPT ![p][q] = c] \in [Procs -> [Policies -> Content]]
OBVIOUS

\* What a loop has still to visit has a variant, in its manifest or among the
\* pointers it read.
LEMMA LeftHasVariant ==
  ASSUME TypeOK, Held, NEW p \in Procs, NEW q \in left[p]
  PROVE  /\ q \in Policies
         /\ pc[p] = "manifest" => seen[p][q] \in Variants
         /\ pc[p] \in {"next", "variants"} => manifest[p][q][1] \in Variants
         /\ pc[p] = "point" => accepted[p][q] \in Variants
<1>1. q \in Policies  BY DEF TypeOK, DataOK
<1>2. seen[p] \in Pointers /\ accepted[p] \in Pointers /\ manifest[p] \in Manifests
  BY DEF TypeOK, DataOK
<1>3. /\ seen[p][q] \in Variants \cup {None}
      /\ accepted[p][q] \in Variants \cup {None}
      /\ manifest[p][q] \in (Variants \cup {None}) \X Content
  BY <1>1, <1>2 DEF Pointers, Manifests
<1>4. pc[p] \in {"next", "variants"} => q \in Listed(manifest[p])  BY DEF Held, HeldBy
<1> QED  BY <1>1, <1>3, <1>4 DEF Held, HeldBy, Listed

LEMMA Defaults ==
  /\ NoRow \in Content
  /\ NoPointers \in Pointers
  /\ NoContents \in [Policies -> Content]
  /\ NoManifest \in Manifests
<1>1. NoRow \in Content  BY DEF NoRow, Content
<1> QED  BY <1>1 DEF NoPointers, Pointers, NoContents, NoManifest, Manifests

LEMMA DataKept ==
  ASSUME TypeOK, Held, NEW p \in Procs, Step(p)
  PROVE  DataOK'
<1> USE DEF TypeOK, DataOK
<1>types. /\ \A r \in DOMAIN runs : runs[r].manifest \in Manifests
          /\ \A k \in DOMAIN files : k[2] \in Manifests
          /\ \A k \in DOMAIN files : files[k] = None \/ files[k] \in [Policies -> Content]
          /\ pointer \in [Scopes -> Pointers]
          /\ row \in [Policies \X Variants -> Content]
          /\ scope \in [Procs -> Scopes]
  BY TypesOfRows
<1>1. CASE StartUpsert(p)  BY <1>1, OfferedType DEF StartUpsert, Goto, Begin
<1>2. CASE StartActivate(p)  BY <1>2 DEF StartActivate, Goto, Begin
<1>3. CASE StartPublish(p)  BY <1>3 DEF StartPublish, Goto, Begin
<1>4. CASE StartGet(p)  BY <1>4, <1>types DEF StartGet, Goto, Begin, Listed
<1>5. CASE StartImport(p)  BY <1>5, <1>types DEF StartImport, Goto, Begin, Listed
<1>6. CASE Validate(p)  BY <1>6 DEF Validate, Goto, Refuse, Finish
<1>7. CASE WriteVariant(p)
  <2>1. target[p] \in Policies \X Variants  BY <1>7 DEF WriteVariant, Held, HeldBy
  <2>2. accepted' = accepted \/ accepted' = [accepted EXCEPT ![p][target[p][1]] = target[p][2]]
    BY <1>7 DEF WriteVariant
  <2>3. target[p][1] \in Policies /\ target[p][2] \in Variants  BY <2>1
  <2>4. [accepted EXCEPT ![p][target[p][1]] = target[p][2]] \in [Procs -> Pointers]
    BY <2>3, PutPointer
  <2>5. accepted' \in [Procs -> Pointers]  BY <2>2, <2>4
  <2> QED  BY <1>7, <2>5 DEF WriteVariant
<1>8. CASE SetActivation(p)  BY <1>8 DEF SetActivation, Goto, Refuse, Finish, Event
<1>9. CASE ActivationFails(p)  BY <1>9 DEF ActivationFails, Goto, Refuse, Finish
<1>10. CASE ReadPointers(p)  BY <1>10, <1>types DEF ReadPointers, Goto, Pointers, Manifests, Scopes
<1>11. CASE ReadEvents(p)  BY <1>11 DEF ReadEvents, Goto, Refuse, Finish
<1>12. CASE ReadWorld(p)
  <2>1. pointer["world"] \in Pointers  BY <1>types DEF Scopes
  <2>2. seen' \in [Procs -> Pointers]  BY <1>12, <2>1 DEF ReadWorld
  <2>3. left' \in [Procs -> SUBSET Policies]  BY <1>12 DEF ReadWorld
  <2> QED  BY <1>12, <2>2, <2>3 DEF ReadWorld
<1>13. CASE ReadClient(p)  BY <1>13, <1>types DEF ReadClient, Goto, Overlay, Pointers, Manifests, Scopes
<1>14. CASE ManifestRow(p)
  <2>1. PICK q \in left[p] :
          /\ manifest' = [manifest EXCEPT ![p][q] = <<seen[p][q], row[<<q, seen[p][q]>>]>>]
          /\ left' = [left EXCEPT ![p] = @ \ {q}]
    BY <1>14 DEF ManifestRow
  <2>2. q \in Policies /\ seen[p][q] \in Variants
    BY <1>14, <2>1, LeftHasVariant DEF ManifestRow
  <2>3. row[<<q, seen[p][q]>>] \in Content  BY <2>2, <1>types
  <2>4. manifest' \in [Procs -> Manifests]  BY <2>1, <2>2, <2>3, PutManifest
  <2> QED  BY <1>14, <2>1, <2>4 DEF ManifestRow
<1>15. CASE Record(p)  BY <1>15 DEF Record, Goto, Listed
<1>16. CASE ContentsRow(p)
  <2>1. PICK q \in left[p] :
          /\ contents' = [contents EXCEPT ![p][q] = row[<<q, manifest[p][q][1]>>]]
          /\ left' = [left EXCEPT ![p] = @ \ {q}]
    BY <1>16 DEF ContentsRow
  <2>2. q \in Policies /\ manifest[p][q][1] \in Variants
    BY <1>16, <2>1, LeftHasVariant DEF ContentsRow
  <2>3. row[<<q, manifest[p][q][1]>>] \in Content  BY <2>2, <1>types
  <2>4. contents' \in [Procs -> [Policies -> Content]]  BY <2>1, <2>2, <2>3, PutContents
  <2> QED  BY <1>16, <2>1, <2>4 DEF ContentsRow
<1>17. CASE OpenArtifact(p)  BY <1>17 DEF OpenArtifact, Goto, PutFile, Key
<1>18. CASE FillArtifact(p)  BY <1>18 DEF FillArtifact, Goto, PutFile, Key
<1>19. CASE OpenLatest(p)  BY <1>19 DEF OpenLatest, Goto
<1>20. CASE FillLatest(p)  BY <1>20 DEF FillLatest, Goto, Finish, Key
<1>21. CASE NextRow(p)
  <2>1. PICK q \in FirstRows(left[p]) :
          /\ left' = [left EXCEPT ![p] = @ \ {q}]
          /\ target' = [target EXCEPT ![p] = <<q, manifest[p][q][1]>>]
          /\ content' = [content EXCEPT ![p] = contents[p][q]]
          /\ \/ accepted' = [accepted EXCEPT ![p][q] = manifest[p][q][1]]
             \/ accepted' = accepted
    BY <1>21 DEF NextRow
  <2>2. q \in Policies /\ manifest[p][q][1] \in Variants
    BY <1>21, <2>1, LeftHasVariant DEF NextRow, FirstRows
  <2>3. [accepted EXCEPT ![p][q] = manifest[p][q][1]] \in [Procs -> Pointers]
    BY <2>2, PutPointer
  <2>4. accepted' \in [Procs -> Pointers]  BY <2>1, <2>3
  <2>5. target' \in [Procs -> (Policies \cup {None}) \X (Variants \cup {None})]  BY <2>1, <2>2
  <2>6. content' \in [Procs -> Content] /\ left' \in [Procs -> SUBSET Policies]  BY <2>1, <2>2
  <2> QED  BY <1>21, <2>4, <2>5, <2>6 DEF NextRow
<1>22. CASE ReadCurrent(p)  BY <1>22, <1>types DEF ReadCurrent, Goto, Pointers, Manifests
<1>23. CASE NextPointer(p)
  <2>1. PICK q \in left[p] :
          /\ left' = [left EXCEPT ![p] = @ \ {q}]
          /\ target' = [target EXCEPT ![p] = <<q, accepted[p][q]>>]
    BY <1>23 DEF NextPointer
  <2>2. q \in Policies /\ accepted[p][q] \in Variants
    BY <1>23, <2>1, LeftHasVariant DEF NextPointer
  <2> QED  BY <1>23, <2>1, <2>2 DEF NextPointer
<1>24. CASE EndImport(p)  BY <1>24 DEF EndImport, Goto, Finish
<1>25. CASE Stop(p)  BY <1>25, Defaults DEF Stop, Goto, Forget, Key
<1>26. CASE Return(p)  BY <1>26, Defaults DEF Return, Goto, Forget
<1> QED  BY <1>1, <1>2, <1>3, <1>4, <1>5, <1>6, <1>7, <1>8, <1>9, <1>10, <1>11, <1>12, <1>13, <1>14, <1>15, <1>16, <1>17, <1>18, <1>19, <1>20, <1>21, <1>22, <1>23, <1>24, <1>25, <1>26 DEF Step

-----------------------------------------------------------------------------
\* Rows and passing validations stay, so a valid content stays valid.
LEMMA Grows ==
  ASSUME TypeOK, Held, NEW p \in Procs, Step(p)
  PROVE  /\ validated \subseteq validated'
         /\ \A r \in Policies \X Variants : row[r] # NoRow => row'[r] # NoRow
<1>1. CASE WriteVariant(p)
  <2>1. Valid(target[p][1], content[p]) /\ target[p] \in Policies \X Variants
    BY <1>1 DEF WriteVariant, Held, HeldBy
  <2>2. content[p].text > 0  BY <2>1 DEF Valid
  <2>3. content[p] # NoRow  BY <2>2 DEF NoRow
  <2>4. row' = [row EXCEPT ![target[p]] = content[p]] /\ validated' = validated
    BY <1>1 DEF WriteVariant
  <2> QED  BY <2>1, <2>3, <2>4 DEF TypeOK, TablesOK
<1>2. CASE ~WriteVariant(p)
  BY <1>2 DEF Step, db, StartUpsert, StartActivate, StartPublish, StartGet, StartImport,
     Begin, Validate, SetActivation, ActivationFails, ReadPointers, ReadEvents, ReadWorld,
     ReadClient, ManifestRow, Record, ContentsRow, OpenArtifact, FillArtifact, OpenLatest,
     FillLatest, NextRow, ReadCurrent, NextPointer, EndImport, Stop, Return, Forget
<1> QED  BY <1>1, <1>2

LEMMA ValidStays ==
  ASSUME NEW q \in Policies, NEW c \in Content, Valid(q, c),
         \A r \in Policies \X Variants : row[r] # NoRow => row'[r] # NoRow
  PROVE  Valid(q, c)'
BY DEF Valid, Content

LEMMA HeldKept ==
  ASSUME TypeOK, Held, NEW p \in Procs, Step(p)
  PROVE  Held'
<1> USE DEF TypeOK, ControlOK, DataOK
<1>others. ASSUME NEW r \in Procs \ {p}
           PROVE  /\ pc'[r] = pc[r] /\ target'[r] = target[r] /\ content'[r] = content[r]
                  /\ left'[r] = left[r] /\ manifest'[r] = manifest[r]
                  /\ seen'[r] = seen[r] /\ accepted'[r] = accepted[r]
  <2>1. CASE StartUpsert(p)  BY <2>1 DEF StartUpsert, Goto, Begin
  <2>2. CASE StartActivate(p)  BY <2>2 DEF StartActivate, Goto, Begin
  <2>3. CASE StartPublish(p)  BY <2>3 DEF StartPublish, Goto, Begin
  <2>4. CASE StartGet(p)  BY <2>4 DEF StartGet, Goto, Begin, Listed
  <2>5. CASE StartImport(p)  BY <2>5 DEF StartImport, Goto, Begin, Listed
  <2>6. CASE Validate(p)  BY <2>6 DEF Validate, Goto, Refuse, Finish
  <2>7. CASE WriteVariant(p)  BY <2>7 DEF WriteVariant, Goto, Finish
  <2>8. CASE SetActivation(p)  BY <2>8 DEF SetActivation, Goto, Refuse, Finish, Event
  <2>9. CASE ActivationFails(p)  BY <2>9 DEF ActivationFails, Goto, Refuse, Finish
  <2>10. CASE ReadPointers(p)  BY <2>10 DEF ReadPointers, Goto
  <2>11. CASE ReadEvents(p)  BY <2>11 DEF ReadEvents, Goto, Refuse, Finish
  <2>12. CASE ReadWorld(p)  BY <2>12 DEF ReadWorld, Goto
  <2>13. CASE ReadClient(p)  BY <2>13 DEF ReadClient, Goto, Overlay
  <2>14. CASE ManifestRow(p)  BY <2>14 DEF ManifestRow, Goto
  <2>15. CASE Record(p)  BY <2>15 DEF Record, Goto, Listed
  <2>16. CASE ContentsRow(p)  BY <2>16 DEF ContentsRow, Goto
  <2>17. CASE OpenArtifact(p)  BY <2>17 DEF OpenArtifact, Goto, PutFile, Key
  <2>18. CASE FillArtifact(p)  BY <2>18 DEF FillArtifact, Goto, PutFile, Key
  <2>19. CASE OpenLatest(p)  BY <2>19 DEF OpenLatest, Goto
  <2>20. CASE FillLatest(p)  BY <2>20 DEF FillLatest, Goto, Finish, Key
  <2>21. CASE NextRow(p)  BY <2>21 DEF NextRow, Goto, FirstRows, Listed
  <2>22. CASE ReadCurrent(p)  BY <2>22 DEF ReadCurrent, Goto
  <2>23. CASE NextPointer(p)  BY <2>23 DEF NextPointer, Goto
  <2>24. CASE EndImport(p)  BY <2>24 DEF EndImport, Goto, Finish
  <2>25. CASE Stop(p)  BY <2>25 DEF Stop, Goto, Forget, Key
  <2>26. CASE Return(p)  BY <2>26 DEF Return, Goto, Forget
  <2> QED  BY <2>1, <2>2, <2>3, <2>4, <2>5, <2>6, <2>7, <2>8, <2>9, <2>10, <2>11, <2>12, <2>13, <2>14, <2>15, <2>16, <2>17, <2>18, <2>19, <2>20, <2>21, <2>22, <2>23, <2>24, <2>25, <2>26 DEF Step
<1>their. ASSUME NEW r \in Procs \ {p} PROVE HeldBy(r)'
  <2>1. HeldBy(r) /\ content[r] \in Content  BY DEF Held
  <2>2. pc[r] = "write" => Valid(target[r][1], content[r])'
    <3> SUFFICES ASSUME pc[r] = "write" PROVE Valid(target[r][1], content[r])'  OBVIOUS
    <3> DEFINE q == target[r][1]
               c == content[r]
    <3>1. target[r] \in Policies \X Variants /\ Valid(q, c)  BY <2>1 DEF HeldBy
    <3>2. q \in Policies /\ c \in Content /\ q' = q /\ c' = c  BY <2>1, <3>1, <1>others
    <3> QED  BY <3>1, <3>2, Grows DEF Valid, Content
  <2> QED  BY <2>1, <2>2, <1>others, Grows DEF HeldBy, Listed
<1>own. HeldBy(p)'
  <2> USE DEF HeldBy
  <2>held. HeldBy(p)  BY DEF Held
  <2>1. CASE StartUpsert(p)
    <3>1. PICK o \in Offered :
            /\ Begin(p, "upsert", "validate") /\ left' = left /\ manifest' = manifest
            /\ target' = [target EXCEPT ![p] = <<o[1], o[2]>>]
      BY <2>1 DEF StartUpsert
    <3>2. target'[p] \in Policies \X Variants  BY <3>1, OfferedType
    <3> QED  BY <2>held, <3>1, <3>2 DEF Begin, Goto, Listed
  <2>2. CASE StartActivate(p)  BY <2>2, <2>held DEF StartActivate, Goto, Begin, Listed
  <2>3. CASE StartPublish(p)  BY <2>3, <2>held DEF StartPublish, Goto, Begin, Listed
  <2>4. CASE StartGet(p)  BY <2>4, <2>held DEF StartGet, Goto, Begin, Listed
  <2>5. CASE StartImport(p)  BY <2>5, <2>held DEF StartImport, Goto, Begin, Listed
  <2>6. CASE Validate(p)
    <3>1. /\ validated' = validated \cup {<<target[p], Valid(target[p][1], content[p])>>}
          /\ UNCHANGED <<row, target, content, left, manifest, accepted>>
          /\ target[p] \in Policies \X Variants
      BY <2>6, <2>held DEF Validate
    <3>2. CASE Valid(target[p][1], content[p])
      <4>1. pc' = [pc EXCEPT ![p] = "write"]  BY <2>6, <3>2 DEF Validate, Goto
      <4>2. Valid(target[p][1], content[p])'  BY <3>1, <3>2 DEF Valid
      <4>3. <<target[p], TRUE>> \in validated'  BY <3>1, <3>2
      <4> QED  BY <2>6, <2>held, <3>1, <4>1, <4>2, <4>3 DEF Validate, Listed
    <3>3. CASE ~Valid(target[p][1], content[p])
      <4>1. pc'[p] \in {"next", "done"}  BY <2>6, <3>3 DEF Validate, Refuse, Finish, Goto
      <4> QED  BY <2>6, <2>held, <3>1, <4>1 DEF Validate, Listed
    <3> QED  BY <3>2, <3>3
  <2>7. CASE WriteVariant(p)  BY <2>7, <2>held DEF WriteVariant, Goto, Finish, Listed
  <2>8. CASE SetActivation(p)  BY <2>8, <2>held DEF SetActivation, Goto, Refuse, Finish, Event, Listed
  <2>9. CASE ActivationFails(p)  BY <2>9, <2>held DEF ActivationFails, Goto, Refuse, Finish, Listed
  <2>10. CASE ReadPointers(p)  BY <2>10, <2>held DEF ReadPointers, Goto, Listed
  <2>11. CASE ReadEvents(p)  BY <2>11, <2>held DEF ReadEvents, Goto, Refuse, Finish, Listed
  <2>12. CASE ReadWorld(p)  BY <2>12, <2>held DEF ReadWorld, Goto, Listed
  <2>13. CASE ReadClient(p)  BY <2>13, <2>held DEF ReadClient, Goto, Overlay, Listed
  <2>14. CASE ManifestRow(p)  BY <2>14, <2>held DEF ManifestRow, Goto, Listed
  <2>15. CASE Record(p)  BY <2>15, <2>held DEF Record, Goto, Listed
  <2>16. CASE ContentsRow(p)  BY <2>16, <2>held DEF ContentsRow, Goto, Listed
  <2>17. CASE OpenArtifact(p)  BY <2>17, <2>held DEF OpenArtifact, Goto, PutFile, Key, Listed
  <2>18. CASE FillArtifact(p)  BY <2>18, <2>held DEF FillArtifact, Goto, PutFile, Key, Listed
  <2>19. CASE OpenLatest(p)  BY <2>19, <2>held DEF OpenLatest, Goto, Listed
  <2>20. CASE FillLatest(p)  BY <2>20, <2>held DEF FillLatest, Goto, Finish, Key, Listed
  <2>21. CASE NextRow(p)
    <3>1. PICK q \in left[p] :
            /\ left' = [left EXCEPT ![p] = @ \ {q}]
            /\ target' = [target EXCEPT ![p] = <<q, manifest[p][q][1]>>]
      BY <2>21 DEF NextRow, FirstRows
    <3>2. target'[p] \in Policies \X Variants
      BY <2>21, <3>1, LeftHasVariant DEF NextRow
    <3>3. pc'[p] \in {"next", "validate"} /\ manifest' = manifest
      BY <2>21 DEF NextRow, Goto
    <3> QED  BY <2>21, <2>held, <3>1, <3>2, <3>3 DEF NextRow, Listed
  <2>22. CASE ReadCurrent(p)  BY <2>22, <2>held DEF ReadCurrent, Goto, Listed
  <2>23. CASE NextPointer(p)
    <3>1. PICK q \in left[p] :
            /\ left' = [left EXCEPT ![p] = @ \ {q}]
            /\ target' = [target EXCEPT ![p] = <<q, accepted[p][q]>>]
      BY <2>23 DEF NextPointer
    <3>2. target'[p] \in Policies \X Variants
      BY <2>23, <3>1, LeftHasVariant DEF NextPointer
    <3>3. pc'[p] = "set" /\ accepted' = accepted  BY <2>23 DEF NextPointer, Goto
    <3> QED  BY <2>23, <2>held, <3>1, <3>2, <3>3 DEF NextPointer
  <2>24. CASE EndImport(p)  BY <2>24, <2>held DEF EndImport, Goto, Finish, Listed
  <2>25. CASE Stop(p)  BY <2>25, <2>held DEF Stop, Goto, Forget, Key, Listed
  <2>26. CASE Return(p)  BY <2>26, <2>held DEF Return, Goto, Forget, Listed
  <2> QED  BY <2>1, <2>2, <2>3, <2>4, <2>5, <2>6, <2>7, <2>8, <2>9, <2>10, <2>11, <2>12, <2>13, <2>14, <2>15, <2>16, <2>17, <2>18, <2>19, <2>20, <2>21, <2>22, <2>23, <2>24, <2>25, <2>26 DEF Step
<1> QED  BY <1>their, <1>own DEF Held

-----------------------------------------------------------------------------
\* Which steps move rows, and which move pointers or their history.
LEMMA FewWrites ==
  ASSUME NEW p \in Procs, Step(p)
  PROVE  /\ WriteVariant(p) \/ UNCHANGED row
         /\ SetActivation(p) \/ UNCHANGED <<pointer, events>>
<1>1. ASSUME ~WriteVariant(p) PROVE UNCHANGED row
  BY <1>1 DEF Step, db, StartUpsert, StartActivate, StartPublish, StartGet, StartImport,
     Begin, Validate, SetActivation, ActivationFails,
     ReadPointers, ReadEvents, ReadWorld, ReadClient, ManifestRow, Record, ContentsRow,
     OpenArtifact, FillArtifact, OpenLatest, FillLatest, NextRow, ReadCurrent, NextPointer,
     EndImport, Stop, Return, Forget
<1>2. ASSUME ~SetActivation(p) PROVE UNCHANGED <<pointer, events>>
  BY <1>2 DEF Step, db, StartUpsert, StartActivate, StartPublish, StartGet, StartImport,
     Begin, Validate, WriteVariant, ActivationFails,
     ReadPointers, ReadEvents, ReadWorld, ReadClient, ManifestRow, Record, ContentsRow,
     OpenArtifact, FillArtifact, OpenLatest, FillLatest, NextRow, ReadCurrent, NextPointer,
     EndImport, Stop, Return, Forget
<1> QED  BY <1>1, <1>2

LEMMA StoredKept ==
  ASSUME TypeOK, Held, StoredIsValid, NEW p \in Procs, Step(p)
  PROVE  StoredIsValid'
<1> SUFFICES ASSUME NEW q \in Policies, NEW v \in Variants, row'[<<q, v>>] # NoRow
             PROVE  Valid(q, row[<<q, v>>])' /\ <<<<q, v>>, TRUE>> \in validated'
  BY DEF StoredIsValid
<1>1. /\ validated \subseteq validated'
      /\ \A r \in Policies \X Variants : row[r] # NoRow => row'[r] # NoRow
  BY Grows
<1>2. \A c \in Content : Valid(q, c) => Valid(q, c)'  BY <1>1, ValidStays
<1>3. CASE row'[<<q, v>>] = row[<<q, v>>]
  <2>1. row[<<q, v>>] \in Content  BY DEF TypeOK, TablesOK
  <2>2. Valid(q, row[<<q, v>>]) /\ <<<<q, v>>, TRUE>> \in validated
    BY <1>3 DEF StoredIsValid
  <2> QED  BY <1>1, <1>2, <1>3, <2>1, <2>2 DEF Valid
<1>4. CASE row'[<<q, v>>] # row[<<q, v>>]
  <2>1. WriteVariant(p)  BY <1>4, FewWrites
  <2>2. row' = [row EXCEPT ![target[p]] = content[p]]  BY <2>1 DEF WriteVariant
  <2>3. target[p] = <<q, v>> /\ row'[<<q, v>>] = content[p]
    BY <1>4, <2>2 DEF TypeOK, TablesOK
  <2>4. Valid(q, content[p]) /\ <<<<q, v>>, TRUE>> \in validated
    <3>1. pc[p] = "write"  BY <2>1 DEF WriteVariant
    <3>2. Valid(target[p][1], content[p]) /\ <<target[p], TRUE>> \in validated
      BY <3>1 DEF Held, HeldBy
    <3> QED  BY <2>3, <3>2
  <2>5. content[p] \in Content  BY DEF TypeOK, DataOK
  <2> QED  BY <1>1, <1>2, <2>3, <2>4, <2>5 DEF Valid
<1> QED  BY <1>3, <1>4

\* The last of a set of positions.
LEMMA LastIs ==
  ASSUME NEW I \in SUBSET Nat, NEW n \in I, \A j \in I : j <= n
  PROVE  Last(I) = n
<1>1. n \in I /\ \A j \in I : j <= n  OBVIOUS
<1>2. Last(I) \in I /\ \A j \in I : j <= Last(I)  BY <1>1 DEF Last
<1>3. Last(I) \in Nat /\ n \in Nat /\ n <= Last(I) /\ Last(I) <= n  BY <1>2
<1> QED  BY <1>3

\* Where a policy has events there is a last one.
LastThere ==
  \A s \in Scopes, q \in Policies :
    EventsOf(s, q) # {} => Last(EventsOf(s, q)) \in DOMAIN events

\* An activation adds one event, the last of its scope and policy.
LEMMA EventAdded ==
  ASSUME TypeOK, LastThere, NEW e \in [scope : Scopes, policy : Policies, variant : Variants],
         events' = Append(events, e), NEW s \in Scopes, NEW q \in Policies
  PROVE  /\ e.scope = s /\ e.policy = q => Replay(s)'[q] = e.variant
         /\ ~(e.scope = s /\ e.policy = q) => Replay(s)'[q] = Replay(s)[q]
         /\ EventsOf(s, q)' # {} => Last(EventsOf(s, q)') \in DOMAIN events'
<1> DEFINE T == [scope : Scopes, policy : Policies, variant : Variants]
           n == Len(events) + 1
<1>1. events \in Seq(T)  BY DEF TypeOK, TablesOK
<1>2. e \in T  OBVIOUS
<1>3. Replay(s)'[q] = IF EventsOf(s, q)' = {} THEN None
                      ELSE events'[Last(EventsOf(s, q)')].variant
  BY DEF Replay, Last
<1>4. Replay(s)[q] = IF EventsOf(s, q) = {} THEN None
                     ELSE events[Last(EventsOf(s, q))].variant
  BY DEF Replay
<1> HIDE DEF T
<1>5. /\ n \in Nat /\ DOMAIN events = 1..Len(events) /\ DOMAIN events' = 1..n
      /\ events'[n] = e /\ \A i \in DOMAIN events : events'[i] = events[i]
  BY <1>1, <1>2
<1>6. Len(events) \in Nat  BY <1>1
<1>7. CASE e.scope = s /\ e.policy = q
  <2>1. n \in EventsOf(s, q)'  BY <1>5, <1>6, <1>7 DEF EventsOf
  <2>2. EventsOf(s, q)' \subseteq 1..n  BY <1>5 DEF EventsOf
  <2>3. Last(EventsOf(s, q)') = n  BY <1>5, <2>1, <2>2, LastIs
  <2> QED  BY <1>3, <1>5, <1>6, <1>7, <2>1, <2>3
<1>8. CASE ~(e.scope = s /\ e.policy = q)
  <2>1. \A i \in 1..n : i \in 1..Len(events) \/ i = n  BY <1>6
  <2>2. EventsOf(s, q)' = EventsOf(s, q)  BY <1>5, <1>6, <1>8, <2>1 DEF EventsOf
  <2>3. CASE EventsOf(s, q) = {}  BY <1>3, <1>4, <1>8, <2>2, <2>3
  <2>4. CASE EventsOf(s, q) # {}
    <3>1. Last(EventsOf(s, q)) \in DOMAIN events  BY <2>4 DEF LastThere
    <3>2. events'[Last(EventsOf(s, q))] = events[Last(EventsOf(s, q))]  BY <1>5, <3>1
    <3>3. Last(EventsOf(s, q)) \in DOMAIN events'  BY <1>5, <1>6, <3>1
    <3> QED  BY <1>3, <1>4, <1>8, <2>2, <2>4, <3>2, <3>3
  <2> QED  BY <2>3, <2>4
<1> QED  BY <1>7, <1>8

LEMMA ReplayKept ==
  ASSUME TypeOK, Held, LastThere, PointersReplay, NEW p \in Procs, Step(p)
  PROVE  PointersReplay' /\ LastThere'
<1>rows. \A r \in Policies \X Variants : row[r] # NoRow => row'[r] # NoRow  BY Grows
<1>types. pointer \in [Scopes -> Pointers] /\ pointer' \in [Scopes -> Pointers]
  BY TablesKept DEF TypeOK, TablesOK
<1>1. CASE UNCHANGED <<pointer, events>>
  <2>1. \A s \in Scopes : Replay(s)' = Replay(s)  BY <1>1 DEF Replay, EventsOf
  <2>2. \A s \in Scopes, q \in Policies : pointer[s][q] \in Variants \cup {None}
    BY <1>types DEF Pointers
  <2> QED  BY <1>1, <1>rows, <2>1, <2>2 DEF PointersReplay, LastThere, EventsOf
<1>2. CASE SetActivation(p) /\ row[target[p]] # NoRow
  <2>1. /\ pointer' = [pointer EXCEPT ![scope[p]][target[p][1]] = target[p][2]]
        /\ events' = Append(events, Event(p)) /\ row' = row
    BY <1>2 DEF SetActivation
  <2>2. target[p] \in Policies \X Variants /\ scope[p] \in Scopes
    BY <1>2 DEF SetActivation, Held, HeldBy, TypeOK, ControlOK
  <2> DEFINE e == Event(p)
  <2>3. /\ e \in [scope : Scopes, policy : Policies, variant : Variants]
        /\ e.scope = scope[p] /\ e.policy = target[p][1] /\ e.variant = target[p][2]
    BY <2>2 DEF Event
  <2> HIDE DEF e
  <2>4. \A s \in Scopes, q \in Policies :
          pointer'[s][q] = IF s = scope[p] /\ q = target[p][1] THEN target[p][2]
                           ELSE pointer[s][q]
    BY <2>1, <2>2, <1>types DEF Pointers
  <2>5. \A s \in Scopes, q \in Policies : pointer'[s][q] = Replay(s)'[q]
    <3> SUFFICES ASSUME NEW s \in Scopes, NEW q \in Policies
                 PROVE  pointer'[s][q] = Replay(s)'[q]
      OBVIOUS
    <3>1. events' = Append(events, e)  BY <2>1 DEF e
    <3>2. CASE s = scope[p] /\ q = target[p][1]
      BY <2>3, <2>4, <3>1, <3>2, EventAdded
    <3>3. CASE ~(s = scope[p] /\ q = target[p][1])
      <4>1. pointer[s] = Replay(s)  BY DEF PointersReplay
      <4> QED  BY <2>3, <2>4, <3>1, <3>3, <4>1, EventAdded
    <3> QED  BY <3>2, <3>3
  <2>6. \A s \in Scopes : pointer'[s] = Replay(s)'
    <3> SUFFICES ASSUME NEW s \in Scopes PROVE pointer'[s] = Replay(s)'  OBVIOUS
    <3>1. pointer'[s] = [q \in Policies |-> pointer'[s][q]]  BY <1>types DEF Pointers
    <3>2. Replay(s)' = [q \in Policies |-> Replay(s)'[q]]  BY DEF Replay
    <3> QED  BY <2>5, <3>1, <3>2
  <2>7. \A s \in Scopes, q \in Policies :
          pointer'[s][q] # None => row'[<<q, pointer'[s][q]>>] # NoRow
    <3> SUFFICES ASSUME NEW s \in Scopes, NEW q \in Policies, pointer'[s][q] # None
                 PROVE  row'[<<q, pointer'[s][q]>>] # NoRow
      OBVIOUS
    <3>1. CASE s = scope[p] /\ q = target[p][1]
      <4>1. <<q, pointer'[s][q]>> = target[p]  BY <2>2, <2>4, <3>1
      <4> QED  BY <1>2, <2>1, <4>1
    <3>2. CASE ~(s = scope[p] /\ q = target[p][1])
      BY <2>1, <2>4, <3>2 DEF PointersReplay
    <3> QED  BY <3>1, <3>2
  <2>8. LastThere'
    <3>1. events' = Append(events, e)  BY <2>1 DEF e
    <3> QED  BY <2>3, <3>1, EventAdded DEF LastThere
  <2> QED  BY <2>6, <2>7, <2>8 DEF PointersReplay
<1>3. CASE SetActivation(p) /\ row[target[p]] = NoRow  BY <1>1, <1>3 DEF SetActivation
<1> QED  BY <1>1, <1>2, <1>3, FewWrites

-----------------------------------------------------------------------------
IInv == TypeOK /\ Held /\ StoredIsValid /\ PointersReplay /\ LastThere

LEMMA InitHolds == Init => IInv
<1> SUFFICES ASSUME Init PROVE IInv  OBVIOUS
<1> USE DEF Init
<1>1. TablesOK
  <2>1. pointer \in [Scopes -> Pointers]  BY Defaults
  <2>2. row \in [Policies \X Variants -> Content]  BY Defaults
  <2> QED  BY <2>1, <2>2 DEF TablesOK
<1>2. FilesOK
  <2>1. DOMAIN files \subseteq Scopes \X Manifests  BY MirrorType DEF Manifests
  <2>2. \A k \in DOMAIN files : files[k] \in [Policies -> Content]  BY MirrorType
  <2> QED  BY <2>1, <2>2 DEF FilesOK
<1>3. ControlOK
  <2>1. activate \in [Procs -> BOOLEAN] /\ clean \in [Procs -> BOOLEAN]  OBVIOUS
  <2> QED  BY <2>1, BoundsType DEF ControlOK, Scopes
<1>4. DataOK  BY Defaults DEF DataOK
<1>5. Held  BY DEF Held, HeldBy
<1>6. StoredIsValid  BY DEF StoredIsValid
<1>7. PointersReplay
  <2>1. \A s \in Scopes, q \in Policies : EventsOf(s, q) = {}  BY DEF EventsOf
  <2>2. \A s \in Scopes : Replay(s) = NoPointers  BY <2>1 DEF Replay, NoPointers
  <2> QED  BY <2>2 DEF PointersReplay, NoPointers
<1>8. LastThere  BY DEF LastThere, EventsOf
<1> QED  BY <1>1, <1>2, <1>3, <1>4, <1>5, <1>6, <1>7, <1>8 DEF IInv, TypeOK

LEMMA NextHolds == IInv /\ [Next]_vars => IInv'
<1> SUFFICES ASSUME IInv, [Next]_vars PROVE IInv'  OBVIOUS
<1>1. ASSUME NEW p \in Procs, Step(p) PROVE IInv'
  BY <1>1, TablesKept, FilesKept, ControlKept, DataKept, HeldKept, StoredKept, ReplayKept
  DEF IInv, TypeOK
<1>2. CASE UNCHANGED vars
  <2> USE <1>2 DEF vars, db, disk, local
  <2>1. TypeOK'
    BY DEF IInv, TypeOK, TablesOK, FilesOK, ControlOK, DataOK
  <2>2. Held'  BY DEF IInv, Held, HeldBy, Listed, Valid
  <2>3. StoredIsValid'  BY DEF IInv, StoredIsValid, Valid
  <2>4. PointersReplay' /\ LastThere'  BY DEF IInv, PointersReplay, LastThere, Replay, EventsOf
  <2> QED  BY <2>1, <2>2, <2>3, <2>4 DEF IInv
<1> QED  BY <1>1, <1>2 DEF Next

\* The control plane's tables, files and calls hold values of their kind.
THEOREM TypeCorrect == Spec => []TypeOK
<1>1. IInv => TypeOK  BY DEF IInv
<1> QED  BY <1>1, InitHolds, NextHolds, PTL DEF Spec

\* No call stores a variant without a passing validation run, nor a Layer 2
\* variant whose Layer 1 rows are not there, with any number of calls at once.
THEOREM StorageHolds == Spec => []StoredIsValid
<1>1. IInv => StoredIsValid  BY DEF IInv
<1> QED  BY <1>1, InitHolds, NextHolds, PTL DEF Spec

\* Replaying the audit events of a scope gives its activation pointers, wherever
\* calls stop and however they interleave, and each names a stored variant.
THEOREM HistoryHolds == Spec => []PointersReplay
<1>1. IInv => PointersReplay  BY DEF IInv
<1> QED  BY <1>1, InitHolds, NextHolds, PTL DEF Spec
-----------------------------------------------------------------------------
(* Replay mismatches *)

Busy(p) == pc[p] \notin {"idle", "done"}

Audited(p) == \E i \in DOMAIN events : events[i] = Event(p)

\* What a call that checks its activation relies on: as long as it is clean it is
\* alone, so the pointers it has read are those of now.
WatchedBy(p) ==
  /\ outcome[p] # "none" => pc[p] = "done"
  /\ outcome[p] = "mismatch" => ~clean[p] /\ Audited(p)
  /\ pc[p] \in {"pointers", "events"} => Audited(p)
  /\ clean[p] /\ Busy(p) => \A r \in Procs \ {p} : ~Busy(r)
  /\ clean[p] /\ pc[p] = "events" => seen[p] = pointer[scope[p]]

Watched == \A p \in Procs : WatchedBy(p)

LEMMA EventsStay ==
  ASSUME TypeOK, Held, NEW p \in Procs, Step(p)
  PROVE  /\ \A i \in DOMAIN events : i \in DOMAIN events' /\ events'[i] = events[i]
         /\ SetActivation(p) /\ row[target[p]] # NoRow =>
              \E i \in DOMAIN events' : events'[i] = Event(p)
<1> DEFINE T == [scope : Scopes, policy : Policies, variant : Variants]
<1>1. events \in Seq(T)  BY DEF TypeOK, TablesOK
<1>2. CASE ~(SetActivation(p) /\ row[target[p]] # NoRow)
  <2>1. events' = events  BY <1>2, FewWrites DEF SetActivation
  <2> QED  BY <1>2, <2>1
<1>3. CASE SetActivation(p) /\ row[target[p]] # NoRow
  <2>1. SetActivation(p)  BY <1>3
  <2>2. events' = Append(events, Event(p))  BY <1>3 DEF SetActivation
  <2>3. Event(p) \in T
    BY <2>1 DEF SetActivation, Event, Held, HeldBy, TypeOK, ControlOK
  <2> HIDE DEF T
  <2>4. /\ DOMAIN events' = 1..Len(events) + 1 /\ Len(events) \in Nat
        /\ events'[Len(events) + 1] = Event(p)
        /\ \A i \in DOMAIN events : events'[i] = events[i]
    BY <1>1, <2>2, <2>3
  <2> QED  BY <1>1, <2>4
<1> QED  BY <1>2, <1>3

\* A step of p leaves what the other calls have, and tells those that are on
\* their way that they are not alone.
LEMMA OthersStay ==
  ASSUME TypeOK, NEW p \in Procs, Step(p), NEW r \in Procs \ {p}
  PROVE  /\ pc'[r] = pc[r] /\ outcome'[r] = outcome[r] /\ seen'[r] = seen[r]
         /\ scope'[r] = scope[r] /\ target'[r] = target[r]
         /\ clean'[r] => clean[r]
         /\ clean'[r] /\ Busy(r) /\ ~Busy(p) => ~Busy(p)' /\ UNCHANGED pointer
<1> USE DEF TypeOK, ControlOK, DataOK, Busy, db
<1>1. CASE StartUpsert(p)  BY <1>1 DEF StartUpsert, Begin, Goto
<1>2. CASE StartActivate(p)  BY <1>2 DEF StartActivate, Begin, Goto
<1>3. CASE StartPublish(p)  BY <1>3 DEF StartPublish, Begin, Goto
<1>4. CASE StartGet(p)  BY <1>4 DEF StartGet, Begin, Goto
<1>5. CASE StartImport(p)
  <2>1. /\ Begin(p, "import", "next") /\ target' = target
        /\ \E s : scope' = [scope EXCEPT ![p] = s]
    BY <1>5 DEF StartImport
  <2> QED  BY <2>1 DEF Begin, Goto
<1>6. CASE Validate(p)  BY <1>6 DEF Validate, Goto, Refuse, Finish
<1>7. CASE WriteVariant(p)  BY <1>7 DEF WriteVariant, Goto, Finish
<1>8. CASE SetActivation(p)  BY <1>8 DEF SetActivation, Goto, Refuse, Finish
<1>9. CASE ActivationFails(p)  BY <1>9 DEF ActivationFails, Goto, Refuse, Finish
<1>10. CASE ReadPointers(p)  BY <1>10 DEF ReadPointers, Goto
<1>11. CASE ReadEvents(p)  BY <1>11 DEF ReadEvents, Goto, Refuse, Finish
<1>12. CASE ReadWorld(p)  BY <1>12 DEF ReadWorld, Goto
<1>13. CASE ReadClient(p)  BY <1>13 DEF ReadClient, Goto
<1>14. CASE ManifestRow(p)  BY <1>14 DEF ManifestRow, Goto
<1>15. CASE Record(p)  BY <1>15 DEF Record, Goto
<1>16. CASE ContentsRow(p)  BY <1>16 DEF ContentsRow, Goto
<1>17. CASE OpenArtifact(p)  BY <1>17 DEF OpenArtifact, Goto
<1>18. CASE FillArtifact(p)  BY <1>18 DEF FillArtifact, Goto
<1>19. CASE OpenLatest(p)  BY <1>19 DEF OpenLatest, Goto
<1>20. CASE FillLatest(p)  BY <1>20 DEF FillLatest, Goto, Finish
<1>21. CASE NextRow(p)  BY <1>21 DEF NextRow, Goto
<1>22. CASE ReadCurrent(p)  BY <1>22 DEF ReadCurrent, Goto
<1>23. CASE NextPointer(p)  BY <1>23 DEF NextPointer, Goto
<1>24. CASE EndImport(p)  BY <1>24 DEF EndImport, Goto, Finish
<1>25. CASE Stop(p)  BY <1>25 DEF Stop, Goto, Forget
<1>26. CASE Return(p)  BY <1>26 DEF Return, Goto, Forget
<1> QED  BY <1>1, <1>2, <1>3, <1>4, <1>5, <1>6, <1>7, <1>8, <1>9, <1>10, <1>11, <1>12, <1>13,
        <1>14, <1>15, <1>16, <1>17, <1>18, <1>19, <1>20, <1>21, <1>22, <1>23, <1>24, <1>25, <1>26 DEF Step

LEMMA WatchedKept ==
  ASSUME TypeOK, Held, Watched, PointersReplay, NEW p \in Procs, Step(p)
  PROVE  Watched'
<1>their. ASSUME NEW r \in Procs \ {p} PROVE WatchedBy(r)'
  <2>1. WatchedBy(r) /\ WatchedBy(p)  BY DEF Watched
  <2>2. Audited(r) => Audited(r)'  BY OthersStay, EventsStay DEF Audited, Event
  <2>3. clean'[r] /\ Busy(r) => \A q \in Procs \ {r} : ~Busy(q)'
    <3> SUFFICES ASSUME clean'[r], Busy(r), NEW q \in Procs \ {r} PROVE ~Busy(q)'  OBVIOUS
    <3>1. ~Busy(q) /\ ~Busy(p)  BY <2>1, OthersStay DEF WatchedBy
    <3>2. CASE q = p  BY <3>1, <3>2, OthersStay
    <3>3. CASE q # p  BY <3>1, <3>3, OthersStay DEF Busy
    <3> QED  BY <3>2, <3>3
  <2>4. clean'[r] /\ pc[r] = "events" => seen'[r] = pointer'[scope'[r]]
    <3> SUFFICES ASSUME clean'[r], pc[r] = "events" PROVE seen'[r] = pointer'[scope'[r]]
      OBVIOUS
    <3>1. Busy(r) /\ ~Busy(p)  BY <2>1, OthersStay DEF WatchedBy, Busy
    <3> QED  BY <2>1, <3>1, OthersStay DEF WatchedBy
  <2> QED  BY <2>1, <2>2, <2>3, <2>4, OthersStay DEF WatchedBy, Busy
<1>own. WatchedBy(p)'
  <2> USE DEF TypeOK, ControlOK, DataOK
  <2>held. WatchedBy(p)  BY DEF Watched
  <2>same. ASSUME UNCHANGED <<scope, target>> PROVE Audited(p) => Audited(p)'
    BY <2>same, EventsStay DEF Audited, Event
  <2>1. /\ outcome'[p] # "none" => pc'[p] = "done"
        /\ pc'[p] = "events" => seen'[p] = pointer'[scope'[p]] /\ pc[p] = "pointers"
    <3> USE <2>held DEF WatchedBy, db
    <3>1. CASE StartUpsert(p)  BY <3>1 DEF StartUpsert, Begin, Goto
    <3>2. CASE StartActivate(p)  BY <3>2 DEF StartActivate, Begin, Goto
    <3>3. CASE StartPublish(p)  BY <3>3 DEF StartPublish, Begin, Goto
    <3>4. CASE StartGet(p)  BY <3>4 DEF StartGet, Begin, Goto
    <3>5. CASE StartImport(p)  BY <3>5 DEF StartImport, Begin, Goto
    <3>6. CASE Validate(p)  BY <3>6 DEF Validate, Goto, Refuse, Finish
    <3>7. CASE WriteVariant(p)  BY <3>7 DEF WriteVariant, Goto, Finish
    <3>8. CASE SetActivation(p)  BY <3>8 DEF SetActivation, Goto, Refuse, Finish
    <3>9. CASE ActivationFails(p)  BY <3>9 DEF ActivationFails, Goto, Refuse, Finish
    <3>10. CASE ReadPointers(p)  BY <3>10 DEF ReadPointers, Goto
    <3>11. CASE ReadEvents(p)  BY <3>11 DEF ReadEvents, Goto, Refuse, Finish
    <3>12. CASE ReadWorld(p)  BY <3>12 DEF ReadWorld, Goto
    <3>13. CASE ReadClient(p)  BY <3>13 DEF ReadClient, Goto
    <3>14. CASE ManifestRow(p)  BY <3>14 DEF ManifestRow, Goto
    <3>15. CASE Record(p)  BY <3>15 DEF Record, Goto
    <3>16. CASE ContentsRow(p)  BY <3>16 DEF ContentsRow, Goto
    <3>17. CASE OpenArtifact(p)  BY <3>17 DEF OpenArtifact, Goto
    <3>18. CASE FillArtifact(p)  BY <3>18 DEF FillArtifact, Goto
    <3>19. CASE OpenLatest(p)  BY <3>19 DEF OpenLatest, Goto
    <3>20. CASE FillLatest(p)  BY <3>20 DEF FillLatest, Goto, Finish
    <3>21. CASE NextRow(p)  BY <3>21 DEF NextRow, Goto
    <3>22. CASE ReadCurrent(p)  BY <3>22 DEF ReadCurrent, Goto
    <3>23. CASE NextPointer(p)  BY <3>23 DEF NextPointer, Goto
    <3>24. CASE EndImport(p)  BY <3>24 DEF EndImport, Goto, Finish
    <3>25. CASE Stop(p)  BY <3>25 DEF Stop, Goto, Forget
    <3>26. CASE Return(p)  BY <3>26 DEF Return, Goto, Forget
    <3> QED  BY <3>1, <3>2, <3>3, <3>4, <3>5, <3>6, <3>7, <3>8, <3>9, <3>10, <3>11, <3>12, <3>13,
            <3>14, <3>15, <3>16, <3>17, <3>18, <3>19, <3>20, <3>21, <3>22, <3>23, <3>24, <3>25, <3>26 DEF Step
  <2>2. clean'[p] /\ Busy(p)' => \A r \in Procs \ {p} : ~Busy(r)'
    <3>1. clean'[p] /\ Busy(p)' => \A r \in Procs \ {p} : ~Busy(r)
      <4> USE <2>held DEF WatchedBy, Busy
      <4>1. CASE StartUpsert(p)  BY <4>1 DEF StartUpsert, Begin, Goto
      <4>2. CASE StartActivate(p)  BY <4>2 DEF StartActivate, Begin, Goto
      <4>3. CASE StartPublish(p)  BY <4>3 DEF StartPublish, Begin, Goto
      <4>4. CASE StartGet(p)  BY <4>4 DEF StartGet, Begin, Goto
      <4>5. CASE StartImport(p)  BY <4>5 DEF StartImport, Begin, Goto
      <4>6. CASE Validate(p)  BY <4>6 DEF Validate, Goto, Refuse, Finish
      <4>7. CASE WriteVariant(p)  BY <4>7 DEF WriteVariant, Goto, Finish
      <4>8. CASE SetActivation(p)  BY <4>8 DEF SetActivation, Goto, Refuse, Finish
      <4>9. CASE ActivationFails(p)  BY <4>9 DEF ActivationFails, Goto, Refuse, Finish
      <4>10. CASE ReadPointers(p)  BY <4>10 DEF ReadPointers, Goto
      <4>11. CASE ReadEvents(p)  BY <4>11 DEF ReadEvents, Goto, Refuse, Finish
      <4>12. CASE ReadWorld(p)  BY <4>12 DEF ReadWorld, Goto
      <4>13. CASE ReadClient(p)  BY <4>13 DEF ReadClient, Goto
      <4>14. CASE ManifestRow(p)  BY <4>14 DEF ManifestRow, Goto
      <4>15. CASE Record(p)  BY <4>15 DEF Record, Goto
      <4>16. CASE ContentsRow(p)  BY <4>16 DEF ContentsRow, Goto
      <4>17. CASE OpenArtifact(p)  BY <4>17 DEF OpenArtifact, Goto
      <4>18. CASE FillArtifact(p)  BY <4>18 DEF FillArtifact, Goto
      <4>19. CASE OpenLatest(p)  BY <4>19 DEF OpenLatest, Goto
      <4>20. CASE FillLatest(p)  BY <4>20 DEF FillLatest, Goto, Finish
      <4>21. CASE NextRow(p)  BY <4>21 DEF NextRow, Goto
      <4>22. CASE ReadCurrent(p)  BY <4>22 DEF ReadCurrent, Goto
      <4>23. CASE NextPointer(p)  BY <4>23 DEF NextPointer, Goto
      <4>24. CASE EndImport(p)  BY <4>24 DEF EndImport, Goto, Finish
      <4>25. CASE Stop(p)  BY <4>25 DEF Stop, Goto, Forget
      <4>26. CASE Return(p)  BY <4>26 DEF Return, Goto, Forget
      <4> QED  BY <4>1, <4>2, <4>3, <4>4, <4>5, <4>6, <4>7, <4>8, <4>9, <4>10, <4>11, <4>12, <4>13,
              <4>14, <4>15, <4>16, <4>17, <4>18, <4>19, <4>20, <4>21, <4>22, <4>23, <4>24, <4>25, <4>26 DEF Step
    <3> QED  BY <3>1, OthersStay DEF Busy
  <2>3. pc'[p] \in {"pointers", "events"} => Audited(p)'
    <3>1. CASE SetActivation(p)
      <4>1. CASE row[target[p]] = NoRow  BY <3>1, <4>1 DEF SetActivation, Refuse, Finish, Goto
      <4>2. CASE row[target[p]] # NoRow
        <5>1. \E i \in DOMAIN events' : events'[i] = Event(p)  BY <3>1, <4>2, EventsStay
        <5>2. Event(p)' = Event(p)  BY <3>1 DEF SetActivation, Event
        <5> QED  BY <5>1, <5>2 DEF Audited
      <4> QED  BY <4>1, <4>2
    <3>2. CASE ReadPointers(p)  BY <3>2, <2>same, <2>held DEF ReadPointers, Goto, WatchedBy
    <3>3. ASSUME ~SetActivation(p), ~ReadPointers(p)
          PROVE  pc'[p] \notin {"pointers", "events"}
      <4>1. CASE StartUpsert(p)  BY <4>1 DEF StartUpsert, Begin, Goto
      <4>2. CASE StartActivate(p)  BY <4>2 DEF StartActivate, Begin, Goto
      <4>3. CASE StartPublish(p)  BY <4>3 DEF StartPublish, Begin, Goto
      <4>4. CASE StartGet(p)  BY <4>4 DEF StartGet, Begin, Goto
      <4>5. CASE StartImport(p)  BY <4>5 DEF StartImport, Begin, Goto
      <4>6. CASE Validate(p)  BY <4>6 DEF Validate, Goto, Refuse, Finish
      <4>7. CASE WriteVariant(p)  BY <4>7 DEF WriteVariant, Goto, Finish
      <4>9. CASE ActivationFails(p)  BY <4>9 DEF ActivationFails, Goto, Refuse, Finish
      <4>11. CASE ReadEvents(p)  BY <4>11 DEF ReadEvents, Goto, Refuse, Finish
      <4>12. CASE ReadWorld(p)  BY <4>12 DEF ReadWorld, Goto
      <4>13. CASE ReadClient(p)  BY <4>13 DEF ReadClient, Goto
      <4>14. CASE ManifestRow(p)  BY <4>14 DEF ManifestRow, Goto
      <4>15. CASE Record(p)  BY <4>15 DEF Record, Goto
      <4>16. CASE ContentsRow(p)  BY <4>16 DEF ContentsRow, Goto
      <4>17. CASE OpenArtifact(p)  BY <4>17 DEF OpenArtifact, Goto
      <4>18. CASE FillArtifact(p)  BY <4>18 DEF FillArtifact, Goto
      <4>19. CASE OpenLatest(p)  BY <4>19 DEF OpenLatest, Goto
      <4>20. CASE FillLatest(p)  BY <4>20 DEF FillLatest, Goto, Finish
      <4>21. CASE NextRow(p)  BY <4>21 DEF NextRow, Goto
      <4>22. CASE ReadCurrent(p)  BY <4>22 DEF ReadCurrent, Goto
      <4>23. CASE NextPointer(p)  BY <4>23 DEF NextPointer, Goto
      <4>24. CASE EndImport(p)  BY <4>24 DEF EndImport, Goto, Finish
      <4>25. CASE Stop(p)  BY <4>25 DEF Stop, Goto, Forget
      <4>26. CASE Return(p)  BY <4>26 DEF Return, Goto, Forget
      <4> QED  BY <4>1, <4>2, <4>3, <4>4, <4>5, <4>6, <4>7, <3>3, <4>9, <4>11, <4>12, <4>13,
              <4>14, <4>15, <4>16, <4>17, <4>18, <4>19, <4>20, <4>21, <4>22, <4>23, <4>24, <4>25, <4>26 DEF Step
    <3> QED  BY <3>1, <3>2, <3>3
  <2>4. outcome'[p] = "mismatch" => ~clean'[p] /\ Audited(p)'
    <3>1. CASE ReadEvents(p)
      <4>1. UNCHANGED <<scope, target, clean>> /\ pc[p] = "events"
        BY <3>1 DEF ReadEvents
      <4>2. outcome'[p] = "mismatch" => seen[p] # Replay(scope[p])
        BY <3>1, <2>held DEF ReadEvents, Refuse, Finish, Goto, WatchedBy
      <4>3. pointer[scope[p]] = Replay(scope[p])  BY DEF PointersReplay
      <4> QED  BY <4>1, <4>2, <4>3, <2>same, <2>held DEF WatchedBy
    <3>2. ASSUME ~ReadEvents(p), outcome'[p] = "mismatch" PROVE FALSE
      <4> USE <2>held DEF WatchedBy
      <4>1. CASE StartUpsert(p)  BY <3>2, <4>1 DEF StartUpsert, Begin, Goto
      <4>2. CASE StartActivate(p)  BY <3>2, <4>2 DEF StartActivate, Begin, Goto
      <4>3. CASE StartPublish(p)  BY <3>2, <4>3 DEF StartPublish, Begin, Goto
      <4>4. CASE StartGet(p)  BY <3>2, <4>4 DEF StartGet, Begin, Goto
      <4>5. CASE StartImport(p)  BY <3>2, <4>5 DEF StartImport, Begin, Goto
      <4>6. CASE Validate(p)  BY <3>2, <4>6 DEF Validate, Goto, Refuse, Finish
      <4>7. CASE WriteVariant(p)  BY <3>2, <4>7 DEF WriteVariant, Goto, Finish
      <4>8. CASE SetActivation(p)  BY <3>2, <4>8 DEF SetActivation, Goto, Refuse, Finish
      <4>9. CASE ActivationFails(p)  BY <3>2, <4>9 DEF ActivationFails, Goto, Refuse, Finish
      <4>10. CASE ReadPointers(p)  BY <3>2, <4>10 DEF ReadPointers, Goto
      <4>12. CASE ReadWorld(p)  BY <3>2, <4>12 DEF ReadWorld, Goto
      <4>13. CASE ReadClient(p)  BY <3>2, <4>13 DEF ReadClient, Goto
      <4>14. CASE ManifestRow(p)  BY <3>2, <4>14 DEF ManifestRow, Goto
      <4>15. CASE Record(p)  BY <3>2, <4>15 DEF Record, Goto
      <4>16. CASE ContentsRow(p)  BY <3>2, <4>16 DEF ContentsRow, Goto
      <4>17. CASE OpenArtifact(p)  BY <3>2, <4>17 DEF OpenArtifact, Goto
      <4>18. CASE FillArtifact(p)  BY <3>2, <4>18 DEF FillArtifact, Goto
      <4>19. CASE OpenLatest(p)  BY <3>2, <4>19 DEF OpenLatest, Goto
      <4>20. CASE FillLatest(p)  BY <3>2, <4>20 DEF FillLatest, Goto, Finish
      <4>21. CASE NextRow(p)  BY <3>2, <4>21 DEF NextRow, Goto
      <4>22. CASE ReadCurrent(p)  BY <3>2, <4>22 DEF ReadCurrent, Goto
      <4>23. CASE NextPointer(p)  BY <3>2, <4>23 DEF NextPointer, Goto
      <4>24. CASE EndImport(p)  BY <3>2, <4>24 DEF EndImport, Goto, Finish
      <4>25. CASE Stop(p)  BY <3>2, <4>25 DEF Stop, Goto, Forget
      <4>26. CASE Return(p)  BY <3>2, <4>26 DEF Return, Goto, Forget
      <4> QED  BY <4>1, <4>2, <4>3, <4>4, <4>5, <4>6, <4>7, <4>8, <4>9, <4>10, <3>2, <4>12, <4>13,
              <4>14, <4>15, <4>16, <4>17, <4>18, <4>19, <4>20, <4>21, <4>22, <4>23, <4>24, <4>25, <4>26 DEF Step
    <3> QED  BY <3>1, <3>2
  <2> QED  BY <2>1, <2>2, <2>3, <2>4 DEF WatchedBy
<1> QED  BY <1>their, <1>own DEF Watched

\* A replay mismatch is reported only when another call came in between or a
\* write or a read failed, never because the history is wrong, and what it reports
\* on is in the history, for any number of calls.
THEOREM MismatchHolds == Spec => []MismatchIsInterference
<1> DEFINE JInv == IInv /\ Watched
<1>1. Init => JInv
  BY InitHolds DEF Init, Watched, WatchedBy, Busy
<1>2. JInv /\ [Next]_vars => JInv'
  <2> SUFFICES ASSUME IInv, Watched, [Next]_vars PROVE Watched'  BY NextHolds
  <2>1. ASSUME NEW p \in Procs, Step(p) PROVE Watched'
    BY <2>1, WatchedKept DEF IInv
  <2>2. CASE UNCHANGED vars
    BY <2>2 DEF Watched, WatchedBy, Busy, Audited, Event, vars, db, local
  <2> QED  BY <2>1, <2>2 DEF Next
<1>3. JInv => MismatchIsInterference
  BY DEF Watched, WatchedBy, Audited, MismatchIsInterference
<1> QED  BY <1>1, <1>2, <1>3, PTL DEF Spec
-----------------------------------------------------------------------------
(* Calls that are alone *)

\* A clean call that is not forgotten is alone: no other one is on its way.
AloneBy(p) == clean[p] /\ pc[p] # "idle" => \A r \in Procs \ {p} : ~Busy(r)

\* Nothing is left of a call that was forgotten, and a call is where its code is.
PlacedBy(p) ==
  /\ pc[p] = "idle" => /\ manifest[p] = NoManifest /\ contents[p] = NoContents
                       /\ accepted[p] = NoPointers /\ errors[p] = 0
                       /\ call[p] = "none"
  /\ call[p] = "publish" => pc[p] \in {"world", "client", "manifest", "variants", "fill",
                                       "openlatest", "filllatest", "done"}
  /\ call[p] = "import" => pc[p] \in {"next", "validate", "write", "point", "set",
                                      "pointers", "events", "done"}

Calls == \A p \in Procs : AloneBy(p) /\ PlacedBy(p)

\* A call begins, or a busy one goes on, or an answer is sent.
LEMMA StepWhere ==
  ASSUME NEW p \in Procs, Step(p)
  PROVE  \/ pc[p] = "idle" /\ \A r \in Procs \ {p} : clean'[r] = (clean[r] /\ pc[r] = "idle")
         \/ Busy(p)
         \/ Return(p)
<1> USE DEF Busy
<1>1. CASE StartUpsert(p)  BY <1>1 DEF StartUpsert, Begin, Goto
<1>2. CASE StartActivate(p)  BY <1>2 DEF StartActivate, Begin, Goto
<1>3. CASE StartPublish(p)  BY <1>3 DEF StartPublish, Begin, Goto
<1>4. CASE StartGet(p)  BY <1>4 DEF StartGet, Begin, Goto
<1>5. CASE StartImport(p)  BY <1>5 DEF StartImport, Begin, Goto
<1>6. CASE Validate(p)  BY <1>6 DEF Validate, Goto, Refuse, Finish
<1>7. CASE WriteVariant(p)  BY <1>7 DEF WriteVariant, Goto, Finish
<1>8. CASE SetActivation(p)  BY <1>8 DEF SetActivation, Goto, Refuse, Finish
<1>9. CASE ActivationFails(p)  BY <1>9 DEF ActivationFails, Goto, Refuse, Finish
<1>10. CASE ReadPointers(p)  BY <1>10 DEF ReadPointers, Goto
<1>11. CASE ReadEvents(p)  BY <1>11 DEF ReadEvents, Goto, Refuse, Finish
<1>12. CASE ReadWorld(p)  BY <1>12 DEF ReadWorld, Goto
<1>13. CASE ReadClient(p)  BY <1>13 DEF ReadClient, Goto
<1>14. CASE ManifestRow(p)  BY <1>14 DEF ManifestRow
<1>15. CASE Record(p)  BY <1>15 DEF Record, Goto
<1>16. CASE ContentsRow(p)  BY <1>16 DEF ContentsRow
<1>17. CASE OpenArtifact(p)  BY <1>17 DEF OpenArtifact, Goto
<1>18. CASE FillArtifact(p)  BY <1>18 DEF FillArtifact, Goto
<1>19. CASE OpenLatest(p)  BY <1>19 DEF OpenLatest, Goto
<1>20. CASE FillLatest(p)  BY <1>20 DEF FillLatest, Goto, Finish
<1>21. CASE NextRow(p)  BY <1>21 DEF NextRow, Goto
<1>22. CASE ReadCurrent(p)  BY <1>22 DEF ReadCurrent, Goto
<1>23. CASE NextPointer(p)  BY <1>23 DEF NextPointer, Goto
<1>24. CASE EndImport(p)  BY <1>24 DEF EndImport, Goto, Finish
<1>25. CASE Stop(p)  BY <1>25 DEF Stop, Goto, Forget
<1>26. CASE Return(p)  BY <1>26
<1> QED  BY <1>1, <1>2, <1>3, <1>4, <1>5, <1>6, <1>7, <1>8, <1>9, <1>10, <1>11, <1>12,
       <1>13, <1>14, <1>15, <1>16, <1>17, <1>18, <1>19, <1>20, <1>21, <1>22, <1>23,
       <1>24, <1>25, <1>26 DEF Step

\* What the other calls hold in their local variables.
LEMMA LocalsStay ==
  ASSUME TypeOK, NEW p \in Procs, Step(p), NEW r \in Procs \ {p}
  PROVE  /\ call'[r] = call[r] /\ content'[r] = content[r] /\ left'[r] = left[r]
         /\ manifest'[r] = manifest[r] /\ contents'[r] = contents[r]
         /\ \/ accepted'[r] = accepted[r] /\ activate'[r] = activate[r] /\ errors'[r] = errors[r]
<1> USE DEF TypeOK, ControlOK, DataOK
<1>1. CASE StartUpsert(p)  BY <1>1 DEF StartUpsert, Begin, Goto
<1>2. CASE StartActivate(p)  BY <1>2 DEF StartActivate, Begin, Goto
<1>3. CASE StartPublish(p)  BY <1>3 DEF StartPublish, Begin, Goto
<1>4. CASE StartGet(p)  BY <1>4 DEF StartGet, Begin, Goto
<1>5. CASE StartImport(p)  BY <1>5 DEF StartImport, Begin, Goto
<1>6. CASE Validate(p)  BY <1>6 DEF Validate, Goto, Refuse, Finish
<1>7. CASE WriteVariant(p)  BY <1>7 DEF WriteVariant, Goto, Finish
<1>8. CASE SetActivation(p)  BY <1>8 DEF SetActivation, Goto, Refuse, Finish
<1>9. CASE ActivationFails(p)  BY <1>9 DEF ActivationFails, Goto, Refuse, Finish
<1>10. CASE ReadPointers(p)  BY <1>10 DEF ReadPointers, Goto
<1>11. CASE ReadEvents(p)  BY <1>11 DEF ReadEvents, Goto, Refuse, Finish
<1>12. CASE ReadWorld(p)  BY <1>12 DEF ReadWorld, Goto
<1>13. CASE ReadClient(p)  BY <1>13 DEF ReadClient, Goto
<1>14. CASE ManifestRow(p)  BY <1>14 DEF ManifestRow
<1>15. CASE Record(p)  BY <1>15 DEF Record, Goto
<1>16. CASE ContentsRow(p)  BY <1>16 DEF ContentsRow
<1>17. CASE OpenArtifact(p)  BY <1>17 DEF OpenArtifact, Goto
<1>18. CASE FillArtifact(p)  BY <1>18 DEF FillArtifact, Goto
<1>19. CASE OpenLatest(p)  BY <1>19 DEF OpenLatest, Goto
<1>20. CASE FillLatest(p)  BY <1>20 DEF FillLatest, Goto, Finish
<1>21. CASE NextRow(p)  BY <1>21 DEF NextRow, Goto
<1>22. CASE ReadCurrent(p)  BY <1>22 DEF ReadCurrent, Goto
<1>23. CASE NextPointer(p)  BY <1>23 DEF NextPointer, Goto
<1>24. CASE EndImport(p)  BY <1>24 DEF EndImport, Goto, Finish
<1>25. CASE Stop(p)  BY <1>25 DEF Stop, Goto, Forget
<1>26. CASE Return(p)  BY <1>26 DEF Return, Goto, Forget
<1> QED  BY <1>1, <1>2, <1>3, <1>4, <1>5, <1>6, <1>7, <1>8, <1>9, <1>10, <1>11, <1>12,
       <1>13, <1>14, <1>15, <1>16, <1>17, <1>18, <1>19, <1>20, <1>21, <1>22, <1>23,
       <1>24, <1>25, <1>26 DEF Step

\* While a call is clean nothing happens but that others send their answers.
LEMMA CalmStep ==
  ASSUME TypeOK, Calls, NEW p \in Procs, Step(p), NEW r \in Procs \ {p},
         clean'[r], pc[r] # "idle"
  PROVE  /\ Return(p)
         /\ clean[r]
         /\ UNCHANGED <<row, pointer, runs, files, latest>>
<1>1. clean[r]
  BY OthersStay
<1>2. ~Busy(p)
  BY <1>1 DEF Calls, AloneBy
<1>3. Return(p)
  BY <1>2, StepWhere
<1> QED
  BY <1>1, <1>3 DEF Return, Forget, db

LEMMA PlacedKept ==
  ASSUME TypeOK, Calls, NEW p \in Procs, Step(p)
  PROVE  PlacedBy(p)'
<1> USE DEF TypeOK, ControlOK, DataOK, PlacedBy
<1>0. PlacedBy(p)
  BY DEF Calls
<1>1. CASE StartUpsert(p)  BY <1>1, <1>0 DEF StartUpsert, Begin, Goto
<1>2. CASE StartActivate(p)  BY <1>2, <1>0 DEF StartActivate, Begin, Goto
<1>3. CASE StartPublish(p)  BY <1>3, <1>0 DEF StartPublish, Begin, Goto
<1>4. CASE StartGet(p)  BY <1>4, <1>0 DEF StartGet, Begin, Goto
<1>5. CASE StartImport(p)  BY <1>5, <1>0 DEF StartImport, Begin, Goto
<1>6. CASE Validate(p)  BY <1>6, <1>0 DEF Validate, Goto, Refuse, Finish
<1>7. CASE WriteVariant(p)  BY <1>7, <1>0 DEF WriteVariant, Goto, Finish
<1>8. CASE SetActivation(p)  BY <1>8, <1>0 DEF SetActivation, Goto, Refuse, Finish
<1>9. CASE ActivationFails(p)  BY <1>9, <1>0 DEF ActivationFails, Goto, Refuse, Finish
<1>10. CASE ReadPointers(p)  BY <1>10, <1>0 DEF ReadPointers, Goto
<1>11. CASE ReadEvents(p)  BY <1>11, <1>0 DEF ReadEvents, Goto, Refuse, Finish
<1>12. CASE ReadWorld(p)  BY <1>12, <1>0 DEF ReadWorld, Goto
<1>13. CASE ReadClient(p)  BY <1>13, <1>0 DEF ReadClient, Goto
<1>14. CASE ManifestRow(p)  BY <1>14, <1>0 DEF ManifestRow
<1>15. CASE Record(p)  BY <1>15, <1>0 DEF Record, Goto
<1>16. CASE ContentsRow(p)  BY <1>16, <1>0 DEF ContentsRow
<1>17. CASE OpenArtifact(p)  BY <1>17, <1>0 DEF OpenArtifact, Goto
<1>18. CASE FillArtifact(p)  BY <1>18, <1>0 DEF FillArtifact, Goto
<1>19. CASE OpenLatest(p)  BY <1>19, <1>0 DEF OpenLatest, Goto
<1>20. CASE FillLatest(p)  BY <1>20, <1>0 DEF FillLatest, Goto, Finish
<1>21. CASE NextRow(p)  BY <1>21, <1>0 DEF NextRow, Goto
<1>22. CASE ReadCurrent(p)  BY <1>22, <1>0 DEF ReadCurrent, Goto
<1>23. CASE NextPointer(p)  BY <1>23, <1>0 DEF NextPointer, Goto
<1>24. CASE EndImport(p)  BY <1>24, <1>0 DEF EndImport, Goto, Finish
<1>25. CASE Stop(p)  BY <1>25, <1>0 DEF Stop, Goto, Forget
<1>26. CASE Return(p)  BY <1>26, <1>0 DEF Return, Goto, Forget
<1> QED  BY <1>1, <1>2, <1>3, <1>4, <1>5, <1>6, <1>7, <1>8, <1>9, <1>10, <1>11, <1>12,
       <1>13, <1>14, <1>15, <1>16, <1>17, <1>18, <1>19, <1>20, <1>21, <1>22, <1>23,
       <1>24, <1>25, <1>26 DEF Step

LEMMA AloneKept ==
  ASSUME TypeOK, Calls, NEW p \in Procs, Step(p)
  PROVE  AloneBy(p)'
<1> SUFFICES ASSUME clean'[p], pc'[p] # "idle", NEW r \in Procs \ {p}
             PROVE  ~Busy(r)
  BY OthersStay DEF AloneBy, Busy
<1> USE DEF TypeOK, ControlOK, DataOK, AloneBy
<1>0. AloneBy(p)
  BY DEF Calls
<1>1. CASE StartUpsert(p)  BY <1>1, <1>0 DEF StartUpsert, Begin, Goto, Busy
<1>2. CASE StartActivate(p)  BY <1>2, <1>0 DEF StartActivate, Begin, Goto, Busy
<1>3. CASE StartPublish(p)  BY <1>3, <1>0 DEF StartPublish, Begin, Goto, Busy
<1>4. CASE StartGet(p)  BY <1>4, <1>0 DEF StartGet, Begin, Goto, Busy
<1>5. CASE StartImport(p)  BY <1>5, <1>0 DEF StartImport, Begin, Goto, Busy
<1>6. CASE Validate(p)  BY <1>6, <1>0 DEF Validate, Goto, Refuse, Finish, Busy
<1>7. CASE WriteVariant(p)  BY <1>7, <1>0 DEF WriteVariant, Goto, Finish, Busy
<1>8. CASE SetActivation(p)  BY <1>8, <1>0 DEF SetActivation, Goto, Refuse, Finish, Busy
<1>9. CASE ActivationFails(p)  BY <1>9, <1>0 DEF ActivationFails, Goto, Refuse, Finish, Busy
<1>10. CASE ReadPointers(p)  BY <1>10, <1>0 DEF ReadPointers, Goto, Busy
<1>11. CASE ReadEvents(p)  BY <1>11, <1>0 DEF ReadEvents, Goto, Refuse, Finish, Busy
<1>12. CASE ReadWorld(p)  BY <1>12, <1>0 DEF ReadWorld, Goto, Busy
<1>13. CASE ReadClient(p)  BY <1>13, <1>0 DEF ReadClient, Goto, Busy
<1>14. CASE ManifestRow(p)  BY <1>14, <1>0 DEF ManifestRow, Busy
<1>15. CASE Record(p)  BY <1>15, <1>0 DEF Record, Goto, Busy
<1>16. CASE ContentsRow(p)  BY <1>16, <1>0 DEF ContentsRow, Busy
<1>17. CASE OpenArtifact(p)  BY <1>17, <1>0 DEF OpenArtifact, Goto, Busy
<1>18. CASE FillArtifact(p)  BY <1>18, <1>0 DEF FillArtifact, Goto, Busy
<1>19. CASE OpenLatest(p)  BY <1>19, <1>0 DEF OpenLatest, Goto, Busy
<1>20. CASE FillLatest(p)  BY <1>20, <1>0 DEF FillLatest, Goto, Finish, Busy
<1>21. CASE NextRow(p)  BY <1>21, <1>0 DEF NextRow, Goto, Busy
<1>22. CASE ReadCurrent(p)  BY <1>22, <1>0 DEF ReadCurrent, Goto, Busy
<1>23. CASE NextPointer(p)  BY <1>23, <1>0 DEF NextPointer, Goto, Busy
<1>24. CASE EndImport(p)  BY <1>24, <1>0 DEF EndImport, Goto, Finish, Busy
<1>25. CASE Stop(p)  BY <1>25, <1>0 DEF Stop, Goto, Forget, Busy
<1>26. CASE Return(p)  BY <1>26, <1>0 DEF Return, Goto, Forget, Busy
<1> QED  BY <1>1, <1>2, <1>3, <1>4, <1>5, <1>6, <1>7, <1>8, <1>9, <1>10, <1>11, <1>12,
       <1>13, <1>14, <1>15, <1>16, <1>17, <1>18, <1>19, <1>20, <1>21, <1>22, <1>23,
       <1>24, <1>25, <1>26 DEF Step

LEMMA CallsKept ==
  ASSUME TypeOK, Calls, NEW p \in Procs, Step(p)
  PROVE  Calls'
<1>1. ASSUME NEW r \in Procs \ {p}
      PROVE  PlacedBy(r)'
  <2>1. PlacedBy(r)
    BY DEF Calls
  <2> QED
    BY <2>1, OthersStay, LocalsStay DEF PlacedBy
<1>2. ASSUME NEW r \in Procs \ {p}
      PROVE  AloneBy(r)'
  <2> SUFFICES ASSUME clean'[r], pc'[r] # "idle", NEW q \in Procs \ {r}
               PROVE  ~Busy(q)'
    BY DEF AloneBy
  <2>1. Return(p) /\ clean[r] /\ pc[r] # "idle"
    BY CalmStep, OthersStay
  <2>2. ~Busy(q)
    BY <2>1 DEF Calls, AloneBy
  <2>3. CASE q = p
    BY <2>1, <2>3 DEF Return, Forget, Goto, Busy, TypeOK, ControlOK
  <2>4. CASE q # p
    BY <2>2, <2>4, OthersStay DEF Busy
  <2> QED
    BY <2>3, <2>4
<1> QED
  BY <1>1, <1>2, PlacedKept, AloneKept DEF Calls

\* The steps of a publish.
LEMMA PublishSteps ==
  ASSUME TypeOK, Calls, NEW p \in Procs, Step(p), call'[p] = "publish"
  PROVE  \/ StartPublish(p)
         \/ /\ call[p] = "publish"
            /\ \/ ReadWorld(p) \/ ReadClient(p) \/ ManifestRow(p) \/ Record(p)
               \/ ContentsRow(p) \/ OpenArtifact(p) \/ FillArtifact(p) \/ OpenLatest(p)
               \/ FillLatest(p)
<1> USE DEF TypeOK, ControlOK, DataOK
<1>0. PlacedBy(p)
  BY DEF Calls
<1>1. CASE StartUpsert(p)  BY <1>1, <1>0 DEF StartUpsert, Begin, Goto, PlacedBy
<1>2. CASE StartActivate(p)  BY <1>2, <1>0 DEF StartActivate, Begin, Goto, PlacedBy
<1>3. CASE StartPublish(p)  BY <1>3
<1>4. CASE StartGet(p)  BY <1>4, <1>0 DEF StartGet, Begin, Goto, PlacedBy
<1>5. CASE StartImport(p)  BY <1>5, <1>0 DEF StartImport, Begin, Goto, PlacedBy
<1>6. CASE Validate(p)  BY <1>6, <1>0 DEF Validate, Goto, Refuse, Finish, PlacedBy
<1>7. CASE WriteVariant(p)  BY <1>7, <1>0 DEF WriteVariant, Goto, Finish, PlacedBy
<1>8. CASE SetActivation(p)  BY <1>8, <1>0 DEF SetActivation, Goto, Refuse, Finish, PlacedBy
<1>9. CASE ActivationFails(p)  BY <1>9, <1>0 DEF ActivationFails, Goto, Refuse, Finish, PlacedBy
<1>10. CASE ReadPointers(p)  BY <1>10, <1>0 DEF ReadPointers, Goto, PlacedBy
<1>11. CASE ReadEvents(p)  BY <1>11, <1>0 DEF ReadEvents, Goto, Refuse, Finish, PlacedBy
<1>12. CASE ReadWorld(p)  BY <1>12 DEF ReadWorld
<1>13. CASE ReadClient(p)  BY <1>13 DEF ReadClient
<1>14. CASE ManifestRow(p)  BY <1>14 DEF ManifestRow
<1>15. CASE Record(p)  BY <1>15 DEF Record
<1>16. CASE ContentsRow(p)  BY <1>16 DEF ContentsRow
<1>17. CASE OpenArtifact(p)  BY <1>17 DEF OpenArtifact
<1>18. CASE FillArtifact(p)  BY <1>18 DEF FillArtifact
<1>19. CASE OpenLatest(p)  BY <1>19 DEF OpenLatest
<1>20. CASE FillLatest(p)  BY <1>20 DEF FillLatest
<1>21. CASE NextRow(p)  BY <1>21, <1>0 DEF NextRow, Goto, PlacedBy
<1>22. CASE ReadCurrent(p)  BY <1>22, <1>0 DEF ReadCurrent, Goto, PlacedBy
<1>23. CASE NextPointer(p)  BY <1>23, <1>0 DEF NextPointer, Goto, PlacedBy
<1>24. CASE EndImport(p)  BY <1>24, <1>0 DEF EndImport, Goto, Finish, PlacedBy
<1>25. CASE Stop(p)  BY <1>25, <1>0 DEF Stop, Goto, Forget, PlacedBy
<1>26. CASE Return(p)  BY <1>26, <1>0 DEF Return, Goto, Forget, PlacedBy
<1> QED  BY <1>1, <1>2, <1>3, <1>4, <1>5, <1>6, <1>7, <1>8, <1>9, <1>10, <1>11, <1>12,
       <1>13, <1>14, <1>15, <1>16, <1>17, <1>18, <1>19, <1>20, <1>21, <1>22, <1>23,
       <1>24, <1>25, <1>26 DEF Step

\* The steps of an import.
LEMMA ImportSteps ==
  ASSUME TypeOK, Calls, NEW p \in Procs, Step(p), call'[p] = "import"
  PROVE  \/ StartImport(p)
         \/ /\ call[p] = "import"
            /\ \/ Validate(p) \/ WriteVariant(p) \/ SetActivation(p)
               \/ ActivationFails(p) \/ ReadPointers(p) \/ ReadEvents(p) \/ NextRow(p)
               \/ ReadCurrent(p) \/ NextPointer(p) \/ EndImport(p)
<1> USE DEF TypeOK, ControlOK, DataOK
<1>0. PlacedBy(p)
  BY DEF Calls
<1>1. CASE StartUpsert(p)  BY <1>1, <1>0 DEF StartUpsert, Begin, Goto, PlacedBy
<1>2. CASE StartActivate(p)  BY <1>2, <1>0 DEF StartActivate, Begin, Goto, PlacedBy
<1>3. CASE StartPublish(p)  BY <1>3, <1>0 DEF StartPublish, Begin, Goto, PlacedBy
<1>4. CASE StartGet(p)  BY <1>4, <1>0 DEF StartGet, Begin, Goto, PlacedBy
<1>5. CASE StartImport(p)  BY <1>5
<1>6. CASE Validate(p)  BY <1>6 DEF Validate
<1>7. CASE WriteVariant(p)  BY <1>7 DEF WriteVariant
<1>8. CASE SetActivation(p)  BY <1>8 DEF SetActivation
<1>9. CASE ActivationFails(p)  BY <1>9 DEF ActivationFails
<1>10. CASE ReadPointers(p)  BY <1>10 DEF ReadPointers
<1>11. CASE ReadEvents(p)  BY <1>11 DEF ReadEvents
<1>12. CASE ReadWorld(p)  BY <1>12, <1>0 DEF ReadWorld, Goto, PlacedBy
<1>13. CASE ReadClient(p)  BY <1>13, <1>0 DEF ReadClient, Goto, PlacedBy
<1>14. CASE ManifestRow(p)  BY <1>14, <1>0 DEF ManifestRow, PlacedBy
<1>15. CASE Record(p)  BY <1>15, <1>0 DEF Record, Goto, PlacedBy
<1>16. CASE ContentsRow(p)  BY <1>16, <1>0 DEF ContentsRow, PlacedBy
<1>17. CASE OpenArtifact(p)  BY <1>17, <1>0 DEF OpenArtifact, Goto, PlacedBy
<1>18. CASE FillArtifact(p)  BY <1>18, <1>0 DEF FillArtifact, Goto, PlacedBy
<1>19. CASE OpenLatest(p)  BY <1>19, <1>0 DEF OpenLatest, Goto, PlacedBy
<1>20. CASE FillLatest(p)  BY <1>20, <1>0 DEF FillLatest, Goto, Finish, PlacedBy
<1>21. CASE NextRow(p)  BY <1>21 DEF NextRow
<1>22. CASE ReadCurrent(p)  BY <1>22 DEF ReadCurrent
<1>23. CASE NextPointer(p)  BY <1>23 DEF NextPointer
<1>24. CASE EndImport(p)  BY <1>24 DEF EndImport
<1>25. CASE Stop(p)  BY <1>25, <1>0 DEF Stop, Goto, Forget, PlacedBy
<1>26. CASE Return(p)  BY <1>26, <1>0 DEF Return, Goto, Forget, PlacedBy
<1> QED  BY <1>1, <1>2, <1>3, <1>4, <1>5, <1>6, <1>7, <1>8, <1>9, <1>10, <1>11, <1>12,
       <1>13, <1>14, <1>15, <1>16, <1>17, <1>18, <1>19, <1>20, <1>21, <1>22, <1>23,
       <1>24, <1>25, <1>26 DEF Step
-----------------------------------------------------------------------------
(* The latest artifact *)

\* An artifact is there, and readable but while it is written or if that was stopped.
Accounted(k) ==
  /\ k \in DOMAIN files
  /\ files[k] = None =>
       \/ \E p \in Procs : pc[p] = "fill" /\ Key(scope[p], manifest[p]) = k
       \/ k \in torn

Written ==
  \A p \in Procs :
    pc[p] \in {"fill", "openlatest", "filllatest"} => Accounted(Key(scope[p], manifest[p]))

Pointed == \A s \in Scopes : latest[s] # None => Accounted(latest[s])

LEMMA FewFiles ==
  ASSUME TypeOK, NEW p \in Procs, Step(p)
  PROVE  \/ OpenArtifact(p)
         \/ FillArtifact(p)
         \/ pc[p] # "fill" /\ UNCHANGED files /\ torn \subseteq torn'
         \/ /\ pc[p] = "fill" /\ UNCHANGED files
            /\ torn' = torn \cup {Key(scope[p], manifest[p])}
<1> USE DEF disk
<1>1. CASE StartUpsert(p)  BY <1>1 DEF StartUpsert, Begin, Goto
<1>2. CASE StartActivate(p)  BY <1>2 DEF StartActivate, Begin, Goto
<1>3. CASE StartPublish(p)  BY <1>3 DEF StartPublish, Begin, Goto
<1>4. CASE StartGet(p)  BY <1>4 DEF StartGet, Begin, Goto
<1>5. CASE StartImport(p)  BY <1>5 DEF StartImport, Begin, Goto
<1>6. CASE Validate(p)  BY <1>6 DEF Validate, Goto, Refuse, Finish
<1>7. CASE WriteVariant(p)  BY <1>7 DEF WriteVariant, Goto, Finish
<1>8. CASE SetActivation(p)  BY <1>8 DEF SetActivation, Goto, Refuse, Finish
<1>9. CASE ActivationFails(p)  BY <1>9 DEF ActivationFails, Goto, Refuse, Finish
<1>10. CASE ReadPointers(p)  BY <1>10 DEF ReadPointers, Goto
<1>11. CASE ReadEvents(p)  BY <1>11 DEF ReadEvents, Goto, Refuse, Finish
<1>12. CASE ReadWorld(p)  BY <1>12 DEF ReadWorld, Goto
<1>13. CASE ReadClient(p)  BY <1>13 DEF ReadClient, Goto
<1>14. CASE ManifestRow(p)  BY <1>14 DEF ManifestRow
<1>15. CASE Record(p)  BY <1>15 DEF Record, Goto
<1>16. CASE ContentsRow(p)  BY <1>16 DEF ContentsRow
<1>17. CASE OpenArtifact(p)  BY <1>17
<1>18. CASE FillArtifact(p)  BY <1>18
<1>19. CASE OpenLatest(p)  BY <1>19 DEF OpenLatest, Goto
<1>20. CASE FillLatest(p)  BY <1>20 DEF FillLatest, Goto, Finish
<1>21. CASE NextRow(p)  BY <1>21 DEF NextRow, Goto
<1>22. CASE ReadCurrent(p)  BY <1>22 DEF ReadCurrent, Goto
<1>23. CASE NextPointer(p)  BY <1>23 DEF NextPointer, Goto
<1>24. CASE EndImport(p)  BY <1>24 DEF EndImport, Goto, Finish
<1>25. CASE Stop(p)  BY <1>25 DEF Stop, Goto, Forget
<1>26. CASE Return(p)  BY <1>26 DEF Return, Goto, Forget
<1> QED  BY <1>1, <1>2, <1>3, <1>4, <1>5, <1>6, <1>7, <1>8, <1>9, <1>10, <1>11, <1>12,
       <1>13, <1>14, <1>15, <1>16, <1>17, <1>18, <1>19, <1>20, <1>21, <1>22, <1>23,
       <1>24, <1>25, <1>26 DEF Step

LEMMA AccountedStays ==
  ASSUME TypeOK, NEW p \in Procs, Step(p), NEW k, Accounted(k)
  PROVE  Accounted(k)'
<1>1. ASSUME NEW r \in Procs \ {p}, pc[r] = "fill", Key(scope[r], manifest[r]) = k
      PROVE  pc'[r] = "fill" /\ Key(scope[r], manifest[r])' = k
  BY <1>1, OthersStay, LocalsStay DEF Key
<1>2. CASE OpenArtifact(p)
  <2>1. /\ files' = [f \in DOMAIN files \cup {Key(scope[p], manifest[p])} |->
                      IF f = Key(scope[p], manifest[p]) THEN None ELSE files[f]]
        /\ pc'[p] = "fill" /\ pc[p] # "fill"
        /\ UNCHANGED <<torn, scope, manifest>>
    BY <1>2 DEF OpenArtifact, PutFile, Goto, TypeOK, ControlOK
  <2>2. CASE k = Key(scope[p], manifest[p])
    <3>1. Key(scope[p], manifest[p])' = k
      BY <2>1, <2>2 DEF Key
    <3> QED
      BY <2>1, <2>2, <3>1 DEF Accounted
  <2>3. CASE k # Key(scope[p], manifest[p])
    BY <1>1, <2>1, <2>3 DEF Accounted
  <2> QED
    BY <2>2, <2>3
<1>3. CASE FillArtifact(p)
  <2>1. /\ files' = [f \in DOMAIN files \cup {Key(scope[p], manifest[p])} |->
                      IF f = Key(scope[p], manifest[p]) THEN contents[p] ELSE files[f]]
        /\ UNCHANGED torn
    BY <1>3 DEF FillArtifact, PutFile
  <2>2. contents[p] # None
    BY NoneIsNone DEF TypeOK, DataOK
  <2>3. CASE k = Key(scope[p], manifest[p])
    BY <2>1, <2>2, <2>3 DEF Accounted
  <2>4. CASE k # Key(scope[p], manifest[p])
    BY <1>1, <2>1, <2>4 DEF Accounted
  <2> QED
    BY <2>3, <2>4
<1>4. CASE pc[p] # "fill" /\ UNCHANGED files /\ torn \subseteq torn'
  BY <1>1, <1>4 DEF Accounted
<1>5. CASE /\ pc[p] = "fill" /\ UNCHANGED files
           /\ torn' = torn \cup {Key(scope[p], manifest[p])}
  BY <1>1, <1>5 DEF Accounted
<1> QED
  BY <1>2, <1>3, <1>4, <1>5, FewFiles

LEMMA WrittenKept ==
  ASSUME TypeOK, Written, NEW p \in Procs, Step(p)
  PROVE  Written'
<1>1. ASSUME NEW r \in Procs \ {p}, pc'[r] \in {"fill", "openlatest", "filllatest"}
      PROVE  Accounted(Key(scope[r], manifest[r]))'
  <2>1. Accounted(Key(scope[r], manifest[r]))
    BY <1>1, OthersStay DEF Written
  <2>2. Key(scope[r], manifest[r])' = Key(scope[r], manifest[r])
    BY OthersStay, LocalsStay DEF Key
  <2>3. PICK k : k = Key(scope[r], manifest[r])
    OBVIOUS
  <2>4. Accounted(k)'
    BY <2>1, <2>3, AccountedStays
  <2> QED
    BY <2>2, <2>3, <2>4 DEF Accounted
<1>2. ASSUME pc'[p] \in {"fill", "openlatest", "filllatest"}
      PROVE  Accounted(Key(scope[p], manifest[p]))'
  <2>1. PICK k : k = Key(scope[p], manifest[p])
    OBVIOUS
  <2>2. CASE OpenArtifact(p)
    <3>1. /\ k \in DOMAIN files' /\ pc'[p] = "fill"
          /\ Key(scope[p], manifest[p])' = k
      BY <2>1, <2>2 DEF OpenArtifact, PutFile, Goto, Key, TypeOK, ControlOK
    <3> QED
      BY <3>1 DEF Accounted
  <2>3. CASE FillArtifact(p) \/ OpenLatest(p)
    <3>1. Accounted(k)
      BY <2>1, <2>3 DEF Written, FillArtifact, OpenLatest
    <3>2. Accounted(k)'
      BY <3>1, AccountedStays
    <3>3. Key(scope[p], manifest[p])' = k
      BY <2>1, <2>3 DEF FillArtifact, OpenLatest, Key
    <3> QED
      BY <3>2, <3>3 DEF Accounted
  <2>4. OpenArtifact(p) \/ FillArtifact(p) \/ OpenLatest(p)
    <3> USE DEF TypeOK, ControlOK
    <3>1. CASE StartUpsert(p)  BY <3>1, <1>2 DEF StartUpsert, Begin, Goto
    <3>2. CASE StartActivate(p)  BY <3>2, <1>2 DEF StartActivate, Begin, Goto
    <3>3. CASE StartPublish(p)  BY <3>3, <1>2 DEF StartPublish, Begin, Goto
    <3>4. CASE StartGet(p)  BY <3>4, <1>2 DEF StartGet, Begin, Goto
    <3>5. CASE StartImport(p)  BY <3>5, <1>2 DEF StartImport, Begin, Goto
    <3>6. CASE Validate(p)  BY <3>6, <1>2 DEF Validate, Goto, Refuse, Finish
    <3>7. CASE WriteVariant(p)  BY <3>7, <1>2 DEF WriteVariant, Goto, Finish
    <3>8. CASE SetActivation(p)  BY <3>8, <1>2 DEF SetActivation, Goto, Refuse, Finish
    <3>9. CASE ActivationFails(p)  BY <3>9, <1>2 DEF ActivationFails, Goto, Refuse, Finish
    <3>10. CASE ReadPointers(p)  BY <3>10, <1>2 DEF ReadPointers, Goto
    <3>11. CASE ReadEvents(p)  BY <3>11, <1>2 DEF ReadEvents, Goto, Refuse, Finish
    <3>12. CASE ReadWorld(p)  BY <3>12, <1>2 DEF ReadWorld, Goto
    <3>13. CASE ReadClient(p)  BY <3>13, <1>2 DEF ReadClient, Goto
    <3>14. CASE ManifestRow(p)  BY <1>2, <3>14 DEF ManifestRow
    <3>15. CASE Record(p)  BY <3>15, <1>2 DEF Record, Goto
    <3>16. CASE ContentsRow(p)  BY <1>2, <3>16 DEF ContentsRow
    <3>17. CASE OpenArtifact(p)  BY <3>17
    <3>18. CASE FillArtifact(p)  BY <3>18
    <3>19. CASE OpenLatest(p)  BY <3>19
    <3>20. CASE FillLatest(p)  BY <3>20, <1>2 DEF FillLatest, Goto, Finish
    <3>21. CASE NextRow(p)  BY <3>21, <1>2 DEF NextRow, Goto
    <3>22. CASE ReadCurrent(p)  BY <3>22, <1>2 DEF ReadCurrent, Goto
    <3>23. CASE NextPointer(p)  BY <3>23, <1>2 DEF NextPointer, Goto
    <3>24. CASE EndImport(p)  BY <3>24, <1>2 DEF EndImport, Goto, Finish
    <3>25. CASE Stop(p)  BY <3>25, <1>2 DEF Stop, Goto, Forget
    <3>26. CASE Return(p)  BY <3>26, <1>2 DEF Return, Goto, Forget
    <3> QED  BY <3>1, <3>2, <3>3, <3>4, <3>5, <3>6, <3>7, <3>8, <3>9, <3>10, <3>11,
           <3>12, <3>13, <3>14, <3>15, <3>16, <3>17, <3>18, <3>19, <3>20, <3>21, <3>22,
           <3>23, <3>24, <3>25, <3>26 DEF Step
  <2> QED
    BY <2>2, <2>3, <2>4
<1> QED
  BY <1>1, <1>2 DEF Written

LEMMA PointedKept ==
  ASSUME TypeOK, Written, Pointed, NEW p \in Procs, Step(p)
  PROVE  Pointed'
<1> SUFFICES ASSUME NEW s \in Scopes, latest'[s] # None
             PROVE  Accounted(latest[s])'
  BY DEF Pointed
<1>1. latest'[s] = latest[s] \/ (FillLatest(p) /\ latest'[s] = Key(scope[p], manifest[p]))
  <2> USE DEF disk, TypeOK, FilesOK, ControlOK
  <2>1. CASE StartUpsert(p)  BY <2>1 DEF StartUpsert, Begin, Goto
  <2>2. CASE StartActivate(p)  BY <2>2 DEF StartActivate, Begin, Goto
  <2>3. CASE StartPublish(p)  BY <2>3 DEF StartPublish, Begin, Goto
  <2>4. CASE StartGet(p)  BY <2>4 DEF StartGet, Begin, Goto
  <2>5. CASE StartImport(p)  BY <2>5 DEF StartImport, Begin, Goto
  <2>6. CASE Validate(p)  BY <2>6 DEF Validate, Goto, Refuse, Finish
  <2>7. CASE WriteVariant(p)  BY <2>7 DEF WriteVariant, Goto, Finish
  <2>8. CASE SetActivation(p)  BY <2>8 DEF SetActivation, Goto, Refuse, Finish
  <2>9. CASE ActivationFails(p)  BY <2>9 DEF ActivationFails, Goto, Refuse, Finish
  <2>10. CASE ReadPointers(p)  BY <2>10 DEF ReadPointers, Goto
  <2>11. CASE ReadEvents(p)  BY <2>11 DEF ReadEvents, Goto, Refuse, Finish
  <2>12. CASE ReadWorld(p)  BY <2>12 DEF ReadWorld, Goto
  <2>13. CASE ReadClient(p)  BY <2>13 DEF ReadClient, Goto
  <2>14. CASE ManifestRow(p)  BY <2>14 DEF ManifestRow
  <2>15. CASE Record(p)  BY <2>15 DEF Record, Goto
  <2>16. CASE ContentsRow(p)  BY <2>16 DEF ContentsRow
  <2>17. CASE OpenArtifact(p)  BY <2>17 DEF OpenArtifact, Goto
  <2>18. CASE FillArtifact(p)  BY <2>18 DEF FillArtifact, Goto
  <2>19. CASE OpenLatest(p)  BY <2>19 DEF OpenLatest
  <2>20. CASE FillLatest(p)  BY <2>20 DEF FillLatest
  <2>21. CASE NextRow(p)  BY <2>21 DEF NextRow, Goto
  <2>22. CASE ReadCurrent(p)  BY <2>22 DEF ReadCurrent, Goto
  <2>23. CASE NextPointer(p)  BY <2>23 DEF NextPointer, Goto
  <2>24. CASE EndImport(p)  BY <2>24 DEF EndImport, Goto, Finish
  <2>25. CASE Stop(p)  BY <2>25 DEF Stop, Goto, Forget
  <2>26. CASE Return(p)  BY <2>26 DEF Return, Goto, Forget
  <2> QED  BY <2>1, <2>2, <2>3, <2>4, <2>5, <2>6, <2>7, <2>8, <2>9, <2>10, <2>11,
         <2>12, <2>13, <2>14, <2>15, <2>16, <2>17, <2>18, <2>19, <2>20, <2>21, <2>22,
         <2>23, <2>24, <2>25, <2>26 DEF Step
<1>2. PICK k : k = latest'[s]
  OBVIOUS
<1>3. Accounted(k)
  BY <1>1, <1>2 DEF Pointed, Written, FillLatest
<1>4. Accounted(k)'
  BY <1>3, AccountedStays
<1> QED
  BY <1>2, <1>4 DEF Accounted

-----------------------------------------------------------------------------
(* A publish nobody overlapped *)

\* What is in force in the scope of a call, the rows of it, and their manifest.
Live(p) == Overlay(pointer["world"],
                   IF scope[p] = "client" THEN pointer["client"] ELSE NoPointers)
LiveRows(p) == [q \in Policies |-> IF Live(p)[q] = None THEN NoRow ELSE row[<<q, Live(p)[q]>>]]
LiveManifest(p) == [q \in Policies |-> <<Live(p)[q], LiveRows(p)[q]>>]

\* What a clean publish has made of it so far.
PublishBy(p) ==
  clean[p] /\ call[p] = "publish" =>
    /\ pc[p] \in {"world", "client"} => manifest[p] = NoManifest /\ contents[p] = NoContents
    /\ pc[p] = "client" => scope[p] = "client" /\ seen[p] = pointer["world"]
    /\ pc[p] = "manifest" =>
         /\ seen[p] = Live(p) /\ contents[p] = NoContents
         /\ \A q \in Policies :
              manifest[p][q] = IF q \in left[p] THEN <<None, NoRow>> ELSE LiveManifest(p)[q]
    /\ pc[p] \in {"variants", "fill", "openlatest", "filllatest", "done"} =>
         manifest[p] = LiveManifest(p)
    /\ pc[p] = "variants" =>
         \A q \in Policies :
           contents[p][q] = IF q \in left[p] THEN NoRow ELSE LiveRows(p)[q]
    /\ pc[p] = "fill" => contents[p] = LiveRows(p)
    /\ pc[p] \in {"openlatest", "filllatest", "done"} =>
         files[Key(scope[p], LiveManifest(p))] = LiveRows(p)
    /\ pc[p] = "done" => latest[scope[p]] = Key(scope[p], LiveManifest(p))

LEMMA LiveStays ==
  ASSUME NEW r \in Procs, UNCHANGED <<row, pointer>>, scope'[r] = scope[r]
  PROVE  Live(r)' = Live(r) /\ LiveRows(r)' = LiveRows(r) /\ LiveManifest(r)' = LiveManifest(r)
BY DEF Live, Overlay, LiveRows, LiveManifest

LEMMA LiveIs ==
  ASSUME TypeOK, NEW p \in Procs
  PROVE  /\ scope[p] = "world" => Live(p) = pointer["world"]
         /\ scope[p] = "client" => Live(p) = Overlay(pointer["world"], pointer["client"])
         /\ Live(p) \in Pointers
         /\ \A q \in Policies :
              /\ LiveManifest(p)[q] = <<Live(p)[q], LiveRows(p)[q]>>
              /\ LiveRows(p)[q] = IF Live(p)[q] = None THEN NoRow ELSE row[<<q, Live(p)[q]>>]
<1>1. pointer["world"] \in Pointers /\ pointer["client"] \in Pointers
  BY DEF TypeOK, TablesOK, Scopes
<1>2. Overlay(pointer["world"], NoPointers) = pointer["world"]
  BY <1>1 DEF Overlay, NoPointers, Pointers
<1>3. Overlay(pointer["world"], pointer["client"]) \in Pointers
  BY <1>1 DEF Overlay, Pointers
<1> QED
  BY <1>1, <1>2, <1>3 DEF Live, LiveManifest, LiveRows

\* The pointers are read: those of the call's scope, over the world's.
LEMMA PointersRead ==
  ASSUME TypeOK, NEW p \in Procs, pc'[p] = "manifest",
         manifest[p] = NoManifest, contents[p] = NoContents,
         UNCHANGED <<row, pointer, scope, manifest, contents>>,
         seen'[p] = Live(p), left'[p] = {q \in Policies : Live(p)[q] # None}
  PROVE  PublishBy(p)'
<1>1. Live(p)' = Live(p) /\ LiveRows(p)' = LiveRows(p) /\ LiveManifest(p)' = LiveManifest(p)
  BY LiveStays
<1>2. ASSUME NEW q \in Policies
      PROVE  manifest[p][q] = IF q \in left'[p] THEN <<None, NoRow>> ELSE LiveManifest(p)[q]
  <2>1. manifest[p][q] = <<None, NoRow>>
    BY DEF NoManifest
  <2>2. q \in left'[p] <=> Live(p)[q] # None
    OBVIOUS
  <2>3. Live(p)[q] = None => LiveManifest(p)[q] = <<None, NoRow>>
    BY DEF LiveManifest, LiveRows
  <2> QED
    BY <2>1, <2>2, <2>3
<1> QED
  BY <1>1, <1>2 DEF PublishBy

LEMMA PublishKept ==
  ASSUME TypeOK, Held, Calls, NEW p \in Procs, PublishBy(p), Step(p)
  PROVE  PublishBy(p)'
<1> SUFFICES ASSUME clean'[p], call'[p] = "publish"
             PROVE  PublishBy(p)'
  BY DEF PublishBy
<1> USE DEF TypeOK, ControlOK, DataOK
<1>1. CASE StartPublish(p)
  <2>1. pc[p] = "idle" /\ pc'[p] = "world" /\ UNCHANGED <<manifest, contents>>
    BY <1>1 DEF StartPublish, Begin, Goto
  <2>2. manifest[p] = NoManifest /\ contents[p] = NoContents
    BY <2>1 DEF Calls, PlacedBy
  <2> QED
    BY <2>1, <2>2 DEF PublishBy
<1>2. ASSUME ReadWorld(p), call[p] = "publish"
      PROVE  PublishBy(p)'
  <2>1. /\ pc[p] = "world" /\ clean[p]
        /\ UNCHANGED <<row, pointer, scope, manifest, contents, call, clean>>
        /\ seen'[p] = pointer["world"]
    BY <1>2 DEF ReadWorld, db
  <2>2. manifest[p] = NoManifest /\ contents[p] = NoContents
    BY <1>2, <2>1 DEF PublishBy
  <2>3. CASE scope[p] = "world"
    <3>1. Live(p) = pointer["world"]
      BY <2>3, LiveIs
    <3>2. pc'[p] = "manifest" /\ left'[p] = {q \in Policies : pointer["world"][q] # None}
      BY <1>2, <2>3 DEF ReadWorld, Goto
    <3> QED
      BY <2>1, <2>2, <3>1, <3>2, PointersRead
  <2>4. CASE scope[p] = "client"
    <3>1. pc'[p] = "client"
      BY <1>2, <2>4 DEF ReadWorld, Goto
    <3> QED
      BY <2>1, <2>2, <2>4, <3>1 DEF PublishBy
  <2> QED
    BY <2>3, <2>4 DEF Scopes
<1>3. ASSUME ReadClient(p), call[p] = "publish"
      PROVE  PublishBy(p)'
  <2>1. /\ pc[p] = "client" /\ clean[p] /\ pc'[p] = "manifest"
        /\ UNCHANGED <<row, pointer, scope, manifest, contents, call, clean>>
        /\ seen'[p] = Overlay(seen[p], pointer["client"])
        /\ left'[p] = {q \in Policies : seen'[p][q] # None}
    BY <1>3 DEF ReadClient, Goto, db
  <2>2. /\ manifest[p] = NoManifest /\ contents[p] = NoContents
        /\ scope[p] = "client" /\ seen[p] = pointer["world"]
    BY <1>3, <2>1 DEF PublishBy
  <2>3. seen'[p] = Live(p)
    BY <2>1, <2>2, LiveIs
  <2> QED
    BY <2>1, <2>2, <2>3, PointersRead
<1>4. ASSUME ManifestRow(p), call[p] = "publish"
      PROVE  PublishBy(p)'
  <2>1. /\ pc[p] = "manifest" /\ clean[p]
        /\ UNCHANGED <<row, pointer, scope, contents, call, clean, pc, seen>>
    BY <1>4 DEF ManifestRow, db
  <2>2. PICK q \in left[p] :
          /\ manifest' = [manifest EXCEPT ![p][q] = <<seen[p][q], row[<<q, seen[p][q]>>]>>]
          /\ left' = [left EXCEPT ![p] = @ \ {q}]
    BY <1>4 DEF ManifestRow
  <2>3. q \in Policies /\ seen[p][q] # None
    BY <2>1, <2>2 DEF Held, HeldBy
  <2>4. /\ seen[p] = Live(p) /\ contents[p] = NoContents
        /\ \A x \in Policies :
             manifest[p][x] = IF x \in left[p] THEN <<None, NoRow>> ELSE LiveManifest(p)[x]
    BY <1>4, <2>1 DEF PublishBy
  <2>5. Live(p)' = Live(p) /\ LiveRows(p)' = LiveRows(p) /\ LiveManifest(p)' = LiveManifest(p)
    BY <2>1, LiveStays
  <2>6. LiveManifest(p)[q] = <<seen[p][q], row[<<q, seen[p][q]>>]>>
    BY <2>3, <2>4, LiveIs
  <2>7. /\ manifest'[p][q] = LiveManifest(p)[q]
        /\ \A x \in Policies : x # q => manifest'[p][x] = manifest[p][x]
        /\ left'[p] = left[p] \ {q}
    BY <2>2, <2>3, <2>6 DEF Manifests
  <2>8. \A x \in Policies :
          manifest'[p][x] = IF x \in left'[p] THEN <<None, NoRow>> ELSE LiveManifest(p)[x]
    BY <2>2, <2>3, <2>4, <2>7
  <2> QED
    BY <2>1, <2>4, <2>5, <2>8 DEF PublishBy
<1>5. ASSUME Record(p), call[p] = "publish"
      PROVE  PublishBy(p)'
  <2>1. /\ pc[p] = "manifest" /\ clean[p] /\ left[p] = {} /\ pc'[p] = "variants"
        /\ UNCHANGED <<row, pointer, scope, contents, manifest, call, clean>>
        /\ left'[p] = Listed(manifest[p])
    BY <1>5 DEF Record, Goto
  <2>2. /\ contents[p] = NoContents
        /\ \A q \in Policies : manifest[p][q] = LiveManifest(p)[q]
    BY <1>5, <2>1 DEF PublishBy
  <2>3. manifest[p] = LiveManifest(p)
    BY <2>2 DEF Manifests, LiveManifest
  <2>4. Live(p)' = Live(p) /\ LiveRows(p)' = LiveRows(p) /\ LiveManifest(p)' = LiveManifest(p)
    BY <2>1, LiveStays
  <2>5. ASSUME NEW q \in Policies
        PROVE  contents[p][q] = IF q \in left'[p] THEN NoRow ELSE LiveRows(p)[q]
    <3>1. contents[p][q] = NoRow
      BY <2>2 DEF NoContents
    <3>2. q \notin left'[p] => Live(p)[q] = None
      <4>1. left'[p] = {x \in Policies : LiveManifest(p)[x][1] # None}
        BY <2>1, <2>3 DEF Listed
      <4>2. LiveManifest(p)[q][1] = Live(p)[q]
        BY DEF LiveManifest
      <4> QED
        BY <4>1, <4>2
    <3> QED
      BY <3>1, <3>2 DEF LiveRows
  <2> QED
    BY <2>1, <2>3, <2>4, <2>5 DEF PublishBy
<1>6. ASSUME ContentsRow(p), call[p] = "publish"
      PROVE  PublishBy(p)'
  <2>1. /\ pc[p] = "variants" /\ clean[p]
        /\ UNCHANGED <<row, pointer, scope, manifest, call, clean, pc>>
    BY <1>6 DEF ContentsRow, db
  <2>2. PICK q \in left[p] :
          /\ contents' = [contents EXCEPT ![p][q] = row[<<q, manifest[p][q][1]>>]]
          /\ left' = [left EXCEPT ![p] = @ \ {q}]
    BY <1>6 DEF ContentsRow
  <2>3. q \in Policies /\ manifest[p][q][1] # None
    BY <2>1, <2>2 DEF Held, HeldBy, Listed
  <2>4. /\ manifest[p] = LiveManifest(p)
        /\ \A x \in Policies :
             contents[p][x] = IF x \in left[p] THEN NoRow ELSE LiveRows(p)[x]
    BY <1>6, <2>1 DEF PublishBy
  <2>5. Live(p)' = Live(p) /\ LiveRows(p)' = LiveRows(p) /\ LiveManifest(p)' = LiveManifest(p)
    BY <2>1, LiveStays
  <2>6. LiveRows(p)[q] = row[<<q, manifest[p][q][1]>>]
    <3>1. manifest[p][q][1] = Live(p)[q]
      BY <2>3, <2>4 DEF LiveManifest
    <3> QED
      BY <2>3, <3>1 DEF LiveRows
  <2>7. /\ contents'[p][q] = LiveRows(p)[q]
        /\ \A x \in Policies : x # q => contents'[p][x] = contents[p][x]
        /\ left'[p] = left[p] \ {q}
    BY <2>2, <2>3, <2>6
  <2>8. \A x \in Policies :
          contents'[p][x] = IF x \in left'[p] THEN NoRow ELSE LiveRows(p)[x]
    BY <2>2, <2>3, <2>4, <2>7
  <2> QED
    BY <2>1, <2>4, <2>5, <2>8 DEF PublishBy
<1>7. ASSUME OpenArtifact(p), call[p] = "publish"
      PROVE  PublishBy(p)'
  <2>1. /\ pc[p] = "variants" /\ clean[p] /\ left[p] = {} /\ pc'[p] = "fill"
        /\ UNCHANGED <<row, pointer, scope, contents, manifest, call, clean>>
    BY <1>7 DEF OpenArtifact, Goto, db
  <2>2. /\ manifest[p] = LiveManifest(p)
        /\ \A q \in Policies : contents[p][q] = LiveRows(p)[q]
    BY <1>7, <2>1 DEF PublishBy
  <2>3. contents[p] = LiveRows(p)
    BY <2>2 DEF LiveRows
  <2>4. Live(p)' = Live(p) /\ LiveRows(p)' = LiveRows(p) /\ LiveManifest(p)' = LiveManifest(p)
    BY <2>1, LiveStays
  <2> QED
    BY <2>1, <2>2, <2>3, <2>4 DEF PublishBy
<1>8. ASSUME FillArtifact(p), call[p] = "publish"
      PROVE  PublishBy(p)'
  <2>1. /\ pc[p] = "fill" /\ clean[p] /\ pc'[p] = "openlatest"
        /\ UNCHANGED <<row, pointer, scope, contents, manifest, call, clean>>
        /\ files'[Key(scope[p], manifest[p])] = contents[p]
    BY <1>8 DEF FillArtifact, PutFile, Goto, db
  <2>2. manifest[p] = LiveManifest(p) /\ contents[p] = LiveRows(p)
    BY <1>8, <2>1 DEF PublishBy
  <2>3. Live(p)' = Live(p) /\ LiveRows(p)' = LiveRows(p) /\ LiveManifest(p)' = LiveManifest(p)
    BY <2>1, LiveStays
  <2> QED
    BY <2>1, <2>2, <2>3 DEF PublishBy, Key
<1>9. ASSUME OpenLatest(p), call[p] = "publish"
      PROVE  PublishBy(p)'
  <2>1. /\ pc[p] = "openlatest" /\ clean[p] /\ pc'[p] = "filllatest"
        /\ UNCHANGED <<row, pointer, scope, contents, manifest, call, clean, files>>
    BY <1>9 DEF OpenLatest, Goto, db
  <2>2. manifest[p] = LiveManifest(p) /\ files[Key(scope[p], LiveManifest(p))] = LiveRows(p)
    BY <1>9, <2>1 DEF PublishBy
  <2>3. Live(p)' = Live(p) /\ LiveRows(p)' = LiveRows(p) /\ LiveManifest(p)' = LiveManifest(p)
    BY <2>1, LiveStays
  <2> QED
    BY <2>1, <2>2, <2>3 DEF PublishBy, Key
<1>10. ASSUME FillLatest(p), call[p] = "publish"
       PROVE  PublishBy(p)'
  <2>1. /\ pc[p] = "filllatest" /\ clean[p] /\ pc'[p] = "done"
        /\ UNCHANGED <<row, pointer, scope, contents, manifest, call, clean, files>>
        /\ latest'[scope[p]] = Key(scope[p], manifest[p])
    BY <1>10 DEF FillLatest, Finish, Goto, db, FilesOK
  <2>2. manifest[p] = LiveManifest(p) /\ files[Key(scope[p], LiveManifest(p))] = LiveRows(p)
    BY <1>10, <2>1 DEF PublishBy
  <2>3. Live(p)' = Live(p) /\ LiveRows(p)' = LiveRows(p) /\ LiveManifest(p)' = LiveManifest(p)
    BY <2>1, LiveStays
  <2> QED
    BY <2>1, <2>2, <2>3 DEF PublishBy, Key
<1> QED
  BY <1>1, <1>2, <1>3, <1>4, <1>5, <1>6, <1>7, <1>8, <1>9, <1>10, PublishSteps

LEMMA OthersPublish ==
  ASSUME TypeOK, Calls, NEW p \in Procs, Step(p), NEW r \in Procs \ {p}, PublishBy(r)
  PROVE  PublishBy(r)'
<1> SUFFICES ASSUME clean'[r], call'[r] = "publish"
             PROVE  PublishBy(r)'
  BY DEF PublishBy
<1>1. call[r] = "publish"
  BY LocalsStay
<1>2. pc[r] # "idle"
  BY <1>1 DEF Calls, PlacedBy
<1>3. clean[r] /\ UNCHANGED <<row, pointer, files, latest>>
  BY <1>2, CalmStep
<1>4. /\ pc'[r] = pc[r] /\ scope'[r] = scope[r] /\ seen'[r] = seen[r] /\ left'[r] = left[r]
      /\ manifest'[r] = manifest[r] /\ contents'[r] = contents[r]
  BY OthersStay, LocalsStay
<1>5. Live(r)' = Live(r) /\ LiveRows(r)' = LiveRows(r) /\ LiveManifest(r)' = LiveManifest(r)
  BY <1>3, <1>4, LiveStays
<1> QED
  BY <1>1, <1>3, <1>4, <1>5 DEF PublishBy, Key

PublishInv == Calls /\ Written /\ Pointed /\ \A p \in Procs : PublishBy(p)

\* A publish that no other call overlapped leaves in the file latest.json names
\* what is in force in its scope, and latest.json never names a file that is not
\* there, nor an unreadable one but while it is written or if that was stopped.
THEOREM PublishIsSound == Spec => []PublishHolds
<1>1. Init => PublishInv
  <2> SUFFICES ASSUME Init
               PROVE  PublishInv
    OBVIOUS
  <2> USE DEF Init
  <2>1. Calls
    BY DEF Calls, AloneBy, PlacedBy
  <2>2. Written /\ Pointed
    BY DEF Written, Pointed
  <2>3. \A p \in Procs : PublishBy(p)
    BY DEF PublishBy
  <2> QED
    BY <2>1, <2>2, <2>3 DEF PublishInv
<1>2. IInv /\ PublishInv /\ [Next]_vars => PublishInv'
  <2> SUFFICES ASSUME IInv, PublishInv, [Next]_vars
               PROVE  PublishInv'
    OBVIOUS
  <2>1. ASSUME NEW p \in Procs, Step(p)
        PROVE  PublishInv'
    <3>1. Calls' /\ Written' /\ Pointed'
      BY <2>1, CallsKept, WrittenKept, PointedKept DEF IInv, PublishInv
    <3>2. ASSUME NEW r \in Procs
          PROVE  PublishBy(r)'
      BY <2>1, PublishKept, OthersPublish DEF IInv, PublishInv
    <3> QED
      BY <3>1, <3>2 DEF PublishInv
  <2>2. CASE UNCHANGED vars
    <3> USE <2>2 DEF vars, db, disk, local
    <3>1. Calls' /\ Written' /\ Pointed'
      BY DEF PublishInv, Calls, AloneBy, PlacedBy, Busy, Written, Pointed, Accounted, Key
    <3>2. \A p \in Procs : PublishBy(p)'
      BY LiveStays DEF PublishInv, PublishBy, Key
    <3> QED
      BY <3>1, <3>2 DEF PublishInv
  <2> QED
    BY <2>1, <2>2 DEF Next
<1>3. IInv /\ PublishInv => PublishHolds
  <2> SUFFICES ASSUME IInv, PublishInv
               PROVE  PublishHolds
    OBVIOUS
  <2>1. LatestIsThere
    BY DEF PublishInv, Pointed, Accounted, LatestIsThere
  <2>2. ASSUME NEW p \in Procs, Ended(p, "publish")
        PROVE  /\ latest[scope[p]] = Key(scope[p], LiveManifest(p))
               /\ files[Key(scope[p], LiveManifest(p))] = LiveRows(p)
    BY <2>2 DEF PublishInv, PublishBy, Ended
  <2>3. PublishedIsEffective
    BY <2>2 DEF PublishedIsEffective, LiveManifest, LiveRows, Live
  <2> QED
    BY <2>1, <2>3 DEF PublishHolds
<1> QED
  BY <1>1, <1>2, <1>3, InitHolds, NextHolds, PTL DEF Spec
-----------------------------------------------------------------------------
(* An import nobody overlapped *)
RowPhase   == {"next", "validate", "write"}
PointPhase == {"point", "set", "pointers", "events"}

\* Accepted rows are those of the artifact, and stored.
AcceptedBy(p) ==
  \A q \in Policies : accepted[p][q] # None =>
    accepted[p][q] = manifest[p][q][1] /\ row[<<q, accepted[p][q]>>] = contents[p][q]

\* The row that is validated and written is one of the artifact.
TargetBy(p) ==
  /\ pc[p] \in {"validate", "write"} =>
       \E q \in Listed(manifest[p]) \ left[p] :
         target[p] = <<q, manifest[p][q][1]>> /\ content[p] = contents[p][q]
  /\ pc[p] = "set" => \E q \in Policies : target[p] = <<q, accepted[p][q]>>

\* Without errors every row visited is accepted, but the one on its way.
RowsBy(p) ==
  errors[p] = 0 =>
    /\ pc[p] \in RowPhase =>
         \A q \in Listed(manifest[p]) \ left[p] :
           \/ accepted[p][q] = manifest[p][q][1]
           \/ pc[p] # "next" /\ q = target[p][1]
    /\ pc[p] \in PointPhase \cup {"done"} =>
         \A q \in Listed(manifest[p]) : accepted[p][q] = manifest[p][q][1]

\* And every pointer visited is right, but the one on its way.
PointedBy(p) ==
  /\ pc[p] \in PointPhase => activate[p]
  /\ errors[p] = 0 =>
       /\ pc[p] \in PointPhase =>
            \A q \in Listed(manifest[p]) \ left[p] :
              \/ pointer[scope[p]][q] = manifest[p][q][1]
              \/ pc[p] = "set" /\ q = target[p][1]
       /\ pc[p] = "done" /\ activate[p] =>
            \A q \in Listed(manifest[p]) : pointer[scope[p]][q] = manifest[p][q][1]

ImportBy(p) ==
  clean[p] /\ call[p] = "import" => AcceptedBy(p) /\ TargetBy(p) /\ RowsBy(p) /\ PointedBy(p)

LEMMA OthersImport ==
  ASSUME TypeOK, Calls, NEW p \in Procs, Step(p), NEW r \in Procs \ {p}, ImportBy(r)
  PROVE  ImportBy(r)'
<1> SUFFICES ASSUME clean'[r], call'[r] = "import"
             PROVE  ImportBy(r)'
  BY DEF ImportBy
<1>1. call[r] = "import"
  BY LocalsStay
<1>2. pc[r] # "idle"
  BY <1>1 DEF Calls, PlacedBy
<1>3. clean[r] /\ UNCHANGED <<row, pointer>>
  BY <1>2, CalmStep
<1>4. /\ pc'[r] = pc[r] /\ scope'[r] = scope[r] /\ target'[r] = target[r]
      /\ content'[r] = content[r] /\ left'[r] = left[r]
      /\ manifest'[r] = manifest[r] /\ contents'[r] = contents[r]
      /\ accepted'[r] = accepted[r] /\ activate'[r] = activate[r] /\ errors'[r] = errors[r]
  BY OthersStay, LocalsStay
<1>5. AcceptedBy(r)' /\ TargetBy(r)'
  BY <1>1, <1>3, <1>4 DEF ImportBy, AcceptedBy, TargetBy, Listed
<1>6. RowsBy(r)' /\ PointedBy(r)'
  BY <1>1, <1>3, <1>4 DEF ImportBy, RowsBy, PointedBy, Listed
<1> QED
  BY <1>5, <1>6 DEF ImportBy

LEMMA ImportKept ==
  ASSUME TypeOK, Held, Calls, NEW p \in Procs, ImportBy(p), Step(p)
  PROVE  ImportBy(p)'
<1> SUFFICES ASSUME clean'[p], call'[p] = "import"
             PROVE  AcceptedBy(p)' /\ TargetBy(p)' /\ RowsBy(p)' /\ PointedBy(p)'
  BY DEF ImportBy
<1> USE DEF TypeOK, ControlOK, DataOK
<1>1. CASE StartImport(p)
  <2>1. /\ pc[p] = "idle" /\ pc'[p] = "next"
        /\ UNCHANGED <<accepted, errors>>
    BY <1>1 DEF StartImport, Begin, Goto
  <2>2. accepted'[p] = NoPointers
    BY <2>1 DEF Calls, PlacedBy
  <2>3. left'[p] = Listed(manifest'[p])
    BY <1>1 DEF StartImport, Listed
  <2>4. AcceptedBy(p)' /\ TargetBy(p)'
    BY <2>1, <2>2 DEF AcceptedBy, TargetBy, NoPointers
  <2>5. RowsBy(p)' /\ PointedBy(p)'
    BY <2>1, <2>3 DEF RowsBy, PointedBy, RowPhase, PointPhase, Listed
  <2> QED
    BY <2>4, <2>5
<1>2. ASSUME Validate(p), call[p] = "import"
      PROVE  AcceptedBy(p)' /\ TargetBy(p)' /\ RowsBy(p)' /\ PointedBy(p)'
  <2>1. /\ pc[p] = "validate" /\ clean[p]
        /\ \/ pc'[p] = "write" /\ UNCHANGED errors
           \/ pc'[p] = "next" /\ errors'[p] = errors[p] + 1
        /\ UNCHANGED <<row, pointer, scope, target, content, left, manifest, contents, accepted,
                       activate>>
    BY <1>2 DEF Validate, Goto, Refuse
  <2>2. AcceptedBy(p) /\ TargetBy(p) /\ RowsBy(p)
    BY <1>2, <2>1 DEF ImportBy
  <2>3. AcceptedBy(p)' /\ TargetBy(p)'
    BY <2>1, <2>2 DEF AcceptedBy, TargetBy, Listed
  <2>4. RowsBy(p)' /\ PointedBy(p)'
    BY <2>1, <2>2 DEF RowsBy, PointedBy, RowPhase, PointPhase, Listed
  <2> QED
    BY <2>3, <2>4
<1>3. ASSUME WriteVariant(p), call[p] = "import"
      PROVE  AcceptedBy(p)' /\ TargetBy(p)' /\ RowsBy(p)' /\ PointedBy(p)'
  <2>1. /\ pc[p] = "write" /\ clean[p] /\ pc'[p] = "next"
        /\ row' = [row EXCEPT ![target[p]] = content[p]]
        /\ accepted' = [accepted EXCEPT ![p][target[p][1]] = target[p][2]]
        /\ UNCHANGED <<pointer, scope, target, content, left, manifest, contents, activate, errors>>
    BY <1>3 DEF WriteVariant, Goto
  <2>2. AcceptedBy(p) /\ TargetBy(p) /\ RowsBy(p)
    BY <1>3, <2>1 DEF ImportBy
  <2>3. PICK q \in Listed(manifest[p]) \ left[p] :
          target[p] = <<q, manifest[p][q][1]>> /\ content[p] = contents[p][q]
    BY <2>1, <2>2 DEF TargetBy
  <2>4. q \in Policies /\ target[p] \in Policies \X Variants
    BY <2>1 DEF Held, HeldBy, Listed
  <2>5. PICK v \in Variants : v = manifest[p][q][1] /\ target[p] = <<q, v>>
    BY <2>3, <2>4
  <2>6. /\ accepted'[p][q] = v
        /\ \A x \in Policies : x # q => accepted'[p][x] = accepted[p][x]
    BY <2>1, <2>4, <2>5 DEF Pointers
  <2>7. /\ row'[<<q, v>>] = contents[p][q]
        /\ \A x \in Policies, w \in Variants : x # q => row'[<<x, w>>] = row[<<x, w>>]
    BY <2>1, <2>3, <2>4, <2>5 DEF TablesOK
  <2>8. \A x \in Policies : accepted[p][x] \in Variants \cup {None}
    BY DEF Pointers
  <2>9. AcceptedBy(p)'
    <3> SUFFICES ASSUME NEW x \in Policies, accepted'[p][x] # None
                 PROVE  /\ accepted'[p][x] = manifest[p][x][1]
                        /\ row'[<<x, accepted'[p][x]>>] = contents[p][x]
      BY <2>1 DEF AcceptedBy
    <3>1. CASE x = q
      BY <2>5, <2>6, <2>7, <3>1
    <3>2. CASE x # q
      <4>1. accepted'[p][x] = accepted[p][x] /\ accepted[p][x] \in Variants
        BY <2>6, <2>8, <3>2
      <4>2. /\ accepted[p][x] = manifest[p][x][1]
            /\ row[<<x, accepted[p][x]>>] = contents[p][x]
        BY <2>2, <4>1 DEF AcceptedBy
      <4> QED
        BY <2>7, <3>2, <4>1, <4>2
    <3> QED
      BY <3>1, <3>2
  <2>10. TargetBy(p)' /\ PointedBy(p)'
    BY <2>1 DEF TargetBy, PointedBy, PointPhase
  <2>11. RowsBy(p)'
    BY <2>1, <2>2, <2>5, <2>6 DEF RowsBy, RowPhase, PointPhase, Listed
  <2> QED
    BY <2>9, <2>10, <2>11
<1>4. ASSUME SetActivation(p), call[p] = "import"
      PROVE  AcceptedBy(p)' /\ TargetBy(p)' /\ RowsBy(p)' /\ PointedBy(p)'
  <2>1. /\ pc[p] = "set" /\ clean[p]
        /\ UNCHANGED <<row, scope, target, content, left, manifest, contents, accepted, activate>>
    BY <1>4 DEF SetActivation
  <2>2. AcceptedBy(p) /\ TargetBy(p) /\ RowsBy(p) /\ PointedBy(p)
    BY <1>4, <2>1 DEF ImportBy
  <2>3. target[p] \in Policies \X Variants
    BY <2>1 DEF Held, HeldBy
  <2>4. PICK q \in Policies : target[p] = <<q, accepted[p][q]>>
    BY <2>1, <2>2 DEF TargetBy
  <2>5. accepted[p][q] = manifest[p][q][1]
    BY <2>2, <2>3, <2>4, NoneIsNone DEF AcceptedBy
  <2>6. \/ pc'[p] = "point" /\ errors'[p] = errors[p] + 1
        \/ /\ pc'[p] = "pointers" /\ UNCHANGED errors
           /\ pointer' = [pointer EXCEPT ![scope[p]][q] = manifest[p][q][1]]
    BY <1>4, <2>4, <2>5 DEF SetActivation, Goto, Refuse
  <2>7. pc'[p] = "pointers" =>
          \A x \in Policies :
            pointer'[scope[p]][x] = IF x = q THEN manifest[p][q][1] ELSE pointer[scope[p]][x]
    BY <2>6 DEF TablesOK, Pointers
  <2>8. AcceptedBy(p)' /\ TargetBy(p)' /\ RowsBy(p)'
    BY <2>1, <2>2, <2>6 DEF AcceptedBy, TargetBy, RowsBy, RowPhase, PointPhase, Listed
  <2>9. PointedBy(p)'
    BY <2>1, <2>2, <2>4, <2>6, <2>7 DEF PointedBy, PointPhase, Listed
  <2> QED
    BY <2>8, <2>9
<1>5. ASSUME ActivationFails(p)
      PROVE  FALSE
  BY <1>5 DEF ActivationFails
<1>6. ASSUME ReadPointers(p) \/ ReadEvents(p), call[p] = "import"
      PROVE  AcceptedBy(p)' /\ TargetBy(p)' /\ RowsBy(p)' /\ PointedBy(p)'
  <2>1. /\ pc[p] \in {"pointers", "events"} /\ clean[p] /\ pc'[p] \in {"events", "point"}
        /\ errors'[p] = errors[p] \/ errors'[p] = errors[p] + 1
        /\ UNCHANGED <<row, pointer, scope, target, content, left, manifest, contents, accepted,
                       activate>>
    BY <1>6 DEF ReadPointers, ReadEvents, Goto, Refuse, db
  <2>2. AcceptedBy(p) /\ TargetBy(p) /\ RowsBy(p) /\ PointedBy(p)
    BY <1>6, <2>1 DEF ImportBy
  <2>3. AcceptedBy(p)' /\ TargetBy(p)' /\ RowsBy(p)'
    BY <2>1, <2>2 DEF AcceptedBy, TargetBy, RowsBy, RowPhase, PointPhase, Listed
  <2>4. PointedBy(p)'
    BY <2>1, <2>2 DEF PointedBy, PointPhase, Listed
  <2> QED
    BY <2>3, <2>4
<1>7. ASSUME NextRow(p), call[p] = "import"
      PROVE  AcceptedBy(p)' /\ TargetBy(p)' /\ RowsBy(p)' /\ PointedBy(p)'
  <2>1. /\ pc[p] = "next" /\ clean[p]
        /\ UNCHANGED <<row, pointer, scope, manifest, contents, activate, errors>>
    BY <1>7 DEF NextRow, db
  <2>2. PICK q \in left[p] :
          /\ left' = [left EXCEPT ![p] = @ \ {q}]
          /\ target' = [target EXCEPT ![p] = <<q, manifest[p][q][1]>>]
          /\ content' = [content EXCEPT ![p] = contents[p][q]]
          /\ \/ /\ row[<<q, manifest[p][q][1]>>] = contents[p][q]
                /\ accepted' = [accepted EXCEPT ![p][q] = manifest[p][q][1]]
                /\ UNCHANGED pc
             \/ pc'[p] = "validate" /\ UNCHANGED accepted
    BY <1>7 DEF NextRow, FirstRows, Unchanged, Goto
  <2>3. AcceptedBy(p) /\ RowsBy(p)
    BY <1>7, <2>1 DEF ImportBy
  <2>4. q \in Policies /\ q \in Listed(manifest[p]) /\ left'[p] = left[p] \ {q}
    BY <2>1, <2>2 DEF Held, HeldBy
  <2>5. /\ target'[p] = <<q, manifest[p][q][1]>> /\ content'[p] = contents[p][q]
        /\ pc'[p] \in {"next", "validate"}
    BY <2>1, <2>2
  <2>6. \A x \in Policies : x # q => accepted'[p][x] = accepted[p][x]
    BY <2>2, <2>4 DEF Pointers
  <2>7. \/ /\ pc'[p] = "next" /\ accepted'[p][q] = manifest[p][q][1]
           /\ row[<<q, manifest[p][q][1]>>] = contents[p][q]
        \/ pc'[p] = "validate" /\ accepted'[p][q] = accepted[p][q]
    BY <2>1, <2>2, <2>4 DEF Pointers
  <2>8. AcceptedBy(p)'
    <3> SUFFICES ASSUME NEW x \in Policies, accepted'[p][x] # None
                 PROVE  /\ accepted'[p][x] = manifest[p][x][1]
                        /\ row[<<x, accepted'[p][x]>>] = contents[p][x]
      BY <2>1 DEF AcceptedBy
    <3>1. accepted'[p][x] = accepted[p][x] =>
            /\ accepted'[p][x] = manifest[p][x][1]
            /\ row[<<x, accepted'[p][x]>>] = contents[p][x]
      BY <2>3 DEF AcceptedBy
    <3> QED
      BY <2>6, <2>7, <3>1
  <2>9. TargetBy(p)' /\ PointedBy(p)'
    BY <2>1, <2>4, <2>5 DEF TargetBy, PointedBy, PointPhase, Listed
  <2>10. RowsBy(p)'
    BY <2>1, <2>3, <2>4, <2>5, <2>6, <2>7 DEF RowsBy, RowPhase, PointPhase, Listed
  <2> QED
    BY <2>8, <2>9, <2>10
<1>8. ASSUME ReadCurrent(p), call[p] = "import"
      PROVE  AcceptedBy(p)' /\ TargetBy(p)' /\ RowsBy(p)' /\ PointedBy(p)'
  <2>1. /\ pc[p] = "next" /\ clean[p] /\ left[p] = {} /\ activate[p] /\ pc'[p] = "point"
        /\ UNCHANGED <<row, pointer, scope, target, content, manifest, contents, accepted,
                       activate, errors>>
        /\ left'[p] = {q \in Policies : accepted[p][q] \notin {None, pointer[scope[p]][q]}}
    BY <1>8 DEF ReadCurrent, Goto, db
  <2>2. AcceptedBy(p) /\ RowsBy(p)
    BY <1>8, <2>1 DEF ImportBy
  <2>3. AcceptedBy(p)' /\ TargetBy(p)'
    BY <2>1, <2>2 DEF AcceptedBy, TargetBy
  <2>4. errors[p] = 0 => \A q \in Listed(manifest[p]) : accepted[p][q] = manifest[p][q][1]
    BY <2>1, <2>2 DEF RowsBy, RowPhase
  <2>5. \A q \in Listed(manifest[p]) : q \in Policies /\ manifest[p][q][1] # None
    BY DEF Listed
  <2>6. RowsBy(p)'
    BY <2>1, <2>4 DEF RowsBy, RowPhase, PointPhase, Listed
  <2>7. errors[p] = 0 =>
          \A q \in Listed(manifest[p]) \ left'[p] : pointer[scope[p]][q] = manifest[p][q][1]
    BY <2>1, <2>4, <2>5
  <2>8. PointedBy(p)'
    BY <2>1, <2>7 DEF PointedBy, PointPhase, Listed
  <2> QED
    BY <2>3, <2>6, <2>8
<1>9. ASSUME NextPointer(p), call[p] = "import"
      PROVE  AcceptedBy(p)' /\ TargetBy(p)' /\ RowsBy(p)' /\ PointedBy(p)'
  <2>1. /\ pc[p] = "point" /\ clean[p] /\ pc'[p] = "set"
        /\ UNCHANGED <<row, pointer, scope, content, manifest, contents, accepted, activate, errors>>
    BY <1>9 DEF NextPointer, Goto, db
  <2>2. PICK q \in left[p] :
          left'[p] = left[p] \ {q} /\ target'[p] = <<q, accepted[p][q]>>
    BY <1>9 DEF NextPointer
  <2>3. AcceptedBy(p) /\ RowsBy(p) /\ PointedBy(p) /\ q \in Policies
    BY <1>9, <2>1 DEF ImportBy
  <2>4. AcceptedBy(p)' /\ TargetBy(p)' /\ RowsBy(p)'
    BY <2>1, <2>2, <2>3 DEF AcceptedBy, TargetBy, RowsBy, RowPhase, PointPhase, Listed
  <2>5. PointedBy(p)'
    BY <2>1, <2>2, <2>3 DEF PointedBy, PointPhase, Listed
  <2> QED
    BY <2>4, <2>5
<1>10. ASSUME EndImport(p), call[p] = "import"
       PROVE  AcceptedBy(p)' /\ TargetBy(p)' /\ RowsBy(p)' /\ PointedBy(p)'
  <2>1. /\ (pc[p] = "next" /\ ~activate[p]) \/ pc[p] = "point"
        /\ clean[p] /\ left[p] = {} /\ pc'[p] = "done"
        /\ UNCHANGED <<row, pointer, scope, target, content, left, manifest, contents, accepted,
                       activate, errors>>
    BY <1>10 DEF EndImport, Finish, Goto, db
  <2>2. AcceptedBy(p) /\ RowsBy(p) /\ PointedBy(p)
    BY <1>10, <2>1 DEF ImportBy
  <2>3. AcceptedBy(p)' /\ TargetBy(p)' /\ RowsBy(p)'
    BY <2>1, <2>2 DEF AcceptedBy, TargetBy, RowsBy, RowPhase, PointPhase, Listed
  <2>4. PointedBy(p)'
    BY <2>1, <2>2 DEF PointedBy, PointPhase, Listed
  <2> QED
    BY <2>3, <2>4
<1> QED
  BY <1>1, <1>2, <1>3, <1>4, <1>5, <1>6, <1>7, <1>8, <1>9, <1>10, ImportSteps
-----------------------------------------------------------------------------
(* What artifacts hold *)

\* What validation asks of a variant apart from the rows it refers to.
Sound(q, c) ==
  /\ c.text > 0
  /\ q \in Layer2 => c.refs # {} /\ \A ref \in c.refs : ref[1] \in Layer1

SoundRows(m, c) == \A q \in Listed(m) : Sound(q, c[q])
StoredRows(m)   == \A q \in Listed(m) : row[<<q, m[q][1]>>] # NoRow

SoundFiles == \A k \in DOMAIN files : files[k] # None => SoundRows(k[2], files[k])
StoredRuns == \A r \in DOMAIN runs : StoredRows(runs[r].manifest)

SoundBy(p) ==
  /\ pc[p] \in {"client", "manifest"} =>
       \A q \in Policies : seen[p][q] # None => row[<<q, seen[p][q]>>] # NoRow
  /\ pc[p] \in {"world", "client", "manifest", "variants"} => StoredRows(manifest[p])
  /\ pc[p] = "variants" => \A q \in Listed(manifest[p]) \ left[p] : Sound(q, contents[p][q])
  /\ pc[p] = "fill" \/ call[p] = "import" => SoundRows(manifest[p], contents[p])

Exported == SoundFiles /\ StoredRuns /\ \A p \in Procs : SoundBy(p)

\* A stored row is sound, and a sound one is a row.
LEMMA StoredIsSound ==
  ASSUME StoredIsValid, NEW q \in Policies, NEW v \in Variants, row[<<q, v>>] # NoRow
  PROVE  Sound(q, row[<<q, v>>])
BY DEF StoredIsValid, Valid, Sound

LEMMA SoundIsRow ==
  ASSUME NEW q, NEW c, Sound(q, c)
  PROVE  c # NoRow
BY DEF Sound, NoRow

LEMMA StoredRowsStay ==
  ASSUME TypeOK, Held, NEW p \in Procs, Step(p), NEW m \in Manifests, StoredRows(m)
  PROVE  StoredRows(m)'
<1> SUFFICES ASSUME NEW q \in Listed(m)
             PROVE  row'[<<q, m[q][1]>>] # NoRow
  BY DEF StoredRows, Listed
<1>1. q \in Policies /\ m[q][1] # None /\ row[<<q, m[q][1]>>] # NoRow
  BY DEF StoredRows, Listed
<1>2. m[q] \in (Variants \cup {None}) \X Content
  BY <1>1 DEF Manifests
<1>3. m[q][1] \in Variants
  BY <1>1, <1>2
<1> QED
  BY <1>1, <1>3, Grows

LEMMA PointersStored ==
  ASSUME TypeOK, PointersReplay, NEW s \in Scopes, NEW q \in Policies, pointer[s][q] # None
  PROVE  row[<<q, pointer[s][q]>>] # NoRow
BY DEF PointersReplay

LEMMA SoundKept ==
  ASSUME IInv, Calls, Exported, NEW p \in Procs, Step(p)
  PROVE  SoundBy(p)'
<1> USE DEF TypeOK, ControlOK, DataOK
<1>0. /\ TypeOK /\ Held /\ StoredIsValid /\ PointersReplay
      /\ SoundFiles /\ StoredRuns /\ SoundBy(p) /\ PlacedBy(p)
  BY DEF IInv, Exported, Calls
<1>1. CASE StartUpsert(p)
  <2>1. pc'[p] = "validate" /\ call'[p] = "upsert"
    BY <1>0, <1>1 DEF StartUpsert, Begin, Goto
  <2> QED
    BY <2>1 DEF SoundBy
<1>2. CASE StartActivate(p)
  <2>1. pc'[p] = "set" /\ call'[p] = "activate"
    BY <1>0, <1>2 DEF StartActivate, Begin, Goto
  <2> QED
    BY <2>1 DEF SoundBy
<1>3. CASE StartPublish(p)
  <2>1. pc'[p] = "world" /\ call'[p] = "publish" /\ pc[p] = "idle" /\ manifest' = manifest
    BY <1>0, <1>3 DEF StartPublish, Begin, Goto
  <2>2. Listed(manifest'[p]) = {}
    BY <1>0, <2>1 DEF PlacedBy, Listed, NoManifest
  <2> QED
    BY <2>1, <2>2 DEF SoundBy, StoredRows, Listed
<1>4. CASE StartGet(p)
  <2>1. PICK r \in DOMAIN runs : manifest' = [manifest EXCEPT ![p] = runs[r].manifest]
                                 /\ left' = [left EXCEPT ![p] = Listed(runs[r].manifest)]
    BY <1>4 DEF StartGet
  <2>2. pc'[p] = "variants" /\ call'[p] = "get" /\ UNCHANGED row
    BY <1>0, <1>4 DEF StartGet, Begin, Goto, db
  <2>3. manifest'[p] = runs[r].manifest /\ left'[p] = Listed(manifest'[p])
    BY <1>0, <2>1 DEF Listed
  <2>4. StoredRows(runs[r].manifest)
    BY <1>0 DEF StoredRuns
  <2> QED
    BY <2>2, <2>3, <2>4 DEF SoundBy, StoredRows, Listed
<1>5. CASE StartImport(p)
  <2>1. PICK k \in DOMAIN files : /\ files[k] # None
                                  /\ manifest' = [manifest EXCEPT ![p] = k[2]]
                                  /\ contents' = [contents EXCEPT ![p] = files[k]]
    BY <1>5 DEF StartImport
  <2>2. pc'[p] = "next"
    BY <1>0, <1>5 DEF StartImport, Begin, Goto
  <2>3. manifest'[p] = k[2] /\ contents'[p] = files[k]
    BY <1>0, <2>1
  <2>4. SoundRows(k[2], files[k])
    BY <1>0, <2>1 DEF SoundFiles
  <2> QED
    BY <2>2, <2>3, <2>4 DEF SoundBy, SoundRows, Listed
<1>6. CASE ReadWorld(p)
  <2>1. /\ pc[p] = "world" /\ pc'[p] \in {"client", "manifest"} /\ seen'[p] = pointer["world"]
        /\ UNCHANGED <<row, manifest, call>>
    BY <1>0, <1>6 DEF ReadWorld, Goto, db
  <2>2. call[p] # "import"
    BY <1>0, <2>1 DEF PlacedBy
  <2>3. \A q \in Policies : seen'[p][q] # None => row[<<q, seen'[p][q]>>] # NoRow
    BY <1>0, <2>1, PointersStored DEF Scopes
  <2> QED
    BY <1>0, <2>1, <2>2, <2>3 DEF SoundBy, StoredRows, Listed
<1>7. CASE ReadClient(p)
  <2>1. /\ pc[p] = "client" /\ pc'[p] = "manifest"
        /\ seen'[p] = Overlay(seen[p], pointer["client"])
        /\ UNCHANGED <<row, manifest, call>>
    BY <1>0, <1>7 DEF ReadClient, Goto, db
  <2>2. call[p] # "import"
    BY <1>0, <2>1 DEF PlacedBy
  <2>3. ASSUME NEW q \in Policies, seen'[p][q] # None
        PROVE  row[<<q, seen'[p][q]>>] # NoRow
    <3>1. seen'[p][q] = IF pointer["client"][q] # None THEN pointer["client"][q] ELSE seen[p][q]
      BY <2>1 DEF Overlay
    <3>2. "client" \in Scopes
      BY DEF Scopes
    <3> QED
      BY <1>0, <2>1, <2>3, <3>1, <3>2, PointersStored DEF SoundBy
  <2> QED
    BY <1>0, <2>1, <2>2, <2>3 DEF SoundBy, StoredRows, Listed
<1>8. CASE ManifestRow(p)
  <2>1. pc[p] = "manifest" /\ UNCHANGED <<row, call, pc, seen>>
    BY <1>8 DEF ManifestRow, db
  <2>2. PICK q \in left[p] :
          manifest' = [manifest EXCEPT ![p][q] = <<seen[p][q], row[<<q, seen[p][q]>>]>>]
    BY <1>8 DEF ManifestRow
  <2>3. call[p] # "import" /\ q \in Policies
    BY <1>0, <2>1 DEF PlacedBy
  <2>4. /\ manifest'[p][q][1] = seen[p][q]
        /\ \A x \in Policies : x # q => manifest'[p][x] = manifest[p][x]
    BY <1>0, <2>2, <2>3 DEF Manifests
  <2>5. seen[p][q] # None => row[<<q, seen[p][q]>>] # NoRow
    BY <1>0, <2>1, <2>3 DEF SoundBy
  <2>6. StoredRows(manifest[p])
    BY <1>0, <2>1 DEF SoundBy
  <2>7. StoredRows(manifest[p])'
    BY <2>1, <2>4, <2>5, <2>6 DEF StoredRows, Listed
  <2> QED
    BY <1>0, <2>1, <2>3, <2>7 DEF SoundBy
<1>9. CASE Record(p)
  <2>1. /\ pc[p] = "manifest" /\ pc'[p] = "variants" /\ UNCHANGED <<row, call, manifest>>
        /\ left'[p] = Listed(manifest[p])
    BY <1>0, <1>9 DEF Record, Goto
  <2>2. call[p] # "import"
    BY <1>0, <2>1 DEF PlacedBy
  <2> QED
    BY <1>0, <2>1, <2>2 DEF SoundBy, StoredRows, Listed
<1>10. CASE ContentsRow(p)
  <2>1. pc[p] = "variants" /\ UNCHANGED <<row, call, pc, manifest>>
    BY <1>10 DEF ContentsRow, db
  <2>2. PICK q \in left[p] :
          /\ contents' = [contents EXCEPT ![p][q] = row[<<q, manifest[p][q][1]>>]]
          /\ left' = [left EXCEPT ![p] = @ \ {q}]
    BY <1>10 DEF ContentsRow
  <2>3. call[p] # "import"
    BY <1>0, <2>1 DEF PlacedBy
  <2>4. q \in Policies /\ q \in Listed(manifest[p]) /\ manifest[p][q][1] \in Variants
    BY <1>0, <2>1, <2>2, LeftHasVariant DEF Held, HeldBy
  <2>5. row[<<q, manifest[p][q][1]>>] # NoRow
    BY <1>0, <2>1, <2>4 DEF SoundBy, StoredRows
  <2>6. Sound(q, row[<<q, manifest[p][q][1]>>])
    BY <1>0, <2>4, <2>5, StoredIsSound
  <2>7. /\ contents'[p][q] = row[<<q, manifest[p][q][1]>>]
        /\ \A x \in Policies : x # q => contents'[p][x] = contents[p][x]
        /\ left'[p] = left[p] \ {q}
    BY <1>0, <2>2, <2>4
  <2>8. \A x \in Listed(manifest[p]) \ left'[p] : Sound(x, contents'[p][x])
    <3> SUFFICES ASSUME NEW x \in Listed(manifest[p]) \ left'[p]
                 PROVE  Sound(x, contents'[p][x])
      OBVIOUS
    <3>1. CASE x = q
      BY <2>6, <2>7, <3>1
    <3>2. CASE x # q
      <4>1. x \in Policies /\ x \notin left[p] /\ contents'[p][x] = contents[p][x]
        BY <2>7, <3>2 DEF Listed
      <4>2. Sound(x, contents[p][x])
        BY <1>0, <2>1, <4>1 DEF SoundBy
      <4> QED
        BY <4>1, <4>2
    <3> QED
      BY <3>1, <3>2
  <2> QED
    BY <1>0, <2>1, <2>3, <2>8 DEF SoundBy, StoredRows, Listed, Sound
<1>11. CASE OpenArtifact(p)
  <2>1. /\ pc[p] = "variants" /\ left[p] = {} /\ pc'[p] = "fill"
        /\ UNCHANGED <<call, manifest, contents>>
    BY <1>0, <1>11 DEF OpenArtifact, Goto
  <2>2. SoundRows(manifest[p], contents[p])
    BY <1>0, <2>1 DEF SoundBy, SoundRows
  <2> QED
    BY <2>1, <2>2 DEF SoundBy, SoundRows, Listed
\* The rest of a call that fills no manifest: an import keeps its artifact.
<1>12. ASSUME call'[p] = "import" => call[p] = "import" /\ UNCHANGED <<manifest, contents>>,
              pc'[p] \notin {"world", "client", "manifest", "variants", "fill"}
       PROVE  SoundBy(p)'
  BY <1>0, <1>12 DEF SoundBy, SoundRows, Listed
<1>13. CASE ~(StartUpsert(p) \/ StartActivate(p) \/ StartPublish(p) \/ StartGet(p) \/ StartImport(p)
              \/ ReadWorld(p) \/ ReadClient(p) \/ ManifestRow(p) \/ Record(p) \/ ContentsRow(p)
              \/ OpenArtifact(p))
  <2>6. CASE Validate(p)  BY <2>6, <1>0, <1>12 DEF Validate, Goto, Refuse, Finish
  <2>7. CASE WriteVariant(p)  BY <2>7, <1>0, <1>12 DEF WriteVariant, Goto, Finish
  <2>8. CASE SetActivation(p)  BY <2>8, <1>0, <1>12 DEF SetActivation, Goto, Refuse, Finish
  <2>9. CASE ActivationFails(p)  BY <2>9, <1>0, <1>12 DEF ActivationFails, Goto, Refuse, Finish
  <2>10. CASE ReadPointers(p)  BY <2>10, <1>0, <1>12 DEF ReadPointers, Goto
  <2>11. CASE ReadEvents(p)  BY <2>11, <1>0, <1>12 DEF ReadEvents, Goto, Refuse, Finish
  <2>18. CASE FillArtifact(p)  BY <2>18, <1>0, <1>12 DEF FillArtifact, Goto
  <2>19. CASE OpenLatest(p)  BY <2>19, <1>0, <1>12 DEF OpenLatest, Goto
  <2>20. CASE FillLatest(p)  BY <2>20, <1>0, <1>12 DEF FillLatest, Goto, Finish
  <2>21. CASE NextRow(p)  BY <2>21, <1>0, <1>12 DEF NextRow, Goto
  <2>22. CASE ReadCurrent(p)  BY <2>22, <1>0, <1>12 DEF ReadCurrent, Goto
  <2>23. CASE NextPointer(p)  BY <2>23, <1>0, <1>12 DEF NextPointer, Goto
  <2>24. CASE EndImport(p)  BY <2>24, <1>0, <1>12 DEF EndImport, Goto, Finish
  <2>25. CASE Stop(p)  BY <2>25, <1>0, <1>12 DEF Stop, Goto, Forget
  <2>26. CASE Return(p)  BY <2>26, <1>0, <1>12 DEF Return, Goto, Forget
  <2> QED  BY <1>13, <2>6, <2>7, <2>8, <2>9, <2>10, <2>11, <2>18, <2>19, <2>20, <2>21,
         <2>22, <2>23, <2>24, <2>25, <2>26 DEF Step
<1> QED
  BY <1>1, <1>2, <1>3, <1>4, <1>5, <1>6, <1>7, <1>8, <1>9, <1>10, <1>11, <1>13

LEMMA OthersSound ==
  ASSUME IInv, Exported, NEW p \in Procs, Step(p), NEW r \in Procs \ {p}
  PROVE  SoundBy(r)'
<1>0. TypeOK /\ Held /\ SoundBy(r)
  BY DEF IInv, Exported
<1>1. /\ pc'[r] = pc[r] /\ call'[r] = call[r] /\ seen'[r] = seen[r] /\ left'[r] = left[r]
      /\ manifest'[r] = manifest[r] /\ contents'[r] = contents[r]
  BY <1>0, OthersStay, LocalsStay
<1>2. pc[r] \in {"client", "manifest"} =>
        \A q \in Policies : seen[r][q] # None => row'[<<q, seen[r][q]>>] # NoRow
  <2> SUFFICES ASSUME pc[r] \in {"client", "manifest"}, NEW q \in Policies, seen[r][q] # None
               PROVE  row'[<<q, seen[r][q]>>] # NoRow
    OBVIOUS
  <2>1. row[<<q, seen[r][q]>>] # NoRow
    BY <1>0 DEF SoundBy
  <2>2. seen[r] \in Pointers
    BY <1>0 DEF TypeOK, DataOK
  <2>3. seen[r][q] \in Variants
    BY <2>2 DEF Pointers
  <2> QED
    BY <1>0, <2>1, <2>3, Grows
<1>3. ASSUME pc[r] \in {"world", "client", "manifest", "variants"}
      PROVE  StoredRows(manifest[r])'
  <2>1. PICK m \in Manifests : m = manifest[r]
    BY <1>0 DEF TypeOK, DataOK
  <2>2. StoredRows(m)'
    BY <1>0, <1>3, <2>1, StoredRowsStay DEF SoundBy
  <2> QED
    BY <1>1, <2>1, <2>2 DEF StoredRows, Listed
<1> QED
  BY <1>0, <1>1, <1>2, <1>3 DEF SoundBy, SoundRows, Listed

LEMMA FilesSound ==
  ASSUME IInv, Exported, NEW p \in Procs, Step(p)
  PROVE  SoundFiles'
<1>0. TypeOK /\ SoundFiles /\ SoundBy(p)
  BY DEF IInv, Exported
<1> SUFFICES ASSUME NEW k \in DOMAIN files', files'[k] # None
             PROVE  SoundRows(k[2], files'[k])
  BY DEF SoundFiles, SoundRows, Listed
<1>1. CASE k \in DOMAIN files /\ files'[k] = files[k]
  BY <1>0, <1>1 DEF SoundFiles
<1>2. CASE OpenArtifact(p)
  BY <1>1, <1>2 DEF OpenArtifact, PutFile
<1>3. CASE FillArtifact(p)
  <2>1. CASE k = Key(scope[p], manifest[p])
    <3>1. k[2] = manifest[p] /\ files'[k] = contents[p] /\ pc[p] = "fill"
      BY <1>3, <2>1 DEF FillArtifact, PutFile, Key
    <3> QED
      BY <1>0, <3>1 DEF SoundBy
  <2>2. CASE k # Key(scope[p], manifest[p])
    BY <1>1, <1>3, <2>2 DEF FillArtifact, PutFile
  <2> QED
    BY <2>1, <2>2
<1> QED
  BY <1>0, <1>1, <1>2, <1>3, FewFiles

LEMMA RunsStored ==
  ASSUME IInv, Exported, NEW p \in Procs, Step(p)
  PROVE  StoredRuns'
<1>0. TypeOK /\ Held /\ StoredRuns /\ SoundBy(p)
  BY DEF IInv, Exported
<1>1. CASE runs' = runs
  <2> SUFFICES ASSUME NEW r \in DOMAIN runs
               PROVE  StoredRows(runs[r].manifest)'
    BY <1>1 DEF StoredRuns, StoredRows, Listed
  <2>1. PICK m \in Manifests : m = runs[r].manifest
    BY <1>0, TypesOfRows
  <2>2. StoredRows(m)'
    BY <1>0, <2>1, StoredRowsStay DEF StoredRuns
  <2> QED
    BY <1>1, <2>1, <2>2 DEF StoredRows, Listed
<1>2. CASE Record(p)
  <2> DEFINE T == [scope : Scopes, manifest : Manifests]
             new == [scope |-> scope[p], manifest |-> manifest[p]]
  <2>1. runs \in Seq(T) /\ new \in T
    BY <1>0 DEF TypeOK, TablesOK, ControlOK, DataOK
  <2>2. runs' = Append(runs, new) /\ UNCHANGED row /\ pc[p] = "manifest"
    BY <1>2 DEF Record
  <2>3. new.manifest = manifest[p]
    OBVIOUS
  <2> HIDE DEF T, new
  <2>4. \A r \in DOMAIN runs' : (r \in DOMAIN runs /\ runs'[r] = runs[r]) \/ runs'[r] = new
    BY <2>1, <2>2
  <2>5. StoredRows(manifest[p])
    BY <1>0, <2>2 DEF SoundBy
  <2> QED
    BY <1>0, <2>2, <2>3, <2>4, <2>5 DEF StoredRuns, StoredRows, Listed
<1>3. runs' = runs \/ Record(p)
  <2> USE DEF db
  <2>1. CASE StartUpsert(p)  BY <2>1 DEF StartUpsert, Begin, Goto
  <2>2. CASE StartActivate(p)  BY <2>2 DEF StartActivate, Begin, Goto
  <2>3. CASE StartPublish(p)  BY <2>3 DEF StartPublish, Begin, Goto
  <2>4. CASE StartGet(p)  BY <2>4 DEF StartGet, Begin, Goto
  <2>5. CASE StartImport(p)  BY <2>5 DEF StartImport, Begin, Goto
  <2>6. CASE Validate(p)  BY <2>6 DEF Validate, Goto, Refuse, Finish
  <2>7. CASE WriteVariant(p)  BY <2>7 DEF WriteVariant, Goto, Finish
  <2>8. CASE SetActivation(p)  BY <2>8 DEF SetActivation, Goto, Refuse, Finish
  <2>9. CASE ActivationFails(p)  BY <2>9 DEF ActivationFails, Goto, Refuse, Finish
  <2>10. CASE ReadPointers(p)  BY <2>10 DEF ReadPointers, Goto
  <2>11. CASE ReadEvents(p)  BY <2>11 DEF ReadEvents, Goto, Refuse, Finish
  <2>12. CASE ReadWorld(p)  BY <2>12 DEF ReadWorld, Goto
  <2>13. CASE ReadClient(p)  BY <2>13 DEF ReadClient, Goto
  <2>14. CASE ManifestRow(p)  BY <2>14 DEF ManifestRow
  <2>15. CASE Record(p)  BY <2>15
  <2>16. CASE ContentsRow(p)  BY <2>16 DEF ContentsRow
  <2>17. CASE OpenArtifact(p)  BY <2>17 DEF OpenArtifact, Goto
  <2>18. CASE FillArtifact(p)  BY <2>18 DEF FillArtifact, Goto
  <2>19. CASE OpenLatest(p)  BY <2>19 DEF OpenLatest, Goto
  <2>20. CASE FillLatest(p)  BY <2>20 DEF FillLatest, Goto, Finish
  <2>21. CASE NextRow(p)  BY <2>21 DEF NextRow, Goto
  <2>22. CASE ReadCurrent(p)  BY <2>22 DEF ReadCurrent, Goto
  <2>23. CASE NextPointer(p)  BY <2>23 DEF NextPointer, Goto
  <2>24. CASE EndImport(p)  BY <2>24 DEF EndImport, Goto, Finish
  <2>25. CASE Stop(p)  BY <2>25 DEF Stop, Goto, Forget
  <2>26. CASE Return(p)  BY <2>26 DEF Return, Goto, Forget
  <2> QED  BY <2>1, <2>2, <2>3, <2>4, <2>5, <2>6, <2>7, <2>8, <2>9, <2>10, <2>11,
         <2>12, <2>13, <2>14, <2>15, <2>16, <2>17, <2>18, <2>19, <2>20, <2>21, <2>22,
         <2>23, <2>24, <2>25, <2>26 DEF Step
<1> QED
  BY <1>1, <1>2, <1>3
-----------------------------------------------------------------------------
(* An import of an artifact that holds what its rows refer to *)

\* No policy is of the one Layer 1 type that _import_priority_for_policy_row does
\* not know; what other databases exported was validated there.
NoLocations   == \A q \in Policies : PolicyType[q] # "location"
MirrorIsSound == \A k \in DOMAIN Mirror : SoundRows(k[2], Mirror[k])

Closed(p) ==
  \A q \in Listed(manifest[p]) : \A ref \in contents[p][q].refs : manifest[p][ref[1]][1] = ref[2]

ErrorFreeBy(p) ==
  clean[p] /\ call[p] = "import" /\ Closed(p) =>
    /\ errors[p] = 0
    /\ pc[p] = "validate" => \A r \in left[p] : Priority(target[p][1]) <= Priority(r)

\* Layer 1 rows come before Layer 2 rows.
LEMMA LayersInOrder ==
  ASSUME NoLocations, NEW q \in Layer1, NEW r \in Layer2
  PROVE  ~(Priority(r) <= Priority(q))
<1>1. PolicyType[q] \in {"image_block", "species_block", "clothing_block", "prompt", "tone_profile"}
  BY DEF NoLocations, Layer1, Layer1Types
<1>2. PolicyType[r] \in {"descriptor_layer", "registry"}
  BY DEF Layer2, Layer2Types
<1>3. Priority(q) \in {10, 20, 30, 40, 50}
  BY <1>1 DEF Priority, ByType
<1>4. Priority(r) \in {80, 90}
  BY <1>2 DEF Priority, ByType
<1> QED
  BY <1>3, <1>4

\* What a Layer 2 row of the artifact refers to was imported before it.
LEMMA TargetIsValid ==
  ASSUME NoLocations, TypeOK, NEW p \in Procs, ImportBy(p), SoundBy(p), ErrorFreeBy(p),
         clean[p], call[p] = "import", Closed(p), pc[p] = "validate"
  PROVE  Valid(target[p][1], content[p])
<1>1. AcceptedBy(p) /\ TargetBy(p) /\ RowsBy(p) /\ errors[p] = 0
  BY DEF ImportBy, ErrorFreeBy
<1>2. PICK q \in Listed(manifest[p]) \ left[p] :
        target[p] = <<q, manifest[p][q][1]>> /\ content[p] = contents[p][q]
  BY <1>1 DEF TargetBy
<1>3. q \in Policies /\ target[p][1] = q
  BY <1>2 DEF Listed
<1>4. \A x \in Listed(manifest[p]) : Sound(x, contents[p][x])
  BY DEF SoundBy, SoundRows
<1>5. Sound(q, contents[p][q])
  BY <1>2, <1>4
<1>6. ASSUME q \in Layer2, NEW ref \in contents[p][q].refs
      PROVE  ref[1] \in Layer1 /\ row[ref] # NoRow
  <2>1. contents[p][q] \in Content
    BY <1>3 DEF TypeOK, DataOK
  <2>2. ref \in Policies \X Variants
    BY <1>6, <2>1 DEF Content
  <2>3. PICK x \in Policies, v \in Variants : ref = <<x, v>>
    BY <2>2
  <2>4. x \in Layer1
    BY <1>5, <1>6, <2>3 DEF Sound
  <2>5. manifest[p][x][1] = v
    BY <1>2, <1>6, <2>3 DEF Closed
  <2>6. x \in Listed(manifest[p])
    BY <2>5, NoneIsNone DEF Listed
  <2>7. x \notin left[p]
    <3>1. \A r \in left[p] : Priority(q) <= Priority(r)
      BY <1>3 DEF ErrorFreeBy
    <3> QED
      BY <1>6, <2>4, <3>1, LayersInOrder
  <2>8. x # q
    BY <1>6, <2>4 DEF Layer1, Layer2, Layer1Types, Layer2Types
  <2>9. accepted[p][x] = v
    BY <1>1, <1>3, <2>5, <2>6, <2>7, <2>8 DEF RowsBy, RowPhase
  <2>10. row[<<x, v>>] = contents[p][x]
    BY <1>1, <2>9, NoneIsNone DEF AcceptedBy
  <2>11. contents[p][x] # NoRow
    BY <1>4, <2>6, SoundIsRow
  <2> QED
    BY <2>3, <2>4, <2>10, <2>11
<1> QED
  BY <1>2, <1>3, <1>5, <1>6 DEF Valid, Sound

LEMMA ErrorFreeKept ==
  ASSUME NoLocations, IInv, Calls, Watched, Exported, NEW p \in Procs, ImportBy(p),
         ErrorFreeBy(p), Step(p)
  PROVE  ErrorFreeBy(p)'
<1> SUFFICES ASSUME clean'[p], call'[p] = "import", Closed(p)'
             PROVE  /\ errors'[p] = 0
                    /\ pc'[p] = "validate" =>
                         \A r \in left'[p] : Priority(target'[p][1]) <= Priority(r)
  BY DEF ErrorFreeBy, Priority
<1> USE DEF TypeOK, ControlOK, DataOK
<1>0. /\ TypeOK /\ Held /\ PointersReplay /\ SoundBy(p) /\ WatchedBy(p)
      /\ ControlOK /\ DataOK /\ TablesOK
  BY DEF IInv, Exported, Watched
<1>1. CASE StartImport(p)
  <2>1. pc[p] = "idle" /\ pc'[p] = "next" /\ UNCHANGED errors
    BY <1>0, <1>1 DEF StartImport, Begin, Goto
  <2> QED
    BY <2>1 DEF Calls, PlacedBy
<1>2. ASSUME call[p] = "import", clean[p], UNCHANGED <<manifest, contents>>
      PROVE  Closed(p) /\ errors[p] = 0 /\ AcceptedBy(p) /\ TargetBy(p)
  <2>1. Closed(p)
    BY <1>2 DEF Closed, Listed
  <2> QED
    BY <1>2, <2>1 DEF ErrorFreeBy, ImportBy
<1>3. ASSUME Validate(p), call[p] = "import"
      PROVE  errors'[p] = 0 /\ pc'[p] # "validate"
  <2>1. pc[p] = "validate" /\ clean[p] /\ UNCHANGED <<manifest, contents>>
    BY <1>3 DEF Validate
  <2>2. Closed(p) /\ errors[p] = 0
    BY <1>2, <1>3, <2>1
  <2>3. Valid(target[p][1], content[p])
    BY <1>0, <1>3, <2>1, <2>2, TargetIsValid
  <2> QED
    BY <1>0, <1>3, <2>2, <2>3 DEF Validate, Goto
<1>4. ASSUME WriteVariant(p), call[p] = "import"
      PROVE  errors'[p] = 0 /\ pc'[p] # "validate"
  BY <1>0, <1>2, <1>4 DEF WriteVariant, Goto
<1>5. ASSUME SetActivation(p), call[p] = "import"
      PROVE  errors'[p] = 0 /\ pc'[p] # "validate"
  <2>1. pc[p] = "set" /\ clean[p] /\ UNCHANGED <<manifest, contents>>
    BY <1>5 DEF SetActivation
  <2>2. errors[p] = 0 /\ AcceptedBy(p) /\ TargetBy(p)
    BY <1>2, <1>5, <2>1
  <2>3. PICK q \in Policies : target[p] = <<q, accepted[p][q]>>
    BY <2>1, <2>2 DEF TargetBy
  <2>4. accepted[p][q] # None
    <3>1. target[p] \in Policies \X Variants
      BY <1>0, <2>1 DEF Held, HeldBy
    <3> QED
      BY <2>3, <3>1, NoneIsNone
  <2>5. row[target[p]] = contents[p][q] /\ q \in Listed(manifest[p])
    BY <2>2, <2>3, <2>4 DEF AcceptedBy, Listed
  <2>6. row[target[p]] # NoRow
    BY <1>0, <1>5, <2>5, SoundIsRow DEF SoundBy, SoundRows
  <2> QED
    BY <1>0, <1>5, <2>2, <2>6 DEF SetActivation, Goto
<1>6. ASSUME ActivationFails(p)
      PROVE  FALSE
  BY <1>0, <1>6 DEF ActivationFails
<1>7. ASSUME ReadPointers(p), call[p] = "import"
      PROVE  errors'[p] = 0 /\ pc'[p] # "validate"
  BY <1>0, <1>2, <1>7 DEF ReadPointers, Goto
<1>8. ASSUME ReadEvents(p), call[p] = "import"
      PROVE  errors'[p] = 0 /\ pc'[p] # "validate"
  <2>1. pc[p] = "events" /\ clean[p] /\ UNCHANGED <<manifest, contents>>
    BY <1>8 DEF ReadEvents
  <2>2. seen[p] = Replay(scope[p])
    BY <1>0, <2>1 DEF WatchedBy, PointersReplay
  <2> QED
    BY <1>0, <1>2, <1>8, <2>1, <2>2 DEF ReadEvents, Goto
<1>9. ASSUME NextRow(p), call[p] = "import"
      PROVE  /\ errors'[p] = 0
             /\ pc'[p] = "validate" =>
                  \A r \in left'[p] : Priority(target'[p][1]) <= Priority(r)
  <2>1. pc[p] = "next" /\ clean[p] /\ UNCHANGED <<manifest, contents, errors>>
    BY <1>9 DEF NextRow
  <2>2. PICK q \in FirstRows(left[p]) : /\ left' = [left EXCEPT ![p] = @ \ {q}]
                                        /\ target' = [target EXCEPT ![p] = <<q, manifest[p][q][1]>>]
    BY <1>9 DEF NextRow
  <2>3. left'[p] = left[p] \ {q} /\ target'[p] = <<q, manifest[p][q][1]>>
    BY <1>0, <2>2
  <2>4. \A r \in left[p] : Priority(q) <= Priority(r)
    BY <2>2 DEF FirstRows
  <2>5. target'[p][1] = q
    BY <2>3
  <2> QED
    BY <1>2, <1>9, <2>1, <2>3, <2>4, <2>5
<1>10. ASSUME ReadCurrent(p), call[p] = "import"
       PROVE  errors'[p] = 0 /\ pc'[p] # "validate"
  BY <1>0, <1>2, <1>10 DEF ReadCurrent, Goto
<1>11. ASSUME NextPointer(p), call[p] = "import"
       PROVE  errors'[p] = 0 /\ pc'[p] # "validate"
  BY <1>0, <1>2, <1>11 DEF NextPointer, Goto
<1>12. ASSUME EndImport(p), call[p] = "import"
       PROVE  errors'[p] = 0 /\ pc'[p] # "validate"
  BY <1>0, <1>2, <1>12 DEF EndImport, Finish, Goto
<1> QED
  BY <1>0, <1>1, <1>3, <1>4, <1>5, <1>6, <1>7, <1>8, <1>9, <1>10, <1>11, <1>12, ImportSteps

LEMMA OthersErrorFree ==
  ASSUME TypeOK, NEW p \in Procs, Step(p), NEW r \in Procs \ {p}, ErrorFreeBy(r)
  PROVE  ErrorFreeBy(r)'
<1>1. /\ pc'[r] = pc[r] /\ target'[r] = target[r] /\ (clean'[r] => clean[r])
      /\ call'[r] = call[r] /\ left'[r] = left[r] /\ errors'[r] = errors[r]
      /\ manifest'[r] = manifest[r] /\ contents'[r] = contents[r]
  BY OthersStay, LocalsStay
<1>2. Closed(r)' <=> Closed(r)
  BY <1>1 DEF Closed, Listed
<1> QED
  BY <1>1, <1>2 DEF ErrorFreeBy, Priority

ImportInv ==
  Calls /\ Watched /\ Exported /\ \A p \in Procs : ImportBy(p) /\ ErrorFreeBy(p)

\* An import that no other call overlapped did what it reports: the rows it
\* accepted are stored as the artifact has them, without errors all of them are,
\* and active; and if the artifact holds what its rows refer to there are no
\* errors, as long as it holds no location and was exported by this code.
THEOREM ImportIsSound ==
  ASSUME NoLocations, MirrorIsSound
  PROVE  Spec => []ImportHolds
<1>1. Init => ImportInv
  <2> SUFFICES ASSUME Init
               PROVE  ImportInv
    OBVIOUS
  <2>1. /\ pc = [p \in Procs |-> "idle"] /\ call = [p \in Procs |-> "none"]
        /\ outcome = [p \in Procs |-> "none"]
        /\ runs = <<>> /\ files = Mirror
    BY DEF Init
  <2>2. Calls
    BY DEF Init, Calls, AloneBy, PlacedBy
  <2>3. Watched
    BY <2>1 DEF Watched, WatchedBy, Busy
  <2>4. Exported
    <3>1. SoundFiles
      BY <2>1 DEF SoundFiles, MirrorIsSound
    <3>2. StoredRuns
      BY <2>1 DEF StoredRuns
    <3>3. \A p \in Procs : SoundBy(p)
      BY <2>1 DEF SoundBy
    <3> QED
      BY <3>1, <3>2, <3>3 DEF Exported
  <2>5. \A p \in Procs : ImportBy(p) /\ ErrorFreeBy(p)
    BY <2>1 DEF ImportBy, ErrorFreeBy
  <2> QED
    BY <2>2, <2>3, <2>4, <2>5 DEF ImportInv
<1>2. IInv /\ ImportInv /\ [Next]_vars => ImportInv'
  <2> SUFFICES ASSUME IInv, ImportInv, [Next]_vars
               PROVE  ImportInv'
    OBVIOUS
  <2>1. ASSUME NEW p \in Procs, Step(p)
        PROVE  ImportInv'
    <3>1. /\ TypeOK /\ Held /\ PointersReplay /\ Calls /\ Watched /\ Exported
          /\ \A r \in Procs : ImportBy(r) /\ ErrorFreeBy(r)
      BY DEF IInv, ImportInv
    <3>2. Calls' /\ Watched'
      BY <2>1, <3>1, CallsKept, WatchedKept
    <3>3. Exported'
      BY <2>1, <3>1, SoundKept, OthersSound, FilesSound, RunsStored DEF Exported
    <3>4. ASSUME NEW r \in Procs
          PROVE  ImportBy(r)' /\ ErrorFreeBy(r)'
      <4>1. CASE r = p
        BY <2>1, <3>1, <4>1, ImportKept, ErrorFreeKept
      <4>2. CASE r # p
        BY <2>1, <3>1, <4>2, OthersImport, OthersErrorFree
      <4> QED
        BY <4>1, <4>2
    <3> QED
      BY <3>2, <3>3, <3>4 DEF ImportInv
  <2>2. CASE UNCHANGED vars
    <3> USE <2>2 DEF vars, db, disk, local
    <3>1. Calls' /\ Watched'
      BY DEF ImportInv, Calls, AloneBy, PlacedBy, Busy, Watched, WatchedBy, Audited, Event
    <3>2. Exported'
      BY DEF ImportInv, Exported, SoundFiles, StoredRuns, SoundBy, SoundRows, StoredRows, Listed
    <3>3. \A p \in Procs : ImportBy(p)'
      BY DEF ImportInv, ImportBy, AcceptedBy, TargetBy, RowsBy, PointedBy, Listed
    <3>4. \A p \in Procs : ErrorFreeBy(p)'
      BY DEF ImportInv, ErrorFreeBy, Closed, Listed, Priority
    <3> QED
      BY <3>1, <3>2, <3>3, <3>4 DEF ImportInv
  <2> QED
    BY <2>1, <2>2 DEF Next
<1>3. IInv /\ ImportInv => ImportHolds
  <2> SUFFICES ASSUME IInv, ImportInv
               PROVE  ImportHolds
    OBVIOUS
  <2>1. ASSUME NEW p \in Procs, Ended(p, "import")
        PROVE  /\ AcceptedBy(p) /\ RowsBy(p) /\ PointedBy(p) /\ pc[p] = "done"
               /\ Closed(p) => errors[p] = 0
    BY <2>1 DEF ImportInv, ImportBy, ErrorFreeBy, Ended
  <2>2. ImportTookEffect
    BY <2>1 DEF ImportTookEffect, AcceptedBy, RowsBy, PointedBy
  <2>3. ClosedArtifactImports
    BY <2>1 DEF ClosedArtifactImports, Closed
  <2> QED
    BY <2>2, <2>3 DEF ImportHolds
<1> QED
  BY <1>1, <1>2, <1>3, InitHolds, NextHolds, PTL DEF Spec
=============================================================================
