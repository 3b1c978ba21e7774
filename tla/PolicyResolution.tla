-------------------------- MODULE PolicyResolution --------------------------
(***************************************************************************)
(* What the runtime reads from the activated policies of a scope: the      *)
(* prompt template, the axis bundle that the manifest selects, and the     *)
(* diagnostic image bundle.  A policy state p has                          *)
(*   p.effective  the rows [type, key, variant] the scope resolves to      *)
(*   p.content    the content of a row: NULL when there is no such variant,*)
(*                otherwise whether it is an object, has its text, and has *)
(*                the three objects of an axis bundle                      *)
(*   p.manifest   the manifest of the effective manifest bundle, NULL when *)
(*                there is none; valid when it is an object.               *)
(* An error is a record with an HTTP status; a result has status 200.      *)
(***************************************************************************)
EXTENDS Absent, FiniteSets

\* None is neither a text, nor a selector or a row.
ASSUME NullIsNoText ==
  /\ NULL \notin STRING /\ NULL \notin [type : {"prompt"}, key : STRING]
  /\ NULL \notin [type : STRING, key : STRING, variant : STRING]

Error(status, code) == [status |-> status, code |-> code]

IsObject(content) == content # NULL /\ content.object

\* resolve_effective_policy_activations: the variants that a client profile's pointers
\* name, and the world's for the policies, each a type and a key, without one.
EffectiveRows(world, client) ==
  {[type |-> q.type, key |-> q.key, variant |-> IF q \in DOMAIN client THEN client[q] ELSE world[q]] :
     q \in DOMAIN world \cup DOMAIN client}

OfType(p, type) == {row \in p.effective : row.type = type}

RowOf(p, type, key) ==
  LET rows == {row \in OfType(p, type) : row.key = key}
  IN IF rows = {} THEN NULL ELSE CHOOSE row \in rows : TRUE

\* Mutant of SelectRow: without a preference the first of several is taken.
SelectAnyRow(p, type, preferred) ==
  IF preferred # NULL THEN RowOf(p, type, preferred)
  ELSE IF OfType(p, type) # {} THEN CHOOSE row \in OfType(p, type) : TRUE ELSE NULL

\* _select_effective_row: the preferred policy, or the only one.
SelectRow(p, type, preferred) ==
  IF preferred # NULL THEN RowOf(p, type, preferred)
  ELSE IF Cardinality(OfType(p, type)) = 1 THEN CHOOSE row \in OfType(p, type) : TRUE ELSE NULL

\* resolve_effective_prompt_template; a selector is a [type, key].
PromptTemplate(p, selector) ==
  IF selector # NULL /\ selector.type # "prompt" THEN Error(422, "SELECTOR_INVALID")
  ELSE LET row == SelectRow(p, "prompt", IF selector = NULL THEN NULL ELSE selector.key)
       IN IF row = NULL
          THEN IF selector = NULL /\ OfType(p, "prompt") # {}
               THEN Error(409, "AMBIGUOUS") ELSE Error(404, "NOT_FOUND")
          ELSE IF p.content[row] = NULL THEN Error(409, "REFERENCE_MISSING")
          ELSE IF ~IsObject(p.content[row]) \/ ~p.content[row].text THEN Error(422, "INVALID")
          ELSE [status |-> 200, row |-> row]

\* _get_effective_manifest_payload.
ManifestError(p) ==
  IF p.manifest = NULL THEN Error(404, "MANIFEST_NOT_FOUND")
  ELSE IF ~p.manifest.valid THEN Error(409, "MANIFEST_INVALID") ELSE NULL

\* resolve_positive_int_version with its default.
Version(m) == IF m.axis.version = NULL THEN "v1" ELSE m.axis.version

\* resolve_effective_axis_bundle; a malformed version is a ValueError that no
\* caller expects.
AxisBundle(p) ==
  LET m == p.manifest
      row == RowOf(p, "axis_bundle", m.axis.id)
  IN IF ManifestError(p) # NULL THEN ManifestError(p)
     ELSE IF m.axis = NULL \/ m.axis.id = NULL THEN Error(409, "MANIFEST_INVALID")
     ELSE IF m.axis.version = "malformed" THEN Error(500, "ValueError")
     ELSE IF row = NULL THEN Error(404, "AXIS_BUNDLE_NOT_FOUND")
     ELSE IF p.content[row] = NULL THEN Error(409, "REFERENCE_MISSING")
     ELSE IF row.variant # Version(m) THEN Error(409, "VERSION_MISMATCH")
     ELSE IF ~IsObject(p.content[row]) \/ ~p.content[row].whole THEN Error(409, "AXIS_BUNDLE_INVALID")
     ELSE [status |-> 200, bundle |-> m.axis.id, version |-> Version(m), row |-> row]

\* _get_axis_policy_hash, that the snapshots of the characters carry: what it
\* hashes besides the manifest, NULL when there is no hash.  It does not compare
\* versions, nor look into the bundle.
PolicyHash(p) ==
  LET m == p.manifest
      row == RowOf(p, "axis_bundle", m.axis.id)
  IN IF ManifestError(p) # NULL THEN NULL
     ELSE IF m.axis = NULL \/ m.axis.id = NULL THEN NULL
     ELSE IF row = NULL THEN NULL
     ELSE IF IsObject(p.content[row]) THEN row ELSE NULL

\* The four policies an image prompt is made of, with the policy the manifest, or
\* the code, prefers of each type.
ImageParts(p) ==
  [descriptor |-> <<"descriptor_layer", p.manifest.descriptor>>,
   tone       |-> <<"tone_profile", p.manifest.tone>>,
   species    |-> <<"registry", "species_registry">>,
   clothing   |-> <<"registry", "clothing_registry">>]

\* _resolve_effective_policy_payload says nothing against a part.
PartFound(p, part) ==
  LET of == ImageParts(p)[part]
      row == SelectRow(p, of[1], of[2])
  IN row # NULL /\ IsObject(p.content[row])

\* resolve_effective_image_policy_bundle: the missing components, or the error.
ImageBundle(p) ==
  IF ManifestError(p) # NULL THEN ManifestError(p)
  ELSE IF AxisBundle(p).status = 500 THEN AxisBundle(p)
  ELSE [status  |-> 200,
        missing |-> {part \in DOMAIN ImageParts(p) : ~PartFound(p, part)}
                    \cup (IF p.manifest.order = NULL THEN {"order"} ELSE {})
                    \cup (IF p.manifest.inputs = NULL THEN {"inputs"} ELSE {})
                    \cup (IF AxisBundle(p).status # 200 THEN {"axis_bundle"} ELSE {})]
=============================================================================
