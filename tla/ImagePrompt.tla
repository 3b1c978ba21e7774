---------------------------- MODULE ImagePrompt ----------------------------
(***************************************************************************)
(* The image prompt compiler of the lab routes: one species block, one     *)
(* clothing block for each slot, put together in the order the manifest    *)
(* gives.  A prompt is a sequence of blocks, a block the texts it is made  *)
(* of; a block of no text shows nothing.  A registry entry has             *)
(*   status, block, genders, species, when, priority, id, text             *)
(* where genders, species and the conditions of when are NULL for "any",   *)
(* and text is what its policy_ref resolves to, NULL if it does not.       *)
(***************************************************************************)
EXTENDS PolicyResolution, SequencesExt

\* Nor is it one of the reasons the compiler has to refuse.
ASSUME NullIsNoReason ==
  NULL \notin {"manifest", "order", "inputs", "descriptor", "tone", "species", "clothing", "runtime inputs",
              "no species", "species text", "clothing text", "TypeError"}

Allows(values, x) == values = NULL \/ x \in values

\* The compiler's own row lookup: as in the diagnostics, but the row is read
\* whatever its content.
CompilePart(p, part) ==
  LET of == ImageParts(p)[part]
      row == SelectRow(p, of[1], of[2])
  IN IF row = NULL THEN NULL ELSE p.content[row]

\* The first thing that keeps the compiler from choosing blocks; NULL if nothing.
CompileRefusal(p) ==
  LET part(name) == CompilePart(p, name)
  IN IF ManifestError(p) # NULL THEN "manifest"
     ELSE FirstOf(<<
       IF p.manifest.order = NULL \/ p.manifest.order = <<>> THEN "order" ELSE NULL,
       IF p.manifest.inputs = NULL THEN "inputs" ELSE NULL,
       IF part("descriptor") = NULL THEN "descriptor" ELSE NULL,
       IF part("tone") = NULL THEN "tone" ELSE NULL,
       IF part("species") = NULL THEN "species" ELSE NULL,
       IF part("clothing") = NULL THEN "clothing" ELSE NULL,
       IF ~IsObject(part("descriptor")) \/ ~part("descriptor").text THEN "descriptor" ELSE NULL,
       IF ~IsObject(part("tone")) THEN "tone" ELSE NULL,
       IF ~IsObject(part("species")) THEN "species" ELSE NULL,
       IF ~IsObject(part("clothing")) THEN "clothing" ELSE NULL>>)

\* _validate_compile_runtime_inputs.
MissingInputs(required, given) == (required \cap {"species", "gender", "axes"}) \ given

-----------------------------------------------------------------------------
Active(e, block) == e.status = "active" /\ e.block = block

\* _select_species_entry: priority first, then the id; the first of equals.
SpeciesMatches(e, r) ==
  /\ Active(e, "species")
  /\ Allows(e.species, r.species) /\ Allows(e.genders, r.gender) /\ Allows(e.when.species, r.species)

SelectSpecies(entries, r) ==
  LET fits == {i \in DOMAIN entries : SpeciesMatches(entries[i], r)}
      Before(i, j) == \/ entries[i].priority > entries[j].priority
                      \/ /\ entries[i].priority = entries[j].priority
                         /\ entries[i].id < entries[j].id \/ (entries[i].id = entries[j].id /\ i <= j)
  IN IF fits = {} THEN NULL ELSE entries[CHOOSE i \in fits : \A j \in fits : Before(i, j)]

\* _matches_clothing_rules.
ClothingMatches(e, r) ==
  /\ Active(e, "clothing_fragment")
  /\ Allows(e.genders, r.gender)
  /\ Allows(e.when.wealth, r.wealth)
  /\ e.when.world = NULL \/ e.when.world \cap r.world # {}
  /\ e.when.occupation = NULL \/ e.when.occupation \cap r.occupation # {}

\* Mutant of Rank: fallbacks compete on priority.
RankByPriority(e) == <<0, e.priority, e.id>>

Rank(e) == <<IF e.when.fallback THEN 0 ELSE 1, e.priority, e.id>>

Outranks(a, b) ==
  \/ a[1] > b[1]
  \/ a[1] = b[1] /\ a[2] > b[2]
  \/ a[1] = b[1] /\ a[2] = b[2] /\ a[3] < b[3]

\* _select_clothing_slot_entry sorts tuples that end in the entry itself: two
\* that agree in rank and id make it compare dictionaries, a TypeError.
Tied(entries, r) ==
  \E e, f \in Range(entries) :
    e # f /\ ClothingMatches(e, r) /\ ClothingMatches(f, r) /\ Rank(e) = Rank(f)

SelectClothing(entries, r) ==
  LET fits == {e \in Range(entries) : ClothingMatches(e, r)}
  IN IF fits = {} THEN NULL
     ELSE CHOOSE e \in fits : \A f \in fits \ {e} : Outranks(Rank(e), Rank(f))

\* _select_clothing_blocks: slot by slot, the first failure ends it.
SlotRefusal(entries, r) ==
  IF Tied(entries, r) THEN "TypeError"
  ELSE LET worn == SelectClothing(entries, r)
       IN IF worn # NULL /\ worn.text = NULL THEN "clothing text" ELSE NULL

Clothing(slots, r) ==
  LET worn == [s \in DOMAIN slots |-> SelectClothing(slots[s], r)]
  IN [s \in {i \in DOMAIN slots : worn[i] # NULL} |-> worn[s].text]

\* _compile_image_prompt: the refusal, or the blocks in their order.  The request
\* r carries the entries of the registries that the rows hold.
Compile(p, r) ==
  LET species == SelectSpecies(r.speciesEntries, r)
      refusal == IF CompileRefusal(p) # NULL THEN CompileRefusal(p)
                 ELSE FirstOf(<<
        IF MissingInputs(p.manifest.inputs, r.given) # {} THEN "runtime inputs" ELSE NULL,
        IF species = NULL THEN "no species" ELSE NULL,
        IF species # NULL /\ species.text = NULL THEN "species text" ELSE NULL>>
        \o [s \in DOMAIN r.slots |-> SlotRefusal(r.slots[s], r)])
      Block(name) == CASE name = "species_canon_block"     -> <<species.text>>
                       [] name = "descriptor_layer_output" -> <<"descriptor">>
                       [] name = "clothing_block"          -> Clothing(r.slots, r)
                       [] name = "tone_profile_block"      -> r.tone
                       [] OTHER                            -> <<>>
  IN IF refusal # NULL THEN [refused |-> refusal, prompt |-> <<>>]
     ELSE [refused |-> NULL,
           prompt |-> [i \in DOMAIN p.manifest.order |-> Block(p.manifest.order[i])]]

-----------------------------------------------------------------------------
\* Four lookups of one policy state agree.  What the diagnostics call complete the
\* compiler accepts, provided that the descriptor has text and the order is not
\* empty, which only the compiler asks for; what it accepts lacks at most the axis
\* bundle, which only the diagnostics ask for.  The bundle the runtime serves is
\* the one the snapshots' hash covers.  And a prompt found without being named is
\* the one that naming it finds.
LookupsAgree(p) ==
  LET said == ImageBundle(p)
  IN /\ said.status = 200 =>
          (CompileRefusal(p) = NULL
             <=> /\ said.missing \subseteq {"axis_bundle"}
                 /\ CompilePart(p, "descriptor").text
                 /\ p.manifest.order # <<>>)
     /\ AxisBundle(p).status = 200 => PolicyHash(p) = AxisBundle(p).row
     /\ \A row \in OfType(p, "prompt") :
          LET named == PromptTemplate(p, [type |-> "prompt", key |-> row.key])
          IN PromptTemplate(p, NULL) = IF OfType(p, "prompt") = {row} THEN named
                                       ELSE Error(409, "AMBIGUOUS")

\* What a compiled prompt shows: in each slot no entry whose conditions hold is passed
\* over for a fallback, or for one of lower priority, and a slot that something fits
\* is not left bare; a request trips over two entries only if they share priority
\* and id.
BestIsWorn(p, r) ==
  LET made == Compile(p, r)
      Fits(s) == {e \in Range(r.slots[s]) : ClothingMatches(e, r)}
      Beaten(e, f) == /\ f.when.fallback => e.when.fallback
                      /\ (e.when.fallback = f.when.fallback) => e.priority <= f.priority
  IN /\ made.refused = "TypeError" =>
          \E s \in DOMAIN r.slots : \E e, f \in Range(r.slots[s]) :
            e # f /\ e.id = f.id /\ e.priority = f.priority
     /\ (made.refused = NULL /\ "clothing_block" \in Range(p.manifest.order)) =>
          \A s \in DOMAIN r.slots :
            Fits(s) # {} => \E f \in Fits(s) : /\ \E i \in DOMAIN made.prompt : f.text \in Range(made.prompt[i])
                                              /\ \A e \in Fits(s) : Beaten(e, f)
=============================================================================
