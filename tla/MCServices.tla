----------------------------- MODULE MCServices -----------------------------
(***************************************************************************)
(* Small accounts, policies, sheets and files for the services, and tables *)
(* of inputs for the functions.                                            *)
(***************************************************************************)
EXTENDS ServiceCalls, TLC

\* A function without the entries whose value is "-".
Present(f) == [x \in {y \in DOMAIN f : f[y] # "-"} |-> f[x]]

-----------------------------------------------------------------------------
\* Access: an invite-only world of generated names, an open one of given names.
McWorlds       == {"w1", "w2"}
McCreationMode == [w \in McWorlds |-> IF w = "w1" THEN "invite" ELSE "open"]
McNamingMode   == [w \in McWorlds |-> IF w = "w1" THEN "generated" ELSE "manual"]
McSlotLimit    == [w \in McWorlds |-> 1]
McInvitations  == {<<"ann", "w1">>}

\* Axes: one name in two spellings, and another axis.
McNames == {"wealth", "Wealth", "age"}
McToken == [n \in McNames |-> IF n = "Wealth" THEN "wealth" ELSE n]

Bounds(a, b) == [min |-> a, max |-> b]
Graded3 == [low |-> Bounds(0, 2), mid |-> Bounds(2, 6), high |-> Bounds(6, 8)]
Graded2 == [low |-> Bounds(NULL, 3), high |-> Bounds(5, 8), odd |-> Bounds(NULL, NULL)]
Thresholds == [axes |-> [wealth |-> <<"low", "mid", "high">>], thresholds |-> [wealth |-> Graded3]]
HalfOpen   == [axes |-> [wealth |-> <<"low", "high">>, age |-> <<"new", "mid", "old">>],
               thresholds |-> [wealth |-> Graded2]]
Ordering   == [axes |-> [wealth |-> <<"low", "mid", "high">>], thresholds |-> <<>>]
MixedCase  == [axes |-> [Wealth |-> <<"low", "high">>], thresholds |-> [Wealth |-> Graded3]]

Value(s, l) == [score |-> s, label |-> l]
NoValue == Value(NULL, NULL)
\* A payload from the values of "wealth" in the three groups, and two others.
PayloadOf(a, c, o, mixed, age) ==
  [g \in {"axes", "character", "occupation"} |->
     [n \in McNames |->
        IF n = "wealth" THEN (CASE g = "axes" -> a [] g = "character" -> c [] g = "occupation" -> o)
        ELSE IF g # "axes" THEN NoValue ELSE IF n = "age" THEN age ELSE mixed]]

McBundles  == {"b1", "b2"}
McPolicy   == [b \in McBundles |-> IF b = "b1" THEN Thresholds ELSE HalfOpen]
McPayloads == {PayloadOf(NoValue, NoValue, NoValue, NoValue, NoValue),
               PayloadOf(NoValue, Value(5, "low"), NoValue, NoValue, NoValue),
               PayloadOf(Value(NULL, "high"), NoValue, NoValue, NoValue, Value(3, NULL))}
McPayloadInputs ==
  {<<policy, PayloadOf(a, c, o, mixed, age)>> :
     policy \in {Thresholds, HalfOpen, Ordering, MixedCase},
     a \in {Value(s, l) : s \in {NULL, 1}, l \in {NULL, "low", "odd"}},
     c \in {Value(s, l) : s \in {NULL, 2}, l \in {NULL, "high"}},
     o \in {Value(s, l) : s \in {NULL, 9}, l \in {NULL, "mid"}},
     mixed \in {NoValue, Value(NULL, "low")}, age \in {NoValue, Value(NULL, "old")}}

McRegistries == {Thresholds, HalfOpen}
McEntities   == {PayloadOf(Value(NULL, "high"), Value(NULL, "low"), NoValue, NoValue, NoValue),
                 PayloadOf(NoValue, Value(NULL, "low"), Value(NULL, "mid"), NoValue, Value(NULL, "old"))}
McShifts     == {[wealth |-> -3]}

\* Translation.
McSheets == {NULL,
             [wealth |-> [label |-> "low", score |-> 1]],
             [wealth |-> [label |-> "high", score |-> 7], age |-> [label |-> NULL, score |-> 3]]}
Line(k, n, q) == [kind |-> k, length |-> n, quoted |-> q]
McRaws == {<<Line("speech", 2, TRUE)>>, <<Line("sentinel", 2, FALSE)>>, <<Line("speech", 0, FALSE)>>,
           <<Line("speech", 2, FALSE), Line("stage", 2, FALSE)>>}
Lines == {Line(k, n, q) : k \in {"speech", "stage", "sentinel"}, n \in {2, 3, 4}, q \in BOOLEAN}
         \cup {Line("speech", 0, q) : q \in BOOLEAN}
McRawInputs == {<<>>} \cup {<<l>> : l \in Lines} \cup {<<l, k>> : l, k \in Lines}

-----------------------------------------------------------------------------
\* Settings and start-up.
McOptions == {"host", "port", "production", "creation_mode", "naming_mode", "slot_limit"}
McKind == [o \in McOptions |-> CASE o = "host" -> "text" [] o = "production" -> "flag"
                                 [] o \in {"port", "slot_limit"} -> "number" [] OTHER -> "choice"]
McAllowed == [creation_mode |-> {"open", "invite"}, naming_mode |-> {"generated", "manual"}]
McBuiltIn == [host |-> "0.0.0.0", port |-> "8000", production |-> "False",
              creation_mode |-> "invite", naming_mode |-> "generated", slot_limit |-> "10"]
McNumber  == [x \in {"5", "07", "9"} |-> IF x = "07" THEN "7" ELSE x]

Files ==
  {[options |-> Present([creation_mode |-> c, slot_limit |-> n, production |-> f, host |-> ""]), worlds |-> w] :
     c \in {"-", "open", "sometimes"}, n \in {"-", "5", "many"}, f \in {"-", "yes"},
     w \in {<<>>, [w1 |-> [creation_mode |-> "open"]], [w1 |-> [slot_limit |-> "9", naming_mode |-> "manual"]]}}
Example == [options |-> [port |-> "9"], worlds |-> [w2 |-> [naming_mode |-> "none"]]]
Environments ==
  {Present([creation_mode |-> c, slot_limit |-> n, production |-> f]) :
     c \in {"-", "", "invite", "sometimes"}, n \in {"-", "07"}, f \in {"-", "junk"}}
McSettingInputs == (Files \cup {NULL}) \X {NULL, Example} \X Environments

McPreferred == [p \in {"p1", "p2"} |-> 8000]

-----------------------------------------------------------------------------
\* Policies and clothes.
RowAt(type, key, variant) == [type |-> type, key |-> key, variant |-> variant]
Whole  == [object |-> TRUE, text |-> TRUE, whole |-> TRUE]
Hollow == [object |-> TRUE, text |-> FALSE, whole |-> FALSE]
Scalar == [object |-> FALSE, text |-> FALSE, whole |-> FALSE]
Fixed  == {RowAt("tone_profile", "n1", "v1"), RowAt("registry", "species_registry", "v1")}
Prompts     == {RowAt("prompt", k, "v1") : k \in {"t1", "t2"}}
Descriptors == {RowAt("descriptor_layer", k, "v1") : k \in {"d1", "d2"}}
Clothes     == RowAt("registry", "clothing_registry", "v1")
Bundle(v)   == RowAt("axis_bundle", "a1", v)
Bundled     == {Bundle("v1"), Bundle("v2")}
Rows == Fixed \cup Prompts \cup Descriptors \cup {Clothes} \cup Bundled

Contents(prompt, descriptor, bundle, clothes) ==
  [row \in Rows |-> IF row.key = "t1" THEN prompt ELSE IF row.key = "d1" THEN descriptor
                    ELSE IF row \in Bundled THEN bundle ELSE IF row = Clothes THEN clothes ELSE Whole]
Manifest(axis, hint, order, inputs) ==
  [valid |-> TRUE, axis |-> axis, descriptor |-> hint, tone |-> NULL, order |-> order, inputs |-> inputs]
FullOrder == <<"species_canon_block", "clothing_block", "descriptor_layer_output", "unknown">>
Selected == {NULL, [id |-> NULL, version |-> NULL]}
            \cup {[id |-> "a1", version |-> v] : v \in {NULL, "v2", "malformed"}}
Manifests ==
  {NULL, [valid |-> FALSE]}
    \cup {Manifest(axis, hint, order, {"species"}) :
            axis \in Selected, hint \in {NULL, "d1"}, order \in {NULL, <<>>, FullOrder}}
    \cup {Manifest(axis, NULL, FullOrder, NULL) : axis \in Selected}
PolicyId(row) == [type |-> row.type, key |-> row.key]
PointersTo(rows) ==
  [q \in {PolicyId(row) : row \in rows} |-> (CHOOSE row \in rows : PolicyId(row) = q).variant]
\* The rows a scope and a client profile point to.
Activated(rows, over, contents, manifest) ==
  [world |-> PointersTo(Fixed \cup rows), client |-> PointersTo(over), content |-> contents, manifest |-> manifest]
McPolicyInputs ==
  {Activated(ps, {}, Contents(c, Whole, Whole, Whole), Manifest(NULL, NULL, FullOrder, {})) :
     ps \in SUBSET Prompts, c \in {NULL, Scalar, Hollow, Whole}}
  \cup {Activated(ds \cup cs \cup bs[1], bs[2], Contents(Whole, c[1], c[2], c[3]), manifest) :
          ds \in {{}, {RowAt("descriptor_layer", "d1", "v1")}, Descriptors}, cs \in {{}, {Clothes}},
          bs \in {<<{}, {}>>, <<{Bundle("v1")}, {}>>, <<{}, {Bundle("v2")}>>, <<{Bundle("v1")}, {Bundle("v2")}>>},
          c \in {<<Whole, Whole, Whole>>, <<NULL, Scalar, Whole>>, <<Scalar, Hollow, Whole>>,
                 <<Hollow, Whole, Scalar>>, <<Whole, NULL, NULL>>},
          manifest \in Manifests}

Entry(id, priority, fallback, wealth, text) ==
  [id |-> id, priority |-> priority, text |-> text, status |-> "active", block |-> "clothing_fragment",
   genders |-> NULL, species |-> NULL,
   when |-> [fallback |-> fallback, wealth |-> wealth, world |-> NULL, occupation |-> NULL, species |-> NULL]]
Entries == {Entry(id, priority, fallback, wealth, ToString(<<id, priority, fallback, wealth>>)) :
              id \in {1, 2}, priority \in {1, 2}, fallback \in BOOLEAN, wealth \in {NULL, {"low"}}}
           \cup {Entry(3, 3, FALSE, NULL, NULL)}
Being(priority) == [Entry(priority, priority, FALSE, NULL, "being") EXCEPT !.block = "species"]
Worn(slots, wealth) ==
  [speciesEntries |-> <<Being(1), Being(2)>>, slots |-> slots, tone |-> <<>>, given |-> {"species"},
   species |-> "goblin", gender |-> "any", wealth |-> wealth, world |-> {}, occupation |-> {}]
WearPolicy == Activated({Clothes, RowAt("descriptor_layer", "d1", "v1")}, {},
                        Contents(Whole, Whole, Whole, Whole), Manifest(NULL, NULL, FullOrder, {"species"}))
McWearInputs == {<<StateOf(WearPolicy), Worn(<<<<d, e>>, <<Entry(4, 1, TRUE, NULL, "hat")>>>>, wealth)>> :
                   d, e \in Entries, wealth \in {NULL, "low"}}

-----------------------------------------------------------------------------
\* Passwords of up to four of seven characters; three make a short one.
Chars == {"a", "A", "b", "c", "2", "@", " "}
McCode    == [a |-> 97, A |-> 65, b |-> 98, c |-> 99] @@ ("2" :> 50 @@ "@" :> 64 @@ " " :> 32)
McLower   == [c \in Chars |-> IF c = "A" THEN "a" ELSE c]
McClasses == [c \in Chars |-> CASE c = "A" -> {"upper"} [] c = "2" -> {"digit"} [] c = "@" -> {"special"}
                                [] c = " " -> {} [] OTHER -> {"lower"}]
McPlain   == [c \in Chars |-> IF c = "@" THEN "a" ELSE c]
McBlank   == {" "}
McCommon  == {<<"b", "a", "a">>}
\* log2 of 26, 52, 10 and 32 characters and their sums, rounded down.
McBits    == [s \in SUBSET {"upper", "lower", "digit", "special"} |->
  LET letters == Cardinality(s \cap {"upper", "lower"})
  IN CASE s = {} -> 0 [] s = {"digit"} -> 3
       [] letters = 0 /\ "special" \in s -> 5
       [] letters = 1 -> IF "special" \in s THEN (IF "digit" \in s THEN 6 ELSE 5) ELSE IF "digit" \in s THEN 5 ELSE 4
       [] OTHER -> IF "special" \in s THEN 6 ELSE 5]
McPasswordInputs == UNION {[1..n -> Chars] : n \in 0..4}

-----------------------------------------------------------------------------
\* The instance varies at the start only what the service that runs looks at.
McInit ==
  /\ Init
  /\ subject # "generation" => active = "b1"
  /\ subject # "translation" => sheet = NULL /\ armed = [s \in Services |-> NULL]
  /\ subject # "start" => foreign = {}

McSpec == McInit /\ [][Next]_vars
=============================================================================
