---------------------------- MODULE ServiceCalls ----------------------------
(***************************************************************************)
(* The services beside each other.  "subject" says what is called: one of  *)
(* the services with a machine of their own, which then runs while the     *)
(* others rest, or one of the functions, and then "input" is what it is    *)
(* called with.                                                            *)
(***************************************************************************)
EXTENDS Access, ConditionAxis, AxisState, Translation, Startup, ImagePrompt, PasswordRules

CONSTANTS
  PasswordInputs,  \* passwords
  SettingInputs,   \* server.ini, its example and the environment: <<ini, example, env>>
  PolicyInputs,    \* pointers of a world and of a client profile, contents, manifest
  WearInputs,      \* a policy state and the request of a prompt: <<p, r>>
  PayloadInputs,   \* a policy and what the generator answers: <<policy, payload>>
  RawInputs        \* what the model says, line by line

Passwords == Seq(DOMAIN Code)
LineTypes == [kind : {"speech", "stage", "sentinel"}, length : Nat, quoted : BOOLEAN]
Amount    == Int \cup {NULL}

\* A policy of scores has bounds that are numbers, or absent, and sequences of labels
\* no longer than the scale of scores.
WellFormed(policy) ==
  /\ \A axis \in DOMAIN policy.thresholds : \A l \in DOMAIN policy.thresholds[axis] :
       {policy.thresholds[axis][l].min, policy.thresholds[axis][l].max} \subseteq Amount
  /\ \A axis \in DOMAIN policy.axes : policy.axes[axis] \in Seq(Range(policy.axes[axis]))
Graduated(policy) == \A axis \in DOMAIN policy.axes : Len(policy.axes[axis]) - 1 <= Full

\* The activation pointers of a scope: to each of some policies a variant.
Pointers(pointer) ==
  /\ IsFiniteSet(DOMAIN pointer)
  /\ DOMAIN pointer \subseteq [type : STRING, key : STRING]
  /\ \A q \in DOMAIN pointer : pointer[q] \in STRING

\* Entries whose fallback, priority and id can be compared.
Comparable(entries) ==
  \A e \in Range(entries) :
    e # NULL /\ e.when.fallback \in BOOLEAN /\ e.priority \in Int /\ e.id \in Int
Listing(s) == DOMAIN s = 1..Len(s) /\ Len(s) \in Nat

ASSUME PasswordInputsType == PasswordInputs \subseteq Passwords
ASSUME PolicyInputsType == \A x \in PolicyInputs : Pointers(x.world) /\ Pointers(x.client)
ASSUME WearInputsType ==
  \A x \in WearInputs : /\ Listing(x[2].slots)
                        /\ \A s \in DOMAIN x[2].slots : Listing(x[2].slots[s]) /\ Comparable(x[2].slots[s])
ASSUME PayloadInputsType == \A x \in PayloadInputs : WellFormed(x[1]) /\ Graduated(x[1])
ASSUME RawInputsType == RawInputs \subseteq Seq(LineTypes) /\ MaxOutput \in Int

VARIABLES subject, input

Inputs ==
  [password |-> PasswordInputs, settings |-> SettingInputs, policies |-> PolicyInputs,
   clothes |-> WearInputs, payload |-> PayloadInputs, output |-> RawInputs]

Init ==
  /\ AccessInit /\ GenInit /\ AxisStateInit /\ TransInit /\ StartInit
  /\ \/ /\ subject \in {"access", "generation", "state", "translation", "start"}
        /\ input = NULL
     \/ /\ subject \in DOMAIN Inputs
        /\ input \in Inputs[subject]

Alone(service) == subject = service /\ UNCHANGED <<subject, input>>

Next ==
  \/ Alone("access") /\ AccessNext /\ UNCHANGED <<genVars, axisStateVars, transVars, startVars>>
  \/ Alone("generation") /\ GenNext /\ UNCHANGED <<accessVars, axisStateVars, transVars, startVars>>
  \/ Alone("state") /\ AxisStateNext /\ UNCHANGED <<accessVars, genVars, transVars, startVars>>
  \/ Alone("translation") /\ TransNext /\ UNCHANGED <<accessVars, genVars, axisStateVars, startVars>>
  \/ Alone("start") /\ StartNext /\ UNCHANGED <<accessVars, genVars, axisStateVars, transVars>>

vars == <<subject, input, accessVars, genVars, axisStateVars, transVars, startVars>>

Spec == Init /\ [][Next]_vars

-----------------------------------------------------------------------------
\* The password levels are nested, and a refusal does not depend on direction:
\* PasswordPolicy.validate on every password.
PasswordLevels == subject = "password" => LevelsNest(input, 1)

\* Every setting comes from the first source that decides it, for any file and
\* environment: load_config, but for a default of the environment under a section.
SettingsRanked == subject = "settings" => SourcesRank(input[1], input[2], input[3])

\* The docstring of load_config on those defaults, which it does not keep.
EnvironmentWins == subject = "settings" => EnvironmentReachesWorlds(input[1], input[2], input[3])

\* What an operator configures is what counts, settings and password levels alike.
ConfigurationRules == SettingsRanked /\ PasswordLevels

\* The policy state a scope resolves to.
StateOf(x) ==
  [effective |-> EffectiveRows(x.world, x.client), content |-> x.content, manifest |-> x.manifest]

\* Diagnostics, compiler, runtime and snapshot hash look the same policies up, in
\* every state of the activations.
PoliciesAgree == subject = "policies" => LookupsAgree(StateOf(input))

\* The compiler dresses a character by rule, then priority, then id, from every
\* registry.
ClothesFit == subject = "clothes" => BestIsWorn(input[1], input[2])

\* The generator's numbers and labels become the scores that the policy gives them.
PayloadRead ==
  subject = "payload" =>
    NumbersBeatLabels(input[1], input[2]) /\ \A axis \in Tokens : LabelsKeepOrder(input[1], axis)

\* What a world is made of is what its policies say: prompts come from the policies that
\* diagnostics and runtime see, clothes from the rules, scores from the labels.
PoliciesAreRead == PoliciesAgree /\ ClothesFit /\ PayloadRead

\* The validator lets through one clean line of bounded length and nothing else, and
\* the laboratory translates for the profile that the game would.
OutputClean ==
  /\ subject = "output" => ValidatorExact(input)
  /\ subject = "translation" /\ sheet # NULL => LabShowsTheGame(sheet)
=============================================================================
