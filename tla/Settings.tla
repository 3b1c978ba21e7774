------------------------------ MODULE Settings ------------------------------
(***************************************************************************)
(* Where a setting comes from: built-in defaults, then server.ini or, when *)
(* there is none, the example beside it, then the environment.  An option  *)
(* stands for all that are read the same way; a raw value is the text of   *)
(* the file or the variable, "" when it is empty.                          *)
(***************************************************************************)
EXTENDS Absent, FiniteSetsExt

CONSTANTS
  Options,   \* options by section and name
  Kind,      \* Kind[o]: "text", "flag", "number" or "choice"
  Allowed,   \* Allowed[o]: the values of a choice
  InEnv,     \* options with an environment variable
  BuiltIn,   \* BuiltIn[o]: the default
  Number     \* Number[raw]: the number a text says, written out; other texts are malformed

\* The options of a world's policy, and the defaults they fall back to.
WorldOptions == {"creation_mode", "naming_mode", "slot_limit"}

\* Each option has a kind and a default, those of a world included.
ASSUME OptionTypes ==
  /\ WorldOptions \subseteq Options /\ DOMAIN BuiltIn = Options
  /\ Kind \in [Options -> {"text", "flag", "number", "choice"}]

Truths == {"true", "yes", "1", "on", "enabled"}

\* _parse_bool, getint, _parse_creation_mode and their like: any text is a flag, a
\* choice that does not exist leaves the value as it was.
Parsed(o, raw, before) ==
  CASE Kind[o] = "text"   -> raw
    [] Kind[o] = "flag"   -> IF raw \in Truths THEN "True" ELSE "False"
    [] Kind[o] = "number" -> Number[raw]
    [] Kind[o] = "choice" -> IF raw \in Allowed[o] THEN raw ELSE before

\* int() of some value raises.
Malformed(given) == \E o \in DOMAIN given : Kind[o] = "number" /\ given[o] \notin DOMAIN Number

\* What a section, or the file, says of the options in it.
Overlay(cfg, given) ==
  [o \in DOMAIN cfg |-> IF o \in DOMAIN given THEN Parsed(o, given[o], cfg[o]) ELSE cfg[o]]

\* resolve_world_policy: a world's section, or the defaults.
WorldPolicy(loaded, w) ==
  IF w \in DOMAIN loaded.worlds THEN loaded.worlds[w]
  ELSE [o \in WorldOptions |-> loaded.cfg[o]]

\* _load_from_ini: the sections of the worlds last, each over the defaults that the
\* file has given by then.
LoadIni(file) ==
  LET cfg == Overlay(BuiltIn, file.options)
  IN [cfg |-> cfg,
      worlds |-> [w \in DOMAIN file.worlds |->
                    Overlay([o \in WorldOptions |-> cfg[o]], file.worlds[w])]]

NoFile == [options |-> <<>>, worlds |-> <<>>]

\* The one file that is read.
FileOf(ini, example) == FirstOf(<<ini, example, NoFile>>)

\* The variables that are set, and not empty.
Variables(env) == [o \in {x \in DOMAIN env \cap InEnv : env[x] # ""} |-> env[o]]

Refused(file, env) ==
  \/ Malformed(file.options)
  \/ \E w \in DOMAIN file.worlds : Malformed(file.worlds[w])
  \/ Malformed(Variables(env))

\* Mutant of LoadConfig: the file is read over the environment.
LoadConfigFileLast(ini, example, env) ==
  LET file == FileOf(ini, example)
  IN IF Refused(file, env) THEN NULL
     ELSE [LoadIni(file) EXCEPT !.cfg = Overlay(Overlay(BuiltIn, Variables(env)), file.options)]

\* load_config; NULL when a ValueError ends the import of the configuration.
LoadConfig(ini, example, env) ==
  LET file == FileOf(ini, example)
  IN IF Refused(file, env) THEN NULL
     ELSE [LoadIni(file) EXCEPT !.cfg = Overlay(@, Variables(env))]

\* find_available_port: the preferred one, otherwise the lowest of the range.
FindPort(preferred, busy, first, last) ==
  LET free == {p \in first..last : p # preferred /\ p \notin busy}
  IN IF preferred \notin busy THEN preferred ELSE IF free = {} THEN NULL ELSE Min(free)

-----------------------------------------------------------------------------
\* Does a raw value decide the option, whatever came before it?
Decides(o, given) ==
  /\ o \in DOMAIN given
  /\ Kind[o] = "choice" => given[o] \in Allowed[o]

\* The value of the first source that decides the option, or else the built-in one.
Ranked(o, sources) ==
  LET deciding == {i \in DOMAIN sources : Decides(o, sources[i])}
  IN IF deciding = {} THEN BuiltIn[o]
     ELSE Parsed(o, sources[Min(deciding)][o], BuiltIn[o])

\* The environment sets a default that the section of world w leaves as it is.
DefaultFromEnv(o, w, file, env) ==
  Decides(o, Variables(env)) /\ ~Decides(o, file.worlds[w])

\* load_config: an option is the environment's if it has a usable value, else the
\* file's, else built in, and the example is read only without a server.ini.  A
\* world's section comes before these defaults, option by option, and its silence
\* leaves them in force.  It says nothing of a default of the environment under a
\* section, where the code departs from its docstring: EnvironmentReachesWorlds.
SourcesRank(ini, example, env) ==
  LET loaded == LoadConfig(ini, example, env)
      file   == FileOf(ini, example)
  IN loaded # NULL =>
       /\ \A o \in Options : loaded.cfg[o] = Ranked(o, <<Variables(env), file.options>>)
       /\ \A w \in DOMAIN file.worlds, o \in WorldOptions :
            ~DefaultFromEnv(o, w, file, env) =>
              WorldPolicy(loaded, w)[o] = Ranked(o, <<file.worlds[w], Variables(env), file.options>>)

\* What load_config's docstring says and the code does not do: "Priority (highest
\* wins): 1. Environment variables".  A section takes over the defaults the file has
\* given by then, before the environment is read, and keeps them.
EnvironmentReachesWorlds(ini, example, env) ==
  LET loaded == LoadConfig(ini, example, env)
      file   == FileOf(ini, example)
  IN loaded # NULL =>
       \A w \in DOMAIN file.worlds, o \in WorldOptions :
         DefaultFromEnv(o, w, file, env) =>
           WorldPolicy(loaded, w)[o] = Ranked(o, <<Variables(env)>>)
=============================================================================
