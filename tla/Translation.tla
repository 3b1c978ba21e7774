---------------------------- MODULE Translation ----------------------------
(***************************************************************************)
(* The translation layer: a character's axis profile, a renderer that asks *)
(* a language model and can be armed with a seed, the validation of what   *)
(* the model says, and the ledger event of each attempt.  Each server      *)
(* process has one service, and runs one translation at a time; the axis   *)
(* state of the character changes meanwhile.  A raw output is a sequence   *)
(* of lines, a line a record [kind, length, quoted]: kind is "speech",     *)
(* "stage" (it matches a forbidden pattern once unquoted) or "sentinel",   *)
(* and length does not count quotes; a blank line has length 0 and no      *)
(* quotes.                                                                 *)
(***************************************************************************)
EXTENDS Absent, FiniteSetsExt, SequencesExt

CONSTANTS
  Services,        \* the server processes
  Sheets,          \* axis states of the character; NULL if it is not found
  ActiveAxes,      \* config.active_axes
  Deterministic, Strict, MaxOutput,
  Hashes,          \* ipc hashes of the axis engine
  Raws,            \* what the model may say
  MaxTranslations  \* bound on the translations begun

VARIABLES
  sheet,     \* what the database holds of the character
  armed,     \* armed[s]: the seed of service s's renderer, NULL when it samples
  turn,      \* turn[s]: the translation of service s
  said,      \* what came of the translations, oldest first
  audit,     \* chat.translation events in the ledger
  asked      \* history: the requests sent to the model, oldest first

transVars == <<sheet, armed, turn, said, audit, asked>>

Unknown == [label |-> "unknown", score |-> 0]

\* CharacterProfileBuilder.build: without a configured subset, all axes there are.
Profile(axes) ==
  [a \in IF ActiveAxes = {} THEN DOMAIN axes ELSE ActiveAxes |->
     IF a \notin DOMAIN axes THEN Unknown
     ELSE IF axes[a].label = NULL THEN [axes[a] EXCEPT !.label = "unknown"] ELSE axes[a]]

\* translate_with_axes: what the laboratory's request gives of the subset.
LabProfile(axes) == [a \in ActiveAxes \cap DOMAIN axes |-> axes[a]]

\* The lines that are not blank; one of quotes alone is not.
Shown(raw) == {i \in DOMAIN raw : raw[i].length > 0 \/ raw[i].quoted}

\* The model said something: the renderer returns None for a blank answer.
Answered(raw) == raw # NULL /\ Shown(raw) # {}

\* text[:max_output_chars]: below zero it takes away from the end.
Cut(length) ==
  IF length <= MaxOutput THEN length ELSE IF MaxOutput >= 0 THEN MaxOutput ELSE length + MaxOutput

\* Mutant of Validate: the length is taken before the quotes are stripped.
ValidateQuoted(raw) ==
  LET line == raw[Min(Shown(raw))]
      long == line.length + (IF line.quoted THEN 2 ELSE 0) > MaxOutput
  IN IF Shown(raw) = {} \/ (line.kind = "sentinel" /\ ~line.quoted) THEN NULL
     ELSE IF Strict /\ (Shown(raw) # {Min(Shown(raw))} \/ line.kind = "stage" \/ long) THEN NULL
     ELSE IF Cut(line.length) <= 0 THEN NULL
     ELSE [kind |-> line.kind, length |-> Cut(line.length)]

\* OutputValidator.validate.  The sentinel is looked for before quotes are
\* stripped, so that one in quotes is taken for speech.
Validate(raw) ==
  LET line == raw[Min(Shown(raw))]
      long == line.length > MaxOutput
  IN IF Shown(raw) = {} \/ (line.kind = "sentinel" /\ ~line.quoted) THEN NULL
     ELSE IF Strict /\ (Shown(raw) # {Min(Shown(raw))} \/ line.kind = "stage" \/ long) THEN NULL
     ELSE IF Cut(line.length) <= 0 THEN NULL
     ELSE [kind |-> line.kind, length |-> Cut(line.length)]

-----------------------------------------------------------------------------
NoTurn == [pc |-> "idle", hash |-> NULL, profile |-> NULL, text |-> NULL, status |-> NULL]

\* Services that may have translated before.
TransInit ==
  /\ sheet \in Sheets
  /\ armed \in [Services -> {NULL} \cup (IF Deterministic THEN Hashes ELSE {})]
  /\ turn = [s \in Services |-> NoTurn]
  /\ said = <<>>
  /\ audit = <<>>
  /\ asked = <<>>

Begun == Len(said) + Cardinality({s \in Services : turn[s].pc # "idle"})

\* A character without axis state is spoken for by nobody, and not recorded.
BeginTranslation(s, hash) ==
  /\ turn[s].pc = "idle"
  /\ Begun < MaxTranslations
  /\ IF sheet = NULL
     THEN /\ said' = Append(said, [status |-> "unresolved", hash |-> hash, profile |-> NULL, text |-> NULL])
          /\ UNCHANGED turn
     ELSE /\ turn' = [turn EXCEPT ![s] = [pc |-> "render", hash |-> hash, profile |-> Profile(sheet),
                                          text |-> NULL, status |-> NULL]]
          /\ UNCHANGED said
  /\ UNCHANGED <<sheet, armed, audit, asked>>

\* Mutant of Arming: a renderer that is armed stays as it is.
ArmingOnce(s, hash) == IF armed[s] # NULL \/ ~Deterministic THEN armed[s] ELSE hash

\* set_deterministic is called with a hash, and nothing ever disarms a renderer.
Arming(s, hash) == IF Deterministic /\ hash # NULL THEN hash ELSE armed[s]

\* Steps 3 to 6 of translate; raw is NULL when the request fails, and a blank answer
\* counts as no answer.
Render(s, raw) ==
  /\ turn[s].pc = "render"
  /\ armed' = [armed EXCEPT ![s] = Arming(s, turn[s].hash)]
  /\ asked' = Append(asked, [hash |-> turn[s].hash, profile |-> turn[s].profile, seed |-> armed'[s]])
  /\ LET text == IF Answered(raw) THEN Validate(raw) ELSE NULL
         status == IF ~Answered(raw) THEN "api_error"
                   ELSE IF text = NULL THEN "validation_failed" ELSE "success"
     IN turn' = [turn EXCEPT ![s] = [pc |-> "record", hash |-> turn[s].hash, profile |-> turn[s].profile,
                                     text |-> text, status |-> status]]
  /\ UNCHANGED <<sheet, said, audit>>

\* Mutant of Event: the state is read again for the event.
EventFresh(s) ==
  [status |-> turn[s].status, hash |-> turn[s].hash, text |-> turn[s].text,
   profile |-> IF sheet = NULL THEN NULL ELSE Profile(sheet)]

Event(s) ==
  [status |-> turn[s].status, hash |-> turn[s].hash, text |-> turn[s].text, profile |-> turn[s].profile]

\* _emit_translation_event, whose failure nobody notices, and the return.
RecordTranslation(s, written) ==
  /\ turn[s].pc = "record"
  /\ audit' = IF written THEN Append(audit, Event(s)) ELSE audit
  /\ said' = Append(said, [status |-> turn[s].status, hash |-> turn[s].hash,
                           profile |-> turn[s].profile, text |-> turn[s].text])
  /\ turn' = [turn EXCEPT ![s] = NoTurn]
  /\ UNCHANGED <<sheet, armed, asked>>

ChangeSheet(axes) ==
  /\ sheet' = axes
  /\ UNCHANGED <<armed, turn, said, audit, asked>>

TransNext ==
  \/ \E s \in Services :
       \/ \E hash \in Hashes \cup {NULL} : BeginTranslation(s, hash)
       \/ \E raw \in Raws \cup {NULL} : Render(s, raw)
       \/ \E written \in BOOLEAN : RecordTranslation(s, written)
  \/ \E axes \in Sheets : ChangeSheet(axes)

TransSpec == TransInit /\ [][TransNext]_transVars

-----------------------------------------------------------------------------
\* Determinism across processes: in deterministic mode two requests with the same
\* hash are sampled with the same seed, whatever either renderer was armed with
\* before.  Without a hash no such promise holds: the renderer keeps
\* the seed of whatever was translated last.
HashDetermines ==
  Deterministic =>
    \A i, j \in DOMAIN asked :
      (asked[i].hash # NULL /\ asked[i].hash = asked[j].hash) => asked[i].seed = asked[j].seed

\* Every event of the ledger is what a player was told: the same text, or none,
\* with the profile that the model was given, although the character's state has
\* changed since; and no outcome is recorded twice.
AuditIsWhatWasSaid ==
  \E f \in [DOMAIN audit -> DOMAIN said] :
    /\ IsInjective(f)
    /\ \A i \in DOMAIN audit : /\ audit[i] = said[f[i]]
                               /\ \E j \in DOMAIN asked : /\ asked[j].hash = audit[i].hash
                                                          /\ asked[j].profile = audit[i].profile

\* What a translation said can be traced: its seed to its hash, its event to what was
\* asked and answered.
Traceable == HashDetermines /\ AuditIsWhatWasSaid

\* What the validator lets through is one line of at most MaxOutput characters, unless
\* that is negative, and in strict mode the only line, no stage direction and uncut; and a single
\* compliant line, quoted or not, gets through.
ValidatorExact(raw) ==
  LET text == Validate(raw)
      full == {i \in DOMAIN raw : raw[i].length > 0}
  IN /\ text # NULL =>
          /\ text.length > 0 /\ (MaxOutput >= 0 => text.length <= MaxOutput)
          /\ \E i \in full : /\ raw[i].length >= text.length /\ raw[i].kind = text.kind
                            /\ Strict => full = {i} /\ text.kind # "stage" /\ text.length = raw[i].length
     /\ \A i \in full :
          (Shown(raw) = {i} /\ raw[i].kind = "speech" /\ raw[i].length <= MaxOutput)
            => text = [kind |-> "speech", length |-> raw[i].length]

\* The laboratory shows what the game would: the same profile, when it is given
\* every active axis, with its label, and there is a subset.
LabShowsTheGame(axes) ==
  (ActiveAxes # {} /\ ActiveAxes \subseteq DOMAIN axes /\ \A a \in ActiveAxes : axes[a].label # NULL)
    => LabProfile(axes) = Profile(axes)
=============================================================================
