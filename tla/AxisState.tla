------------------------------ MODULE AxisState ------------------------------
(***************************************************************************)
(* One character's axis state in the database: the axis registry that a    *)
(* starting server seeds from the axis bundle, the scores, the ledger of   *)
(* score events, and the two JSON snapshots.  Entity profiles are applied  *)
(* in two transactions, a read and an event; chat interactions apply       *)
(* events of their own in between.  A policy has the form AxisPayload      *)
(* gives it, and so has an entity state.                                   *)
(***************************************************************************)
EXTENDS AxisPayload

CONSTANTS
  Registries,   \* the axis bundles that a starting server may find
  Entities,     \* entity states of the generator
  Shifts,       \* deltas of chat interactions
  Writers,      \* the server processes
  MaxEvents     \* bound on the events of the character

\* Deltas are numbers; the bounds of an axis value are numbers or absent.
ASSUME ShiftTypes == \A deltas \in Shifts : deltas \in [DOMAIN deltas -> Int]
ASSUME RangeTypes ==
  \A policy \in Registries : \A n \in DOMAIN policy.thresholds : \A l \in DOMAIN policy.thresholds[n] :
    {policy.thresholds[n][l].min, policy.thresholds[n][l].max} \subseteq Int \cup {NULL}

VARIABLES
  registry,  \* axis and axis_value: name -> label -> [min, max, ordinal]
  score,     \* character_axis_score
  base,      \* base_state_json, NULL before the character is created
  current,   \* current_state_json
  seed,      \* state_seed
  events,    \* event_entity_axis_delta, oldest first
  pending    \* pending[w]: the profile that process w is applying

axisStateVars == <<registry, score, base, current, seed, events, pending>>

Default == Full \div 2

\* seed_axis_registry: without thresholds an axis keeps the values it had.
Values(policy, n) ==
  IF n \in DOMAIN policy.thresholds
  THEN [l \in DOMAIN policy.thresholds[n] |->
          [min |-> policy.thresholds[n][l].min, max |-> policy.thresholds[n][l].max,
           ordinal |-> LET at == {i \in DOMAIN policy.axes[n] : policy.axes[n][i] = l}
                       IN IF at = {} THEN NULL ELSE Max(at)]]
  ELSE IF n \in DOMAIN registry THEN registry[n] ELSE <<>>

InRange(row, s) == (row.min = NULL \/ s >= row.min) /\ (row.max = NULL \/ s <= row.max)

\* The order of the rows: by ordinal, those without one last, then by min_score.
Precedes(a, b) ==
  LET Least(x) == IF x = NULL THEN -1 ELSE x
  IN IF a.ordinal = b.ordinal THEN Least(a.min) <= Least(b.min)
     ELSE b.ordinal = NULL \/ (a.ordinal # NULL /\ a.ordinal < b.ordinal)

\* _resolve_axis_label_for_score.
LabelFor(n, s) ==
  LET rows == registry[n]
      fits == {l \in DOMAIN rows : InRange(rows[l], s)}
  IN IF fits = {} THEN NULL ELSE CHOOSE l \in fits : \A k \in fits : Precedes(rows[l], rows[k])

\* Mutant of ScoreFor: the lower bound stands for the label.
ScoreForBound(n, l) ==
  IF n \notin DOMAIN registry \/ l \notin DOMAIN registry[n] THEN NULL
  ELSE FirstOf(<<registry[n][l].min, registry[n][l].max, Default>>)

\* _resolve_axis_score_for_label.
ScoreFor(n, l) ==
  IF n \notin DOMAIN registry \/ l \notin DOMAIN registry[n] THEN NULL
  ELSE FirstOf(<<FromBounds(registry[n][l]), Default>>)

\* _flatten_entity_axis_labels: here axes beats occupation beats character.
Flattened(entity) ==
  LET Of(n) == FirstOf([i \in 1..3 |-> entity[<<"axes", "occupation", "character">>[i]][n].label])
  IN [n \in {m \in Names : Of(m) # NULL} |-> Of(n)]

Snapshot(scores, s) ==
  [seed |-> s, axes |-> [n \in DOMAIN scores |-> [score |-> scores[n], label |-> LabelFor(n, scores[n])]]]

ScoreOf(n) == IF n \in DOMAIN score THEN score[n] ELSE Default

-----------------------------------------------------------------------------
AxisStateInit ==
  /\ registry = <<>>
  /\ score = <<>>
  /\ base = NULL /\ current = NULL
  /\ seed = 0
  /\ events = <<>>
  /\ pending = [w \in Writers |-> NULL]

\* A server starts and mirrors the effective axis bundle.
SeedRegistry(policy) ==
  /\ registry' = [n \in DOMAIN registry \cup DOMAIN policy.axes |->
                    IF n \in DOMAIN policy.axes THEN Values(policy, n) ELSE registry[n]]
  /\ UNCHANGED <<score, base, current, seed, events, pending>>

\* _seed_character_axis_scores and _seed_character_state_snapshot, with a seed of
\* the code's choice, in the transaction that creates the character.
SeedCharacter ==
  /\ base = NULL
  /\ score' = [n \in DOMAIN registry |-> Default]
  /\ seed' = 1
  /\ base' = Snapshot(score', 1)
  /\ current' = base'
  /\ UNCHANGED <<registry, events, pending>>

\* Mutant of Updated: the row is set to the score that was meant.
UpdatedToTarget(n, deltas) == Default + deltas[n]

\* The score a delta makes of what the row holds, unclamped.
Updated(n, deltas) == ScoreOf(n) + deltas[n]

\* apply_axis_event.
ApplyEvent(deltas) ==
  /\ Len(events) < MaxEvents
  /\ score' = [n \in DOMAIN score \cup DOMAIN deltas |->
                 IF n \in DOMAIN deltas THEN Updated(n, deltas) ELSE score[n]]
  /\ events' = Append(events, [n \in DOMAIN deltas |->
                                 [old |-> ScoreOf(n), new |-> score'[n], delta |-> deltas[n]]])
  /\ seed' = seed + 1
  /\ current' = Snapshot(score', seed')
  /\ UNCHANGED <<registry, base>>

\* The first transaction of apply_entity_state_to_character.  Without a label that
\* moves a score there is no second one.
ReadProfile(w, entity) ==
  /\ base # NULL
  /\ pending[w] = NULL
  /\ LET labels == Flattened(entity)
         moved  == {n \in DOMAIN labels : ScoreFor(n, labels[n]) \notin {NULL, ScoreOf(n)}}
     IN /\ moved # {}
        /\ pending' = [pending EXCEPT ![w] =
             [labels |-> labels, at |-> seed, registry |-> registry,
              deltas |-> [n \in moved |-> ScoreFor(n, labels[n]) - ScoreOf(n)]]]
  /\ UNCHANGED <<registry, score, base, current, seed, events>>

\* The second one; the process may also die, or the write fail, before it.
ApplyProfile(w) ==
  /\ pending[w] # NULL
  /\ ApplyEvent(pending[w].deltas)
  /\ pending' = [pending EXCEPT ![w] = NULL]

AbandonProfile(w) ==
  /\ pending[w] # NULL
  /\ pending' = [pending EXCEPT ![w] = NULL]
  /\ UNCHANGED <<registry, score, base, current, seed, events>>

\* A chat interaction of the axis engine moved the character's scores.
Interact(deltas) ==
  /\ base # NULL
  /\ DOMAIN deltas \subseteq DOMAIN registry
  /\ ApplyEvent(deltas)
  /\ UNCHANGED pending

AxisStateNext ==
  \/ \E policy \in Registries : SeedRegistry(policy)
  \/ SeedCharacter
  \/ \E w \in Writers : \/ \E entity \in Entities : ReadProfile(w, entity)
                        \/ ApplyProfile(w)
                        \/ AbandonProfile(w)
  \/ \E deltas \in Shifts : Interact(deltas)

AxisStateSpec == AxisStateInit /\ [][AxisStateNext]_axisStateVars

-----------------------------------------------------------------------------
\* Where the events before the k-th left axis n.
LeftAt(n, k) ==
  LET earlier == {i \in 1..(k - 1) : n \in DOMAIN events[i]}
  IN IF earlier = {} THEN Default ELSE events[Max(earlier)][n].new

\* The ledger of events explains the scores: on every axis each event starts from
\* where the one before it ended, the last one ended at the score, and the
\* current snapshot shows it, whatever processes apply what in between.
EventsReplay ==
  /\ \A n \in DOMAIN score :
       /\ \A k \in DOMAIN events : n \in DOMAIN events[k] =>
            LET e == events[k][n] IN e.old = LeftAt(n, k) /\ e.new = e.old + e.delta
       /\ score[n] = LeftAt(n, Len(events) + 1)
  /\ current # NULL => /\ DOMAIN current.axes = DOMAIN score
                       /\ \A n \in DOMAIN score : current.axes[n].score = score[n]
                       /\ current.seed = base.seed + Len(events)

\* The score that stands for each label is in that label's range alone.
Separated(rows) ==
  \A l \in DOMAIN rows : /\ InRange(rows[l], FirstOf(<<FromBounds(rows[l]), Default>>))
                         /\ \A k \in DOMAIN rows \ {l} : ~InRange(rows[k], FirstOf(<<FromBounds(rows[l]), Default>>))

\* A profile that nothing came between shows: every label of the entity state that
\* the world knows is, through score and thresholds and back, the label of the
\* character's state.  After an event in between it need not be.
ProfileTakesHold ==
  [][\A w \in Writers :
       (pending[w] # NULL /\ seed' = seed + 1 /\ pending'[w] = NULL
          /\ pending[w].at = seed /\ pending[w].registry = registry) =>
         \A n \in DOMAIN pending[w].labels :
           (n \in DOMAIN registry /\ pending[w].labels[n] \in DOMAIN registry[n] /\ Separated(registry[n])
              /\ n \in DOMAIN current'.axes) =>
             current'.axes[n].label = pending[w].labels[n]]_axisStateVars
=============================================================================
