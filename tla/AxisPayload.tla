---------------------------- MODULE AxisPayload ----------------------------
(***************************************************************************)
(* How the condition axis service reads the entity generator's payload:    *)
(* numbers as they are, labels through the scores that the axis policy     *)
(* gives them.  Full stands for the score 1.0; scores are multiples of     *)
(* 1/Full, and instances choose Full so that every division is exact.      *)
(* Names are the strings as written; Token strips and lowercases them.     *)
(***************************************************************************)
EXTENDS Absent, FiniteSetsExt, SequencesExt

CONSTANTS Names, Token, Full

\* None is no score.
ASSUME NullIsNoNumber == NULL \notin Int /\ Full \in Nat

Tokens == {Token[n] : n \in Names}

Bounded(x) == IF x < 0 THEN 0 ELSE IF x > Full THEN Full ELSE x

\* One value of the threshold payload: [min, max], or one of the two.
FromBounds(b) ==
  IF b.min # NULL /\ b.max # NULL THEN (b.min + b.max) \div 2
  ELSE IF b.min # NULL THEN b.min ELSE b.max

\* A label's place in the ordering, spread over 0..Full; a repeated label keeps
\* its last place.
Spread(ordering, l) ==
  IF Len(ordering) = 1 THEN Full \div 2
  ELSE ((Max({i \in DOMAIN ordering : ordering[i] = l}) - 1) * Full) \div (Len(ordering) - 1)

\* _build_axis_label_scores for one axis: thresholds if they say anything,
\* otherwise the ordering.  Both are looked up by the token, so that what the
\* policy wrote under another spelling is not found.
LabelScores(policy, axis) ==
  LET graded  == IF axis \in DOMAIN policy.thresholds THEN policy.thresholds[axis] ELSE <<>>
      usable  == {l \in DOMAIN graded : graded[l].min # NULL \/ graded[l].max # NULL}
      ordered == IF axis \in DOMAIN policy.axes THEN policy.axes[axis] ELSE <<>>
  IN IF usable # {} THEN [l \in usable |-> Bounded(FromBounds(graded[l]))]
     ELSE [l \in Range(ordered) |-> Spread(ordered, l)]

RequiredAxes(policy) == {Token[n] : n \in DOMAIN policy.axes}

-----------------------------------------------------------------------------
Groups == <<"axes", "character", "occupation">>

\* _extract_score and _extract_label_score of the value a group gives a name.
Stated(payload, g, n) == payload[g][n].score
Graded(policy, payload, g, n) ==
  LET l == payload[g][n].label
      scores == LabelScores(policy, Token[n])
  IN IF l \in DOMAIN scores THEN scores[l] ELSE NULL

\* Mutant of Normalize: each group's numbers, then its labels.
NormalizeByGroup(policy, payload) ==
  LET Of(n) == FirstOf([i \in 1..3 |-> FirstOf(<<Stated(payload, Groups[i], n),
                                               Graded(policy, payload, Groups[i], n)>>)])
  IN [n \in {m \in Names : Of(m) # NULL} |-> Of(n)]

\* _normalize_axes: the numbers of all groups, then the labels of all groups.
Normalize(policy, payload) ==
  LET Of(n) == FirstOf([i \in 1..3 |-> Stated(payload, Groups[i], n)]
                         \o [i \in 1..3 |-> Graded(policy, payload, Groups[i], n)])
  IN [n \in {m \in Names : Of(m) # NULL} |-> Of(n)]

MissingAxes(policy, axes) == RequiredAxes(policy) \ {Token[n] : n \in DOMAIN axes}

(***************************************************************************)
(* The strict contract of the request's inputs: the nesting of the keys is *)
(* "shape", the keys given a non-blank value are "given".                  *)
(***************************************************************************)
InputKeys == {"entity.species", "entity.identity.gender", "entity.axes"}

\* Only these two of what a bundle asks for are ever required.
RequiredInputs == {"entity.species", "entity.identity.gender"}

ValidInputs(inputs) == inputs.shape = "nested" /\ RequiredInputs \subseteq inputs.given

-----------------------------------------------------------------------------
\* A number anywhere in the payload beats every label; among numbers, and among
\* labels, the earlier group wins; what is unknown leaves the axis out.
NumbersBeatLabels(policy, payload) ==
  LET axes == Normalize(policy, payload)
      Gives(n, i)  == Stated(payload, Groups[i], n) # NULL
      Grades(n, i) == payload[Groups[i]][n].label \in DOMAIN LabelScores(policy, Token[n])
  IN \A n \in Names :
       IF \E i \in 1..3 : Gives(n, i)
       THEN \E i \in 1..3 : /\ Gives(n, i) /\ \A j \in 1..(i - 1) : ~Gives(n, j)
                            /\ n \in DOMAIN axes /\ axes[n] = payload[Groups[i]][n].score
       ELSE IF \E i \in 1..3 : Grades(n, i)
            THEN n \in DOMAIN axes /\ axes[n] \in 0..Full
            ELSE n \notin DOMAIN axes

\* The labels of an ordering get scores that grow along it, and end in [0, 1].
LabelsKeepOrder(policy, axis) ==
  LET scores == LabelScores(policy, axis)
  IN /\ \A l \in DOMAIN scores : scores[l] \in 0..Full
     /\ (axis \in DOMAIN policy.axes /\ axis \notin DOMAIN policy.thresholds) =>
          LET o == policy.axes[axis]
          IN IsInjective(o) =>
               \A i, j \in DOMAIN o : i < j => scores[o[i]] < scores[o[j]]
=============================================================================
