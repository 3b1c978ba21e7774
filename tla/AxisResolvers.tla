---------------------------- MODULE AxisResolvers ----------------------------
(***************************************************************************)
(* The resolution grammar of chat and its pure functions.  Scores lie in   *)
(* [0.0, 1.0]; here scores, gaps and magnitudes are multiples of 1/Top, to *)
(* which a product is rounded, as the code's floats are to theirs.         *)
(***************************************************************************)
EXTENDS Integers

CONSTANTS
  Axes,
  Channels,
  Top,         \* the score 1.0
  MinGap,      \* min_gap_threshold
  Resolver,    \* Resolver[a]: the resolver the grammar names for axis a
  Magnitude    \* Magnitude[a][ch]: base_magnitude times channel multiplier

ASSUME TopIsPositive == Top \in Nat \ {0}

\* What parse_resolution_grammar_payload accepts.
ValidGrammar ==
  /\ MinGap \in Int
  /\ Resolver \in [Axes -> {"dominance_shift", "shared_drain", "no_effect"}]
  /\ Magnitude \in [Axes -> [Channels -> Int]]

ASSUME GrammarType == ValidGrammar

Scores == [Axes -> 0..Top]

\* Mutant of Clamp: the lower bound is missing.
ClampAbove(x) == IF x > Top THEN Top ELSE x

Clamp(x) == IF x > Top THEN Top ELSE IF x < 0 THEN 0 ELSE x

Gap(x, y) == IF x > y THEN x - y ELSE y - x

\* magnitude of dominance_shift: the product of two fractions of 1.0.
Shift(m, gap) == (m * gap) \div Top

\* What the resolver of axis a adds to the score x of one party, the other's
\* score being y, before clamping.  The one with the higher score wins.
Raw(a, x, y, ch) ==
  LET m == Magnitude[a][ch]
      d == Shift(m, Gap(x, y))
  IN CASE Resolver[a] = "dominance_shift" -> IF Gap(x, y) < MinGap \/ x = y THEN 0
                                             ELSE IF x > y THEN d ELSE -d
       [] Resolver[a] = "shared_drain"    -> -m
       [] Resolver[a] = "no_effect"       -> 0

\* The new scores of a party with scores mine, talking with one with theirs.
After(mine, theirs, ch) == [a \in Axes |-> Clamp(mine[a] + Raw(a, mine[a], theirs[a], ch))]
=============================================================================
