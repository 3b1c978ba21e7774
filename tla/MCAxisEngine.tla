---------------------------- MODULE MCAxisEngine ----------------------------
(***************************************************************************)
(* Small instances of AxisEngine for TLC: demeanor and health, scores 0..6.*)
(***************************************************************************)
EXTENDS AxisEngine, TLC

CONSTANT p1

MCResolver  == [a \in Axes |-> IF a = "demeanor" THEN "dominance_shift" ELSE "shared_drain"]
MCMagnitude == [a \in Axes |-> [ch \in Channels |->
                  (IF a = "demeanor" THEN 3 ELSE 1) * (IF ch = "yell" THEN 2 ELSE 1)]]

\* A dominant, a middling and a meek character, near the upper or the lower end;
\* one yell drains the health of all to 0.
MCInitialScores ==
  {[c \in Chars |-> [a \in Axes |-> IF a = "demeanor" THEN d[c] ELSE 2]] :
     d \in {<<6, 3, 1>>, <<4, 2, 0>>}}

OneHome  == [t \in Threads |-> p1]
=============================================================================
