--------------------------- MODULE MCSessionStore ---------------------------
(***************************************************************************)
(* Small instances of SessionStore for TLC.                                *)
(***************************************************************************)
EXTENDS SessionStore, TLC

CONSTANTS w1, w2, c1, c2

\* The first character lives in world w1, the second in w2.
MCHomeWorld == [c \in Chars |-> IF c = c1 THEN w1 ELSE w2]

TokenSymmetry == Permutations(Tokens)
TokenProcSymmetry == Permutations(Tokens) \cup Permutations(Procs)
=============================================================================
