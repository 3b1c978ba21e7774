------------------------------- MODULE Absent -------------------------------
(***************************************************************************)
(* What the modules about single services share: NULL, Python's None, and  *)
(* the choice of the first value that is there.                            *)
(***************************************************************************)
EXTENDS Integers, Sequences

CONSTANT NULL

\* The first element that is not NULL; NULL when there is none.
FirstOf(s) ==
  LET given == {i \in DOMAIN s : s[i] # NULL}
  IN IF given = {} THEN NULL ELSE s[CHOOSE i \in given : \A j \in given : i <= j]
=============================================================================
