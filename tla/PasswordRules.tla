--------------------------- MODULE PasswordRules ---------------------------
(***************************************************************************)
(* The password policy: what PasswordPolicy.validate rejects and how it    *)
(* scores.  A password is a sequence of characters; Code, Lower, Classes   *)
(* and Plain say what a character is, and what it stands for.  A policy is *)
(* a record with the fields of the dataclass.                              *)
(***************************************************************************)
EXTENDS Integers, SequencesExt, FiniteSetsExt

CONSTANTS
  Code,      \* Code[c]: ord(c)
  Lower,     \* Lower[c]: c.lower()
  Classes,   \* Classes[c]: the classes of c, "upper", "lower", "digit", "special"
  Plain,     \* Plain[c]: c with its substitution reversed
  Blank,     \* the characters that strip() takes away
  Common,    \* COMMON_PASSWORDS
  Bits       \* Bits[classes]: bits of one character of these classes, rounded down

AllClasses == {"upper", "lower", "digit", "special"}

\* What is said of the characters.
ASSUME CharTypes ==
  /\ Code \in [DOMAIN Code -> Int] /\ Lower \in [DOMAIN Code -> DOMAIN Code]
  /\ Classes \in [DOMAIN Code -> SUBSET AllClasses] /\ Bits \in [SUBSET AllClasses -> Nat]

ClassesIn(p) == UNION {Classes[p[i]] : i \in DOMAIN p}

Map(f, p) == [i \in DOMAIN p |-> f[p[i]]]

\* Mutant of IsSequence: only ascending sequences count.
IsSequenceUp(p, i) ==
  \A j \in {i, i + 1} : Code[Lower[p[j + 1]]] = Code[Lower[p[j]]] + 1

\* Three neighbours in code order, up or down, in one case.
IsSequence(p, i) ==
  \E d \in {1, -1} : \A j \in {i, i + 1} : Code[Lower[p[j + 1]]] = Code[Lower[p[j]]] + d

Sequential(p) == \E i \in 1..(Len(p) - 2) : IsSequence(p, i)

\* _find_repeated: a run of more than the allowed number; none is allowed to
\* mean that the check is off.
Repeated(p, allowed) ==
  /\ allowed >= 1
  /\ \E i \in 1..(Len(p) - allowed) : \A j \in i..(i + allowed) : p[j] = p[i]

Stripped(p) ==
  LET ink == {i \in DOMAIN p : p[i] \notin Blank}
  IN IF ink = {} THEN <<>> ELSE SubSeq(p, Min(ink), Max(ink))

IsCommon(p) ==
  LET normal == Stripped(Map(Lower, p))
  IN normal \in Common \/ Map(Plain, normal) \in Common

\* The errors of validate; all of them are collected.
Errors(policy, p) ==
  (IF Len(p) < policy.min THEN {"too short"} ELSE {})
    \cup (IF Len(p) > policy.max THEN {"too long"} ELSE {})
    \cup (policy.require \ ClassesIn(p))
    \cup (IF policy.common /\ IsCommon(p) THEN {"common"} ELSE {})
    \cup (IF policy.sequential /\ Sequential(p) THEN {"sequential"} ELSE {})
    \cup (IF policy.repeated /\ Repeated(p, policy.maxRepeated) THEN {"repeated"} ELSE {})

Valid(policy, p) == Errors(policy, p) = {}

\* _estimate_entropy: a bit less for each pair of equals, two for each ascending
\* triple, and never negative.
Entropy(p) ==
  LET pairs   == Cardinality({i \in 1..(Len(p) - 1) : p[i] = p[i + 1]})
      triples == Cardinality({i \in 1..(Len(p) - 2) : \A j \in {i, i + 1} : Code[p[j + 1]] = Code[p[j]] + 1})
  IN Max({0, Len(p) * Bits[ClassesIn(p)] - pairs - 2 * triples})

AtMost(bound, x) == IF x > bound THEN bound ELSE x

\* _calculate_score, and the cut that validate makes when there are errors.
Score(policy, p) ==
  LET score == AtMost(100, AtMost(40, 4 * Len(p)) + AtMost(30, Entropy(p) \div 2)
                             + 5 * Cardinality(ClassesIn(p))
                             + (IF Len(p) > policy.min THEN AtMost(10, 2 * (Len(p) - policy.min)) ELSE 0))
  IN IF Valid(policy, p) THEN score ELSE AtMost(25, score)

(***************************************************************************)
(* The three levels, with their lengths in units: 8, 12 and 16 are two,    *)
(* three and four of them, 128 is 32.                                      *)
(***************************************************************************)
Preset(name, unit) ==
  LET basic == [min |-> 2 * unit, max |-> 32 * unit, require |-> {}, common |-> TRUE,
                sequential |-> FALSE, repeated |-> FALSE, maxRepeated |-> 3]
      standard == [basic EXCEPT !.min = 3 * unit, !.sequential = TRUE, !.repeated = TRUE]
  IN CASE name = "basic"    -> basic
       [] name = "standard" -> standard
       [] name = "strict"   -> [standard EXCEPT !.min = 4 * unit, !.maxRepeated = 2,
                                  !.require = AllClasses]

-----------------------------------------------------------------------------
\* The levels are nested: what the strict policy accepts the standard one does, and
\* what that accepts the basic one does.  No policy tells a password from its
\* mirror image, except by the list of common ones.  A refused password scores at
\* most 25, no password more than 100.
LevelsNest(p, unit) ==
  LET L(name) == Preset(name, unit)
      mirror  == Reverse(p)
  IN /\ Valid(L("strict"), p) => Valid(L("standard"), p)
     /\ Valid(L("standard"), p) => Valid(L("basic"), p)
     /\ \A name \in {"basic", "standard", "strict"} :
          /\ Errors(L(name), p) \ {"common"} = Errors(L(name), mirror) \ {"common"}
          /\ Score(L(name), p) \in 0..(IF Valid(L(name), p) THEN 100 ELSE 25)
=============================================================================
