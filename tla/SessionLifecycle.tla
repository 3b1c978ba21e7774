-------------------------- MODULE SessionLifecycle --------------------------
(***************************************************************************)
(* What a session id promises to the one who holds it: it is opened for    *)
(* one account and stays that account's; it may enter the world with a     *)
(* character, and change the character, but never goes back to being an    *)
(* account-only session; once over, it is over for good.                   *)
(***************************************************************************)
CONSTANTS Users, Chars, Tokens, NULL, AllowMultiple

VARIABLES phase, holder, character

lifecycleVars == <<phase, holder, character>>

Open == {t \in Tokens : phase[t] \in {"account", "inWorld"}}

LifecycleInit ==
  /\ phase = [t \in Tokens |-> "fresh"]
  /\ holder = [t \in Tokens |-> NULL]
  /\ character = [t \in Tokens |-> NULL]

\* The ids in T are over: their holder and character are forgotten.
Ended(T) ==
  /\ phase' = [t \in Tokens |-> IF t \in T THEN "over" ELSE phase[t]]
  /\ holder' = [t \in Tokens |-> IF t \in T THEN NULL ELSE holder[t]]
  /\ character' = [t \in Tokens |-> IF t \in T THEN NULL ELSE character[t]]

End == \E T \in SUBSET Open : Ended(T)

\* A login; unless several sessions are allowed it ends the user's others.
Begin(t, u) ==
  LET T == IF AllowMultiple THEN {} ELSE {x \in Open : holder[x] = u}
  IN /\ phase[t] = "fresh"
     /\ phase' = [x \in Tokens |-> IF x = t THEN "account" ELSE IF x \in T THEN "over" ELSE phase[x]]
     /\ holder' = [x \in Tokens |-> IF x = t THEN u ELSE IF x \in T THEN NULL ELSE holder[x]]
     /\ character' = [x \in Tokens |-> IF x \in T THEN NULL ELSE character[x]]

Enter(t, c) ==
  /\ t \in Open
  /\ phase' = [phase EXCEPT ![t] = "inWorld"]
  /\ character' = [character EXCEPT ![t] = c]
  /\ UNCHANGED holder

LifecycleNext ==
  \/ End
  \/ \E t \in Tokens, u \in Users : Begin(t, u)
  \/ \E t \in Tokens, c \in Chars : Enter(t, c)

LifecycleSpec == LifecycleInit /\ [][LifecycleNext]_lifecycleVars
=============================================================================
