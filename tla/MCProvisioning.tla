--------------------------- MODULE MCProvisioning ---------------------------
(***************************************************************************)
(* Small instances of Provisioning for TLC.                                *)
(***************************************************************************)
EXTENDS Provisioning, TLC

CONSTANTS w1, w2, c1, c2, c3

\* The default world grants one character or none, the other world two.
MCSlotLimits == {[w \in Worlds |-> IF w = w1 THEN n ELSE 2] : n \in {0, 1}}

MCSymmetry == Permutations(Users) \cup Permutations(Names) \cup Permutations(Ids)
                \cup Permutations(Registrars)

\* What an idle process keeps of its last job is never read again.
MCView == <<limit, accounts, rows, used, outrun, crossed,
            [p \in Procs |-> IF job[p].pc = "idle" THEN Nothing ELSE job[p]]>>
=============================================================================
