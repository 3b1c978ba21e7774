--------------------------- MODULE AxisInteraction ---------------------------
(***************************************************************************)
(* What the axis engine promises: a chat interaction is one step, which    *)
(* computes both parties' new scores from their current ones and records   *)
(* what it did, until something fails.                                     *)
(***************************************************************************)
EXTENDS AxisResolvers, Sequences

CONSTANTS Chars, InitialScores

VARIABLES current, log, broken

InteractionInit ==
  /\ current \in InitialScores
  /\ log = <<>>
  /\ broken = FALSE

Interact(s, l, ch) ==
  /\ current' = [current EXCEPT ![s] = After(current[s], current[l], ch),
                                ![l] = After(current[l], current[s], ch)]
  /\ log' = Append(log, [speaker  |-> s, listener |-> l, channel |-> ch,
                         before   |-> <<current[s], current[l]>>])

\* The promise ends with the first failure.
InteractionNext ==
  \/ broken'
  \/ /\ \E s, l \in Chars, ch \in Channels : s # l /\ Interact(s, l, ch)
     /\ UNCHANGED broken

InteractionSpec == InteractionInit /\ [][InteractionNext]_<<current, log, broken>>
=============================================================================
