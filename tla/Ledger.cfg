\* Two writers, three events; appends that fail or are killed half way.
SPECIFICATION FairSpec
CONSTANTS
  MaxEvents = 3
  Writers = {w1, w2}
  Shape <- PlainLines
  NULL = NULL
  CanFail = TRUE
  CanCrash = TRUE
INVARIANTS DamageIsBounded CorruptMeansDamaged
PROPERTY AppendEnds
CHECK_DEADLOCK FALSE
