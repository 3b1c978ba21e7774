\* Names that two worlds share, in one process.
SPECIFICATION Spec
CONSTANTS
  Users = {ada, eve}
  c1 = c1
  c2 = c2
  c3 = c3
  Ids = {c1, c2, c3}
  w1 = w1
  w2 = w2
  Worlds = {w1, w2}
  DefaultWorld = w1
  Names = {n1, n2}
  Procs = {p1}
  Registrars = {p1}
  NULL = NULL
  SlotLimits <- MCSlotLimits
  MaxAttempts = 2
  CanFail = FALSE
INVARIANT ProfileIsItsOwn
