\* One server process that may die, or see a repository call fail, anywhere.
SPECIFICATION Spec
CONSTANTS
  Users = {root, ada}
  Superusers = {root}
  c1 = c1
  c2 = c2
  Chars = {c1, c2}
  w1 = w1
  w2 = w2
  Worlds = {w1, w2}
  HomeWorld <- MCHomeWorld
  Tokens = {t1, t2, t3}
  Procs = {p1}
  NULL = NULL
  TTL = 1
  Sliding = TRUE
  AllowMultiple = FALSE
  GuestLifetime = 1
  MaxTime = 2
  CanCrash = TRUE
  CanFail = TRUE
SYMMETRY TokenSymmetry
INVARIANTS TypeOK TablesAgree InWorldOwned
