\* One server process, no faults: bans and the guest sweep.
SPECIFICATION FairSpec
CONSTANTS
  Users = {root, ada}
  Superusers = {root}
  c1 = c1
  c2 = c2
  Chars = {c1}
  w1 = w1
  w2 = w2
  Worlds = {w1, w2}
  HomeWorld <- MCHomeWorld
  Tokens = {t1, t2}
  Procs = {p1}
  NULL = NULL
  TTL = 1
  Sliding = TRUE
  AllowMultiple = FALSE
  GuestLifetime = 1
  MaxTime = 2
  CanCrash = FALSE
  CanFail = FALSE
INVARIANT BannedHasNoSession
PROPERTY CleanupsComplete
CHECK_DEADLOCK FALSE
