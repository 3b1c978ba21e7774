\* The guest purge when a repository call may fail, against docs/source/security.rst.
SPECIFICATION FairSpec
CONSTANTS
  Users = {root, ada}
  Superusers = {root}
  c1 = c1
  c2 = c2
  Chars = {c1}
  w1 = w1
  w2 = w2
  Worlds = {w1, w2}
  HomeWorld <- MCHomeWorld
  Tokens = {t1, t2}
  Procs = {p1}
  NULL = NULL
  TTL = 1
  Sliding = TRUE
  AllowMultiple = FALSE
  GuestLifetime = 1
  MaxTime = 2
  CanCrash = FALSE
  CanFail = TRUE
PROPERTY ExpiredGuestsPurged
CHECK_DEADLOCK FALSE
