\* A character that whispers to itself, against what axis/engine.py says of its locks.
SPECIFICATION Spec
CONSTANTS
  Axes = {"demeanor", "health"}
  Channels = {"yell", "whisper"}
  Top = 6
  MinGap = 2
  Resolver <- MCResolver
  Magnitude <- MCMagnitude
  Chars = {1, 2, 3}
  InitialScores <- MCInitialScores
  p1 = p1
  Threads = {t1, t2}
  Procs = {p1}
  Home <- OneHome
  NULL = NULL
  CanFail = FALSE
  CanCrash = FALSE
  MaxTurns = 3
INVARIANT NoWaitCycle
CHECK_DEADLOCK FALSE
