\* Two threads of one server process, where characters may whisper to themselves,
\* appends, reads and transactions may fail and the process may die.
SPECIFICATION FairSpec
CONSTANTS
  Axes = {"demeanor", "health"}
  Channels = {"yell", "whisper"}
  Top = 6
  MinGap = 2
  Resolver <- MCResolver
  Magnitude <- MCMagnitude
  Chars = {1, 2, 3}
  InitialScores <- MCInitialScores
  p1 = p1
  Threads = {t1, t2}
  Procs = {p1}
  Home <- OneHome
  NULL = NULL
  CanFail = TRUE
  CanCrash = TRUE
  MaxTurns = 2
INVARIANTS ScoresSound OnlySelfTalkBlocks
PROPERTIES InteractionEnds InteractionsAreAtomic
CHECK_DEADLOCK FALSE
