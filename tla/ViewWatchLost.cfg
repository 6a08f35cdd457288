SPECIFICATION ViewSpec
CONSTANTS
  a = a
  b = b
  caller1 = caller1
  caller2 = caller2
  watch1 = watch1
  watch2 = watch2
  screen = screen
  None = None
  Subjects <- MCSubjects
  Callers <- MCOneCaller
  Watches <- MCWatches
  Listeners <- MCListeners
  MaxGeneration = 2
  MaxPicks = 1
  MaxWorld = 0
  MaxChanges = 2
  MaxToggles = 3
  MaxStarts = 1
  PromptWatch = FALSE
INVARIANTS
  AutoRefreshIsAlive
\* The user may leave the program alone for good.
CHECK_DEADLOCK FALSE
