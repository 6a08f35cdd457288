SPECIFICATION ViewSpec
CONSTANTS
  a = a
  b = b
  caller1 = caller1
  caller2 = caller2
  watch1 = watch1
  watch2 = watch2
  screen = screen
  None = None
  Subjects <- MCOneSubject
  Callers <- MCTwoCallers
  Watches <- MCWatches
  Listeners <- MCListeners
  MaxGeneration = 1
  MaxPicks = 0
  MaxWorld = 0
  MaxChanges = 1
  MaxToggles = 2
  MaxStarts = 2
  PromptWatch = TRUE
SYMMETRY Symmetric
INVARIANTS
  AutoRefreshIsAlive
\* The user may leave the program alone for good.
CHECK_DEADLOCK FALSE
