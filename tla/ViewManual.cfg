SPECIFICATION ViewSpec
CONSTANTS
  a = a
  b = b
  caller1 = caller1
  caller2 = caller2
  watch1 = watch1
  watch2 = watch2
  screen = screen
  None = None
  Subjects <- MCSubjects
  Callers <- MCOneCaller
  Watches <- MCNoWatch
  Listeners <- MCListeners
  MaxGeneration = 2
  MaxPicks = 1
  MaxWorld = 1
  MaxChanges = 3
  MaxToggles = 0
  MaxStarts = 2
  PromptWatch = TRUE
INVARIANTS
  ViewTypeOK
  DisplayIsOfSubject
  ResultIsOfSubject
PROPERTIES
  RefreshIsServed
  SubjectIsEvaluated
  PartialIsAnnotated
  ImplementsDisplay
\* The user may leave the program alone for good.
CHECK_DEADLOCK FALSE
