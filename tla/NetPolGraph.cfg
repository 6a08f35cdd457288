SPECIFICATION Spec
CONSTANTS
  a = a
  b = b
  caller1 = caller1
  caller2 = caller2
  watch1 = watch1
  watch2 = watch2
  view = view
  None = None
  Subjects <- MCSubjects
  Callers <- MCNoCallers
  Watches <- MCWatches
  Listeners <- MCListeners
  MaxGeneration = 2
  MaxWorld = 1
  MaxChanges = 3
SYMMETRY Symmetric
INVARIANTS
  TypeOK
  OneLiveWatch
  FailureIsLastRefresh
  RequestIsHeld
PROPERTIES
  ResultsInOrder
