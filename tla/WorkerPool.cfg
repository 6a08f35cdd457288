SPECIFICATION Spec
CONSTANTS
  j1 = j1
  j2 = j2
  j3 = j3
  j4 = j4
  Jobs <- MCJobs
  Size = 2
INVARIANTS
  TypeOK
  BoundedJobs
  NoUseAfterClose
  DrainReportsEveryError
PROPERTIES
  BatchReturns
  ImplementsBatch
\* The batch ends when Drain returns.
CHECK_DEADLOCK FALSE
