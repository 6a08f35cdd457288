SPECIFICATION Spec
CONSTANTS
  pod1 = pod1
  pod2 = pod2
  default = default
  system = system
  ready = ready
  Everything = Everything
  labelled = labelled
  watch1 = watch1
  watch2 = watch2
  UI = UI
  None = None
  Unset = Unset
  Ids <- MCOneId
  Values <- MCOneValue
  Namespaces <- MCOneNamespace
  Selectors <- MCSelectors
  Watches <- MCWatches
  Scope <- MCScope
  Clusters <- MCEveryCluster
  MaxWorld = 0
  MaxErrors = 1
  MaxCommands = 2
  MaxReloads = 1
CONSTRAINT WatchesInOrder
INVARIANTS
  RefreshIsExclusive
PROPERTIES
  DisplayCatchesUp
\* Nobody need start the browser.
CHECK_DEADLOCK FALSE
