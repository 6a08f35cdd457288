SPECIFICATION Spec
CONSTANTS
  pod1 = pod1
  pod2 = pod2
  default = default
  system = system
  ready = ready
  Everything = Everything
  labelled = labelled
  watch1 = watch1
  watch2 = watch2
  UI = UI
  None = None
  Unset = Unset
  Ids <- MCIds
  Values <- MCValues
  Namespaces <- MCNamespaces
  Selectors <- MCOneSelector
  Watches <- MCOneWatch
  Scope <- MCScope
  Clusters <- MCTwoClusters
  MaxWorld = 1
  MaxErrors = 1
  MaxCommands = 2
  MaxReloads = 0
INVARIANTS
  TypeOK
  RowsAreIndexed
  RowsAreListed
\* Nobody need start the browser.
CHECK_DEADLOCK FALSE
