SPECIFICATION MCSpec
CONSTANTS
  home = home
  away = away
  first = first
  second = second
  page1 = page1
  page2 = page2
  UI = UI
  None = None
  Contexts <- MCContexts
  Updaters <- MCUpdaters
  Threads <- MCThreads
  Pages <- MCPages
  MaxConnRetry = 2
  LongOutage = FALSE
  MaxEvents = 2
  MaxHalts = 1
PROPERTIES
  BailsOutAfterRetries
CHECK_DEADLOCK FALSE
