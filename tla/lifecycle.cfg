SPECIFICATION FairSpec
CONSTANTS
  app1 = app1
  app2 = app2
  d1 = d1
  d2 = d2
  d3 = d3
  Apps = {app1, app2}
  Daemons = {d1, d2, d3}
  None = None
  MaxFaults = 1
CHECK_DEADLOCK FALSE
INVARIANTS
  NoOrphanedBackend
PROPERTIES
  OthersLeftAlone
  BackendIsReached
