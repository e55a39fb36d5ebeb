SPECIFICATION Spec
CONSTANTS
  main = main
  capture = capture
  q1 = q1
  q2 = q2
  q3 = q3
  calc = calc
  Searchers = {main}
  Recorders = {capture}
  Queries = {q1}
  Items = {calc}
  CacheLimit = 1
  Ttl = 2
  MaxCount = 1
  ClockStepsBack = FALSE
  MaxTime = 3
  MaxWorld = 1
  NoBatch = NoBatch
  NoArg = NoArg
INVARIANTS
  CacheReflectsUsage
