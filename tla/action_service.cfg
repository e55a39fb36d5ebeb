SPECIFICATION FairSpec
CONSTANTS
  first = first
  second = second
  HardMax = 2
  DefaultMax = 2
  DefaultRecord = 1
  MaxWritten = 3
  Threads = {first, second}
  MaxActions = 2
INVARIANTS
  RecordingsBounded
  EffectsCounted
PROPERTY
  CapturesEnd
