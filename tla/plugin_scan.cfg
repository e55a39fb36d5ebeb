SPECIFICATION ReadersSpec
CONSTANTS
  calculator = calculator
  clipboard = clipboard
  notes = notes
  letter = letter
  log = log
  folder = folder
  NumPaths = 2
  Ids = {calculator, clipboard, notes}
  BuiltIns = {calculator, clipboard}
  Executable = {calculator}
  Manifests <- MCManifests
  Malformed = Malformed
  Missing = Missing
  None = None
  Items = {letter, log, folder}
  Files = {letter, log}
  Hits <- MCHits
  MaxSize = 3
  Settings <- MCSettings
  HardFile = 2
  HardContext = 3
  Chunk = 2
  OutputLimit = 2
  PipeSize = 1
  Polls = 2
CHECK_DEADLOCK FALSE
INVARIANTS
  ScanIsSound
  OnlyBuiltInsRun
  ContextKept
  WholeListing
PROPERTIES
  ListingTimesOut
