SPECIFICATION AllSpec
CONSTANTS
  main = main
  capture = capture
  q1 = q1
  q2 = q2
  q3 = q3
  calc = calc
  Searchers = {main}
  Recorders = {capture}
  Queries = {q1, q2, q3}
  Items = {calc}
  CacheLimit = 2
  Ttl = 2
  MaxCount = 1
  ClockStepsBack = FALSE
  MaxTime = 3
  MaxWorld = 1
  NoBatch = NoBatch
  NoArg = NoArg
  dir = dir
  sub = sub
  leaf = leaf
  deep = deep
  home = home
  Nodes = {dir, leaf, sub, deep}
  Folders = {dir, sub}
  Roots <- MCRoots
  Parent <- MCParent
  MaxDepth = 1
  NoRow = NoRow
  NoTxn = NoTxn
  Idle = Idle
  MaxVersion = 2
  MaxChanges = 1
  MaxRequests = 2
  desktop = desktop
  documents = documents
  notes = notes
  draft = draft
  old = old
  older = older
  note = note
  memo = memo
  Alphabets <- MCAlphabets
  Floats <- MCFloats
  Finite <- MCFinite
  Zeros <- MCZeros
  Parse <- MCParse
  Rounded <- MCRounded
  Listed = {notes, draft, old, older, note, memo}
  Subfolders = {notes, old}
  Places <- MCPlaces
  Contents <- MCContents
  Deepest = 2
  MaxEntries = 3
SYMMETRY QuerySymmetry
INVARIANTS
  CacheWellFormed
  CandidatesFresh
  AnswerWithinTtl
  RefreshIsComplete
  ArithmeticKeepsRules
  WalkFillsItsLimit
PROPERTIES
  StoreKeepsContract
  StaleOnlyWhenOvertaken
CHECK_DEADLOCK FALSE
