SPECIFICATION Spec
CONSTANTS
  q1 = q1
  q2 = q2
  file = file
  ask = ask
  settings = settings
  s1 = s1
  s2 = s2
  p1 = p1
  p2 = p2
  a1 = a1
  a2 = a2
  Queries = {q1, q2}
  Blank = Blank
  Results = {file, ask, settings}
  AskResults = {ask}
  Settings = settings
  Offered <- MCOffered
  Batches <- MCBatches
  None = None
  Searches = {s1, s2}
  Previews = {p1, p2}
  Acceptances = {a1, a2}
SYMMETRY Symmetry
INVARIANTS
  SelectionOnScreen
  SettledScreen
  BlankPrompts
  PreviewFollowsSelection
PROPERTIES
  NewestResultsOnly
  AnswersAreCurrent
