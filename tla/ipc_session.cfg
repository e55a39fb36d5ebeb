SPECIFICATION BothSpec
CONSTANTS
  find = find
  act = act
  other = other
  Requests = {find, act}
  Others = {other}
  Kind <- MCKind
  Script <- MCScript
  None = None
  MaxDeaths = 1
  Bytes = {"a", "b"}
  Newline = "n"
  MaxBytes = 2
  Capacity = 3
  MaxStream = 6
CHECK_DEADLOCK FALSE
INVARIANTS
  LinesAreFramed
PROPERTIES
  KeepsContract
  ListensAgain
  RequestsEnd
