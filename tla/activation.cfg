SPECIFICATION KeyboardSpec
CONSTANTS
  ctrlAltSpace = ctrlAltSpace
  ctrlShiftK = ctrlShiftK
  altDel = altDel
  noChord = noChord
  Chords = {ctrlAltSpace, ctrlShiftK, altDel}
  Registrable = {ctrlAltSpace, ctrlShiftK}
  NoChord = noChord
  MaxPending = 2
  MaxPresses = 1
  MaxCaptures = 1
  MaxChanges = 3
INVARIANTS
  GrantedIsHeld
  StatusIsTrue
PROPERTY
  OpeningRetries
