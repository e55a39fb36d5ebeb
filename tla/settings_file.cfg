SPECIFICATION FilesSpec
CONSTANTS
  ctrlAltSpace = ctrlAltSpace
  ctrlShiftK = ctrlShiftK
  broken = broken
  missing = missing
  torn = torn
  noPage = noPage
  noWrite = noWrite
  Chords = {ctrlAltSpace, ctrlShiftK}
  DefaultChord = ctrlAltSpace
  BrokenHotkey = broken
  Missing = missing
  Torn = torn
  NoPage = noPage
  NoWrite = noWrite
  MaxEdits = 1
  main = main
  capture = capture
  shot = shot
  calc = calc
  Writers = {main, capture}
  Items = {shot, calc}
  Parts = 2
  MaxEvents = 4
  MaxBreaks = 2
SYMMETRY WriterSymmetry
INVARIANTS
  CaptureReadAlike
  WritesReadBack
  CleanLogIsMemory
  LossBounded
PROPERTY
  RepairKeepsChoices
