CONSTANTS
  NL = "nl"
  F = f
  G = g
  H = h
  Formatter = formatter
  Renamer = renamer
  Threads = {formatter, renamer}
  Absent = absent
  Annotated = annotated
  Files <- MCFiles
  Initial <- MCInitial
  EditsOf <- AllEdits
SPECIFICATION Spec
INVARIANTS
  NoPositionShifts
