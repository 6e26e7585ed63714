CONSTANTS
  R = r
  A = a
  B = b
  Srv = srv
  Ext = ext
  X = x
  Y = y
  NoFile = noFile
  Root = r
  Files <- MCFiles
  Servers = {srv}
  Extensions = {ext}
  Languages = {x, y}
  Disks <- MCDisks
SPECIFICATION Spec
INVARIANTS
  ImportsNest
  ClosestWins
  LanguagesComplete
  TreesLoad
CHECK_DEADLOCK FALSE
