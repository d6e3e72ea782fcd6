SPECIFICATION Spec
CONSTANTS
  old = old
  new = new
  Item <- MCItem
  Kind <- MCKind
  Release = {old, new}
  Ships <- MCShips
  Text = {t1, t2}
  Torn = Torn
  Dir = {d1, d2}
  NoItem = NoItem
  NoDir = NoDir
SYMMETRY Sym
INVARIANT ExistingFilesRespected
CHECK_DEADLOCK FALSE
