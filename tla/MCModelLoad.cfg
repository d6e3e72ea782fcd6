SPECIFICATION Spec
CONSTANTS
  p1 = p1
  p2 = p2
  Proc = {p1, p2}
  Size = {0, 1, 7, 8, 9, 28, 29}
  GiB = 4
  Modulus = 32
  MaxGiB = 2
  Free = Free
INVARIANTS
  TypeOK
  BudgetIsExact
PROPERTY LoadsEnd
CHECK_DEADLOCK FALSE
