SPECIFICATION Spec
CONSTANTS
  Unlimited = 9
  Held <- AllHeld
  Given <- AllGiven
INVARIANTS
  TypeOK
  RoundTrip
  WrittenIsAccepted
  NormalFormIsStable
  FoldingKeepsKeysApart
  NumbersKeepTheirValue
CHECK_DEADLOCK FALSE
