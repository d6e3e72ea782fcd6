SPECIFICATION Spec
CONSTANTS
  Unlimited = 9
  Held <- FewHeld
  Given = {}
INVARIANT
  StrictRoundTrip
CHECK_DEADLOCK FALSE
