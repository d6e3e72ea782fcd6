SPECIFICATION Spec
CONSTANTS
  a = a
  b = b
  c = c
  Peer = {a, b, c}
  Mute = {c}
  Script <- Scripts
  Capacity = 1
  Free = Free
  NoLine = NoLine
  Crlf = Crlf
INVARIANTS
  TypeOK
  NothingIsLost
PROPERTIES
  ImplementsLineLog
  StallsEnd
  ClosedPeersLeave
CHECK_DEADLOCK FALSE
