SPECIFICATION Spec
CONSTANTS
  N = 6
  ChunkSize = 3
  MaxBuffer = 3
  MaxLine = 2
INVARIANTS
  TypeOK
  BufferBounded
  HandledAreLines
PROPERTY ShortLinesAreHandled
CHECK_DEADLOCK FALSE
