SPECIFICATION Spec
CONSTANTS
  N = 6
  ChunkSize = 3
  MaxBuffer = 3
  MaxLine = 2
INVARIANT LongLinesAreDropped
CHECK_DEADLOCK FALSE
