SPECIFICATION Spec
CONSTANTS
  BufSize = 2
  LineMax = 4
  Streams <- MCStreams
INVARIANTS
  TypeOK
  OneVerdictPerLine
  MemoryBounded
PROPERTIES
  Terminates
CHECK_DEADLOCK FALSE
