SPECIFICATION Spec
CONSTANTS
  Buf = 2
  IdleModes = {TRUE, FALSE}
INVARIANTS
  TypeOK
  ExactlyOnce
  TruncationReported
  CleanMeansComplete
PROPERTIES
  NoEarlyTeardown
CHECK_DEADLOCK FALSE
