SPECIFICATION Spec
CONSTANTS
  Buf = 1
  IdleModes = {TRUE, FALSE}
PROPERTIES
  BridgeEnds
  HalfCloseTravels
CHECK_DEADLOCK FALSE
