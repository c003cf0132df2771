SPECIFICATION Spec
CONSTANTS
  c1 = c1
  c2 = c2
  c3 = c3
  c4 = c4
  NoConn = NoConn
  Conns <- MCConns
  PeerCID <- MCPeerCID
  ExpectedCID = 3
  Kinds = {"hostInbound", "hostOutbound", "enclaveInbound", "enclaveOutbound"}
  Limit = 2
  MaxAcceptErrors = 1
INVARIANTS
  TypeOK
  SlotsMatchBridges
  OpenWithinLimit
  NoStrayConn
PROPERTIES
  TurnedAwayOnlyWhenFull
  EveryConnSettles
  ImplementsPool
CHECK_DEADLOCK FALSE
