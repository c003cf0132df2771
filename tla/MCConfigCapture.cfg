SPECIFICATION FileSpec
CONSTANTS
  Files <- MCFiles
  Field <- MCField
  RawConfigs <- MCRawConfigs
  Lower <- MCLower
  GoodHosts <- MCGoodHosts
  MaxEndpoints = 3
  MaxPort = 65535
  MaxUint32 = 131071
INVARIANTS
  InboundReachesRuntime
CHECK_DEADLOCK FALSE
