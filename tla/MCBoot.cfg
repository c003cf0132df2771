SPECIFICATION Spec
CONSTANTS
  h1 = h1
  h2 = h2
  u = u
  Hosts = {h1, h2}
  Utils = {u}
  Payloads <- MCPayloads
  HostOK <- MCHostOK
  EnclaveOK <- MCEnclaveOK
  OneEndpoint <- MCHostOK
  HttpPort <- MCHttpPort
  HttpVsock <- MCHttpVsock
  HttpTcp <- MCHttpTcp
  Endpoints <- MCEndpoints
  Cut = "cut"
  Image = "image"
  MaxStarts = 2
  MaxBoots = 2
  MaxFaults = 1
INVARIANTS
  TypeOK
  OnlyWholeFiles
PROPERTIES
  AllListenersOrNone
  SmokeEnds
  Boots
CHECK_DEADLOCK FALSE
