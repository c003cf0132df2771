------------------------------- MODULE Config -------------------------------
(***************************************************************************)
(* normalizeConfig and ValidateConfig (config.go), run by the host process *)
(* and by the enclave process on the same configuration, one endpoint of   *)
(* the validation loop at a time.  A configuration is what json.Unmarshal  *)
(* left in the struct, the xxxSet flags included.  An address is the last  *)
(* octet n of 127.0.0.n; 0 stands for the empty string, more than 255 for  *)
(* what is no loopback address.  (Others of 127.0.0.0/8 are like these.)   *)
(***************************************************************************)
EXTENDS Integers, Sequences

CONSTANTS
  RawConfigs,     \* the parsed configurations to validate
  Lower,          \* Lower[h]: strings.ToLower(h)
  GoodHosts,      \* the host names validateHostname accepts
  MaxEndpoints,   \* maxEndpoints
  MaxPort         \* 65535

Modes == {"host", "enclave"}

FirstOctet == 64
LastOctet == 254
MaxOctet == 255

(* The struct types of config.go, v0.2 for any version but the one known.  *)
Versions == {"", "v0.1", "v0.2"}

Endpoint ==
  [host: DOMAIN Lower, vsockPort: Nat,
   tcpPort: 0 .. MaxPort, tcpPortSet: BOOLEAN,
   localPort: 0 .. MaxPort, localPortSet: BOOLEAN,
   localIP: Nat, localIPSet: BOOLEAN]

ConfigStruct ==
  [schemaVersion: Versions, httpPort: 0 .. MaxPort, httpVsockPort: Nat,
   httpTcpPort: 0 .. MaxPort, endpointsSet: BOOLEAN, endpointsNil: BOOLEAN,
   endpoints: Seq(Endpoint)]

ASSUME ConfigAssumption ==
  /\ RawConfigs \subseteq ConfigStruct
  /\ MaxEndpoints \in Nat
  /\ FirstOctet + MaxEndpoints - 1 <= LastOctet
  /\ MaxPort \in Nat /\ 443 <= MaxPort

VARIABLES
  config,       \* config[m]: *Config in the process of mode m
  at,           \* at[m]: the next part of ValidateConfig, or its verdict
  i,            \* i[m]: the endpoint the loop is at, from 1
  hosts,        \* hosts[m], vsockPorts[m], localAddrs[m]:
  vsockPorts,   \*   the keys of the three maps of the loop
  localAddrs

vars == <<config, at, i, hosts, vsockPorts, localAddrs>>

Verdicts == {"accepted", "rejected"}

-----------------------------------------------------------------------------

(* A seeded fault: localPort has no default.                               *)
NoDefaultLocalPort(ep) == [ep EXCEPT !.tcpPort = IF ep.tcpPortSet THEN @ ELSE 443]

(* An absent tcpPort or localPort becomes 443, an absent version v0.1.     *)
NormalizeEndpoint(ep) ==
  [ep EXCEPT !.tcpPort = IF ep.tcpPortSet THEN @ ELSE 443,
             !.localPort = IF ep.localPortSet THEN @ ELSE 443]

NormalizeConfig(cfg) ==
  [cfg EXCEPT !.schemaVersion = IF @ = "" THEN "v0.1" ELSE @,
              !.endpoints = [k \in DOMAIN @ |-> NormalizeEndpoint(@[k])]]

PortOK(p) == p # 0 /\ p <= MaxPort

IsLoopback(octet) == octet \in 1 .. MaxOctet

ValidateEndpoint(ep) ==
  /\ ep.host \in GoodHosts
  /\ PortOK(ep.vsockPort)
  /\ ~ (ep.tcpPortSet /\ ep.tcpPort = 0)
  /\ ~ (ep.localPortSet /\ ep.localPort = 0)
  /\ ~ (ep.localIPSet /\ ep.localIP = 0)
  /\ ep.localIP # 0 => IsLoopback(ep.localIP)

(* The index counts from 0.                                                *)
EndpointLocalIP(ep, index) ==
  IF ep.localIP # 0 THEN ep.localIP ELSE FirstOctet + index

(* A seeded fault: the override is left out of the address compared.       *)
LocalAddrByIndex(ep, index) == <<FirstOctet + index, ep.localPort>>

(* A seeded fault: the port is left out of it.                             *)
LocalAddrWithoutPort(ep, index) == <<EndpointLocalIP(ep, index)>>

LocalAddr(ep, index) == <<EndpointLocalIP(ep, index), ep.localPort>>

(* A seeded fault: host names are compared with their case.                *)
HostKeyAsWritten(ep) == ep.host

HostKey(ep) == Lower[ep.host]

(* A seeded fault: the host does not check the port it dials.              *)
HostSkipsVsockPort(cfg, m) ==
  /\ cfg.schemaVersion = "v0.1"
  /\ cfg.endpointsSet /\ ~ cfg.endpointsNil
  /\ Len(cfg.endpoints) <= MaxEndpoints
  /\ m = "host" => cfg.httpPort # 0
  /\ m = "enclave" => PortOK(cfg.httpVsockPort) /\ cfg.httpTcpPort # 0

(* What ValidateConfig checks before its loop.                             *)
HeadOK(cfg, m) ==
  /\ cfg.schemaVersion = "v0.1"
  /\ cfg.endpointsSet /\ ~ cfg.endpointsNil
  /\ Len(cfg.endpoints) <= MaxEndpoints
  /\ m = "host" => cfg.httpPort # 0
  /\ PortOK(cfg.httpVsockPort)
  /\ m = "enclave" => cfg.httpTcpPort # 0

-----------------------------------------------------------------------------

Init ==
  /\ \E raw \in RawConfigs : config = [m \in Modes |-> raw]
  /\ at = [m \in Modes |-> "normalize"]
  /\ i = [m \in Modes |-> 1]
  /\ hosts = [m \in Modes |-> {}]
  /\ vsockPorts = [m \in Modes |-> {}]
  /\ localAddrs = [m \in Modes |-> {}]

(* The end of ParseConfig.                                                 *)
Normalize(m) ==
  /\ at[m] = "normalize"
  /\ config' = [config EXCEPT ![m] = NormalizeConfig(@)]
  /\ at' = [at EXCEPT ![m] = "head"]
  /\ UNCHANGED <<i, hosts, vsockPorts, localAddrs>>

(* ValidateConfig normalizes once more.                                    *)
ValidateHead(m) ==
  /\ at[m] = "head"
  /\ config' = [config EXCEPT ![m] = NormalizeConfig(@)]
  /\ at' = [at EXCEPT ![m] = IF HeadOK(config'[m], m) THEN "loop" ELSE "rejected"]
  /\ UNCHANGED <<i, hosts, vsockPorts, localAddrs>>

(* One turn of the loop over cfg.Endpoints.                                *)
EndpointPasses(m) ==
  LET ep == config[m].endpoints[i[m]]
  IN  /\ ValidateEndpoint(ep)
      /\ HostKey(ep) \notin hosts[m]
      /\ ep.vsockPort \notin vsockPorts[m]
      /\ LocalAddr(ep, i[m] - 1) \notin localAddrs[m]

NextEndpoint(m) ==
  /\ at[m] = "loop" /\ i[m] <= Len(config[m].endpoints)
  /\ EndpointPasses(m)
  /\ LET ep == config[m].endpoints[i[m]]
     IN  /\ hosts' = [hosts EXCEPT ![m] = @ \cup {HostKey(ep)}]
         /\ vsockPorts' = [vsockPorts EXCEPT ![m] = @ \cup {ep.vsockPort}]
         /\ localAddrs' = [localAddrs EXCEPT ![m] = @ \cup {LocalAddr(ep, i[m] - 1)}]
  /\ i' = [i EXCEPT ![m] = @ + 1]
  /\ UNCHANGED <<config, at>>

RejectEndpoint(m) ==
  /\ at[m] = "loop" /\ i[m] <= Len(config[m].endpoints)
  /\ ~ EndpointPasses(m)
  /\ at' = [at EXCEPT ![m] = "rejected"]
  /\ UNCHANGED <<config, i, hosts, vsockPorts, localAddrs>>

Accept(m) ==
  /\ at[m] = "loop" /\ i[m] > Len(config[m].endpoints)
  /\ at' = [at EXCEPT ![m] = "accepted"]
  /\ UNCHANGED <<config, i, hosts, vsockPorts, localAddrs>>

Next == \E m \in Modes :
  \/ Normalize(m) \/ ValidateHead(m)
  \/ NextEndpoint(m) \/ RejectEndpoint(m) \/ Accept(m)

Spec == Init /\ [][Next]_vars

-----------------------------------------------------------------------------
(* Properties.                                                             *)

TypeOK ==
  /\ at \in [Modes -> {"normalize", "head", "loop"} \cup Verdicts]
  /\ i \in [Modes -> 1 .. MaxEndpoints + 1]
  /\ \A m \in Modes : hosts[m] \subseteq {Lower[h] : h \in GoodHosts}
  /\ \A m \in Modes : vsockPorts[m] \subseteq 1 .. MaxPort

(* Two endpoints of a configuration get in each other's way: same name up  *)
(* to case, same VSOCK port on the parent, or same address to bind in the  *)
(* enclave, be it given or generated.                                      *)
Collide(eps, j, k) ==
  \/ Lower[eps[j].host] = Lower[eps[k].host]
  \/ eps[j].vsockPort = eps[k].vsockPort
  \/ /\ EndpointLocalIP(eps[j], j - 1) = EndpointLocalIP(eps[k], k - 1)
     /\ eps[j].localPort = eps[k].localPort

(* The routing that a configuration asks for is a function both ways: no   *)
(* two of its endpoints collide.                                           *)
NoCollision == \A m \in Modes :
  at[m] = "accepted" =>
    \A j, k \in DOMAIN config[m].endpoints :
      j # k => ~ Collide(config[m].endpoints, j, k)

(* Nothing is refused without reason: a rejected configuration has a bad   *)
(* head, a bad endpoint or two that collide.                               *)
RejectionJustified == \A m \in Modes :
  at[m] = "rejected" =>
    \/ ~ HeadOK(config[m], m)
    \/ \E j \in DOMAIN config[m].endpoints : ~ ValidateEndpoint(config[m].endpoints[j])
    \/ \E j, k \in DOMAIN config[m].endpoints :
         j < k /\ Collide(config[m].endpoints, j, k)

(* Every listener of an accepted configuration can be asked for: each      *)
(* address is 127.0.0.1 to 127.0.0.255 (the generated ones stop at .254,   *)
(* whatever the number of endpoints) and each port is a port.              *)
BindsAreLegal == \A m \in Modes :
  at[m] = "accepted" =>
    \A j \in DOMAIN config[m].endpoints :
      LET ep == config[m].endpoints[j]
      IN  /\ EndpointLocalIP(ep, j - 1) \in 1 .. MaxOctet
          /\ ep.localIP = 0 => EndpointLocalIP(ep, j - 1) <= LastOctet
          /\ ep.localPort \in 1 .. MaxPort /\ ep.vsockPort \in 1 .. MaxPort
          /\ ep.tcpPort \in 1 .. MaxPort

(* The two processes judge a configuration alike, but for the one port     *)
(* each of them needs: the host does not start bridges for endpoints that  *)
(* the enclave will refuse.                                                *)
SidesAgree ==
  /\ at["host"] = "accepted" /\ at["enclave"] = "rejected" =>
       config["enclave"].httpTcpPort = 0
  /\ at["enclave"] = "accepted" /\ at["host"] = "rejected" =>
       config["host"].httpPort = 0

(* main.go says of the enclave: "Inbound:  VSOCK listen -> TCP connect to  *)
(* localhost (HTTP runtime)".  Then no outbound proxy of an accepted       *)
(* configuration binds the address that inbound traffic is sent to.        *)
InboundReachesRuntime ==
  at["enclave"] = "accepted" =>
    \A j \in DOMAIN config["enclave"].endpoints :
      LET ep == config["enclave"].endpoints[j]
      IN  <<EndpointLocalIP(ep, j - 1), ep.localPort>> # <<1, config["enclave"].httpTcpPort>>
=============================================================================
