---------------------------- MODULE ConfigProofs ----------------------------
(***************************************************************************)
(* Proofs about Config, for every set of configurations and any bound on   *)
(* the endpoints: the loop of ValidateConfig keeps the endpoints it has    *)
(* passed free of collisions, rejects only for a reason, and the host and  *)
(* the enclave judge alike.                                                *)
(***************************************************************************)
EXTENDS ConfigFile, SeqLemmas, SequenceTheorems, TLAPS

Eps(m) == config[m].endpoints

(* The endpoints the loop has passed.                                      *)
Passed(m) == 1 .. i[m] - 1

Shapes ==
  /\ config \in [Modes -> ConfigStruct]
  /\ at \in [Modes -> {"normalize", "head", "loop"} \cup Verdicts]
  /\ i \in [Modes -> Nat \ {0}]
  /\ hosts \in [Modes -> SUBSET {Lower[h] : h \in GoodHosts}]
  /\ vsockPorts \in [Modes -> SUBSET (1 .. MaxPort)]
  /\ DOMAIN localAddrs = Modes

(* Both processes have the same configuration, normalized or not yet.      *)
SameConfig ==
  \E raw \in ConfigStruct : \A m \in Modes :
    config[m] = IF at[m] = "normalize" THEN raw ELSE NormalizeConfig(raw)

(* The three maps hold the keys of the endpoints passed so far.            *)
MapsOfPassed == \A m \in Modes :
  /\ hosts[m] = {HostKey(Eps(m)[j]) : j \in Passed(m)}
  /\ vsockPorts[m] = {Eps(m)[j].vsockPort : j \in Passed(m)}
  /\ localAddrs[m] = {LocalAddr(Eps(m)[j], j - 1) : j \in Passed(m)}

(* Before the loop nothing has been passed; in it the head was in order.   *)
Progress == \A m \in Modes :
  /\ at[m] \in {"normalize", "head"} => i[m] = 1
  /\ at[m] \in {"loop", "accepted"} => HeadOK(config[m], m)
  /\ i[m] # 1 => i[m] <= Len(Eps(m)) + 1 /\ Len(Eps(m)) <= MaxEndpoints
  /\ at[m] = "accepted" => i[m] = Len(Eps(m)) + 1

(* What has been passed is valid and without collisions.                   *)
PassedAreGood == \A m \in Modes :
  /\ \A j \in Passed(m) : ValidateEndpoint(Eps(m)[j])
  /\ \A j, k \in Passed(m) : j # k => ~ Collide(Eps(m), j, k)

ConfigInv ==
  /\ Shapes /\ SameConfig /\ MapsOfPassed /\ Progress
  /\ PassedAreGood /\ RejectionJustified

-----------------------------------------------------------------------------

(* normalizeConfig keeps the type of an endpoint and does nothing the      *)
(* second time.                                                            *)
LEMMA NormalizeEndpointFacts ==
  ASSUME NEW ep \in Endpoint
  PROVE  /\ NormalizeEndpoint(ep) \in Endpoint
         /\ NormalizeEndpoint(NormalizeEndpoint(ep)) = NormalizeEndpoint(ep)
         /\ ~ ep.tcpPortSet => NormalizeEndpoint(ep).tcpPort = 443
         /\ ~ ep.localPortSet => NormalizeEndpoint(ep).localPort = 443
         /\ NormalizeEndpoint(ep).tcpPortSet = ep.tcpPortSet
         /\ NormalizeEndpoint(ep).localPortSet = ep.localPortSet
<1> DEFINE tcp == IF ep.tcpPortSet THEN ep.tcpPort ELSE 443
           local == IF ep.localPortSet THEN ep.localPort ELSE 443
           out == [ep EXCEPT !.tcpPort = tcp, !.localPort = local]
<1>1. /\ tcp \in 0 .. MaxPort /\ local \in 0 .. MaxPort
      /\ ep.tcpPortSet => tcp = ep.tcpPort
      /\ ~ ep.tcpPortSet => tcp = 443
      /\ ep.localPortSet => local = ep.localPort
      /\ ~ ep.localPortSet => local = 443
  BY ConfigAssumption DEF Endpoint
<1>2. NormalizeEndpoint(ep) = out
  BY DEF NormalizeEndpoint
<1> HIDE DEF tcp, local
<1>3. /\ out \in Endpoint
      /\ out.tcpPort = tcp /\ out.localPort = local
      /\ out.tcpPortSet = ep.tcpPortSet /\ out.localPortSet = ep.localPortSet
  BY <1>1 DEF Endpoint
<1>4. /\ tcp = IF out.tcpPortSet THEN out.tcpPort ELSE 443
      /\ local = IF out.localPortSet THEN out.localPort ELSE 443
  BY <1>1, <1>3
<1>5. NormalizeEndpoint(out) = [out EXCEPT !.tcpPort = tcp, !.localPort = local]
  BY <1>4 DEF NormalizeEndpoint
<1>6. [out EXCEPT !.tcpPort = tcp, !.localPort = local] = out
  BY <1>3 DEF Endpoint
<1> QED
  BY <1>1, <1>2, <1>3, <1>5, <1>6

(* The same of a configuration; the endpoints stay in their places.        *)
LEMMA NormalizeFacts ==
  ASSUME NEW cfg \in ConfigStruct
  PROVE  /\ NormalizeConfig(cfg) \in ConfigStruct
         /\ NormalizeConfig(NormalizeConfig(cfg)) = NormalizeConfig(cfg)
         /\ Len(NormalizeConfig(cfg).endpoints) = Len(cfg.endpoints)
         /\ \A j \in 1 .. Len(cfg.endpoints) :
              NormalizeConfig(cfg).endpoints[j] = NormalizeEndpoint(cfg.endpoints[j])
<1> DEFINE eps == cfg.endpoints
           norm == [k \in DOMAIN eps |-> NormalizeEndpoint(eps[k])]
           version == IF cfg.schemaVersion = "" THEN "v0.1" ELSE cfg.schemaVersion
           out == [cfg EXCEPT !.schemaVersion = version, !.endpoints = norm]
<1>1. eps \in Seq(Endpoint) /\ DOMAIN eps = 1 .. Len(eps) /\ Len(eps) \in Nat
  BY DEF ConfigStruct
<1>2. ASSUME NEW k \in 1 .. Len(eps)
      PROVE  /\ norm[k] = NormalizeEndpoint(eps[k])
             /\ norm[k] \in Endpoint
             /\ NormalizeEndpoint(norm[k]) = norm[k]
  <2>1. eps[k] \in Endpoint /\ k \in DOMAIN eps
    BY <1>1
  <2>2. norm[k] = NormalizeEndpoint(eps[k])
    BY <2>1
  <2> QED
    BY <2>1, <2>2, NormalizeEndpointFacts
<1>3. norm \in Seq(Endpoint) /\ DOMAIN norm = 1 .. Len(eps) /\ Len(norm) = Len(eps)
  <2>1. DOMAIN norm = 1 .. Len(eps) /\ norm = [k \in 1 .. Len(eps) |-> norm[k]]
    BY <1>1
  <2>2. norm \in [1 .. Len(eps) -> Endpoint]
    BY <1>2, <2>1, Zenon
  <2> HIDE DEF norm
  <2> QED
    BY <1>1, <2>1, <2>2
<1>4. [k \in DOMAIN norm |-> NormalizeEndpoint(norm[k])] = norm
  BY <1>2, <1>3
<1>5. version \in Versions /\ version # ""
  BY DEF ConfigStruct, Versions
<1>6. NormalizeConfig(cfg) = out
  BY DEF NormalizeConfig
<1> HIDE DEF norm, version
<1>7. out \in ConfigStruct /\ out.endpoints = norm /\ out.schemaVersion = version
  BY <1>3, <1>5 DEF ConfigStruct
<1>8. NormalizeConfig(out) = [out EXCEPT !.schemaVersion = version, !.endpoints = norm]
  BY <1>4, <1>5, <1>7 DEF NormalizeConfig
<1>9. [out EXCEPT !.schemaVersion = version, !.endpoints = norm] = out
  BY <1>7 DEF ConfigStruct
<1> QED
  BY <1>2, <1>3, <1>6, <1>7, <1>8, <1>9

(* Two endpoints collide when they have a key of one of the maps in        *)
(* common.                                                                 *)
LEMMA CollideByKeys ==
  ASSUME NEW eps, NEW j, NEW k
  PROVE  Collide(eps, j, k) <=>
           \/ HostKey(eps[j]) = HostKey(eps[k])
           \/ eps[j].vsockPort = eps[k].vsockPort
           \/ LocalAddr(eps[j], j - 1) = LocalAddr(eps[k], k - 1)
BY DEF Collide, HostKey, LocalAddr

-----------------------------------------------------------------------------
(* The invariant.                                                          *)

(* It holds when both processes have the same configuration before them.   *)
LEMMA StartInv ==
  ASSUME NEW raw \in ConfigStruct,
         config = [m \in Modes |-> raw],
         at = [m \in Modes |-> "normalize"],
         i = [m \in Modes |-> 1],
         hosts = [m \in Modes |-> {}],
         vsockPorts = [m \in Modes |-> {}],
         localAddrs = [m \in Modes |-> {}]
  PROVE  ConfigInv
<1>1. \A m \in Modes : Passed(m) = {}
  BY DEF Passed
<1>2. Shapes
  BY DEF Shapes
<1>3. SameConfig
  BY DEF SameConfig
<1>4. MapsOfPassed
  BY <1>1 DEF MapsOfPassed
<1>5. Progress /\ PassedAreGood /\ RejectionJustified
  BY <1>1 DEF Progress, PassedAreGood, RejectionJustified, Verdicts
<1> QED
  BY <1>2, <1>3, <1>4, <1>5 DEF ConfigInv

(* normalizeConfig at the end of ParseConfig.                              *)
LEMMA NormalizeInv ==
  ASSUME NEW m \in Modes, ConfigInv, Normalize(m)
  PROVE  ConfigInv'
<1> USE DEF ConfigInv, Shapes
<1>1. PICK raw \in ConfigStruct : \A n \in Modes :
        config[n] = IF at[n] = "normalize" THEN raw ELSE NormalizeConfig(raw)
  BY DEF SameConfig
<1>2. /\ config[m] = raw /\ config'[m] = NormalizeConfig(raw)
      /\ at'[m] = "head" /\ i[m] = 1
      /\ NormalizeConfig(raw) \in ConfigStruct
      /\ \A n \in Modes \ {m} : config'[n] = config[n] /\ at'[n] = at[n]
      /\ UNCHANGED <<i, hosts, vsockPorts, localAddrs>>
  BY <1>1, NormalizeFacts DEF Normalize, Progress
<1>3. Shapes'
  BY <1>2 DEF Normalize
<1>4. SameConfig'
  BY <1>1, <1>2 DEF SameConfig
<1>5. Passed(m)' = {} /\ Passed(m) = {} /\ \A n \in Modes : Passed(n)' = Passed(n)
  BY <1>2 DEF Passed
<1>6. MapsOfPassed' /\ PassedAreGood'
  BY <1>2, <1>5 DEF MapsOfPassed, PassedAreGood, Eps
<1>7. Progress' /\ RejectionJustified'
  BY <1>2 DEF Progress, RejectionJustified, Eps
<1> QED
  BY <1>3, <1>4, <1>6, <1>7

(* The checks before the loop; the second normalization changes nothing.   *)
LEMMA ValidateHeadInv ==
  ASSUME NEW m \in Modes, ConfigInv, ValidateHead(m)
  PROVE  ConfigInv'
<1> USE DEF ConfigInv, Shapes
<1>1. PICK raw \in ConfigStruct : \A n \in Modes :
        config[n] = IF at[n] = "normalize" THEN raw ELSE NormalizeConfig(raw)
  BY DEF SameConfig
<1>2. raw \in ConfigStruct /\ config[m] = NormalizeConfig(raw)
  BY <1>1, ConfigAssumption DEF ValidateHead
<1>3. config' = config
  BY <1>2, NormalizeFacts DEF ValidateHead
<1>4. /\ at'[m] = IF HeadOK(config[m], m) THEN "loop" ELSE "rejected"
      /\ i[m] = 1
      /\ \A n \in Modes \ {m} : at'[n] = at[n]
      /\ at' \in [Modes -> {"normalize", "head", "loop"} \cup Verdicts]
      /\ at[m] = "head" /\ at'[m] # "normalize" /\ at'[m] # "accepted"
      /\ UNCHANGED <<i, hosts, vsockPorts, localAddrs>>
  BY <1>3 DEF ValidateHead, Progress, Verdicts
<1>5. Shapes'
  BY <1>3, <1>4
<1>6. SameConfig'
  BY <1>1, <1>3, <1>4 DEF SameConfig
<1>7. MapsOfPassed' /\ PassedAreGood'
  BY <1>3, <1>4 DEF MapsOfPassed, PassedAreGood, Eps, Passed
<1>8. Progress' /\ RejectionJustified'
  BY <1>3, <1>4 DEF Progress, RejectionJustified, Eps, Verdicts
<1> QED
  BY <1>5, <1>6, <1>7, <1>8

(* One turn of the loop that finds nothing wrong: the endpoint's keys are  *)
(* in none of the maps, so it collides with none of those before it.       *)
LEMMA NextEndpointInv ==
  ASSUME NEW m \in Modes, ConfigInv, NextEndpoint(m)
  PROVE  ConfigInv'
<1> USE DEF ConfigInv, Shapes
<1> DEFINE ep == Eps(m)[i[m]]
<1>1. /\ EndpointPasses(m) /\ at[m] = "loop"
      /\ hosts' = [hosts EXCEPT ![m] = @ \cup {HostKey(ep)}]
      /\ vsockPorts' = [vsockPorts EXCEPT ![m] = @ \cup {ep.vsockPort}]
      /\ localAddrs' = [localAddrs EXCEPT ![m] = @ \cup {LocalAddr(ep, i[m] - 1)}]
      /\ i' = [i EXCEPT ![m] = @ + 1]
      /\ config' = config /\ at' = at
      /\ i[m] <= Len(Eps(m))
  BY DEF NextEndpoint, Eps
<1>2. /\ ValidateEndpoint(ep)
      /\ HostKey(ep) \notin hosts[m]
      /\ ep.vsockPort \notin vsockPorts[m]
      /\ LocalAddr(ep, i[m] - 1) \notin localAddrs[m]
  BY <1>1 DEF EndpointPasses, Eps
<1>3. Eps(m) \in Seq(Endpoint) /\ ep \in Endpoint
  BY <1>1 DEF Eps, ConfigStruct
<1>4. /\ Passed(m)' = Passed(m) \cup {i[m]} /\ i[m] \notin Passed(m)
      /\ \A n \in Modes \ {m} : Passed(n)' = Passed(n)
      /\ \A n \in Modes : Eps(n)' = Eps(n)
  BY <1>1 DEF Passed, Eps
<1>5. Shapes'
  <2>1. HostKey(ep) \in {Lower[h] : h \in GoodHosts}
    BY <1>2 DEF ValidateEndpoint, HostKey
  <2>2. ep.vsockPort \in 1 .. MaxPort
    BY <1>2, <1>3, ConfigAssumption DEF ValidateEndpoint, PortOK, Endpoint
  <2> QED
    BY <1>1, <2>1, <2>2
<1>6. SameConfig'
  BY <1>1 DEF SameConfig
<1>7. MapsOfPassed'
  <2>1. ASSUME NEW n \in Modes \ {m}
        PROVE  hosts'[n] = hosts[n] /\ vsockPorts'[n] = vsockPorts[n]
                 /\ localAddrs'[n] = localAddrs[n]
    BY <1>1
  <2>2. hosts'[m] = {HostKey(Eps(m)'[j]) : j \in Passed(m)'}
    BY <1>1, <1>4 DEF MapsOfPassed
  <2>3. vsockPorts'[m] = {Eps(m)'[j].vsockPort : j \in Passed(m)'}
    BY <1>1, <1>4 DEF MapsOfPassed
  <2>4. localAddrs'[m] = {LocalAddr(Eps(m)'[j], j - 1) : j \in Passed(m)'}
    BY <1>1, <1>4 DEF MapsOfPassed
  <2> QED
    BY <1>4, <2>1, <2>2, <2>3, <2>4 DEF MapsOfPassed
<1>8. Progress'
  <2>1. Len(Eps(m)) <= MaxEndpoints
    BY <1>1 DEF Progress, HeadOK, Eps
  <2>2. i'[m] = i[m] + 1 /\ i[m] + 1 # 1 /\ i[m] + 1 <= Len(Eps(m)) + 1
    BY <1>1, <1>3
  <2>3. at'[m] = "loop" /\ HeadOK(config'[m], m)
    BY <1>1 DEF Progress
  <2>4. \A n \in Modes \ {m} : i'[n] = i[n]
    BY <1>1
  <2> QED
    BY <1>1, <1>4, <2>1, <2>2, <2>3, <2>4 DEF Progress
<1>9. PassedAreGood'
  <2>1. ASSUME NEW j \in Passed(m)
        PROVE  ~ Collide(Eps(m), j, i[m]) /\ ~ Collide(Eps(m), i[m], j)
    BY <1>2, <2>1, CollideByKeys DEF MapsOfPassed
  <2>2. \A j \in Passed(m)' : ValidateEndpoint(Eps(m)'[j])
    BY <1>2, <1>4 DEF PassedAreGood
  <2>3. \A j, k \in Passed(m)' : j # k => ~ Collide(Eps(m)', j, k)
    BY <1>4, <2>1 DEF PassedAreGood
  <2> QED
    BY <1>4, <2>2, <2>3 DEF PassedAreGood
<1>10. RejectionJustified'
  BY <1>1 DEF RejectionJustified
<1> QED
  BY <1>5, <1>6, <1>7, <1>8, <1>9, <1>10

(* One turn that finds something wrong, which is either the endpoint or a  *)
(* collision with an earlier one.                                          *)
LEMMA RejectEndpointInv ==
  ASSUME NEW m \in Modes, ConfigInv, RejectEndpoint(m)
  PROVE  ConfigInv'
<1> USE DEF ConfigInv, Shapes
<1> DEFINE ep == Eps(m)[i[m]]
<1>1. /\ ~ EndpointPasses(m) /\ at[m] = "loop" /\ i[m] <= Len(Eps(m))
      /\ at' = [at EXCEPT ![m] = "rejected"]
      /\ UNCHANGED <<config, i, hosts, vsockPorts, localAddrs>>
  BY DEF RejectEndpoint, Eps
<1>2. \/ ~ ValidateEndpoint(ep)
      \/ \E j \in Passed(m) : Collide(Eps(m), j, i[m])
  <2>1. \/ ~ ValidateEndpoint(ep)
        \/ HostKey(ep) \in hosts[m]
        \/ ep.vsockPort \in vsockPorts[m]
        \/ LocalAddr(ep, i[m] - 1) \in localAddrs[m]
    BY <1>1 DEF EndpointPasses, Eps
  <2> QED
    BY <2>1, CollideByKeys DEF MapsOfPassed
<1>3. DOMAIN Eps(m) = 1 .. Len(Eps(m)) /\ Len(Eps(m)) \in Nat
  BY DEF Eps, ConfigStruct
<1>4. \/ \E j \in DOMAIN Eps(m) : ~ ValidateEndpoint(Eps(m)[j])
      \/ \E j, k \in DOMAIN Eps(m) : j < k /\ Collide(Eps(m), j, k)
  <2>1. i[m] \in DOMAIN Eps(m)
    BY <1>1, <1>3
  <2>2. CASE \E j \in Passed(m) : Collide(Eps(m), j, i[m])
    <3>1. PICK j \in Passed(m) : Collide(Eps(m), j, i[m])
      BY <2>2
    <3>2. j \in DOMAIN Eps(m) /\ j < i[m]
      BY <1>1, <1>3 DEF Passed
    <3> QED
      BY <2>1, <3>1, <3>2
  <2> QED
    BY <1>2, <2>1, <2>2
<1>5. RejectionJustified'
  BY <1>1, <1>4 DEF RejectionJustified, Eps
<1>6. Shapes' /\ SameConfig' /\ Progress'
  BY <1>1 DEF SameConfig, Progress, Verdicts, Eps
<1>7. MapsOfPassed' /\ PassedAreGood'
  BY <1>1 DEF MapsOfPassed, PassedAreGood, Eps, Passed
<1> QED
  BY <1>5, <1>6, <1>7

(* The loop is through.                                                    *)
LEMMA AcceptInv ==
  ASSUME NEW m \in Modes, ConfigInv, Accept(m)
  PROVE  ConfigInv'
<1> USE DEF ConfigInv, Shapes
<1>1. /\ at[m] = "loop" /\ i[m] > Len(Eps(m))
      /\ at' = [at EXCEPT ![m] = "accepted"]
      /\ UNCHANGED <<config, i, hosts, vsockPorts, localAddrs>>
  BY DEF Accept, Eps
<1>2. Len(Eps(m)) \in Nat
  BY DEF Eps, ConfigStruct
<1>3. i[m] = Len(Eps(m)) + 1
  BY <1>1, <1>2 DEF Progress
<1>4. Shapes' /\ SameConfig' /\ RejectionJustified'
  BY <1>1 DEF SameConfig, RejectionJustified, Verdicts
<1>5. Progress'
  BY <1>1, <1>3 DEF Progress, Verdicts, Eps
<1>6. MapsOfPassed' /\ PassedAreGood'
  BY <1>1 DEF MapsOfPassed, PassedAreGood, Eps, Passed
<1> QED
  BY <1>4, <1>5, <1>6

(* Every step keeps it.                                                    *)
LEMMA ConfigStep ==
  ASSUME ConfigInv, [Next]_vars
  PROVE  ConfigInv'
<1>1. CASE Next
  BY <1>1, NormalizeInv, ValidateHeadInv, NextEndpointInv, RejectEndpointInv, AcceptInv
  DEF Next
<1>2. CASE UNCHANGED vars
  <2>1. Shapes' /\ SameConfig' /\ RejectionJustified'
    BY <1>2 DEF vars, ConfigInv, Shapes, SameConfig, RejectionJustified
  <2>2. Progress'
    BY <1>2 DEF vars, ConfigInv, Progress, Eps
  <2>3. MapsOfPassed' /\ PassedAreGood'
    BY <1>2 DEF vars, ConfigInv, MapsOfPassed, PassedAreGood, Eps, Passed
  <2> QED
    BY <2>1, <2>2, <2>3 DEF ConfigInv
<1> QED
  BY <1>1, <1>2

(* The loop invariant of ValidateConfig, in both processes.                *)
THEOREM Invariance == Spec => []ConfigInv
<1>1. Init => ConfigInv
  BY ConfigAssumption, StartInv DEF Init
<1>2. ConfigInv /\ [Next]_vars => ConfigInv'
  BY ConfigStep
<1> QED
  BY <1>1, <1>2, PTL DEF Spec

-----------------------------------------------------------------------------
(* What it gives.                                                          *)

(* The loop stops behind the last endpoint, of which there are not more    *)
(* than MaxEndpoints.                                                      *)
LEMMA TypeOfInv == ConfigInv => TypeOK
<1> SUFFICES ASSUME ConfigInv PROVE TypeOK
  OBVIOUS
<1>1. i \in [Modes -> 1 .. MaxEndpoints + 1]
  <2>1. ASSUME NEW m \in Modes PROVE i[m] \in 1 .. MaxEndpoints + 1
    <3>1. Len(Eps(m)) \in Nat
      BY DEF ConfigInv, Shapes, ConfigStruct, Eps
    <3> QED
      BY <3>1, ConfigAssumption DEF ConfigInv, Shapes, Progress
  <2> QED
    BY <2>1 DEF ConfigInv, Shapes
<1> QED
  BY <1>1 DEF ConfigInv, Shapes, TypeOK

(* The loop index and the maps are what they are declared to be.           *)
THEOREM TypeCorrect == Spec => []TypeOK
BY TypeOfInv, Invariance, PTL

(* At the end of the loop every endpoint has been passed.                  *)
LEMMA DistinctOfInv == ConfigInv => NoCollision
<1> SUFFICES ASSUME ConfigInv, NEW m \in Modes, at[m] = "accepted",
                    NEW j \in DOMAIN Eps(m), NEW k \in DOMAIN Eps(m), j # k
             PROVE  ~ Collide(Eps(m), j, k)
  BY DEF NoCollision, Eps
<1>1. DOMAIN Eps(m) = Passed(m)
  BY DEF ConfigInv, Shapes, ConfigStruct, Eps, Passed, Progress
<1> QED
  BY <1>1 DEF ConfigInv, PassedAreGood

(* In an accepted configuration no two endpoints share a name, a VSOCK     *)
(* port or a local address, however many there are and however explicit    *)
(* and generated addresses are mixed.                                      *)
THEOREM AcceptedAreDistinct == Spec => []NoCollision
BY DistinctOfInv, Invariance, PTL

(* Whatever ValidateConfig refuses has a fault of its own.                 *)
THEOREM RejectedForAReason == Spec => []RejectionJustified
<1>1. ConfigInv => RejectionJustified
  BY DEF ConfigInv
<1> QED
  BY <1>1, Invariance, PTL

(* What has been passed was normalized before, so that a port that is not  *)
(* zero by its flag is not zero at all, and an address that was left out   *)
(* is counted from 64 by a place below MaxEndpoints.                       *)
LEMMA BindsOfInv == ConfigInv => BindsAreLegal
<1> SUFFICES ASSUME ConfigInv, NEW m \in Modes, at[m] = "accepted",
                    NEW j \in DOMAIN Eps(m)
             PROVE  LET ep == Eps(m)[j]
                    IN  /\ EndpointLocalIP(ep, j - 1) \in 1 .. MaxOctet
                        /\ ep.localIP = 0 => EndpointLocalIP(ep, j - 1) <= LastOctet
                        /\ ep.localPort \in 1 .. MaxPort /\ ep.vsockPort \in 1 .. MaxPort
                        /\ ep.tcpPort \in 1 .. MaxPort
  BY DEF BindsAreLegal, Eps
<1> DEFINE ep == Eps(m)[j]
<1>1. PICK raw \in ConfigStruct : config[m] = NormalizeConfig(raw)
  BY DEF ConfigInv, SameConfig
<1>2. /\ DOMAIN Eps(m) = 1 .. Len(Eps(m)) /\ Len(Eps(m)) \in Nat /\ Len(Eps(m)) <= MaxEndpoints
      /\ j \in Passed(m) /\ ep \in Endpoint
  BY DEF ConfigInv, Shapes, ConfigStruct, Eps, Passed, Progress, HeadOK
<1>3. /\ raw.endpoints[j] \in Endpoint
      /\ ep = NormalizeEndpoint(raw.endpoints[j])
  <2>1. raw \in ConfigStruct /\ Len(Eps(m)) = Len(raw.endpoints)
    BY <1>1, ConfigAssumption, NormalizeFacts DEF Eps
  <2>2. raw.endpoints \in Seq(Endpoint)
    BY <2>1 DEF ConfigStruct
  <2> QED
    BY <1>1, <1>2, <2>1, <2>2, NormalizeFacts DEF Eps
<1>4. /\ ~ ep.tcpPortSet => ep.tcpPort = 443
      /\ ~ ep.localPortSet => ep.localPort = 443
  BY <1>3, NormalizeEndpointFacts
<1>5. ValidateEndpoint(ep)
  BY <1>2 DEF ConfigInv, PassedAreGood
<1>6. ep.localPort \in 1 .. MaxPort /\ ep.vsockPort \in 1 .. MaxPort /\ ep.tcpPort \in 1 .. MaxPort
  BY <1>2, <1>4, <1>5, ConfigAssumption DEF ValidateEndpoint, PortOK, Endpoint
<1>7. /\ EndpointLocalIP(ep, j - 1) \in 1 .. MaxOctet
      /\ ep.localIP = 0 => EndpointLocalIP(ep, j - 1) <= LastOctet
  <2>1. ep.localIP # 0 => ep.localIP \in 1 .. MaxOctet
    BY <1>5 DEF ValidateEndpoint, IsLoopback
  <2>2. j \in Nat /\ 1 <= j /\ j <= MaxEndpoints
    BY <1>2, ConfigAssumption
  <2>3. FirstOctet + (j - 1) \in 1 .. MaxOctet /\ FirstOctet + (j - 1) <= LastOctet
    BY <2>2, ConfigAssumption DEF FirstOctet, LastOctet, MaxOctet
  <2> QED
    BY <2>1, <2>3 DEF EndpointLocalIP
<1> QED
  BY <1>6, <1>7

(* Every address and port of an accepted configuration can be bound: the   *)
(* generated addresses of MaxEndpoints endpoints stop in time, and the     *)
(* defaults fill every port that was left out.                             *)
THEOREM BindsLegal == Spec => []BindsAreLegal
BY BindsOfInv, Invariance, PTL

(* One process accepts only what has no fault but one in the head, and     *)
(* there the two look at the same configuration.                           *)
LEMMA SidesOfInv == ConfigInv => SidesAgree
<1> SUFFICES ASSUME ConfigInv, NEW m \in Modes, NEW n \in Modes,
                    at[m] = "accepted", at[n] = "rejected"
             PROVE  ~ HeadOK(config[n], n) /\ HeadOK(config[m], m) /\ config[m] = config[n]
  BY DEF SidesAgree, HeadOK, Modes
<1>1. config[m] = config[n] /\ HeadOK(config[m], m)
  BY DEF ConfigInv, SameConfig, Progress
<1>2. DOMAIN Eps(m) = Passed(m) /\ DOMAIN Eps(m) \subseteq Nat
  BY DEF ConfigInv, Shapes, ConfigStruct, Eps, Passed, Progress
<1>3. \A j \in DOMAIN Eps(m) : ValidateEndpoint(Eps(m)[j])
  BY <1>2 DEF ConfigInv, PassedAreGood
<1>4. \A j, k \in DOMAIN Eps(m) : j < k => ~ Collide(Eps(m), j, k)
  BY <1>2 DEF ConfigInv, PassedAreGood
<1>5. ~ HeadOK(config[n], n)
  BY <1>1, <1>3, <1>4 DEF ConfigInv, RejectionJustified, Eps
<1> QED
  BY <1>1, <1>5

(* A verdict is about the endpoints and the head only, so that the two     *)
(* processes can differ in nothing but the one port each needs alone.      *)
THEOREM SidesJudgeAlike == Spec => []SidesAgree
BY SidesOfInv, Invariance, PTL

-----------------------------------------------------------------------------
(* ParseConfig: the decoding, one member of the file after the other.      *)

(* The members are decoded in their order into what the ones before left.  *)
LEMMA UnmarshalSteps ==
  ASSUME NEW members, Len(members) \in Nat
  PROVE  /\ Unmarshal(members)[0] = [cfg |-> ZeroConfig, array |-> <<>>]
         /\ \A n \in 1 .. Len(members) :
              Unmarshal(members)[n] = UnmarshalMember(Unmarshal(members)[n - 1], members[n])
<1> DEFINE zero == [cfg |-> ZeroConfig, array |-> <<>>]
           last == Len(members)
           Is(g, n) == g = [j \in 0 .. n |-> IF j = 0 THEN zero
                                             ELSE UnmarshalMember(g[j - 1], members[j])]
           none == {n \in 0 .. last : ~ \E g : Is(g, n)}
<1> HIDE DEF zero
<1>1. none = {}
  <2>1. SUFFICES ASSUME none # {} PROVE FALSE
    OBVIOUS
  <2>2. none \subseteq Nat
    OBVIOUS
  <2>3. PICK x \in none : \A y \in none : x <= y
    BY <2>1, <2>2, Smallest
  <2>4. x \in 0 .. last /\ ~ \E g : Is(g, x)
    BY <2>3
  <2>5. CASE x = 0
    <3> DEFINE h == [j \in 0 .. 0 |-> zero]
    <3>1. Is(h, 0)
      OBVIOUS
    <3> QED
      BY <2>4, <2>5, <3>1
  <2>6. CASE x # 0
    <3>1. x - 1 \in 0 .. last /\ ~ (x <= x - 1)
      BY <2>4, <2>6
    <3>2. x - 1 \notin none
      BY <2>3, <3>1
    <3>3. PICK g : Is(g, x - 1)
      BY <3>1, <3>2
    <3> DEFINE h == [j \in 0 .. x |-> IF j = x THEN UnmarshalMember(g[x - 1], members[x]) ELSE g[j]]
    <3>4. ASSUME NEW j \in 0 .. x
          PROVE  h[j] = IF j = 0 THEN zero ELSE UnmarshalMember(h[j - 1], members[j])
      <4>1. CASE j = x
        <5>1. x - 1 \in 0 .. x /\ x - 1 # x /\ x \in 0 .. x
          BY <2>4, <3>1
        <5>2. h[x - 1] = g[x - 1] /\ h[x] = UnmarshalMember(g[x - 1], members[x])
          BY <5>1
        <5> HIDE DEF h
        <5> QED
          BY <2>6, <4>1, <5>2
      <4>2. CASE j # x
        <5>1. j \in 0 .. x - 1 /\ h[j] = g[j]
          BY <2>4, <4>2
        <5>2. g[j] = IF j = 0 THEN zero ELSE UnmarshalMember(g[j - 1], members[j])
          BY <3>3, <5>1
        <5>3. j # 0 => h[j - 1] = g[j - 1]
          <6>1. j # 0 => j - 1 \in 0 .. x /\ j - 1 # x
            BY <2>4, <4>2
          <6> QED
            BY <6>1
        <5> HIDE DEF h
        <5> QED
          BY <5>1, <5>2, <5>3
      <4> QED
        BY <4>1, <4>2
    <3>5. h = [j \in 0 .. x |-> h[j]]
      OBVIOUS
    <3> HIDE DEF h
    <3>6. Is(h, x)
      BY <3>4, <3>5
    <3> QED
      BY <2>4, <3>6
  <2> QED
    BY <2>5, <2>6
<1>2. \E g : Is(g, last)
  <2>1. last \in 0 .. last
    OBVIOUS
  <2> QED
    BY <1>1, <2>1
<1>3. Is(Unmarshal(members), last)
  BY <1>2 DEF Unmarshal, zero
<1>4. \A j \in 0 .. last :
        Unmarshal(members)[j] = IF j = 0 THEN zero
                                ELSE UnmarshalMember(Unmarshal(members)[j - 1], members[j])
  BY <1>3
<1>5. 0 \in 0 .. last /\ \A j \in 1 .. last : j \in 0 .. last /\ j # 0
  OBVIOUS
<1>6. Unmarshal(members)[0] = zero
  BY <1>4, <1>5
<1>7. \A n \in 1 .. last :
        Unmarshal(members)[n] = UnmarshalMember(Unmarshal(members)[n - 1], members[n])
  BY <1>4, <1>5
<1> QED
  BY <1>6, <1>7 DEF zero

(* An element decodes into an endpoint.                                    *)
LEMMA UnmarshalEndpointType ==
  ASSUME NEW ep \in Endpoint, NEW v, TypedElement(v), EndpointDecodes(v)
  PROVE  UnmarshalEndpoint(ep, v) \in Endpoint
<1> DEFINE obj == IF v = Null THEN <<>> ELSE v[2]
           Has(k) == k \in DOMAIN obj
           New(k) == IF Has(k) /\ obj[k] # Null THEN obj[k][2] ELSE ep[k]
<1>1. ASSUME NEW k \in EndpointKeys, Has(k), obj[k] # Null
      PROVE  /\ obj[k][2] \in TypeOfKey(k)
             /\ k \in {"tcpPort", "localPort"} => obj[k][2] <= MaxPort
  <2>1. v # Null
    BY <1>1
  <2>2. /\ v \notin {Null, Wrong} /\ obj = v[2]
        /\ DOMAIN obj \subseteq EndpointKeys
        /\ \A j \in DOMAIN obj : Decodes(j, obj[j]) /\ Typed(obj[j], TypeOfKey(j))
    BY <2>1 DEF TypedElement, EndpointDecodes
  <2> HIDE DEF obj
  <2>3. Decodes(k, obj[k]) /\ Typed(obj[k], TypeOfKey(k))
    BY <1>1, <2>2
  <2> QED
    BY <1>1, <2>3 DEF Decodes, Typed
<1> HIDE DEF obj
<1>2. /\ ep.host \in DOMAIN Lower /\ ep.vsockPort \in Nat /\ ep.localIP \in Nat
      /\ ep.tcpPort \in 0 .. MaxPort /\ ep.localPort \in 0 .. MaxPort
      /\ ep.tcpPortSet \in BOOLEAN /\ ep.localPortSet \in BOOLEAN /\ ep.localIPSet \in BOOLEAN
  BY DEF Endpoint
<1>3. New("host") \in DOMAIN Lower
  BY <1>1, <1>2 DEF EndpointKeys, TypeOfKey
<1>4. New("vsockPort") \in Nat
  BY <1>1, <1>2 DEF EndpointKeys, TypeOfKey
<1>5. New("localIP") \in Nat
  BY <1>1, <1>2 DEF EndpointKeys, TypeOfKey
<1>6. New("tcpPort") \in 0 .. MaxPort
  BY <1>1, <1>2, ConfigAssumption DEF EndpointKeys, TypeOfKey
<1>7. New("localPort") \in 0 .. MaxPort
  BY <1>1, <1>2, ConfigAssumption DEF EndpointKeys, TypeOfKey
<1>8. /\ (ep.tcpPortSet \/ Has("tcpPort")) \in BOOLEAN
      /\ (ep.localPortSet \/ Has("localPort")) \in BOOLEAN
      /\ (ep.localIPSet \/ Has("localIP")) \in BOOLEAN
  BY <1>2
<1>9. UnmarshalEndpoint(ep, v) =
        [host |-> New("host"), vsockPort |-> New("vsockPort"), tcpPort |-> New("tcpPort"),
         tcpPortSet |-> ep.tcpPortSet \/ Has("tcpPort"),
         localPort |-> New("localPort"),
         localPortSet |-> ep.localPortSet \/ Has("localPort"),
         localIP |-> New("localIP"), localIPSet |-> ep.localIPSet \/ Has("localIP")]
  BY DEF UnmarshalEndpoint, obj
<1> HIDE DEF New, Has
<1> QED
  BY <1>3, <1>4, <1>5, <1>6, <1>7, <1>8, <1>9 DEF Endpoint

(* The zero value of the struct is an endpoint.                            *)
LEMMA ZeroType == ZeroEndpoint \in Endpoint
<1>1. "" \in DOMAIN Lower
  BY FilesAssumption, Zenon
<1>2. 0 \in 0 .. MaxPort
  BY ConfigAssumption
<1> QED
  BY <1>1, <1>2 DEF ZeroEndpoint, Endpoint

(* A list that decodes does so into an array of endpoints at least as long.*)
LEMMA UnmarshalArrayType ==
  ASSUME NEW array \in Seq(Endpoint), NEW list, list \in Seq(ToSet(list)),
         \A k \in DOMAIN list : TypedElement(list[k]) /\ EndpointDecodes(list[k])
  PROVE  /\ UnmarshalArray(array, list) \in Seq(Endpoint)
         /\ Len(list) \in 0 .. Len(UnmarshalArray(array, list))
<1> DEFINE a == Len(array)
           l == Len(list)
           longest == Max({l, a})
           new == [k \in 1 .. longest |->
                     IF k > l THEN array[k]
                     ELSE UnmarshalEndpoint(IF k <= a THEN array[k] ELSE ZeroEndpoint, list[k])]
<1>1. a \in Nat /\ l \in Nat /\ DOMAIN list = 1 .. l
  BY LenProperties
<1>2. CASE list = <<>>
  <2>1. UnmarshalArray(array, list) = <<>> /\ Len(list) = 0
    BY <1>2 DEF UnmarshalArray
  <2> QED
    BY <2>1
<1>3. CASE list # <<>>
  <2>1. longest \in Nat /\ longest \in {l, a} /\ l <= longest /\ a <= longest
    <3>1. {l, a} \subseteq 0 .. (l + a) /\ {l, a} # {} /\ l + a \in Nat
      BY <1>1
    <3>2. longest \in {l, a} /\ \A y \in {l, a} : y <= longest
      BY <3>1, MaxOf
    <3> HIDE DEF longest
    <3> QED
      BY <1>1, <3>2
  <2>2. UnmarshalArray(array, list) = new
    BY <1>3 DEF UnmarshalArray
  <2>3. ZeroEndpoint \in Endpoint
    BY ZeroType
  <2>4. \A k \in 1 .. a : array[k] \in Endpoint
    BY <1>1, ElementOfSeq
  <2> HIDE DEF longest, a, l
  <2>5. ASSUME NEW k \in 1 .. longest PROVE new[k] \in Endpoint
    <3>1. CASE k > l
      <4>1. k \in 1 .. a
        BY <1>1, <2>1, <3>1
      <4> QED
        BY <2>4, <3>1, <4>1
    <3>2. CASE ~ (k > l)
      <4> DEFINE ep == IF k <= a THEN array[k] ELSE ZeroEndpoint
      <4>1. ep \in Endpoint
        BY <1>1, <2>1, <2>3, <2>4
      <4>2. TypedElement(list[k]) /\ EndpointDecodes(list[k])
        BY <1>1, <2>1, <3>2
      <4>3. new[k] = UnmarshalEndpoint(ep, list[k])
        BY <3>2
      <4> HIDE DEF ep, new
      <4> QED
        BY <4>1, <4>2, <4>3, UnmarshalEndpointType
    <3> QED
      BY <3>1, <3>2
  <2>6. DOMAIN new = 1 .. longest /\ new = [k \in 1 .. longest |-> new[k]]
    OBVIOUS
  <2> HIDE DEF new
  <2>7. new \in [1 .. longest -> Endpoint]
    BY <2>5, <2>6, Zenon
  <2>8. new \in Seq(Endpoint) /\ Len(new) = longest
    BY <2>1, <2>6, <2>7
  <2>9. l \in 0 .. longest
    BY <1>1, <2>1
  <2> QED
    BY <2>2, <2>8, <2>9 DEF l
<1> QED
  BY <1>2, <1>3

Decoded == [cfg: ConfigStruct, array: Seq(Endpoint)]

(* Each member of the file leaves a configuration and an array.            *)
LEMMA UnmarshalMemberType ==
  ASSUME NEW d \in Decoded, NEW member, TypedMember(member), MemberDecodes(member)
  PROVE  UnmarshalMember(d, member) \in Decoded
<1> DEFINE f == Field[member.key]
           v == member.value
           list == IF v = Null THEN <<>> ELSE v[2]
           array == UnmarshalArray(d.array, list)
<1>1. d.cfg \in ConfigStruct /\ d.array \in Seq(Endpoint)
  BY DEF Decoded
<1>2. f \in Schema \cup {""}
  BY DEF TypedMember
<1>3. CASE f = ""
  <2>1. UnmarshalMember(d, member) = d
    BY <1>3 DEF UnmarshalMember
  <2> QED
    BY <2>1
<1>4. CASE f = "endpoints"
  <2>1. UnmarshalMember(d, member) =
          [array |-> array,
           cfg |-> [d.cfg EXCEPT !.endpoints = SubSeq(array, 1, Len(list)),
                                 !.endpointsNil = (v = Null)]]
    BY <1>4 DEF UnmarshalMember
  <2>2. /\ list \in Seq(ToSet(list))
        /\ \A k \in DOMAIN list : TypedElement(list[k]) /\ EndpointDecodes(list[k])
    <3>1. CASE v = Null
      BY <3>1
    <3>2. CASE v # Null
      <4>1. v # Wrong
        BY <1>4, <3>2 DEF MemberDecodes, Decodes
      <4> QED
        BY <1>4, <3>2, <4>1 DEF MemberDecodes, TypedMember
    <3> QED
      BY <3>1, <3>2
  <2> HIDE DEF list
  <2>3. array \in Seq(Endpoint) /\ Len(list) \in 0 .. Len(array)
    BY <1>1, <2>2, UnmarshalArrayType
  <2> HIDE DEF array
  <2>4. SubSeq(array, 1, Len(list)) \in Seq(Endpoint)
    BY <2>3, PrefixFacts
  <2>5. (v = Null) \in BOOLEAN
    OBVIOUS
  <2> DEFINE eps == SubSeq(array, 1, Len(list))
             nil == (v = Null)
  <2> HIDE DEF eps, nil
  <2>6. [d.cfg EXCEPT !.endpoints = eps, !.endpointsNil = nil] \in ConfigStruct
    BY <1>1, <2>4, <2>5 DEF ConfigStruct, eps, nil
  <2> QED
    BY <2>1, <2>3, <2>6 DEF Decoded, eps, nil
<1>5. CASE f \notin {"", "endpoints"}
  <2>1. UnmarshalMember(d, member) = IF v = Null THEN d ELSE [d EXCEPT !.cfg = [@ EXCEPT ![f] = v[2]]]
    BY <1>5 DEF UnmarshalMember
  <2>2. CASE v = Null
    BY <2>1, <2>2
  <2>3. CASE v # Null
    <3>1. v # Wrong /\ (f \in {"httpPort", "httpTcpPort"} => v[2] <= MaxPort)
      BY <1>5, <2>3 DEF MemberDecodes, Decodes
    <3>2. /\ f = "schemaVersion" => v[2] \in Versions
          /\ f \in {"httpPort", "httpVsockPort", "httpTcpPort"} => v[2] \in Nat
      BY <2>3, <3>1 DEF TypedMember, Typed
    <3>3. f \in {"httpPort", "httpTcpPort"} => v[2] \in 0 .. MaxPort
      BY <3>1, <3>2, ConfigAssumption
    <3> DEFINE x == v[2]
    <3> HIDE DEF x, f
    <3>4. [d.cfg EXCEPT ![f] = x] \in ConfigStruct
      <4>1. CASE f = "schemaVersion"
        BY <1>1, <3>2, <4>1 DEF ConfigStruct, x
      <4>2. CASE f = "httpPort"
        BY <1>1, <3>3, <4>2 DEF ConfigStruct, x
      <4>3. CASE f = "httpVsockPort"
        BY <1>1, <3>2, <4>3 DEF ConfigStruct, x
      <4>4. CASE f = "httpTcpPort"
        BY <1>1, <3>3, <4>4 DEF ConfigStruct, x
      <4> QED
        BY <1>2, <1>5, <4>1, <4>2, <4>3, <4>4 DEF Schema
    <3>5. UnmarshalMember(d, member) = [d EXCEPT !.cfg = [d.cfg EXCEPT ![f] = x]]
      BY <2>1, <2>3 DEF x, f
    <3> QED
      BY <3>4, <3>5 DEF Decoded
  <2> QED
    BY <2>2, <2>3
<1> QED
  BY <1>3, <1>4, <1>5

(* So ParseConfig yields a configuration, whatever the file.               *)
LEMMA UnmarshalType ==
  ASSUME NEW f \in Files, Parses(f)
  PROVE  /\ Len(f.members) \in Nat /\ DOMAIN f.members = 1 .. Len(f.members)
         /\ \A n \in 0 .. Len(f.members) : Unmarshal(f.members)[n] \in Decoded
         /\ \A k \in DOMAIN f.members : TypedMember(f.members[k]) /\ MemberDecodes(f.members[k])
         /\ UnmarshalConfig(f.members) \in ConfigStruct
<1> DEFINE members == f.members
           last == Len(members)
           wrong == {n \in 0 .. last : Unmarshal(members)[n] \notin Decoded}
<1>1. /\ members \in Seq(ToSet(members))
      /\ \A k \in DOMAIN members : TypedMember(members[k]) /\ MemberDecodes(members[k])
  BY FilesAssumption DEF Parses
<1>2. last \in Nat /\ DOMAIN members = 1 .. last
  BY <1>1, LenProperties
<1> HIDE DEF members
<1>3. /\ Unmarshal(members)[0] = [cfg |-> ZeroConfig, array |-> <<>>]
      /\ \A n \in 1 .. last :
           Unmarshal(members)[n] = UnmarshalMember(Unmarshal(members)[n - 1], members[n])
  BY <1>2, UnmarshalSteps
<1> HIDE DEF last
<1>4. wrong = {}
  <2>1. SUFFICES ASSUME wrong # {} PROVE FALSE
    OBVIOUS
  <2>2. wrong \subseteq Nat
    OBVIOUS
  <2>3. PICK n \in wrong : \A y \in wrong : n <= y
    BY <2>1, <2>2, Smallest
  <2>4. n \in 0 .. last /\ Unmarshal(members)[n] \notin Decoded
    BY <2>3
  <2>5. n # 0
    <3>1. ZeroConfig \in ConfigStruct
      <4>1. 0 \in 0 .. MaxPort
        BY ConfigAssumption
      <4> QED
        BY <4>1 DEF ZeroConfig, ConfigStruct, Versions
    <3>2. [cfg |-> ZeroConfig, array |-> <<>>] \in Decoded
      BY <3>1 DEF Decoded
    <3> QED
      BY <1>3, <2>4, <3>2
  <2>6. n \in 1 .. last /\ n - 1 \in 0 .. last /\ ~ (n <= n - 1)
    BY <1>2, <2>4, <2>5
  <2>7. n - 1 \notin wrong
    BY <2>3, <2>6
  <2>8. Unmarshal(members)[n - 1] \in Decoded
    BY <2>6, <2>7
  <2>9. TypedMember(members[n]) /\ MemberDecodes(members[n])
    BY <1>1, <1>2, <2>6
  <2>10. UnmarshalMember(Unmarshal(members)[n - 1], members[n]) \in Decoded
    BY <2>8, <2>9, UnmarshalMemberType
  <2> QED
    BY <1>3, <2>4, <2>6, <2>10
<1>5. \A n \in 0 .. last : Unmarshal(members)[n] \in Decoded
  BY <1>4
<1>6. UnmarshalConfig(members) \in ConfigStruct
  <2> DEFINE set == \E k \in DOMAIN members : members[k].key = "endpoints"
             cfg == Unmarshal(members)[last].cfg
  <2>1. UnmarshalConfig(members) = [cfg EXCEPT !.endpointsSet = set]
    BY DEF UnmarshalConfig, last
  <2>2. cfg \in ConfigStruct
    <3>1. last \in 0 .. last
      BY <1>2
    <3> QED
      BY <1>5, <3>1 DEF Decoded
  <2>3. set \in BOOLEAN
    OBVIOUS
  <2> HIDE DEF set, cfg
  <2> QED
    BY <2>1, <2>2, <2>3 DEF ConfigStruct
<1> QED
  BY <1>1, <1>2, <1>5, <1>6 DEF members, last

-----------------------------------------------------------------------------
(* Both processes from the file on.                                        *)

(* Each has what the file says, normalized or not yet.                     *)
FileConfig == \A m \in Modes :
  config[m] = IF at[m] = "normalize" THEN UnmarshalConfig(file.members)
              ELSE NormalizeConfig(UnmarshalConfig(file.members))

(* A file that does not parse: the process is over.                        *)
Refused == at = [m \in Modes |-> "rejected"] /\ config = [m \in Modes |-> ZeroConfig]
             /\ i = [m \in Modes |-> 1] /\ hosts = [m \in Modes |-> {}]
             /\ vsockPorts = [m \in Modes |-> {}]

FileInv ==
  /\ file \in Files
  /\ \/ Parses(file) /\ FileConfig /\ ConfigInv
     \/ Refused

(* In every state of the two processes ParseConfig has failed in both, or  *)
(* both are in the loop invariant with the configuration of the file.      *)
THEOREM FileInvariance == FileSpec => []FileInv
<1>1. FileInit => FileInv
  <2> SUFFICES ASSUME FileInit PROVE FileInv
    OBVIOUS
  <2>1. CASE ~ Parses(file)
    BY <2>1 DEF FileInit, FileInv, Refused
  <2>2. CASE Parses(file)
    <3> DEFINE raw == UnmarshalConfig(file.members)
    <3>1. raw \in ConfigStruct /\ file \in Files
      BY <2>2, UnmarshalType DEF FileInit
    <3>2. /\ config = [m \in Modes |-> raw]
          /\ at = [m \in Modes |-> "normalize"]
          /\ i = [m \in Modes |-> 1]
          /\ hosts = [m \in Modes |-> {}]
          /\ vsockPorts = [m \in Modes |-> {}]
          /\ localAddrs = [m \in Modes |-> {}]
      BY <2>2 DEF FileInit
    <3>3. FileConfig
      BY <3>2 DEF FileConfig
    <3> HIDE DEF raw
    <3>4. ConfigInv
      BY <3>1, <3>2, StartInv
    <3> QED
      BY <2>2, <3>1, <3>3, <3>4 DEF FileInv
  <2> QED
    BY <2>1, <2>2
<1>2. FileInv /\ [FileNext]_<<vars, file>> => FileInv'
  <2> SUFFICES ASSUME FileInv, [FileNext]_<<vars, file>> PROVE FileInv'
    OBVIOUS
  <2>1. [Next]_vars /\ file' = file
    BY DEF FileNext
  <2>2. CASE Parses(file) /\ FileConfig /\ ConfigInv
    <3>1. ConfigInv'
      BY <2>1, <2>2, ConfigStep
    <3>2. FileConfig'
      <4>1. \A m \in Modes :
              \/ config'[m] = config[m] /\ (at'[m] = "normalize" <=> at[m] = "normalize")
              \/ /\ config'[m] = NormalizeConfig(config[m])
                 /\ at[m] \in {"normalize", "head"} /\ at'[m] # "normalize"
        BY <2>1, <2>2 DEF ConfigInv, Shapes, Next, Normalize, ValidateHead, NextEndpoint,
                          RejectEndpoint, Accept, vars, Verdicts
      <4>2. NormalizeConfig(NormalizeConfig(UnmarshalConfig(file.members)))
              = NormalizeConfig(UnmarshalConfig(file.members))
        BY <2>2, UnmarshalType, NormalizeFacts DEF FileInv
      <4> QED
        BY <2>1, <2>2, <4>1, <4>2 DEF FileConfig
    <3>3. Parses(file') /\ file' \in Files
      BY <2>1, <2>2 DEF FileInv
    <3> QED
      BY <3>1, <3>2, <3>3 DEF FileInv
  <2>3. CASE Refused
    <3>1. ~ Next
      BY <2>3 DEF Refused, Next, Normalize, ValidateHead, NextEndpoint, RejectEndpoint, Accept
    <3>2. UNCHANGED vars
      BY <2>1, <3>1
    <3> QED
      BY <2>1, <2>3, <3>2 DEF FileInv, Refused, vars
  <2> QED
    BY <2>2, <2>3 DEF FileInv
<1> QED
  BY <1>1, <1>2, PTL DEF FileSpec

-----------------------------------------------------------------------------
(* What a file gives and what is used.                                     *)

(* An element that is accepted in the end has been used as it is written.  *)
LEMMA ElementAsGiven ==
  ASSUME NEW v, TypedElement(v), EndpointDecodes(v),
         ValidateEndpoint(NormalizeEndpoint(UnmarshalEndpoint(ZeroEndpoint, v)))
  PROVE  AsGiven(v, NormalizeEndpoint(UnmarshalEndpoint(ZeroEndpoint, v)))
<1> DEFINE raw == UnmarshalEndpoint(ZeroEndpoint, v)
           ep == NormalizeEndpoint(raw)
           obj == IF v = Null THEN <<>> ELSE v[2]
           Has(k) == k \in DOMAIN obj
           New(k) == IF Has(k) /\ obj[k] # Null THEN obj[k][2] ELSE ZeroEndpoint[k]
<1>1. raw \in Endpoint
  BY ZeroType, UnmarshalEndpointType
<1>2. raw = [host |-> New("host"), vsockPort |-> New("vsockPort"), tcpPort |-> New("tcpPort"),
             tcpPortSet |-> ZeroEndpoint.tcpPortSet \/ Has("tcpPort"),
             localPort |-> New("localPort"),
             localPortSet |-> ZeroEndpoint.localPortSet \/ Has("localPort"),
             localIP |-> New("localIP"),
             localIPSet |-> ZeroEndpoint.localIPSet \/ Has("localIP")]
  BY DEF UnmarshalEndpoint
<1>3. /\ ZeroEndpoint["host"] = "" /\ ZeroEndpoint["vsockPort"] = 0
      /\ ZeroEndpoint["tcpPort"] = 0 /\ ZeroEndpoint["localPort"] = 0
      /\ ZeroEndpoint["localIP"] = 0
      /\ ~ ZeroEndpoint.tcpPortSet /\ ~ ZeroEndpoint.localPortSet /\ ~ ZeroEndpoint.localIPSet
  BY DEF ZeroEndpoint
<1> HIDE DEF New, Has, obj, raw
<1>4. /\ raw.host = New("host") /\ raw.vsockPort = New("vsockPort")
      /\ raw.tcpPort = New("tcpPort") /\ raw.localPort = New("localPort")
      /\ raw.localIP = New("localIP")
      /\ raw.tcpPortSet <=> Has("tcpPort")
      /\ raw.localPortSet <=> Has("localPort")
      /\ raw.localIPSet <=> Has("localIP")
  <2>1. /\ raw.host = New("host") /\ raw.vsockPort = New("vsockPort")
        /\ raw.tcpPort = New("tcpPort") /\ raw.localPort = New("localPort")
        /\ raw.localIP = New("localIP")
    BY <1>2
  <2>2. /\ raw.tcpPortSet = (ZeroEndpoint.tcpPortSet \/ Has("tcpPort"))
        /\ raw.localPortSet = (ZeroEndpoint.localPortSet \/ Has("localPort"))
        /\ raw.localIPSet = (ZeroEndpoint.localIPSet \/ Has("localIP"))
    BY <1>2
  <2> QED
    BY <1>3, <2>1, <2>2
<1>5. /\ ep.host = raw.host /\ ep.vsockPort = raw.vsockPort /\ ep.localIP = raw.localIP
      /\ ep.tcpPort = IF raw.tcpPortSet THEN raw.tcpPort ELSE 443
      /\ ep.localPort = IF raw.localPortSet THEN raw.localPort ELSE 443
      /\ ep.tcpPortSet = raw.tcpPortSet /\ ep.localPortSet = raw.localPortSet
      /\ ep.localIPSet = raw.localIPSet
  BY <1>1 DEF NormalizeEndpoint, Endpoint
<1> HIDE DEF ep
<1>6. /\ ep.host # "" /\ ep.vsockPort # 0
      /\ Has("tcpPort") => ep.tcpPort # 0
      /\ Has("localPort") => ep.localPort # 0
      /\ Has("localIP") => ep.localIP # 0
  <2>1. "" \notin GoodHosts
    BY FilesAssumption, Zenon
  <2>2. ValidateEndpoint(ep)
    BY DEF ep, raw
  <2> QED
    BY <1>4, <1>5, <2>1, <2>2 DEF ValidateEndpoint, PortOK
<1>7. Has("host") /\ Has("vsockPort")
  BY <1>3, <1>4, <1>5, <1>6 DEF New
<1>8. v # Null /\ obj = v[2]
  BY <1>7 DEF Has, obj
<1>9. /\ DOMAIN v[2] \subseteq EndpointKeys
      /\ \A k \in DOMAIN v[2] : Decodes(k, v[2][k]) /\ Typed(v[2][k], TypeOfKey(k))
  <2>1. v \notin {Null, Wrong}
    BY <1>8 DEF EndpointDecodes
  <2> QED
    BY <1>8, <2>1 DEF EndpointDecodes, TypedElement
<1>10. ASSUME NEW k \in EndpointKeys, Has(k), obj[k] # Null
       PROVE  v[2][k] = V(New(k))
  <2>1. Decodes(k, v[2][k]) /\ Typed(v[2][k], TypeOfKey(k)) /\ v[2][k] # Null
    BY <1>8, <1>9, <1>10 DEF Has
  <2>2. v[2][k] = V(v[2][k][2])
    BY <2>1 DEF Decodes, Typed
  <2>3. New(k) = v[2][k][2]
    BY <1>8, <1>10 DEF New
  <2> QED
    BY <2>2, <2>3
<1>11. ASSUME NEW k \in EndpointKeys
       PROVE  IF k \in DOMAIN v[2] THEN v[2][k] = V(ep[k])
              ELSE \/ k \in {"tcpPort", "localPort"} /\ ep[k] = 443
                   \/ k = "localIP" /\ ep[k] = 0
  <2>1. k \in DOMAIN v[2] <=> Has(k)
    BY <1>8 DEF Has
  <2>2. ~ Has(k) \/ obj[k] = Null => New(k) = ZeroEndpoint[k]
    BY DEF New
  <2>3. CASE k = "host"
    BY <1>3, <1>4, <1>5, <1>6, <1>7, <1>10, <2>1, <2>2, <2>3
  <2>4. CASE k = "vsockPort"
    BY <1>3, <1>4, <1>5, <1>6, <1>7, <1>10, <2>1, <2>2, <2>4
  <2>5. CASE k = "tcpPort"
    BY <1>3, <1>4, <1>5, <1>6, <1>10, <2>1, <2>2, <2>5
  <2>6. CASE k = "localPort"
    BY <1>3, <1>4, <1>5, <1>6, <1>10, <2>1, <2>2, <2>6
  <2>7. CASE k = "localIP"
    BY <1>3, <1>4, <1>5, <1>6, <1>10, <2>1, <2>2, <2>7
  <2> QED
    BY <2>3, <2>4, <2>5, <2>6, <2>7 DEF EndpointKeys
<1>12. AsGiven(v, ep)
  BY <1>8, <1>11 DEF AsGiven
<1> QED
  BY <1>12 DEF ep, raw

Ports == {"httpPort", "httpVsockPort", "httpTcpPort"}

(* What one member does to the fields of others, and to its own.           *)
LEMMA UnmarshalMemberFacts ==
  ASSUME NEW d \in Decoded, NEW member, TypedMember(member), NEW p \in Ports
  PROVE  LET f == Field[member.key]
             v == member.value
             list == IF v = Null THEN <<>> ELSE v[2]
             next == UnmarshalMember(d, member)
         IN  /\ f # p \/ v = Null => next.cfg[p] = d.cfg[p]
             /\ f = p /\ v # Null => next.cfg[p] = v[2]
             /\ f # "endpoints" => /\ next.array = d.array
                                   /\ next.cfg.endpoints = d.cfg.endpoints
                                   /\ next.cfg.endpointsNil = d.cfg.endpointsNil
             /\ f = "endpoints" => /\ next.cfg.endpoints =
                                        SubSeq(UnmarshalArray(d.array, list), 1, Len(list))
                                   /\ next.cfg.endpointsNil = (v = Null)
<1> DEFINE f == Field[member.key]
           v == member.value
           list == IF v = Null THEN <<>> ELSE v[2]
           array == UnmarshalArray(d.array, list)
           next == UnmarshalMember(d, member)
<1>1. d.cfg \in ConfigStruct /\ d = [cfg |-> d.cfg, array |-> d.array]
  BY DEF Decoded
<1>2. p \notin {"", "endpoints", "endpointsNil"}
  BY DEF Ports
<1>3. CASE f = ""
  <2>1. next = d
    BY <1>3 DEF UnmarshalMember
  <2> QED
    BY <1>2, <1>3, <2>1
<1>4. CASE f = "endpoints"
  <2>1. next = [array |-> array,
                cfg |-> [d.cfg EXCEPT !.endpoints = SubSeq(array, 1, Len(list)),
                                      !.endpointsNil = (v = Null)]]
    BY <1>4 DEF UnmarshalMember
  <2> DEFINE eps == SubSeq(array, 1, Len(list))
             nil == (v = Null)
             cfg == [d.cfg EXCEPT !.endpoints = eps, !.endpointsNil = nil]
  <2> HIDE DEF eps, nil, array
  <2>2. cfg.endpoints = eps /\ cfg.endpointsNil = nil /\ cfg[p] = d.cfg[p]
    BY <1>1 DEF ConfigStruct, Ports
  <2>3. next.cfg = cfg
    BY <2>1 DEF eps, nil
  <2> HIDE DEF cfg, next
  <2> QED
    BY <1>2, <1>4, <2>2, <2>3 DEF eps, nil, array, next
<1>5. CASE f \notin {"", "endpoints"}
  <2>1. next = IF v = Null THEN d ELSE [d EXCEPT !.cfg = [@ EXCEPT ![f] = v[2]]]
    BY <1>5 DEF UnmarshalMember
  <2>2. CASE v = Null
    BY <1>5, <2>1, <2>2
  <2>3. CASE v # Null
    <3> DEFINE x == v[2]
               cfg == [d.cfg EXCEPT ![f] = x]
    <3> HIDE DEF x
    <3>1. next.cfg = cfg /\ next.array = d.array
      BY <1>1, <2>1, <2>3 DEF x
    <3>2. /\ cfg.endpoints = d.cfg.endpoints /\ cfg.endpointsNil = d.cfg.endpointsNil
          /\ f # p => cfg[p] = d.cfg[p]
          /\ f = p => cfg[p] = x
      <4>1. f \in {"schemaVersion", "httpPort", "httpVsockPort", "httpTcpPort"}
        BY <1>5 DEF TypedMember, Schema
      <4> HIDE DEF f
      <4> QED
        BY <1>1, <4>1 DEF ConfigStruct, Ports
    <3> HIDE DEF cfg, next
    <3> QED
      BY <1>5, <2>3, <3>1, <3>2 DEF next, x
  <2> QED
    BY <2>2, <2>3
<1> QED
  BY <1>3, <1>4, <1>5

(* The last state of the decoding is the configuration, but for a flag.    *)
LEMMA UnmarshalConfigFacts ==
  ASSUME NEW f \in Files, Parses(f)
  PROVE  LET last == Unmarshal(f.members)[Len(f.members)].cfg
             cfg == UnmarshalConfig(f.members)
         IN  /\ \A p \in Ports : cfg[p] = last[p]
             /\ cfg.endpoints = last.endpoints /\ cfg.endpointsNil = last.endpointsNil
<1> DEFINE n == Len(f.members)
           last == Unmarshal(f.members)[n].cfg
           set == \E k \in DOMAIN f.members : f.members[k].key = "endpoints"
<1>1. UnmarshalConfig(f.members) = [last EXCEPT !.endpointsSet = set]
  BY DEF UnmarshalConfig
<1>2. last \in ConfigStruct
  <2>1. n \in 0 .. n
    BY UnmarshalType
  <2> QED
    BY <2>1, UnmarshalType DEF Decoded
<1> HIDE DEF last, set
<1>3. /\ \A p \in Ports : [last EXCEPT !.endpointsSet = set][p] = last[p]
      /\ [last EXCEPT !.endpointsSet = set].endpoints = last.endpoints
      /\ [last EXCEPT !.endpointsSet = set].endpointsNil = last.endpointsNil
  BY <1>2 DEF ConfigStruct, Ports
<1> QED
  BY <1>1, <1>3 DEF last

(* A port that one member gives, and no other, is the one decoded.         *)
LEMMA PortOfFile ==
  ASSUME NEW f \in Files, Parses(f), NamedOnce(f.members),
         NEW k \in DOMAIN f.members, NEW p \in Ports, Field[f.members[k].key] = p
  PROVE  UnmarshalConfig(f.members)[p] =
           IF f.members[k].value = Null THEN 0 ELSE f.members[k].value[2]
<1> DEFINE members == f.members
           last == Len(members)
           v == members[k].value
           D(n) == Unmarshal(members)[n]
           Good(n) == D(n).cfg[p] = IF n < k \/ v = Null THEN 0 ELSE v[2]
           wrong == {n \in 0 .. last : ~ Good(n)}
<1>1. /\ last \in Nat /\ DOMAIN members = 1 .. last
      /\ \A n \in 0 .. last : D(n) \in Decoded
      /\ \A j \in DOMAIN members : TypedMember(members[j])
  BY UnmarshalType
<1>2. /\ D(0) = [cfg |-> ZeroConfig, array |-> <<>>]
      /\ \A n \in 1 .. last : D(n) = UnmarshalMember(D(n - 1), members[n])
  BY <1>1, UnmarshalSteps
<1>3. \A j \in DOMAIN members : Field[members[j].key] = p => j = k
  <2>1. p # ""
    BY DEF Ports
  <2> QED
    BY <2>1 DEF NamedOnce
<1>4. k \in 1 .. last
  BY <1>1
<1> HIDE DEF members, last, v, D
<1>5. wrong = {}
  <2>1. SUFFICES ASSUME wrong # {} PROVE FALSE
    OBVIOUS
  <2>2. wrong \subseteq Nat
    OBVIOUS
  <2>3. PICK n \in wrong : \A y \in wrong : n <= y
    BY <2>1, <2>2, Smallest
  <2>4. n \in 0 .. last /\ ~ Good(n)
    BY <2>3
  <2>5. n # 0
    <3>1. D(0).cfg[p] = 0
      <4>1. D(0).cfg = ZeroConfig
        BY <1>2
      <4>2. /\ ZeroConfig["httpPort"] = 0 /\ ZeroConfig["httpVsockPort"] = 0
            /\ ZeroConfig["httpTcpPort"] = 0
        BY DEF ZeroConfig
      <4>3. p = "httpPort" \/ p = "httpVsockPort" \/ p = "httpTcpPort"
        BY DEF Ports
      <4> QED
        BY <4>1, <4>2, <4>3
    <3>2. 0 < k
      BY <1>1, <1>4
    <3> QED
      BY <2>4, <3>1, <3>2
  <2>6. n \in 1 .. last /\ n - 1 \in 0 .. last /\ ~ (n <= n - 1)
    BY <1>1, <2>4, <2>5
  <2>7. Good(n - 1)
    BY <2>3, <2>6
  <2> DEFINE m == members[n]
  <2>8. /\ Field[m.key] # p \/ m.value = Null => D(n).cfg[p] = D(n - 1).cfg[p]
        /\ Field[m.key] = p /\ m.value # Null => D(n).cfg[p] = m.value[2]
    <3>1. D(n - 1) \in Decoded /\ TypedMember(m) /\ D(n) = UnmarshalMember(D(n - 1), m)
      BY <1>1, <1>2, <2>6
    <3> HIDE DEF m
    <3> QED
      BY <3>1, UnmarshalMemberFacts
  <2>9. CASE n = k
    <3>1. Field[m.key] = p /\ m.value = v
      BY <2>9 DEF v, members
    <3>2. n - 1 < k /\ ~ (n < k)
      BY <1>1, <1>4, <2>9
    <3> HIDE DEF m
    <3> QED
      BY <2>4, <2>7, <2>8, <3>1, <3>2
  <2>10. CASE n # k
    <3>1. Field[m.key] # p
      BY <1>1, <1>3, <2>6, <2>10
    <3>2. n < k <=> n - 1 < k
      BY <1>1, <1>4, <2>6, <2>10
    <3> HIDE DEF m
    <3> QED
      BY <2>4, <2>7, <2>8, <3>1, <3>2
  <2> QED
    BY <2>9, <2>10
<1>6. Good(last)
  <2>1. last \in 0 .. last
    BY <1>1
  <2> QED
    BY <1>5, <2>1
<1>7. ~ (last < k)
  BY <1>1, <1>4
<1>8. D(last).cfg[p] = IF v = Null THEN 0 ELSE v[2]
  BY <1>6, <1>7
<1> QED
  BY <1>8, UnmarshalConfigFacts DEF D, last, v, members

(* So are the endpoints.                                                   *)
LEMMA EndpointsOfFile ==
  ASSUME NEW f \in Files, Parses(f), NamedOnce(f.members),
         NEW k \in DOMAIN f.members, Field[f.members[k].key] = "endpoints"
  PROVE  LET v == f.members[k].value
             list == IF v = Null THEN <<>> ELSE v[2]
             cfg == UnmarshalConfig(f.members)
         IN  /\ cfg.endpoints = SubSeq(UnmarshalArray(<<>>, list), 1, Len(list))
             /\ cfg.endpointsNil = (v = Null)
<1> DEFINE members == f.members
           last == Len(members)
           v == members[k].value
           list == IF v = Null THEN <<>> ELSE v[2]
           eps == SubSeq(UnmarshalArray(<<>>, list), 1, Len(list))
           nil == (v = Null)
           D(n) == Unmarshal(members)[n]
           Good(n) == /\ n < k => D(n).array = <<>>
                      /\ ~ (n < k) => D(n).cfg.endpoints = eps /\ D(n).cfg.endpointsNil = nil
           wrong == {n \in 0 .. last : ~ Good(n)}
<1>1. /\ last \in Nat /\ DOMAIN members = 1 .. last
      /\ \A n \in 0 .. last : D(n) \in Decoded
      /\ \A j \in DOMAIN members : TypedMember(members[j])
  BY UnmarshalType
<1>2. /\ D(0) = [cfg |-> ZeroConfig, array |-> <<>>]
      /\ \A n \in 1 .. last : D(n) = UnmarshalMember(D(n - 1), members[n])
  BY <1>1, UnmarshalSteps
<1>3. \A j \in DOMAIN members : Field[members[j].key] = "endpoints" => j = k
  BY DEF NamedOnce
<1>4. k \in 1 .. last
  BY <1>1
<1> HIDE DEF members, last, v, D, list, eps, nil
<1>5. wrong = {}
  <2>1. SUFFICES ASSUME wrong # {} PROVE FALSE
    OBVIOUS
  <2>2. wrong \subseteq Nat
    OBVIOUS
  <2>3. PICK n \in wrong : \A y \in wrong : n <= y
    BY <2>1, <2>2, Smallest
  <2>4. n \in 0 .. last /\ ~ Good(n)
    BY <2>3
  <2>5. n # 0
    <3>1. D(0).array = <<>>
      BY <1>2
    <3>2. 0 < k
      BY <1>1, <1>4
    <3> QED
      BY <2>4, <3>1, <3>2
  <2>6. n \in 1 .. last /\ n - 1 \in 0 .. last /\ ~ (n <= n - 1)
    BY <1>1, <2>4, <2>5
  <2>7. Good(n - 1)
    BY <2>3, <2>6
  <2> DEFINE m == members[n]
             mlist == IF m.value = Null THEN <<>> ELSE m.value[2]
  <2>8. /\ Field[m.key] # "endpoints" => /\ D(n).array = D(n - 1).array
                                         /\ D(n).cfg.endpoints = D(n - 1).cfg.endpoints
                                         /\ D(n).cfg.endpointsNil = D(n - 1).cfg.endpointsNil
        /\ Field[m.key] = "endpoints" =>
             /\ D(n).cfg.endpoints = SubSeq(UnmarshalArray(D(n - 1).array, mlist), 1, Len(mlist))
             /\ D(n).cfg.endpointsNil = (m.value = Null)
    <3>1. D(n - 1) \in Decoded /\ TypedMember(m) /\ D(n) = UnmarshalMember(D(n - 1), m)
      BY <1>1, <1>2, <2>6
    <3>2. "httpPort" \in Ports
      BY DEF Ports
    <3> HIDE DEF m
    <3> QED
      BY <3>1, <3>2, UnmarshalMemberFacts
  <2>9. CASE n = k
    <3>1. Field[m.key] = "endpoints" /\ mlist = list /\ (m.value = Null) = nil
      BY <2>9 DEF v, members, list, nil
    <3>2. n - 1 < k /\ ~ (n < k)
      BY <1>1, <1>4, <2>9
    <3>3. D(n - 1).array = <<>>
      BY <2>7, <3>2
    <3> HIDE DEF m, mlist
    <3>4. D(n).cfg.endpoints = eps /\ D(n).cfg.endpointsNil = nil
      BY <2>8, <3>1, <3>3 DEF eps
    <3> QED
      BY <2>4, <3>2, <3>4
  <2>10. CASE n # k
    <3>1. Field[m.key] # "endpoints"
      BY <1>1, <1>3, <2>6, <2>10
    <3>2. n < k <=> n - 1 < k
      BY <1>1, <1>4, <2>6, <2>10
    <3> HIDE DEF m
    <3> QED
      BY <2>4, <2>7, <2>8, <3>1, <3>2
  <2> QED
    BY <2>9, <2>10
<1>6. Good(last)
  <2>1. last \in 0 .. last
    BY <1>1
  <2> QED
    BY <1>5, <2>1
<1>7. ~ (last < k)
  BY <1>1, <1>4
<1>8. D(last).cfg.endpoints = eps /\ D(last).cfg.endpointsNil = nil
  BY <1>6, <1>7
<1> QED
  BY <1>8, UnmarshalConfigFacts DEF D, last, v, members, list, eps, nil

(* The elements of a list decode each by itself when no array was there.   *)
LEMMA FreshArray ==
  ASSUME NEW list, list \in Seq(ToSet(list)),
         \A k \in DOMAIN list : TypedElement(list[k]) /\ EndpointDecodes(list[k])
  PROVE  LET eps == SubSeq(UnmarshalArray(<<>>, list), 1, Len(list))
         IN  /\ eps \in Seq(Endpoint) /\ Len(eps) = Len(list)
             /\ \A k \in DOMAIN list : eps[k] = UnmarshalEndpoint(ZeroEndpoint, list[k])
<1> DEFINE array == UnmarshalArray(<<>>, list)
           l == Len(list)
<1>1. l \in Nat /\ DOMAIN list = 1 .. l
  BY LenProperties
<1>2. array \in Seq(Endpoint) /\ l \in 0 .. Len(array)
  <2>1. <<>> \in Seq(Endpoint)
    OBVIOUS
  <2> QED
    BY <2>1, UnmarshalArrayType
<1>3. ASSUME NEW k \in 1 .. l PROVE array[k] = UnmarshalEndpoint(ZeroEndpoint, list[k])
  <2>1. list # <<>>
    BY <1>3
  <2> DEFINE longest == Max({Len(list), Len(<<>>)})
  <2>2. array = [j \in 1 .. longest |->
                   IF j > Len(list) THEN <<>>[j]
                   ELSE UnmarshalEndpoint(IF j <= Len(<<>>) THEN <<>>[j] ELSE ZeroEndpoint, list[j])]
    BY <2>1 DEF UnmarshalArray
  <2>3. longest = l
    <3>1. {l, 0} \subseteq 0 .. l /\ {l, 0} # {}
      BY <1>1
    <3>2. Max({l, 0}) \in {l, 0} /\ \A y \in {l, 0} : y <= Max({l, 0})
      BY <1>1, <3>1, MaxOf
    <3>3. Len(<<>>) = 0
      OBVIOUS
    <3> HIDE DEF l
    <3>4. Max({l, 0}) = l
      BY <1>1, <3>2
    <3> QED
      BY <3>3, <3>4 DEF l
  <2>4. ~ (k > l) /\ ~ (k <= Len(<<>>))
    BY <1>1
  <2> HIDE DEF longest, array
  <2> QED
    BY <2>2, <2>3, <2>4
<1> HIDE DEF array, l
<1>4. /\ SubSeq(array, 1, l) \in Seq(Endpoint) /\ Len(SubSeq(array, 1, l)) = l
      /\ \A k \in 1 .. l : SubSeq(array, 1, l)[k] = array[k]
  BY <1>2, PrefixFacts
<1> QED
  BY <1>1, <1>3, <1>4 DEF array, l

(* Nothing that a file gives is replaced, and what it leaves out is the    *)
(* default: an accepted configuration says what the file says, for files   *)
(* of any number of members in any order that name each field once.        *)
THEOREM FilesAreUsedAsGiven == FileSpec => []GivenIsUsed
<1>1. FileInv => GivenIsUsed
  <2> SUFFICES ASSUME FileInv, NEW m \in Modes, at[m] = "accepted", NamedOnce(file.members),
                      NEW k \in DOMAIN file.members
               PROVE  LET f == Field[file.members[k].key]
                          v == file.members[k].value
                      IN  /\ f \in {"httpVsockPort", IF m = "host" THEN "httpPort" ELSE "httpTcpPort"} =>
                               v = V(config[m][f])
                          /\ f = "endpoints" =>
                               /\ Len(v[2]) = Len(config[m].endpoints)
                               /\ \A j \in DOMAIN v[2] : AsGiven(v[2][j], config[m].endpoints[j])
    BY DEF GivenIsUsed
  <2> DEFINE f == Field[file.members[k].key]
             v == file.members[k].value
             cfg == UnmarshalConfig(file.members)
             norm == NormalizeConfig(cfg)
  <2>1. file \in Files /\ Parses(file) /\ FileConfig /\ ConfigInv
    <3>1. ~ Refused
      BY DEF Refused
    <3> QED
      BY <3>1 DEF FileInv
  <2>2. cfg \in ConfigStruct /\ TypedMember(file.members[k]) /\ MemberDecodes(file.members[k])
    BY <2>1, UnmarshalType
  <2>3. config[m] = norm
    BY <2>1 DEF FileConfig
  <2>4. HeadOK(norm, m) /\ \A j \in DOMAIN norm.endpoints : ValidateEndpoint(norm.endpoints[j])
    <3>1. HeadOK(config[m], m)
      BY <2>1 DEF ConfigInv, Progress
    <3>2. DOMAIN Eps(m) = Passed(m)
      BY <2>1 DEF ConfigInv, Shapes, ConfigStruct, Eps, Passed, Progress
    <3>3. \A j \in DOMAIN Eps(m) : ValidateEndpoint(Eps(m)[j])
      BY <2>1, <3>2 DEF ConfigInv, PassedAreGood
    <3> QED
      BY <2>3, <3>1, <3>3 DEF Eps
  <2>5. /\ norm \in ConfigStruct
        /\ Len(norm.endpoints) = Len(cfg.endpoints)
        /\ \A j \in 1 .. Len(cfg.endpoints) : norm.endpoints[j] = NormalizeEndpoint(cfg.endpoints[j])
    BY <2>2, NormalizeFacts
  <2>6. (\A p \in Ports : norm[p] = cfg[p]) /\ norm.endpointsNil = cfg.endpointsNil
    <3> DEFINE eps == [j \in DOMAIN cfg.endpoints |-> NormalizeEndpoint(cfg.endpoints[j])]
               version == IF cfg.schemaVersion = "" THEN "v0.1" ELSE cfg.schemaVersion
    <3>1. norm = [cfg EXCEPT !.schemaVersion = version, !.endpoints = eps]
      BY DEF NormalizeConfig
    <3> HIDE DEF eps, version, norm, cfg
    <3> QED
      BY <2>2, <3>1 DEF ConfigStruct, Ports
  <2>7. ASSUME f \in {"httpVsockPort", IF m = "host" THEN "httpPort" ELSE "httpTcpPort"}
        PROVE  v = V(norm[f])
    <3>1. f \in Ports
      BY <2>7 DEF Ports
    <3>2. norm[f] = IF v = Null THEN 0 ELSE v[2]
      BY <2>1, <2>6, <3>1, PortOfFile
    <3>3. norm[f] # 0
      <4> HIDE DEF norm, f
      <4> QED
        BY <2>4, <2>7 DEF HeadOK, PortOK, Modes
    <3>4. v # Null /\ v # Wrong
      <4>1. v # Null
        BY <3>2, <3>3
      <4> QED
        BY <2>2, <3>1, <4>1 DEF MemberDecodes, Decodes, Ports
    <3>5. v = V(v[2])
      BY <2>2, <3>1, <3>4 DEF TypedMember, Typed, Ports
    <3> QED
      BY <3>2, <3>4, <3>5
  <2>8. ASSUME f = "endpoints"
        PROVE  /\ Len(v[2]) = Len(norm.endpoints)
               /\ \A j \in DOMAIN v[2] : AsGiven(v[2][j], norm.endpoints[j])
    <3> DEFINE list == IF v = Null THEN <<>> ELSE v[2]
    <3>1. /\ cfg.endpoints = SubSeq(UnmarshalArray(<<>>, list), 1, Len(list))
          /\ cfg.endpointsNil = (v = Null)
      BY <2>1, <2>8, EndpointsOfFile
    <3>2. v # Null
      <4>1. ~ norm.endpointsNil
        BY <2>4 DEF HeadOK
      <4> QED
        BY <2>6, <3>1, <4>1
    <3>3. /\ list = v[2] /\ list \in Seq(ToSet(list))
          /\ \A j \in DOMAIN list : TypedElement(list[j]) /\ EndpointDecodes(list[j])
      <4>1. v # Wrong
        BY <2>2, <2>8, <3>2 DEF MemberDecodes, Decodes
      <4> QED
        BY <2>2, <2>8, <3>2, <4>1 DEF MemberDecodes, TypedMember
    <3> HIDE DEF list, v, cfg, norm
    <3>4. /\ cfg.endpoints \in Seq(Endpoint) /\ Len(cfg.endpoints) = Len(list)
          /\ \A j \in DOMAIN list : cfg.endpoints[j] = UnmarshalEndpoint(ZeroEndpoint, list[j])
      BY <3>1, <3>3, FreshArray
    <3>5. /\ DOMAIN list = 1 .. Len(cfg.endpoints)
          /\ DOMAIN norm.endpoints = 1 .. Len(cfg.endpoints)
      <4>1. norm.endpoints \in Seq(Endpoint)
        BY <2>5 DEF ConfigStruct
      <4> QED
        BY <2>5, <3>3, <3>4, <4>1, LenProperties
    <3>6. ASSUME NEW j \in DOMAIN list PROVE AsGiven(list[j], norm.endpoints[j])
      <4>1. norm.endpoints[j] = NormalizeEndpoint(UnmarshalEndpoint(ZeroEndpoint, list[j]))
        BY <2>5, <3>4, <3>5
      <4>2. ValidateEndpoint(norm.endpoints[j])
        BY <2>4, <3>5
      <4>3. TypedElement(list[j]) /\ EndpointDecodes(list[j])
        BY <3>3
      <4> QED
        BY <4>1, <4>2, <4>3, ElementAsGiven
    <3> QED
      BY <2>5, <3>3, <3>4, <3>6
  <2> QED
    BY <2>3, <2>7, <2>8
<1> QED
  BY <1>1, FileInvariance, PTL

-----------------------------------------------------------------------------
(* From the name of an endpoint to its bridge.                             *)

(* The hosts file of the enclave image, to which the block is added.       *)
Image == <<EtcHosts!Localhost, EtcHosts!NL>>

Managed(eps) == EtcHosts!MergeHosts(Image, eps)

(* Of the image's file only the line for localhost stays before the block. *)
LEMMA BaseOfImage == EtcHosts!Base(Image) = <<EtcHosts!Localhost>>
<1> DEFINE L == EtcHosts!Localhost
           N == EtcHosts!NL
           s == Image
           kept == {0} \cup {j \in DOMAIN s : s[j] \notin {N}}
<1>1. /\ L \notin {EtcHosts!Begin, N, EtcHosts!CR, EtcHosts!Blank}
      /\ N # EtcHosts!Begin
  BY DEF EtcHosts!Localhost, EtcHosts!Text, EtcHosts!Begin, EtcHosts!NL, EtcHosts!CR, EtcHosts!Blank
<1> HIDE DEF L, N
<1>2. /\ s \in Seq({L, N}) /\ Len(s) = 2 /\ DOMAIN s = {1, 2} /\ s[1] = L /\ s[2] = N
      /\ 1 .. Len(s) = {1, 2}
  BY DEF Image, L, N
<1>3. EtcHosts!StripManagedHostsBlock(s) = s
  <2>1. {j \in 1 .. Len(s) : s[j] = EtcHosts!Begin} = {}
    BY <1>1, <1>2
  <2>2. EtcHosts!IndexFrom(s, EtcHosts!Begin, 1) = 0
    BY <2>1 DEF EtcHosts!IndexFrom
  <2> QED
    BY <2>2 DEF EtcHosts!StripManagedHostsBlock
<1>4. kept = {0, 1}
  BY <1>1, <1>2
<1>5. Max({0, 1}) = 1
  <2>1. {0, 1} \subseteq 0 .. 1 /\ {0, 1} # {} /\ 1 \in Nat
    OBVIOUS
  <2>2. Max({0, 1}) \in {0, 1} /\ \A y \in {0, 1} : y <= Max({0, 1})
    BY <2>1, MaxOf
  <2> QED
    BY <2>2
<1>6. EtcHosts!TrimRight(s, {N}) = SubSeq(s, 1, 1)
  <2>1. EtcHosts!Max({0, 1}) = 1
    BY <1>5 DEF EtcHosts!Max, Max
  <2> QED
    BY <1>4, <2>1 DEF EtcHosts!TrimRight
<1>7. SubSeq(s, 1, 1) = <<L>>
  <2>1. 1 \in 0 .. Len(s)
    BY <1>2
  <2>2. /\ SubSeq(s, 1, 1) \in Seq({L, N}) /\ Len(SubSeq(s, 1, 1)) = 1
        /\ \A j \in 1 .. 1 : SubSeq(s, 1, 1)[j] = s[j]
    BY <1>2, <2>1, PrefixFacts
  <2>3. <<L>> \in Seq({L, N}) /\ Len(<<L>>) = 1 /\ <<L>>[1] = L
    OBVIOUS
  <2>4. \A j \in 1 .. 1 : SubSeq(s, 1, 1)[j] = <<L>>[j]
    BY <1>2, <2>2, <2>3
  <2> QED
    BY <2>2, <2>3, <2>4, SeqEqual
<1>8. ~ EtcHosts!TrimmedIsEmpty(<<L>>)
  <2>1. 1 \in DOMAIN <<L>> /\ <<L>>[1] = L
    OBVIOUS
  <2> QED
    BY <1>1, <2>1 DEF EtcHosts!TrimmedIsEmpty, N
<1> QED
  BY <1>3, <1>6, <1>7, <1>8 DEF EtcHosts!Base, L, N

(* Where the pieces of the new file are.                                   *)
LEMMA ManagedFacts ==
  ASSUME NEW eps \in Seq(Endpoint)
  PROVE  LET t == Managed(eps)
             n == Len(eps)
         IN  /\ n \in Nat /\ DOMAIN t = 1 .. 2 * n + 7
             /\ t[1] = EtcHosts!Localhost
             /\ t[2] = EtcHosts!NL /\ t[3] = EtcHosts!NL
             /\ t[4] = EtcHosts!Begin /\ t[5] = EtcHosts!NL
             /\ \A k \in 1 .. n :
                  /\ t[2 * k + 4] = EtcHosts!Entry(EndpointLocalIP(eps[k], k - 1), eps[k].host)
                  /\ t[2 * k + 5] = EtcHosts!NL
             /\ t[2 * n + 6] = EtcHosts!End /\ t[2 * n + 7] = EtcHosts!NL
<1> DEFINE n == Len(eps)
           L == EtcHosts!Localhost
           N == EtcHosts!NL
           B == EtcHosts!Begin
           E == EtcHosts!End
           r == EtcHosts!Render(eps)
           S == {L, N, B, E} \cup ToSet(r)
           open == <<N, N, B, N>>
           close == <<E, N>>
           t1 == <<L>> \o open
           t2 == t1 \o r
           t == t2 \o close
           Ent(k) == EtcHosts!Entry(EndpointLocalIP(eps[k], k - 1), eps[k].host)
<1>1. n \in Nat
  BY LenProperties
<1>2. Managed(eps) = t
  BY BaseOfImage DEF EtcHosts!MergeHosts, Managed
<1>3. r = [k \in 1 .. 2 * n |-> IF k % 2 = 1 THEN Ent((k + 1) \div 2) ELSE N]
  BY DEF EtcHosts!Render, EtcHosts!EndpointLocalIP, EndpointLocalIP, FirstOctet
<1> HIDE DEF n, L, N, B, E, r, Ent
<1>4. DOMAIN r = 1 .. 2 * n /\ 2 * n \in Nat
  BY <1>1, <1>3
<1>5. r \in Seq(S) /\ Len(r) = 2 * n
  <2>1. \A k \in 1 .. 2 * n : r[k] \in S
    BY <1>4 DEF ToSet
  <2>2. r = [k \in 1 .. 2 * n |-> r[k]]
    BY <1>3
  <2> HIDE DEF S
  <2>3. r \in [1 .. 2 * n -> S]
    BY <2>1, <2>2, Zenon
  <2> QED
    BY <1>4, <2>3
<1>6. ASSUME NEW k \in 1 .. n
      PROVE  /\ 2 * k - 1 \in 1 .. 2 * n /\ 2 * k \in 1 .. 2 * n
             /\ r[2 * k - 1] = Ent(k) /\ r[2 * k] = N
  <2>1. /\ 2 * k - 1 \in 1 .. 2 * n /\ 2 * k \in 1 .. 2 * n
        /\ (2 * k - 1) % 2 = 1 /\ ((2 * k - 1) + 1) \div 2 = k /\ (2 * k) % 2 = 0
    BY <1>1
  <2> QED
    BY <1>3, <2>1
<1>7. /\ <<L>> \in Seq(S) /\ Len(<<L>>) = 1 /\ <<L>>[1] = L
      /\ open \in Seq(S) /\ Len(open) = 4
      /\ open[1] = N /\ open[2] = N /\ open[3] = B /\ open[4] = N
      /\ close \in Seq(S) /\ Len(close) = 2 /\ close[1] = E /\ close[2] = N
  <2>1. L \in S /\ N \in S /\ B \in S /\ E \in S
    OBVIOUS
  <2> HIDE DEF S
  <2> QED
    BY <2>1
<1> DEFINE first == <<L>>
<1> HIDE DEF S, open, close, first
<1>8. /\ t1 \in Seq(S) /\ Len(t1) = 5
      /\ t1[1] = L /\ t1[2] = N /\ t1[3] = N /\ t1[4] = B /\ t1[5] = N
  <2>1. first \in Seq(S) /\ open \in Seq(S)
    BY <1>7 DEF first
  <2>2. /\ first \o open \in Seq(S) /\ Len(first \o open) = Len(first) + Len(open)
        /\ \A j \in 1 .. Len(first) : (first \o open)[j] = first[j]
        /\ \A j \in 1 .. Len(open) : (first \o open)[Len(first) + j] = open[j]
    BY <2>1, Concat
  <2>3. /\ Len(first) = 1 /\ first[1] = L /\ Len(open) = 4
        /\ open[1] = N /\ open[2] = N /\ open[3] = B /\ open[4] = N
    BY <1>7 DEF first
  <2>4. t1 = first \o open
    BY DEF first
  <2> DEFINE x == first \o open
  <2>5. x[1] = L /\ x[1 + 1] = N /\ x[1 + 2] = N /\ x[1 + 3] = B /\ x[1 + 4] = N
    <3>1. 1 \in 1 .. 1 /\ 1 \in 1 .. 4 /\ 2 \in 1 .. 4 /\ 3 \in 1 .. 4 /\ 4 \in 1 .. 4
      OBVIOUS
    <3> HIDE DEF x
    <3> QED
      BY <2>2, <2>3, <3>1 DEF x
  <2> HIDE DEF t1, x
  <2> QED
    BY <2>2, <2>3, <2>4, <2>5 DEF x
<1> HIDE DEF t1
<1>9. /\ t2 \in Seq(S) /\ Len(t2) = 5 + 2 * n
      /\ \A j \in 1 .. 5 : t2[j] = t1[j]
      /\ \A j \in 1 .. 2 * n : t2[5 + j] = r[j]
  <2>1. t1 \in Seq(S) /\ r \in Seq(S)
    BY <1>5, <1>8
  <2>2. /\ t1 \o r \in Seq(S) /\ Len(t1 \o r) = Len(t1) + Len(r)
        /\ \A j \in 1 .. Len(t1) : (t1 \o r)[j] = t1[j]
        /\ \A j \in 1 .. Len(r) : (t1 \o r)[Len(t1) + j] = r[j]
    BY <2>1, Concat
  <2> QED
    BY <1>5, <1>8, <2>2
<1> HIDE DEF t2
<1>10. /\ t \in Seq(S) /\ Len(t) = 2 * n + 7
       /\ \A j \in 1 .. 5 + 2 * n : t[j] = t2[j]
       /\ t[2 * n + 6] = E /\ t[2 * n + 7] = N
  <2>1. t2 \in Seq(S) /\ close \in Seq(S)
    BY <1>7, <1>9
  <2>2. /\ t2 \o close \in Seq(S) /\ Len(t2 \o close) = Len(t2) + Len(close)
        /\ \A j \in 1 .. Len(t2) : (t2 \o close)[j] = t2[j]
        /\ \A j \in 1 .. Len(close) : (t2 \o close)[Len(t2) + j] = close[j]
    BY <2>1, Concat
  <2>3. (5 + 2 * n) + 1 = 2 * n + 6 /\ (5 + 2 * n) + 2 = 2 * n + 7 /\ 1 \in 1 .. 2 /\ 2 \in 1 .. 2
    BY <1>1
  <2> HIDE DEF t
  <2>4. t = t2 \o close
    BY DEF t
  <2> QED
    BY <1>7, <1>9, <2>2, <2>3, <2>4
<1> HIDE DEF t
<1>11. t[1] = L /\ t[2] = N /\ t[3] = N /\ t[4] = B /\ t[5] = N
  <2>1. \A j \in 1 .. 5 : j \in 1 .. 5 + 2 * n
    BY <1>1
  <2>2. \A j \in 1 .. 5 : t[j] = t1[j]
    BY <1>9, <1>10, <2>1
  <2> QED
    BY <1>8, <2>2
<1>12. ASSUME NEW k \in 1 .. n PROVE t[2 * k + 4] = Ent(k) /\ t[2 * k + 5] = N
  <2>1. /\ 5 + (2 * k - 1) = 2 * k + 4 /\ 5 + 2 * k = 2 * k + 5
        /\ 2 * k + 4 \in 1 .. 5 + 2 * n /\ 2 * k + 5 \in 1 .. 5 + 2 * n
    BY <1>1
  <2>2. t2[5 + (2 * k - 1)] = Ent(k) /\ t2[5 + 2 * k] = N
    BY <1>6, <1>9
  <2> QED
    BY <1>10, <2>1, <2>2
<1>13. DOMAIN t = 1 .. 2 * n + 7
  BY <1>10, LenProperties
<1> QED
  BY <1>1, <1>2, <1>10, <1>11, <1>12, <1>13 DEF n, L, N, B, E, Ent

(* What the resolver reads in that file: the managed lines are the entries *)
(* of the endpoints, and no others.                                        *)
LEMMA EntriesOfBlock ==
  ASSUME NEW eps \in Seq(Endpoint)
  PROVE  LET t == Managed(eps)
         IN  /\ EtcHosts!ManagedLines(t) = {2 * k + 4 : k \in 1 .. Len(eps)}
             /\ \A k \in 1 .. Len(eps) :
                  /\ t[2 * k + 4][2] = EndpointLocalIP(eps[k], k - 1)
                  /\ t[2 * k + 4][3] = eps[k].host
<1> DEFINE n == Len(eps)
           t == Managed(eps)
           L == EtcHosts!Localhost
           N == EtcHosts!NL
           B == EtcHosts!Begin
           E == EtcHosts!End
           Ent(k) == EtcHosts!Entry(EndpointLocalIP(eps[k], k - 1), eps[k].host)
<1>1. /\ n \in Nat /\ DOMAIN t = 1 .. 2 * n + 7
      /\ t[1] = L /\ t[2] = N /\ t[3] = N /\ t[4] = B /\ t[5] = N
      /\ \A k \in 1 .. n : t[2 * k + 4] = Ent(k) /\ t[2 * k + 5] = N
      /\ t[2 * n + 6] = E /\ t[2 * n + 7] = N
  BY ManagedFacts
<1>2. /\ L # B /\ B # E /\ N # E
      /\ ~ EtcHosts!IsLine(N) /\ ~ EtcHosts!IsLine(B) /\ ~ EtcHosts!IsLine(E)
  BY DEF EtcHosts!Localhost, EtcHosts!Text, EtcHosts!Begin, EtcHosts!End, EtcHosts!NL,
         EtcHosts!IsLine
<1>3. ASSUME NEW k \in 1 .. n
      PROVE  /\ EtcHosts!IsLine(Ent(k)) /\ Ent(k) # E
             /\ Ent(k)[2] = EndpointLocalIP(eps[k], k - 1) /\ Ent(k)[3] = eps[k].host
  BY DEF EtcHosts!Entry, EtcHosts!End, EtcHosts!IsLine
<1> HIDE DEF n, t, L, N, B, E, Ent
<1>4. ASSUME NEW x \in 1 .. 2 * n + 7
      PROVE  \/ x \in {1, 2, 3, 4, 5, 2 * n + 6, 2 * n + 7}
             \/ \E k \in 1 .. n : x = 2 * k + 4 \/ x = 2 * k + 5
  <2>1. CASE x \in 6 .. 2 * n + 5
    <3> DEFINE k == (x - 4) \div 2
    <3>1. k \in 1 .. n /\ (x = 2 * k + 4 \/ x = 2 * k + 5)
      BY <1>1, <2>1
    <3> QED
      BY <3>1
  <2> QED
    BY <1>1, <2>1
<1>5. ASSUME NEW k \in 1 .. n
      PROVE  2 * k + 4 \in EtcHosts!ManagedLines(t)
  <2>1. 2 * k + 4 \in DOMAIN t /\ 4 \in 1 .. 2 * k + 4
    BY <1>1
  <2>2. ASSUME NEW e \in 4 .. 2 * k + 4 PROVE t[e] # E
    <3>1. e \in 1 .. 2 * n + 7 /\ e \notin {1, 2, 3, 2 * n + 6, 2 * n + 7}
      BY <1>1
    <3>2. e \in {4, 5} \/ \E j \in 1 .. n : e = 2 * j + 4 \/ e = 2 * j + 5
      BY <1>4, <3>1
    <3> QED
      BY <1>1, <1>2, <1>3, <3>2
  <2>3. EtcHosts!Inside(t, 2 * k + 4)
    BY <1>1, <2>1, <2>2 DEF EtcHosts!Inside, B, E
  <2> QED
    BY <1>1, <1>3, <2>1, <2>3 DEF EtcHosts!ManagedLines
<1>6. ASSUME NEW x \in EtcHosts!ManagedLines(t)
      PROVE  \E k \in 1 .. n : x = 2 * k + 4
  <2>1. x \in 1 .. 2 * n + 7 /\ EtcHosts!IsLine(t[x]) /\ EtcHosts!Inside(t, x)
    BY <1>1 DEF EtcHosts!ManagedLines
  <2>2. x # 1
    <3>1. ~ EtcHosts!Inside(t, 1)
      BY <1>1, <1>2 DEF EtcHosts!Inside, B
    <3> QED
      BY <2>1, <3>1
  <2>3. x \notin {2, 3, 4, 5, 2 * n + 6, 2 * n + 7}
    BY <1>1, <1>2, <2>1
  <2>4. ~ \E k \in 1 .. n : x = 2 * k + 5
    BY <1>1, <1>2, <2>1
  <2> QED
    BY <1>4, <2>1, <2>2, <2>3, <2>4
<1>7. EtcHosts!ManagedLines(t) = {2 * k + 4 : k \in 1 .. n}
  BY <1>5, <1>6
<1>8. \A k \in 1 .. n : /\ t[2 * k + 4][2] = EndpointLocalIP(eps[k], k - 1)
                        /\ t[2 * k + 4][3] = eps[k].host
  BY <1>1, <1>3
<1> QED
  BY <1>7, <1>8 DEF n, t

(* From the name to the bridge: an accepted configuration has one address  *)
(* for every name, one listener there, one bridge at the port it dials,    *)
(* however many endpoints there are and however their names are written.   *)
THEOREM NamesLeadHome == FileSpec => []RoutesLeadHome
<1>1. FileInv => RoutesLeadHome
  <2> DEFINE inside == config["enclave"].endpoints
             outside == config["host"].endpoints
             text == Managed(inside)
             Resolve(name) == {text[k][2] :
               k \in {l \in EtcHosts!ManagedLines(text) : Lower[text[l][3]] = Lower[name]}}
             Listeners(ip, p) == {k \in DOMAIN inside : LocalAddr(inside[k], k - 1) = <<ip, p>>}
             Bridges(p) == {k \in DOMAIN outside : outside[k].vsockPort = p}
  <2> SUFFICES ASSUME FileInv, \A m \in Modes : at[m] = "accepted",
                      NEW j \in DOMAIN inside
               PROVE  \E ip \in 1 .. MaxOctet, k \in DOMAIN inside, q \in DOMAIN outside :
                        /\ Resolve(inside[j].host) = {ip}
                        /\ Listeners(ip, inside[j].localPort) = {k}
                        /\ Bridges(inside[k].vsockPort) = {q}
                        /\ Lower[outside[q].host] = Lower[inside[j].host]
                        /\ outside[q].tcpPort = inside[j].tcpPort
    BY DEF RoutesLeadHome, Managed, Image
  <2> DEFINE ip == EndpointLocalIP(inside[j], j - 1)
  <2>1. FileConfig /\ ConfigInv
    <3>1. ~ Refused
      BY DEF Refused, Modes
    <3> QED
      BY <3>1 DEF FileInv
  <2>2. outside = inside /\ at["enclave"] = "accepted" /\ "enclave" \in Modes
    BY <2>1 DEF FileConfig, Modes
  <2>3. inside \in Seq(Endpoint) /\ DOMAIN inside = 1 .. Len(inside) /\ Len(inside) \in Nat
    BY <2>1, <2>2 DEF ConfigInv, Shapes, ConfigStruct
  <2>4. \A k \in DOMAIN inside : k # j => ~ Collide(inside, k, j)
    BY <2>1, <2>2, DistinctOfInv DEF NoCollision
  <2>5. ip \in 1 .. MaxOctet
    BY <2>1, <2>2, BindsOfInv DEF BindsAreLegal
  <2>6. /\ EtcHosts!ManagedLines(text) = {2 * k + 4 : k \in 1 .. Len(inside)}
        /\ \A k \in 1 .. Len(inside) :
             /\ text[2 * k + 4][2] = EndpointLocalIP(inside[k], k - 1)
             /\ text[2 * k + 4][3] = inside[k].host
    BY <2>3, EntriesOfBlock
  <2> HIDE DEF text
  <2>7. Resolve(inside[j].host) = {ip}
    <3>1. \A l \in EtcHosts!ManagedLines(text) :
            Lower[text[l][3]] = Lower[inside[j].host] <=> l = 2 * j + 4
      <4>1. ASSUME NEW k \in 1 .. Len(inside)
            PROVE  Lower[text[2 * k + 4][3]] = Lower[inside[j].host] <=> k = j
        BY <2>3, <2>4, <2>6 DEF Collide
      <4> QED
        BY <2>3, <2>6, <4>1
    <3>2. 2 * j + 4 \in EtcHosts!ManagedLines(text) /\ text[2 * j + 4][2] = ip
      BY <2>3, <2>6
    <3> HIDE DEF ip, inside
    <3> QED
      BY <3>1, <3>2
  <2>8. Listeners(ip, inside[j].localPort) = {j}
    BY <2>4 DEF Collide, LocalAddr
  <2>9. Bridges(inside[j].vsockPort) = {j}
    BY <2>2, <2>4 DEF Collide
  <2> HIDE DEF ip, inside, outside, Resolve, Listeners, Bridges
  <2> QED
    BY <2>2, <2>5, <2>7, <2>8, <2>9
<1> QED
  BY <1>1, FileInvariance, PTL

(* What Config promises holds of the files as well: what they decode to is *)
(* a configuration, and the two processes decode the same bytes.           *)
THEOREM FilesKeepThePromises ==
  FileSpec => [](TypeOK /\ NoCollision /\ RejectionJustified /\ BindsAreLegal /\ SidesAgree)
<1>1. FileInv => TypeOK /\ NoCollision /\ RejectionJustified /\ BindsAreLegal /\ SidesAgree
  <2>1. CASE ConfigInv
    BY <2>1, TypeOfInv, DistinctOfInv, BindsOfInv, SidesOfInv DEF ConfigInv
  <2>2. CASE Refused
    <3>1. \A m \in Modes : at[m] = "rejected" /\ ~ HeadOK(config[m], m) /\ i[m] = 1
                             /\ hosts[m] = {} /\ vsockPorts[m] = {}
      BY <2>2 DEF Refused, HeadOK, ZeroConfig
    <3>2. TypeOK
      <4>1. 1 \in 1 .. MaxEndpoints + 1
        BY ConfigAssumption
      <4> QED
        BY <2>2, <3>1, <4>1 DEF Refused, TypeOK, Verdicts
    <3> QED
      BY <3>1, <3>2 DEF NoCollision, RejectionJustified, BindsAreLegal, SidesAgree, Modes
  <2> QED
    BY <2>1, <2>2 DEF FileInv
<1> QED
  BY <1>1, FileInvariance, PTL

-----------------------------------------------------------------------------
(* What ValidateConfig decides, said without its loop and its maps: the    *)
(* head is in order, every endpoint is, and no two of them collide.        *)
WellFormed(m) ==
  /\ HeadOK(config[m], m)
  /\ \A j \in DOMAIN Eps(m) : ValidateEndpoint(Eps(m)[j])
  /\ \A j, k \in DOMAIN Eps(m) : j # k => ~ Collide(Eps(m), j, k)

DecidesExactly == \A m \in Modes :
  /\ at[m] = "accepted" => WellFormed(m)
  /\ at[m] = "rejected" => ~ WellFormed(m)

(* The loop that returns at the first fault and the maps that forget who   *)
(* took a key amount to just that, for every file: ValidateConfig accepts  *)
(* no configuration with a fault and refuses none without.                 *)
THEOREM ValidationIsExact == FileSpec => []DecidesExactly
<1>1. ASSUME ConfigInv, NEW m \in Modes, at[m] = "rejected" PROVE ~ WellFormed(m)
  <2>1. \A j \in DOMAIN Eps(m) : j \in Nat
    BY <1>1 DEF ConfigInv, Shapes, ConfigStruct, Eps
  <2>2. \A j, k \in DOMAIN Eps(m) : j < k => j # k
    BY <2>1
  <2> QED
    BY <1>1, <2>2 DEF ConfigInv, RejectionJustified, WellFormed, Eps
<1>2. ASSUME ConfigInv, NEW m \in Modes, at[m] = "accepted" PROVE WellFormed(m)
  <2>1. DOMAIN Eps(m) = Passed(m)
    BY <1>2 DEF ConfigInv, Shapes, ConfigStruct, Eps, Passed, Progress
  <2>2. HeadOK(config[m], m)
    BY <1>2 DEF ConfigInv, Progress
  <2> QED
    BY <1>2, <2>1, <2>2 DEF ConfigInv, PassedAreGood, WellFormed
<1>3. FileInv => DecidesExactly
  <2>1. ASSUME Refused PROVE \A m \in Modes : at[m] = "rejected" /\ ~ HeadOK(config[m], m)
    BY <2>1 DEF Refused, HeadOK, ZeroConfig
  <2>2. ASSUME Refused PROVE DecidesExactly
    BY <2>1, <2>2 DEF DecidesExactly, WellFormed
  <2>3. ASSUME ConfigInv PROVE DecidesExactly
    BY <1>1, <1>2, <2>3 DEF DecidesExactly
  <2> QED
    BY <2>2, <2>3 DEF FileInv
<1> QED
  BY <1>3, FileInvariance, PTL
=============================================================================
