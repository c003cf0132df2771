--------------------------- MODULE ListenerProofs ---------------------------
(***************************************************************************)
(* Proofs about Listener, for every set of connections, every limit, every *)
(* assignment of context ids and each of the four listeners: the inductive *)
(* invariant, the slot count, the bound on descriptors, the admission      *)
(* rule, and that Listener implements the safety part of ConnectionPool.   *)
(***************************************************************************)
EXTENDS Listener, FiniteSetTheorems, TLAPS

(* Holding is finite, so that its cardinality is a number: every set of    *)
(* connections is.                                                         *)
LEMMA ConnsFinite ==
  ASSUME NEW S \in SUBSET Conns
  PROVE  IsFiniteSet(S) /\ Cardinality(S) \in Nat
BY FS_Subset, FS_CardinalityType, ListenerAssumption

(* The invariant holds when the process starts to listen.                  *)
LEMMA InitInv == Init => IInv
<1> SUFFICES ASSUME Init PROVE IInv
  OBVIOUS
<1>1. TypeOK
  BY ListenerAssumption DEF Init, TypeOK
<1>2. OnePlace /\ OpenByPlace
  BY ListenerAssumption DEF Init, OnePlace, OpenByPlace, Holding, BridgePC
<1>3. Holding = {}
  BY DEF Init, Holding, BridgePC
<1>4. SlotsMatchBridges
  BY <1>3, FS_EmptySet DEF Init, SlotsMatchBridges
<1> QED
  BY <1>1, <1>2, <1>4 DEF IInv

(* Accept, whose backlog bookkeeping is the delicate part of OnePlace.     *)
LEMMA AcceptInv == IInv /\ Accept => IInv'
<1> SUFFICES ASSUME IInv, Accept PROVE IInv'
  OBVIOUS
<1> USE ListenerAssumption DEF IInv, TypeOK, BridgePC
<1> DEFINE h == Head(backlog)
<1>1. /\ h \in Conns /\ h = backlog[1] /\ pc[h] = "backlog"
      /\ backlog' \in Seq(Conns)
      /\ Len(backlog') = Len(backlog) - 1
      /\ \A i \in DOMAIN backlog' : i + 1 \in DOMAIN backlog /\ backlog'[i] = backlog[i + 1]
  BY DEF Accept, OnePlace
<1>2. TypeOK'
  BY <1>1 DEF Accept
<1>3. Holding' = Holding
  BY <1>1 DEF Accept, Holding
<1>4. OnePlace'
  <2>1. \A i \in DOMAIN backlog' : backlog'[i] # h
    BY <1>1 DEF OnePlace
  <2>2. \A i \in DOMAIN backlog' : pc'[backlog'[i]] = "backlog"
    BY <1>1, <2>1 DEF Accept, OnePlace
  <2>3. \A i, j \in DOMAIN backlog' : backlog'[i] = backlog'[j] => i = j
    BY <1>1 DEF OnePlace
  <2>4. cur' # NoConn /\ loop' \in {"checkCID", "acquire"}
    BY <1>1 DEF Accept
  <2>5. \A c \in Conns : pc'[c] = "accepted" <=> c = cur'
    BY <1>1 DEF Accept, OnePlace
  <2>6. /\ loop' = "acquire" => ~ ChecksCID(kind')
        /\ loop' = "checkCID" => ChecksCID(kind')
    BY DEF Accept
  <2>7. \A c \in Holding' : ChecksCID(kind') => PeerMatches(c)
    BY <1>3 DEF Accept, OnePlace
  <2> QED
    BY <2>2, <2>3, <2>4, <2>5, <2>6, <2>7 DEF OnePlace
<1>5. OpenByPlace'
  BY <1>1 DEF Accept, OpenByPlace
<1>6. SlotsMatchBridges'
  BY <1>3 DEF Accept, SlotsMatchBridges
<1> QED
  BY <1>2, <1>4, <1>5, <1>6

(* The other steps of the accept loop, and the arrival of a connection.    *)
LEMMA LoopInv ==
  IInv /\ (Listen \/ ListenFails \/ AcceptFails \/ CheckCID \/ Admit \/ TurnAway) => IInv'
<1> USE ListenerAssumption DEF IInv, TypeOK, BridgePC
<1>1. ASSUME IInv, Listen \/ ListenFails \/ AcceptFails PROVE IInv'
  <2>1. Holding' = Holding /\ UNCHANGED <<kind, backlog, cur, pc, src, dst, sem>>
    BY <1>1 DEF Listen, ListenFails, AcceptFails, Holding
  <2>2. TypeOK' /\ OnePlace' /\ OpenByPlace' /\ SlotsMatchBridges'
    BY <1>1, <2>1 DEF Listen, ListenFails, AcceptFails, OnePlace, OpenByPlace,
                      SlotsMatchBridges, PeerMatches
  <2> QED
    BY <2>2
<1>2. ASSUME IInv, CheckCID, PeerMatches(cur) PROVE IInv'
  <2>1. Holding' = Holding /\ UNCHANGED <<kind, backlog, cur, pc, src, dst, sem, acceptErrs>>
    BY <1>2 DEF CheckCID, Holding, CloseCur
  <2>2. loop = "checkCID" /\ loop' = "acquire"
    BY <1>2 DEF CheckCID
  <2>3. TypeOK' /\ OnePlace' /\ OpenByPlace' /\ SlotsMatchBridges'
    BY <1>2, <2>1, <2>2 DEF OnePlace, OpenByPlace, SlotsMatchBridges, PeerMatches
  <2> QED
    BY <2>3
<1>3. ASSUME IInv, loop \in {"checkCID", "acquire"}, CloseCur,
             UNCHANGED <<kind, backlog, dst, sem, acceptErrs>>
      PROVE  IInv'
  <2>1. cur \in Conns /\ pc[cur] = "accepted"
    BY <1>3 DEF OnePlace
  <2>2. Holding' = Holding
    BY <1>3, <2>1 DEF CloseCur, Holding
  <2>3. TypeOK' /\ SlotsMatchBridges'
    BY <1>3, <2>1, <2>2 DEF CloseCur, SlotsMatchBridges
  <2>4. OnePlace'
    BY <1>3, <2>1, <2>2 DEF CloseCur, OnePlace, PeerMatches
  <2>5. OpenByPlace'
    BY <1>3, <2>1 DEF CloseCur, OpenByPlace, PeerMatches
  <2> QED
    BY <2>3, <2>4, <2>5
<1>4. ASSUME IInv, Admit PROVE IInv'
  <2>1. cur \in Conns /\ pc[cur] = "accepted"
    BY <1>4 DEF Admit, OnePlace
  <2>2. Holding' = Holding \cup {cur} /\ cur \notin Holding
    BY <1>4, <2>1 DEF Admit, Holding
  <2>3. Cardinality(Holding') = Cardinality(Holding) + 1
    BY <2>2, FS_AddElement, ConnsFinite DEF Holding
  <2>4. SlotsMatchBridges'
    BY <1>4, <2>3 DEF Admit, SlotsMatchBridges
  <2>5. TypeOK'
    BY <1>4, <2>1 DEF Admit
  <2>6. OnePlace'
    BY <1>4, <2>1, <2>2 DEF Admit, OnePlace, PeerMatches
  <2>7. OpenByPlace'
    BY <1>4, <2>1 DEF Admit, OpenByPlace, PeerMatches
  <2> QED
    BY <2>4, <2>5, <2>6, <2>7
<1> QED
  BY <1>1, <1>2, <1>3, <1>4 DEF CheckCID, TurnAway

(* A connection that arrives goes to the end of the backlog, once.         *)
LEMMA ConnectInv == ASSUME NEW c \in Conns, IInv, Connect(c) PROVE IInv'
<1> USE ListenerAssumption DEF IInv, TypeOK, BridgePC
<1>1. /\ Len(backlog') = Len(backlog) + 1
      /\ backlog' \in Seq(Conns)
      /\ backlog'[Len(backlog')] = c
      /\ \A i \in DOMAIN backlog' : i \in DOMAIN backlog \/ i = Len(backlog')
      /\ \A i \in DOMAIN backlog : backlog'[i] = backlog[i] /\ backlog[i] # c
  BY DEF Connect, OnePlace
<1>2. Holding' = Holding
  BY DEF Connect, Holding
<1>3. TypeOK' /\ SlotsMatchBridges'
  BY <1>1, <1>2 DEF Connect, SlotsMatchBridges
<1>4. OpenByPlace'
  BY DEF Connect, OpenByPlace, PeerMatches
<1>5. \A i \in DOMAIN backlog' : pc'[backlog'[i]] = "backlog"
  BY <1>1 DEF Connect, OnePlace
<1>6. \A i, j \in DOMAIN backlog' : backlog'[i] = backlog'[j] => i = j
  BY <1>1 DEF OnePlace
<1>7. OnePlace'
  BY <1>2, <1>5, <1>6 DEF Connect, OnePlace, PeerMatches
<1> QED
  BY <1>3, <1>4, <1>7

(* The goroutine's steps: only Release gives a slot back.                  *)
LEMMA BridgeInv == ASSUME NEW c \in Conns, IInv, Bridge(c) PROVE IInv'
<1> USE ListenerAssumption DEF IInv, TypeOK, BridgePC
<1> DEFINE Middle == DialSucceeds(c) \/ DialFails(c) \/ CopyEnds(c) \/ CloseDst(c) \/ CloseSrc(c)
<1>1. c \in Holding /\ \A i \in DOMAIN backlog : backlog[i] # c
  BY DEF Bridge, DialSucceeds, DialFails, CopyEnds, CloseDst, CloseSrc, Release,
         Holding, OnePlace
<1>2. ASSUME Middle PROVE IInv'
  <2>1. Holding' = Holding
    BY <1>2 DEF DialSucceeds, DialFails, CopyEnds, CloseDst, CloseSrc, Holding
  <2>2. TypeOK'
    BY <1>2 DEF DialSucceeds, DialFails, CopyEnds, CloseDst, CloseSrc
  <2>3. SlotsMatchBridges'
    BY <1>2, <2>1 DEF DialSucceeds, DialFails, CopyEnds, CloseDst, CloseSrc, SlotsMatchBridges
  <2>4. OnePlace'
    BY <1>1, <1>2, <2>1 DEF DialSucceeds, DialFails, CopyEnds, CloseDst, CloseSrc,
                            OnePlace, PeerMatches
  <2>5. OpenByPlace'
    BY <1>1, <1>2 DEF DialSucceeds, DialFails, CopyEnds, CloseDst, CloseSrc,
                      OpenByPlace, OnePlace, PeerMatches
  <2> QED
    BY <2>2, <2>3, <2>4, <2>5
<1>3. ASSUME Release(c) PROVE IInv'
  <2>1. Holding' = Holding \ {c}
    BY <1>1, <1>3 DEF Release, Holding
  <2>2. Cardinality(Holding') = Cardinality(Holding) - 1
    <3>1. IsFiniteSet(Holding)
      BY ConnsFinite DEF Holding
    <3> QED
      BY <1>1, <2>1, <3>1, FS_RemoveElement
  <2>3. TypeOK' /\ SlotsMatchBridges'
    BY <1>3, <2>2 DEF Release, SlotsMatchBridges
  <2>4. OnePlace'
    BY <1>1, <1>3, <2>1 DEF Release, OnePlace, PeerMatches
  <2>5. OpenByPlace'
    BY <1>3 DEF Release, OpenByPlace, PeerMatches
  <2> QED
    BY <2>3, <2>4, <2>5
<1> QED
  BY <1>2, <1>3 DEF Bridge

(* IInv holds in every reachable state.                                    *)
THEOREM Invariance == Safety => []IInv
<1>1. IInv /\ [Next]_vars => IInv'
  <2> SUFFICES ASSUME IInv, [Next]_vars PROVE IInv'
    OBVIOUS
  <2>1. CASE UNCHANGED vars
    BY <2>1 DEF vars, IInv, TypeOK, OnePlace, OpenByPlace, SlotsMatchBridges, Holding,
                PeerMatches
  <2>2. CASE AcceptLoop \/ AcceptFails
    BY <2>2, AcceptInv, LoopInv DEF AcceptLoop
  <2>3. CASE \E c \in Conns : Connect(c) \/ Bridge(c)
    BY <2>3, ConnectInv, BridgeInv
  <2> QED
    BY <2>1, <2>2, <2>3 DEF Next
<1> QED
  BY <1>1, InitInv, PTL DEF Safety

(* Every variable keeps its type; in particular the limiter's channel      *)
(* never holds more than Limit tokens nor gives one it does not have.      *)
THEOREM TypeCorrect == Spec => []TypeOK
<1>1. IInv => TypeOK
  BY DEF IInv
<1> QED
  BY <1>1, Invariance, PTL DEF Spec

(* No slot leaks and none is returned twice (connectionLimiter with the    *)
(* deferred release).                                                      *)
THEOREM SlotsCorrect == Spec => []SlotsMatchBridges
<1>1. IInv => SlotsMatchBridges
  BY DEF IInv
<1> QED
  BY <1>1, Invariance, PTL DEF Spec

(* The limit bounds the open descriptors, not only the goroutines: every   *)
(* open conn outside the accept loop belongs to a slot holder.             *)
THEOREM DescriptorsBounded == Spec => []OpenWithinLimit
<1>1. ASSUME IInv PROVE OpenWithinLimit
  <2> USE <1>1, ListenerAssumption DEF IInv, TypeOK, BridgePC
  <2>1. OpenDst \subseteq Holding /\ OpenSrc \ {cur} \subseteq Holding
    BY DEF OpenDst, OpenSrc, Holding, OpenByPlace, OnePlace
  <2>2. IsFiniteSet(Holding) /\ Cardinality(Holding) <= Limit
    BY ConnsFinite DEF Holding, SlotsMatchBridges
  <2>3. /\ Cardinality(OpenDst) <= Cardinality(Holding)
        /\ Cardinality(OpenSrc \ {cur}) <= Cardinality(Holding)
    BY <2>1, <2>2, FS_Subset
  <2>4. /\ Cardinality(OpenDst) \in Nat
        /\ Cardinality(OpenSrc \ {cur}) \in Nat
        /\ Cardinality(Holding) \in Nat
    BY ConnsFinite DEF OpenDst, OpenSrc, Holding
  <2> QED
    BY <2>2, <2>3, <2>4 DEF OpenWithinLimit
<1> QED
  BY <1>1, Invariance, PTL DEF Spec

(* Finished connections leave nothing open, and a VSOCK listener dials     *)
(* nothing for a foreign peer.                                             *)
THEOREM NothingStray == Spec => []NoStrayConn
<1>1. IInv => NoStrayConn
  BY DEF IInv, TypeOK, OpenByPlace, NoStrayConn
<1> QED
  BY <1>1, Invariance, PTL DEF Spec

(* A step of Next that answers a connection, seen by the invariant.        *)
LEMMA TurnAwayStep ==
  ASSUME IInv, [Next]_vars, NEW c \in Conns, pc[c] = "accepted", pc'[c] = "done",
         ChecksCID(kind) => PeerMatches(c)
  PROVE  Cardinality(Holding) = Limit
<1> USE DEF IInv, TypeOK, BridgePC
<1>1. ~ UNCHANGED vars
  BY DEF vars
<1>2. cur = c
  BY DEF OnePlace
<1>3. ~ (Listen \/ ListenFails \/ AcceptFails \/ Accept \/ Admit)
  BY <1>2, ListenerAssumption DEF Listen, ListenFails, AcceptFails, Accept, Admit, OnePlace
<1>4. ASSUME NEW d \in Conns PROVE ~ (Connect(d) \/ Bridge(d))
  BY DEF Connect, Bridge, DialSucceeds, DialFails, CopyEnds, CloseDst, CloseSrc, Release
<1>5. ~ CheckCID
  BY <1>2, ListenerAssumption DEF CheckCID, OnePlace
<1>6. TurnAway
  BY <1>1, <1>3, <1>4, <1>5 DEF Next, AcceptLoop
<1> QED
  BY <1>6 DEF TurnAway, SlotsMatchBridges

(* A peer entitled to service is turned away only by a full pool.          *)
THEOREM AdmissionRule == Spec => TurnedAwayOnlyWhenFull
<1>1. IInv /\ [Next]_vars =>
        [\A c \in Conns :
           /\ pc[c] = "accepted" /\ pc'[c] = "done"
           /\ ChecksCID(kind) => PeerMatches(c)
           => Cardinality(Holding) = Limit]_vars
  BY TurnAwayStep
<1> QED
  BY <1>1, Invariance, PTL DEF Spec, Safety, TurnedAwayOnlyWhenFull

(* ConnectionPool counts with the same Cardinality.                        *)
LEMMA SameCardinality == \A S : Pool!Cardinality(S) = Cardinality(S)
BY DEF Pool!Cardinality, Cardinality, Pool!IsFiniteSet, IsFiniteSet

(* The accept loop, the semaphore channel and the goroutines together are  *)
(* a pool: every step of Listener is a step of ConnectionPool or leaves    *)
(* the pool as it is.                                                      *)
THEOREM Refinement == Spec => Pool!Safety
<1> DEFINE pend == {c \in Conns : pc[c] \in {"backlog", "accepted"}}
           sett == {c \in Conns : pc[c] = "done"}
<1>1. Init => Pool!Init
  BY DEF Init, Pool!Init, Holding, BridgePC, Served
<1>2. IInv /\ [Next]_vars => [Pool!Next]_Pool!poolVars
  <2> SUFFICES ASSUME IInv, [Next]_vars PROVE Pool!Next \/ UNCHANGED Pool!poolVars
    OBVIOUS
  <2> USE DEF IInv, TypeOK
  <2>1. Served' = Served
    BY DEF vars, Next, AcceptLoop, Listen, ListenFails, AcceptFails, Accept, CheckCID,
           CloseCur, Admit, TurnAway, Connect, Bridge, DialSucceeds, DialFails,
           CopyEnds, CloseDst, CloseSrc, Release, Served, PeerMatches
  <2>2. ASSUME Holding' = Holding, pend' = pend, sett' = sett
        PROVE  UNCHANGED Pool!poolVars
    BY <2>1, <2>2 DEF Pool!poolVars
  <2>3. CASE UNCHANGED vars \/ Listen \/ ListenFails \/ AcceptFails
    <3>1. pc' = pc
      BY <2>3 DEF vars, Listen, ListenFails, AcceptFails
    <3> QED
      BY <3>1, <2>2 DEF Holding
  <2>4. CASE Accept
    <3>1. Head(backlog) \in Conns /\ pc[Head(backlog)] = "backlog"
      BY <2>4 DEF Accept, OnePlace
    <3>2. Holding' = Holding /\ pend' = pend /\ sett' = sett
      BY <2>4, <3>1 DEF Accept, Holding, BridgePC
    <3> QED
      BY <3>2, <2>2
  <2>5. CASE CheckCID /\ PeerMatches(cur)
    <3>1. pc' = pc
      BY <2>5 DEF CheckCID, CloseCur
    <3> QED
      BY <3>1, <2>2 DEF Holding
  <2>6. CASE TurnAway \/ (CheckCID /\ ~ PeerMatches(cur))
    <3>1. cur \in Conns /\ pc[cur] = "accepted" /\ CloseCur
      BY <2>6, ListenerAssumption DEF TurnAway, CheckCID, OnePlace
    <3>2. PICK c \in Conns : c = cur
      BY <3>1
    <3>3. Holding' = Holding /\ pend' = pend \ {c} /\ sett' = sett \cup {c}
      BY <3>1, <3>2 DEF CloseCur, Holding, BridgePC
    <3>4. c \notin Served \/ Cardinality(Holding) = Limit
      BY <2>6, <3>2 DEF TurnAway, CheckCID, OnePlace, Served, SlotsMatchBridges
    <3>5. Pool!TurnAway(c)
      BY <2>1, <3>1, <3>2, <3>3, <3>4, SameCardinality DEF Pool!TurnAway
    <3> QED
      BY <3>5 DEF Pool!Next
  <2>7. CASE Admit
    <3>1. cur \in Conns /\ pc[cur] = "accepted"
      BY <2>7, ListenerAssumption DEF Admit, OnePlace
    <3>2. PICK c \in Conns : c = cur
      BY <3>1
    <3>3. Holding' = Holding \cup {c} /\ pend' = pend \ {c} /\ sett' = sett
      BY <2>7, <3>1, <3>2 DEF Admit, Holding, BridgePC
    <3>4. c \in Served /\ Cardinality(Holding) < Limit
      BY <2>7, <3>2 DEF Admit, OnePlace, Served, SlotsMatchBridges
    <3>5. Pool!Admit(c)
      BY <2>1, <3>1, <3>2, <3>3, <3>4, SameCardinality DEF Pool!Admit
    <3> QED
      BY <3>5 DEF Pool!Next
  <2>8. ASSUME NEW c \in Conns, Connect(c) PROVE Pool!Next
    <3>1. Holding' = Holding /\ pend' = pend \cup {c} /\ sett' = sett
      BY <2>8 DEF Connect, Holding, BridgePC
    <3>2. Pool!Arrive(c)
      BY <2>1, <2>8, <3>1 DEF Connect, Pool!Arrive, Holding, BridgePC
    <3> QED
      BY <3>2 DEF Pool!Next
  <2>9. ASSUME NEW c \in Conns, Bridge(c), ~ Release(c) PROVE UNCHANGED Pool!poolVars
    <3>1. Holding' = Holding /\ pend' = pend /\ sett' = sett
      BY <2>9 DEF Bridge, DialSucceeds, DialFails, CopyEnds, CloseDst, CloseSrc,
                  Holding, BridgePC
    <3> QED
      BY <3>1, <2>2
  <2>10. ASSUME NEW c \in Conns, Release(c) PROVE Pool!Next
    <3>1. /\ Holding' = Holding \ {c} /\ pend' = pend /\ sett' = sett \cup {c}
          /\ c \in Holding
      BY <2>10 DEF Release, Holding, BridgePC
    <3>2. Pool!Finish(c)
      BY <2>1, <3>1 DEF Pool!Finish
    <3> QED
      BY <3>2 DEF Pool!Next
  <2> QED
    BY <2>3, <2>4, <2>5, <2>6, <2>7, <2>8, <2>9, <2>10 DEF Next, AcceptLoop, Bridge
<1> QED
  BY <1>1, <1>2, Invariance, PTL DEF Spec, Safety, Pool!Safety
-----------------------------------------------------------------------------
(* Why no connection strands: what EveryConnSettles rests on besides       *)
(* fairness.                                                               *)

(* A connection that waits is one that Accept will get to: it is in the    *)
(* backlog of a loop that listens.                                         *)
EachQueued ==
  /\ \A c \in Conns : pc[c] = "backlog" => \E i \in DOMAIN backlog : backlog[i] = c
  /\ loop \in {"listen", "dead"} => backlog = <<>>

(* Every step keeps it; IInv tells that the head of the backlog is the     *)
(* only connection that Accept takes out.                                  *)
LEMMA QueuedStep == IInv /\ EachQueued /\ [Next]_vars => EachQueued'
<1> SUFFICES ASSUME IInv, EachQueued, [Next]_vars PROVE EachQueued'
  OBVIOUS
<1> USE DEF IInv, TypeOK
<1>1. ASSUME backlog' = backlog, loop' \in {"listen", "dead"} => loop \in {"listen", "dead"},
             \A c \in Conns : pc'[c] = "backlog" => pc[c] = "backlog"
      PROVE  EachQueued'
  BY <1>1 DEF EachQueued
<1>2. CASE UNCHANGED vars
  BY <1>1, <1>2 DEF vars
<1>3. CASE Accept
  <2>1. /\ backlog # <<>> /\ backlog' = Tail(backlog) /\ loop' \in {"checkCID", "acquire"}
        /\ pc' = [pc EXCEPT ![Head(backlog)] = "accepted"]
    BY <1>3 DEF Accept
  <2>2. ASSUME NEW c \in Conns, pc'[c] = "backlog"
        PROVE  \E i \in DOMAIN backlog' : backlog'[i] = c
    <3>1. pc[c] = "backlog" /\ c # Head(backlog)
      BY <2>1, <2>2
    <3>2. PICK i \in DOMAIN backlog : backlog[i] = c
      BY <3>1 DEF EachQueued
    <3>3. i # 1
      BY <2>1, <3>1, <3>2
    <3>4. i \in 1 .. Len(backlog) /\ Len(backlog') = Len(backlog) - 1
      BY <2>1, <3>2
    <3>5. i - 1 \in DOMAIN backlog' /\ backlog'[i - 1] = backlog[i]
      BY <2>1, <3>3, <3>4
    <3> QED
      BY <3>2, <3>5
  <2> QED
    BY <2>1, <2>2 DEF EachQueued
<1>4. CASE Listen \/ ListenFails \/ AcceptFails
  BY <1>1, <1>4 DEF Listen, ListenFails, AcceptFails
<1>5. CASE CheckCID \/ Admit \/ TurnAway
  BY <1>1, <1>5 DEF CheckCID, Admit, TurnAway, CloseCur, OnePlace
<1>6. CASE \E c \in Conns : Connect(c)
  <2>1. PICK n \in Conns : Connect(n)
    BY <1>6
  <2>2. /\ backlog' = Append(backlog, n) /\ loop' = loop /\ loop \notin {"listen", "dead"}
        /\ pc' = [pc EXCEPT ![n] = "backlog"]
    BY <2>1 DEF Connect
  <2>3. /\ Len(backlog') = Len(backlog) + 1 /\ backlog'[Len(backlog) + 1] = n
        /\ \A i \in DOMAIN backlog : i \in DOMAIN backlog' /\ backlog'[i] = backlog[i]
    BY <2>2
  <2>4. ASSUME NEW c \in Conns, pc'[c] = "backlog"
        PROVE  \E i \in DOMAIN backlog' : backlog'[i] = c
    <3>1. CASE c = n
      <4>1. Len(backlog) + 1 \in DOMAIN backlog'
        BY <2>2, <2>3
      <4> QED
        BY <2>3, <3>1, <4>1
    <3>2. CASE c # n
      <4>1. pc[c] = "backlog"
        BY <2>2, <2>4, <3>2
      <4>2. PICK i \in DOMAIN backlog : backlog[i] = c
        BY <4>1 DEF EachQueued
      <4> QED
        BY <2>3, <4>2
    <3> QED
      BY <3>1, <3>2
  <2> QED
    BY <2>2, <2>4 DEF EachQueued
<1>7. CASE \E c \in Conns : Bridge(c)
  <2>1. PICK n \in Conns : Bridge(n)
    BY <1>7
  <2>2. /\ backlog' = backlog /\ loop' = loop
        /\ \A c \in Conns : pc'[c] = "backlog" => pc[c] = "backlog"
    BY <2>1 DEF Bridge, DialSucceeds, DialFails, CopyEnds, CloseDst, CloseSrc, Release
  <2> QED
    BY <1>1, <2>2
<1> QED
  BY <1>2, <1>3, <1>4, <1>5, <1>6, <1>7 DEF Next, AcceptLoop

(* Nobody is stranded: a connection the kernel has is one the accept loop  *)
(* will reach, whatever it does with those before it; and the deferred     *)
(* limiter.release, a receive without a select, finds a token, so that no  *)
(* goroutine blocks on it for good with its slot in hand.                  *)
NobodyStranded ==
  /\ \A c \in Conns : pc[c] = "backlog" =>
       loop # "dead" /\ \E i \in DOMAIN backlog : backlog[i] = c
  /\ \A c \in Conns : pc[c] = "release" => sem > 0

(* NobodyStranded in every reachable state, for any number of connections, *)
(* however they arrive and whatever the limit.                             *)
THEOREM NothingStrands == Spec => []NobodyStranded
<1>1. Init => EachQueued
  BY DEF Init, EachQueued
<1>2. ASSUME IInv, EachQueued PROVE NobodyStranded
  <2>1. ASSUME NEW c \in Conns, pc[c] = "backlog"
        PROVE  loop # "dead" /\ \E i \in DOMAIN backlog : backlog[i] = c
    BY <1>2, <2>1 DEF EachQueued
  <2>2. ASSUME NEW c \in Conns, pc[c] = "release" PROVE sem > 0
    <3>1. c \in Holding
      BY <2>2 DEF Holding, BridgePC
    <3>2. IsFiniteSet(Holding) /\ Cardinality(Holding) \in Nat
      BY ConnsFinite DEF Holding
    <3>3. Cardinality(Holding) # 0
      BY <3>1, <3>2, FS_EmptySet
    <3> QED
      BY <1>2, <3>2, <3>3 DEF IInv, SlotsMatchBridges
  <2> QED
    BY <2>1, <2>2 DEF NobodyStranded
<1> QED
  BY <1>1, <1>2, QueuedStep, Invariance, PTL DEF Spec, Safety
=============================================================================
