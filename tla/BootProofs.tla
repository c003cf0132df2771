----------------------------- MODULE BootProofs -----------------------------
(***************************************************************************)
(* Proofs about Boot, for any number of senders and files, of starts, of   *)
(* enclave starts and of faults: its type invariant, and that an enclave   *)
(* only ever runs one whole file that it has validated itself.             *)
(***************************************************************************)
EXTENDS Boot, TLAPS

Wires == [at: {"none", "queue", "read", "gone"}, bytes: {"part", "whole"},
          ended: {"no", "eof", "reset"}]

(* The invariant holds before anything is started.                         *)
LEMMA InitInv == Init => BootInv
<1> SUFFICES ASSUME Init PROVE BootInv
  OBVIOUS
<1>1. wire \in [Senders -> Wires] /\ \A s \in Senders : wire[s].at = "none"
  <2>1. NoConn \in Wires /\ NoConn.at = "none"
    BY DEF NoConn, Wires
  <2>2. wire = [s \in Senders |-> NoConn]
    BY Zenon DEF Init
  <2> QED
    BY <2>1, <2>2
<1>2. Queued = {} /\ queue \in Seq(Senders)
  <2>1. queue = <<>>
    BY Zenon DEF Init
  <2> QED
    BY <2>1 DEF Queued
<1>3. TypeOK /\ hbound = [s \in Senders |-> hbound[s]]
  <2>1. \A s \in Senders : wire[s].at = "queue" <=> s \in Queued
    BY <1>1, <1>2
  <2>2. boot \in 1 .. MaxBoots /\ faults \in 0 .. MaxFaults
    <3>1. boot = 1 /\ faults = 0
      BY Zenon DEF Init
    <3> QED
      BY <3>1, BootAssumption
  <2> QED
    BY <1>1, <2>1, <2>2 DEF Init, TypeOK, Wires
<1>4. NothingBeforeData /\ DataIsWhole /\ EnclaveInOrder
  BY DEF Init, NothingBeforeData, DataIsWhole, EnclaveInOrder
<1> QED
  BY <1>2, <1>3, <1>4 DEF BootInv

(* What an update of one field of a connection leaves of the others.       *)
LEMMA FieldUpdate ==
  ASSUME NEW r \in Wires, NEW v
  PROVE  /\ [r EXCEPT !.at = v] = [at |-> v, bytes |-> r.bytes, ended |-> r.ended]
         /\ [r EXCEPT !.bytes = v] = [at |-> r.at, bytes |-> v, ended |-> r.ended]
         /\ [r EXCEPT !.ended = v] = [at |-> r.at, bytes |-> r.bytes, ended |-> v]
<1>1. r = [at |-> r.at, bytes |-> r.bytes, ended |-> r.ended]
  BY DEF Wires
<1>2. [r EXCEPT !.at = v] = [at |-> v, bytes |-> r.bytes, ended |-> r.ended]
  BY <1>1
<1>3. [r EXCEPT !.bytes = v] = [at |-> r.at, bytes |-> v, ended |-> r.ended]
  BY <1>1
<1>4. [r EXCEPT !.ended = v] = [at |-> r.at, bytes |-> r.bytes, ended |-> v]
  BY <1>1
<1> QED
  BY <1>2, <1>3, <1>4, Zenon

(* A sender that dials, writes, closes or is killed only ever adds to its  *)
(* own connection; in the queue it is put nowhere but by Dial.             *)
LEMMA SenderWire ==
  ASSUME wire \in [Senders -> Wires], NEW s \in Senders,
         Start(s) \/ Kill(s) \/ Sender(s)
  PROVE  \/ UNCHANGED <<wire, queue>>
         \/ \E r \in Wires :
              /\ wire' = [wire EXCEPT ![s] = r]
              /\ wire[s].bytes = "whole" => r.bytes = "whole"
              /\ \/ r.at = wire[s].at /\ queue' = queue
                 \/ r.at = "queue" /\ rpc = "listen" /\ queue' = Append(queue, s)
<1> DEFINE Goal == \E r \in Wires :
             /\ wire' = [wire EXCEPT ![s] = r]
             /\ wire[s].bytes = "whole" => r.bytes = "whole"
             /\ \/ r.at = wire[s].at /\ queue' = queue
                \/ r.at = "queue" /\ rpc = "listen" /\ queue' = Append(queue, s)
<1>0. wire[s] \in Wires
  OBVIOUS
<1>1. ASSUME Dial(s), rpc = "listen" PROVE Goal
  <2> DEFINE r == [at |-> "queue", bytes |-> wire[s].bytes, ended |-> wire[s].ended]
  <2>1. wire' = [wire EXCEPT ![s] = [wire[s] EXCEPT !.at = "queue"]] /\ queue' = Append(queue, s)
    BY <1>1, Zenon DEF Dial
  <2>2. [wire[s] EXCEPT !.at = "queue"] = r
    BY <1>0, FieldUpdate
  <2>3. wire' = [wire EXCEPT ![s] = r]
    BY <2>1, <2>2, Zenon
  <2>4. r \in Wires /\ r.bytes = wire[s].bytes /\ r.at = "queue"
    BY <1>0 DEF Wires
  <2> QED
    BY <1>1, <2>1, <2>3, <2>4, Zenon
<1>2. ASSUME Write(s) PROVE Goal
  <2> DEFINE r == [at |-> wire[s].at, bytes |-> "whole", ended |-> wire[s].ended]
  <2>1. wire' = [wire EXCEPT ![s] = [wire[s] EXCEPT !.bytes = "whole"]] /\ queue' = queue
    BY <1>2, Zenon DEF Write
  <2>2. [wire[s] EXCEPT !.bytes = "whole"] = r
    BY <1>0, FieldUpdate
  <2>3. wire' = [wire EXCEPT ![s] = r]
    BY <2>1, <2>2, Zenon
  <2>4. r \in Wires /\ r.bytes = "whole" /\ r.at = wire[s].at
    BY <1>0 DEF Wires
  <2> QED
    BY <2>1, <2>3, <2>4, Zenon
<1>3. ASSUME NEW how \in {"eof", "reset"}, wire' = [wire EXCEPT ![s].ended = how], queue' = queue
      PROVE  Goal
  <2> DEFINE r == [at |-> wire[s].at, bytes |-> wire[s].bytes, ended |-> how]
  <2>1. wire' = [wire EXCEPT ![s] = [wire[s] EXCEPT !.ended = how]]
    BY <1>3, Zenon
  <2>2. [wire[s] EXCEPT !.ended = how] = r
    BY <1>0, FieldUpdate
  <2>3. wire' = [wire EXCEPT ![s] = r]
    BY <2>1, <2>2, Zenon
  <2>4. r \in Wires /\ r.bytes = wire[s].bytes /\ r.at = wire[s].at
    BY <1>0 DEF Wires
  <2> QED
    BY <1>3, <2>3, <2>4, Zenon
<1>4. ASSUME CloseConn(s) PROVE Goal
  BY <1>3, <1>4, Zenon DEF CloseConn
<1>5. ASSUME Kill(s) PROVE UNCHANGED <<wire, queue>> \/ Goal
  <2>1. queue' = queue /\ \/ \E how \in {"eof", "reset"} : wire' = [wire EXCEPT ![s].ended = how]
                          \/ wire' = wire
    BY <1>5, Zenon DEF Kill
  <2> QED
    BY <1>3, <2>1, Zenon
<1>6. ASSUME \/ Start(s) \/ WriteFails(s)
             \/ Dial(s) /\ rpc # "listen"
             \/ \E l \in HostListeners(payload[s]) : Bind(s, l) \/ BindFails(s, l)
      PROVE  UNCHANGED <<wire, queue>>
  BY <1>6, Zenon DEF Start, WriteFails, Dial, Bind, BindFails, netVars
<1> HIDE DEF Goal
<1>7. UNCHANGED <<wire, queue>> \/ Goal
  BY <1>1, <1>2, <1>4, <1>5, <1>6, Zenon DEF Sender
<1> QED
  BY <1>7, Zenon DEF Goal

(* HangUp closes connections; it takes no byte back.                       *)
LEMMA HangUpWire ==
  ASSUME wire \in [Senders -> Wires], NEW S, HangUp(S)
  PROVE  /\ wire' \in [Senders -> Wires]
         /\ \A t \in Senders : /\ wire'[t].bytes = wire[t].bytes
                               /\ wire'[t].at = IF t \in S THEN "gone" ELSE wire[t].at
<1>1. wire' = [t \in Senders |-> IF t \in S THEN [wire[t] EXCEPT !.at = "gone"] ELSE wire[t]]
  BY Zenon DEF HangUp
<1>2. ASSUME NEW t \in Senders
      PROVE  wire'[t] = IF t \in S
                          THEN [at |-> "gone", bytes |-> wire[t].bytes, ended |-> wire[t].ended]
                          ELSE wire[t]
  <2>1. wire[t] \in Wires
    OBVIOUS
  <2>2. wire'[t] = IF t \in S THEN [wire[t] EXCEPT !.at = "gone"] ELSE wire[t]
    BY <1>1, Zenon
  <2> QED
    BY <2>1, <2>2, FieldUpdate, Zenon
<1>3. wire' = [t \in Senders |-> wire'[t]]
  BY <1>1, Zenon
<1>4. ASSUME NEW t \in Senders
      PROVE  /\ wire'[t] \in Wires
             /\ wire'[t].bytes = wire[t].bytes
             /\ wire'[t].at = IF t \in S THEN "gone" ELSE wire[t].at
  <2>1. wire[t] \in Wires
    OBVIOUS
  <2>2. CASE t \in S
    <3>1. wire'[t] = [at |-> "gone", bytes |-> wire[t].bytes, ended |-> wire[t].ended]
      BY <1>2, <2>2, Zenon
    <3> QED
      BY <2>1, <2>2, <3>1 DEF Wires
  <2>3. CASE t \notin S
    BY <1>2, <2>1, <2>3
  <2> QED
    BY <2>2, <2>3
<1> QED
  BY <1>3, <1>4

(* A sender changes its place, its addresses, its connection and the queue.*)
(* While the receiver listens it may join the queue; it may add bytes to   *)
(* its connection, never take any back.                                    *)
LEMMA SendersInv ==
  ASSUME BootInv, NEW s \in Senders, Start(s) \/ Kill(s) \/ Sender(s)
  PROVE  BootInv'
<1> USE DEF BootInv, TypeOK
<1>0. wire \in [Senders -> Wires]
  BY DEF Wires
<1>1. UNCHANGED <<runVars, enclaveVars, payload>>
  BY Zenon DEF Start, Kill, Sender, Dial, Write, WriteFails, CloseConn, Bind, BindFails, Dies, hostVars
<1>2. faults' \in 0 .. MaxFaults
  <2>1. faults' = faults \/ (faults < MaxFaults /\ faults' = faults + 1)
    <3>1. CASE Kill(s)
      BY <3>1, Zenon DEF Kill, Fault
    <3>2. CASE Start(s) \/ Sender(s)
      <4>1. Start(s) => faults' = faults
        BY Zenon DEF Start
      <4>2. Dial(s) \/ Write(s) \/ WriteFails(s) \/ CloseConn(s) => faults' = faults
        BY Zenon DEF Dial, Write, WriteFails, CloseConn
      <4>3. \A l : Bind(s, l) \/ BindFails(s, l) => faults' = faults
        BY Zenon DEF Bind, BindFails
      <4>4. Sender(s) => \/ Dial(s) \/ Write(s) \/ WriteFails(s) \/ CloseConn(s)
                         \/ \E l : Bind(s, l) \/ BindFails(s, l)
        BY Zenon DEF Sender
      <4> QED
        BY <3>2, <4>1, <4>2, <4>3, <4>4, Zenon
    <3> QED
      BY <3>1, <3>2
  <2> QED
    BY <2>1, BootAssumption
<1>3. /\ hpc' \in [Senders -> {"idle", "dial", "write", "close", "bind", "dead"}]
      /\ hbound' = [t \in Senders |-> hbound'[t]]
      /\ \A t, u \in Senders : t # u => hbound'[t] \cap hbound'[u] = {}
      /\ \A t \in Senders : hbound'[t] # {} => hpc'[t] = "bind"
  <2>1. CASE /\ hbound' = hbound /\ hbound[s] = {}
             /\ \E pc \in {"dial", "write", "close", "bind", "dead"} : hpc' = [hpc EXCEPT ![s] = pc]
    BY <2>1
  <2>2. CASE hpc' = [hpc EXCEPT ![s] = "dead"] /\ hbound' = [hbound EXCEPT ![s] = {}]
    BY <2>2
  <2>3. CASE \E l : /\ hpc[s] = "bind" /\ hpc' = hpc /\ ~ Taken(l)
                    /\ hbound' = [hbound EXCEPT ![s] = @ \cup {l}]
    <3> PICK l : /\ hpc[s] = "bind" /\ hpc' = hpc /\ ~ Taken(l)
                 /\ hbound' = [hbound EXCEPT ![s] = @ \cup {l}]
      BY <2>3
    <3>1. /\ hbound' = [t \in Senders |-> hbound'[t]]
          /\ hbound'[s] = hbound[s] \cup {l}
          /\ \A t \in Senders \ {s} : hbound'[t] = hbound[t]
      OBVIOUS
    <3>2. \A t \in Senders : l \notin hbound[t]
      BY DEF Taken
    <3> QED
      BY <3>1, <3>2
  <2>4. hpc[s] # "bind" => hbound[s] = {}
    OBVIOUS
  <2>5. ASSUME Start(s) \/ Dial(s) \/ Write(s) \/ WriteFails(s) \/ CloseConn(s)
        PROVE  /\ hbound' = hbound /\ hpc[s] # "bind"
               /\ \E pc \in {"dial", "write", "close", "bind", "dead"} : hpc' = [hpc EXCEPT ![s] = pc]
    BY <2>5 DEF Start, Dial, Write, WriteFails, CloseConn
  <2>6. ASSUME hpc[s] = "bind", NEW l, Bind(s, l)
        PROVE  /\ hpc[s] = "bind" /\ hpc' = hpc /\ ~ Taken(l)
               /\ hbound' = [hbound EXCEPT ![s] = @ \cup {l}]
    BY <2>6, Zenon DEF Bind
  <2>7. ASSUME Kill(s) \/ \E l : BindFails(s, l)
        PROVE  hpc' = [hpc EXCEPT ![s] = "dead"] /\ hbound' = [hbound EXCEPT ![s] = {}]
    BY <2>7, Zenon DEF Kill, BindFails, Dies
  <2> QED
    BY <2>1, <2>2, <2>3, <2>4, <2>5, <2>6, <2>7, Zenon DEF Sender
<1>4. /\ wire' \in [Senders -> Wires]
      /\ \A t \in Senders : wire[t].bytes = "whole" => wire'[t].bytes = "whole"
      /\ queue' \in Seq(Senders)
      /\ queue' # <<>> => rpc = "listen"
      /\ \A t \in Senders : wire'[t].at = "queue" <=> t \in Queued'
  <2>1. CASE UNCHANGED <<wire, queue>>
    BY <1>0, <2>1 DEF Queued
  <2>2. CASE \E r \in Wires :
               /\ wire' = [wire EXCEPT ![s] = r]
               /\ wire[s].bytes = "whole" => r.bytes = "whole"
               /\ \/ r.at = wire[s].at /\ queue' = queue
                  \/ r.at = "queue" /\ rpc = "listen" /\ queue' = Append(queue, s)
    <3> PICK r \in Wires :
               /\ wire' = [wire EXCEPT ![s] = r]
               /\ wire[s].bytes = "whole" => r.bytes = "whole"
               /\ \/ r.at = wire[s].at /\ queue' = queue
                  \/ r.at = "queue" /\ rpc = "listen" /\ queue' = Append(queue, s)
      BY <2>2
    <3>1. /\ wire' \in [Senders -> Wires]
          /\ wire'[s] = r /\ \A t \in Senders \ {s} : wire'[t] = wire[t]
      BY <1>0
    <3>2. /\ queue' \in Seq(Senders)
          /\ queue' # <<>> => rpc = "listen"
          /\ Queued' = IF queue' = queue THEN Queued ELSE Queued \cup {s}
      <4>1. CASE queue' = queue
        BY <4>1 DEF Queued
      <4>2. CASE queue' = Append(queue, s) /\ rpc = "listen"
        <5>1. /\ queue' \in Seq(Senders) /\ Len(queue') = Len(queue) + 1
              /\ queue'[Len(queue) + 1] = s
              /\ \A k \in 1 .. Len(queue) : queue'[k] = queue[k]
          BY <4>2
        <5>2. DOMAIN queue = 1 .. Len(queue) /\ DOMAIN queue' = 1 .. (Len(queue) + 1)
              /\ Len(queue) \in Nat /\ queue' # queue
          BY <5>1
        <5>3. \A t : t \in Queued' <=> t \in Queued \cup {s}
          <6>1. \A t : t \in Queued <=> \E k \in 1 .. Len(queue) : t = queue[k]
            BY <5>2, Zenon DEF Queued
          <6>2. \A t : t \in Queued' <=> \E k \in 1 .. (Len(queue) + 1) : t = queue'[k]
            BY <5>2, Zenon DEF Queued
          <6>3. ASSUME NEW t \in Queued PROVE t \in Queued'
            BY <5>1, <5>2, <6>1, <6>2
          <6>4. s \in Queued'
            BY <5>1, <5>2, <6>2
          <6>5. ASSUME NEW t, t \in Queued' PROVE t \in Queued \cup {s}
            <7> PICK k \in 1 .. (Len(queue) + 1) : t = queue'[k]
              BY <6>2, <6>5
            <7> QED
              BY <5>1, <5>2, <6>1
          <6> QED
            BY <6>3, <6>4, <6>5
        <5> QED
          BY <4>2, <5>1, <5>2, <5>3
      <4> QED
        BY <4>1, <4>2
    <3> QED
      BY <3>1, <3>2
  <2> QED
    BY <1>0, <2>1, <2>2, SenderWire
<1>5. TypeOK'
  BY <1>1, <1>2, <1>3, <1>4 DEF runVars, enclaveVars, Wires
<1>6. NothingBeforeData' /\ DataIsWhole' /\ EnclaveInOrder'
  BY <1>1, <1>4 DEF NothingBeforeData, DataIsWhole, EnclaveInOrder, EnclaveListeners,
                    runVars, enclaveVars
<1> QED
  BY <1>3, <1>4, <1>5, <1>6

(* Who accepts one connection resets all others that wait.                 *)
LEMMA AcceptWire ==
  ASSUME BootInv, AcceptOne
  PROVE  /\ wire' \in [Senders -> Wires]
         /\ \A t \in Senders : wire'[t].bytes = wire[t].bytes /\ wire'[t].at # "queue"
         /\ Head(queue) \in Senders
<1> USE DEF BootInv, TypeOK
<1>1. Head(queue) \in Queued /\ Head(queue) \in Senders
  BY DEF AcceptOne, Queued
<1>2. wire' = [t \in Senders |->
        IF t = Head(queue) THEN [wire[t] EXCEPT !.at = "read"]
        ELSE IF t \in Queued THEN [wire[t] EXCEPT !.at = "gone"] ELSE wire[t]]
  BY Zenon DEF AcceptOne
<1>3. ASSUME NEW t \in Senders
      PROVE  /\ wire'[t] \in Wires
             /\ wire'[t].bytes = wire[t].bytes /\ wire'[t].at # "queue"
  <2>1. wire[t] \in Wires
    BY DEF Wires
  <2>2. ASSUME NEW v \in {"read", "gone"}, wire'[t] = [wire[t] EXCEPT !.at = v]
        PROVE  /\ wire'[t] \in Wires
               /\ wire'[t].bytes = wire[t].bytes /\ wire'[t].at # "queue"
    <3>1. [wire[t] EXCEPT !.at = v] = [at |-> v, bytes |-> wire[t].bytes, ended |-> wire[t].ended]
      BY <2>1, FieldUpdate
    <3>2. wire'[t] = [at |-> v, bytes |-> wire[t].bytes, ended |-> wire[t].ended]
      BY <2>2, <3>1, Zenon
    <3> QED
      BY <2>1, <3>2 DEF Wires
  <2>3. CASE t = Head(queue)
    <3>1. wire'[t] = [wire[t] EXCEPT !.at = "read"]
      BY <1>2, <2>3, Zenon
    <3> QED
      BY <2>2, <3>1
  <2>4. CASE t # Head(queue) /\ t \in Queued
    <3>1. wire'[t] = [wire[t] EXCEPT !.at = "gone"]
      BY <1>2, <2>4, Zenon
    <3> QED
      BY <2>2, <3>1
  <2>5. CASE t # Head(queue) /\ t \notin Queued
    <3>1. wire'[t] = wire[t]
      BY <1>2, <2>5, Zenon
    <3> QED
      BY <2>1, <2>5, <3>1
  <2> QED
    BY <2>3, <2>4, <2>5
<1>4. wire' = [t \in Senders |-> wire'[t]]
  BY <1>2, Zenon
<1> QED
  BY <1>1, <1>3, <1>4

(* The end of run(), which leaves the file and the hosts block as they are *)
(* and nobody in the queue.                                                *)
LEMMA ReturnInv ==
  ASSUME BootInv, NEW end \in {"ok", "failed"}, NEW why, Return(end, why),
         UNCHANGED hostVars, faults' \in 0 .. MaxFaults,
         wire' \in [Senders -> Wires], queue' = <<>>,
         \A t \in Senders : wire'[t].bytes = wire[t].bytes /\ wire'[t].at # "queue"
  PROVE  BootInv'
<1> USE DEF BootInv, TypeOK, hostVars
<1>1. /\ UNCHANGED <<payload, hpc, hbound, boot, from, data, lo, etcHosts>>
      /\ rpc' = end /\ ebound' = {} /\ epc' \in {"off", "dead"}
  BY DEF Return
<1>2. Queued' = {} /\ queue' \in Seq(Senders)
  BY DEF Queued
<1>3. TypeOK'
  BY <1>1, <1>2 DEF Wires
<1>4. NothingBeforeData' /\ DataIsWhole' /\ EnclaveInOrder'
  BY <1>1 DEF NothingBeforeData, DataIsWhole, EnclaveInOrder
<1> QED
  BY <1>1, <1>2, <1>3, <1>4

(* A deadline, early (a fault) or due.                                     *)
LEMMA GiveUpFaults ==
  ASSUME BootInv, NEW canHappen, NEW why, GiveUp(canHappen, why)
  PROVE  /\ Return("failed", why) /\ UNCHANGED hostVars
         /\ faults' \in 0 .. MaxFaults
<1>1. faults' = faults \/ (faults < MaxFaults /\ faults' = faults + 1)
  BY Zenon DEF GiveUp, Fault
<1>2. faults \in 0 .. MaxFaults
  BY DEF BootInv, TypeOK
<1>3. Return("failed", why) /\ UNCHANGED hostVars
  BY Zenon DEF GiveUp
<1> QED
  BY <1>1, <1>2, <1>3, BootAssumption

(* Outside of its Accept the receiver's queue is empty.                    *)
LEMMA NobodyQueued ==
  ASSUME BootInv, rpc # "listen"
  PROVE  /\ queue = <<>>
         /\ wire \in [Senders -> Wires]
         /\ \A t \in Senders : wire[t].at # "queue"
BY DEF BootInv, TypeOK, Wires, Queued

(* The receiver: it listens, takes one connection and reads it to its end. *)
(* Only here do from and data change.                                      *)
LEMMA ReceiverInv ==
  ASSUME BootInv, Listen \/ AcceptOne \/ ReadToEnd
  PROVE  BootInv'
<1> USE DEF BootInv, TypeOK, hostVars, netVars, enclaveVars, GoOn
<1>1. CASE Listen
  <2>1. /\ UNCHANGED <<payload, hpc, hbound, wire, queue, boot, from, data, epc, lo, etcHosts, ebound, faults>>
        /\ rpc = "launch" /\ rpc' = "listen"
    BY <1>1, Zenon DEF Listen
  <2>2. TypeOK'
    BY <2>1 DEF Queued
  <2>3. NothingBeforeData' /\ DataIsWhole' /\ EnclaveInOrder'
    BY <2>1 DEF NothingBeforeData, DataIsWhole, EnclaveInOrder, EnclaveListeners
  <2> QED
    BY <2>1, <2>2, <2>3
<1>2. CASE AcceptOne
  <2>1. /\ UNCHANGED <<payload, hpc, hbound, boot, data, epc, lo, etcHosts, ebound, faults>>
        /\ rpc = "listen" /\ rpc' = "read" /\ queue' = <<>> /\ from' = Head(queue)
    BY <1>2, Zenon DEF AcceptOne
  <2>2. Queued' = {} /\ queue' \in Seq(Senders)
    BY <2>1 DEF Queued
  <2>3. TypeOK'
    BY <1>2, <2>1, <2>2, AcceptWire DEF Wires
  <2>4. data = Image /\ etcHosts = Image /\ epc = "off"
    BY <2>1 DEF NothingBeforeData
  <2>5. NothingBeforeData' /\ DataIsWhole' /\ EnclaveInOrder'
    BY <1>2, <2>1, <2>4, AcceptWire DEF NothingBeforeData, DataIsWhole, EnclaveInOrder
  <2> QED
    BY <2>1, <2>2, <2>3, <2>5
<1>3. CASE ReadToEnd
  <2>1. /\ UNCHANGED <<payload, hpc, hbound, wire, queue, boot, from, epc, lo, etcHosts, ebound, faults>>
        /\ rpc = "read" /\ rpc' \in {"parse", "start"}
        /\ data' = IF wire[from].bytes = "whole" THEN payload[from] ELSE Cut
    BY <1>3, Zenon DEF ReadToEnd
  <2>2. TypeOK'
    BY <2>1 DEF Queued
  <2>3. from \in Senders /\ etcHosts = Image /\ epc = "off" /\ ebound = {}
    BY <2>1 DEF NothingBeforeData, EnclaveInOrder
  <2>4. NothingBeforeData' /\ DataIsWhole' /\ EnclaveInOrder'
    BY <2>1, <2>3 DEF NothingBeforeData, DataIsWhole, EnclaveInOrder
  <2> QED
    BY <2>1, <2>2, <2>4
<1> QED
  BY <1>1, <1>2, <1>3

(* The rest of the supervisor: it starts `argonaut enclave`, waits for it, *)
(* tests it and, in the end, returns.                                      *)
LEMMA SupervisorInv ==
  ASSUME BootInv, Supervisor
  PROVE  BootInv'
<1> USE DEF hostVars, netVars, enclaveVars, GoOn
<1>0. faults \in 0 .. MaxFaults
  BY DEF BootInv, TypeOK
<1>1. CASE Listen \/ AcceptOne \/ ReadToEnd
  BY <1>1, ReceiverInv
<1>2. ASSUME NEW end \in {"ok", "failed"}, NEW why, Return(end, why), rpc # "listen",
             UNCHANGED <<payload, hpc, hbound, wire, queue>>, faults' \in 0 .. MaxFaults
      PROVE  BootInv'
  <2>1. queue = <<>> /\ wire \in [Senders -> Wires] /\ \A t \in Senders : wire[t].at # "queue"
    BY <1>2, NobodyQueued
  <2> QED
    BY <1>2, <2>1, ReturnInv
<1>3. ASSUME NEW pc \in {"nsm", "start", "hosts", "outbound", "inbound", "wait"},
             rpc \in {"parse", "nsm", "start", "hosts", "outbound"}, rpc' = pc,
             UNCHANGED <<hostVars, netVars, boot, from, data, lo, etcHosts, ebound, faults>>,
             \/ epc' = epc /\ (pc \in {"nsm", "start"} => rpc \in {"parse", "nsm"})
             \/ epc' = "validate" /\ epc = "off" /\ pc \in {"hosts", "wait"}
      PROVE  BootInv'
  <2> USE DEF BootInv, TypeOK
  <2>1. TypeOK'
    BY <1>3 DEF Queued
  <2>2. NothingBeforeData' /\ DataIsWhole' /\ EnclaveInOrder'
    BY <1>3 DEF NothingBeforeData, DataIsWhole, EnclaveInOrder, EnclaveListeners
  <2> QED
    BY <1>3, <2>1, <2>2
<1>4. ASSUME Fault PROVE faults' \in 0 .. MaxFaults
  BY <1>0, <1>4, BootAssumption DEF Fault
<1>5. CASE ReadFails
  BY <1>0, <1>2, <1>5 DEF ReadFails
<1>6. CASE ReceiveTimesOut
  <2>1. PICK canHappen : GiveUp(canHappen, "config recv")
    BY <1>6, Zenon DEF ReceiveTimesOut
  <2>2. HangUp(Queued \cup {from}) /\ queue' = <<>>
    BY <1>6, Zenon DEF ReceiveTimesOut
  <2>3. wire \in [Senders -> Wires] /\ \A t \in Senders : wire[t].at = "queue" => t \in Queued
    BY DEF BootInv, TypeOK, Wires
  <2>4. /\ wire' \in [Senders -> Wires]
        /\ \A t \in Senders : wire'[t].bytes = wire[t].bytes /\ wire'[t].at # "queue"
    BY <2>2, <2>3, HangUpWire
  <2>5. /\ Return("failed", "config recv") /\ UNCHANGED hostVars /\ faults' \in 0 .. MaxFaults
    BY <2>1, GiveUpFaults
  <2> QED
    BY <2>2, <2>4, <2>5, ReturnInv
<1>7. CASE ParseSmokeEndpoint
  BY <1>0, <1>2, <1>3, <1>7 DEF ParseSmokeEndpoint
<1>8. CASE TestNSM
  BY <1>2, <1>3, <1>4, <1>8 DEF TestNSM
<1>9. CASE StartEnclave
  <2>1. epc = "off"
    BY <1>9 DEF BootInv, NothingBeforeData, StartEnclave
  <2> QED
    BY <1>2, <1>3, <1>4, <1>9, <2>1 DEF StartEnclave
<1>10. CASE VerifyHostsBlock
  BY <1>3, <1>10 DEF VerifyHostsBlock
<1>11. CASE TestOutbound
  <2>1. /\ rpc = "outbound" /\ UNCHANGED <<hostVars, netVars>>
        /\ \/ OutboundFails /\ (UNCHANGED faults \/ Fault)
           \/ GoOn("inbound") /\ UNCHANGED <<program, boot, from, data, hit, enclaveVars, faults>>
    BY <1>11, Zenon DEF TestOutbound
  <2>2. CASE OutboundFails /\ (UNCHANGED faults \/ Fault)
    BY <1>0, <1>2, <1>4, <2>1, <2>2 DEF OutboundFails
  <2>3. CASE GoOn("inbound") /\ UNCHANGED <<program, boot, from, data, hit, enclaveVars, faults>>
    BY <1>3, <2>1, <2>3
  <2> QED
    BY <2>1, <2>2, <2>3
<1>12. CASE InboundHit
  BY <1>0, <1>2, <1>12 DEF InboundHit
<1>13. CASE WaitTimesOut
  <2>1. PICK canHappen : GiveUp(canHappen, "timeout")
    BY <1>13, Zenon DEF WaitTimesOut
  <2> QED
    BY <1>2, <1>13, <2>1, GiveUpFaults DEF WaitTimesOut
<1>14. CASE EnclaveExited
  BY <1>0, <1>2, <1>14 DEF EnclaveExited
<1> QED
  BY <1>1, <1>5, <1>6, <1>7, <1>8, <1>9, <1>10, <1>11, <1>12, <1>13, <1>14 DEF Supervisor

(* A new start of the enclave begins with the image.                       *)
LEMMA RebootInv ==
  ASSUME BootInv, Reboot
  PROVE  BootInv'
<1>1. /\ UNCHANGED <<payload, hpc, hbound, queue, faults>>
      /\ rpc \in {"ok", "failed"} /\ boot < MaxBoots /\ boot' = boot + 1
      /\ rpc' = "launch" /\ data' = Image /\ epc' = "off" /\ etcHosts' = Image /\ ebound' = {}
  BY Zenon DEF Reboot, hostVars
<1>2. queue = <<>> /\ wire \in [Senders -> Wires] /\ \A t \in Senders : wire[t].at # "queue"
  BY <1>1, NobodyQueued
<1>3. HangUp({t \in Senders : wire[t].at # "none"})
  BY Zenon DEF Reboot
<1>4. wire' \in [Senders -> Wires] /\ \A t \in Senders : wire'[t].at # "queue"
  BY <1>2, <1>3, HangUpWire
<1>5. Queued' = {} /\ queue' \in Seq(Senders)
  BY <1>1, <1>2 DEF Queued
<1>6. boot' \in 1 .. MaxBoots
  BY <1>1, BootAssumption DEF BootInv, TypeOK
<1>7. TypeOK'
  BY <1>1, <1>2, <1>4, <1>5, <1>6 DEF BootInv, TypeOK, Wires
<1>8. NothingBeforeData' /\ DataIsWhole' /\ EnclaveInOrder'
  BY <1>1 DEF NothingBeforeData, DataIsWhole, EnclaveInOrder
<1> QED
  BY <1>1, <1>5, <1>7, <1>8 DEF BootInv

(* `argonaut enclave` in its order: it validates the data before anything  *)
(* else, writes the hosts block before it listens, and its end leaves no   *)
(* listener.                                                               *)
LEMMA EnclaveInv ==
  ASSUME BootInv, Enclave \/ EnclaveFails
  PROVE  BootInv'
<1> USE DEF EnclaveStep, hostVars, netVars, runVars
<1>1. UNCHANGED <<payload, hpc, hbound, wire, queue, boot, rpc, from, data>>
  BY Zenon DEF Enclave, EnclaveFails, Validate, EnsureLoopbackUp, WriteHosts, EnclaveBind,
               EnclaveBindFails
<1>2. epc # "off" /\ epc # "dead"
  BY DEF Enclave, EnclaveFails, Validate, EnsureLoopbackUp, WriteHosts
<1>3. rpc \notin {"launch", "listen", "read", "parse", "nsm", "start"}
  BY <1>2 DEF BootInv, NothingBeforeData
<1>4. /\ epc' \in {"validate", "loopback", "hosts", "bind", "dead"}
      /\ faults' \in 0 .. MaxFaults
  <2>1. CASE Enclave
    BY <2>1 DEF Enclave, Validate, EnsureLoopbackUp, WriteHosts, EnclaveBind,
                EnclaveBindFails, EnclaveDies, BootInv, TypeOK
  <2>2. CASE EnclaveFails
    BY <2>2, BootAssumption DEF EnclaveFails, EnclaveDies, Fault, BootInv, TypeOK
  <2> QED
    BY <2>1, <2>2
<1>5. TypeOK'
  BY <1>1, <1>4 DEF BootInv, TypeOK, Queued
<1>6. NothingBeforeData' /\ DataIsWhole'
  BY <1>1, <1>3 DEF BootInv, NothingBeforeData, DataIsWhole
<1>7. EnclaveInOrder'
  <2> USE DEF BootInv, EnclaveInOrder
  <2>1. CASE Validate
    BY <1>1, <2>1 DEF Validate
  <2>2. CASE EnsureLoopbackUp
    BY <1>1, <2>2 DEF EnsureLoopbackUp
  <2>3. CASE WriteHosts
    BY <1>1, <2>3 DEF WriteHosts
  <2>4. ASSUME epc = "bind", NEW l \in EnclaveListeners(data), EnclaveBind(l)
        PROVE  EnclaveInOrder'
    BY <1>1, <2>4 DEF EnclaveBind, EnclaveListeners
  <2>5. ASSUME NEW l \in EnclaveListeners(data), EnclaveBindFails(l)
        PROVE  EnclaveInOrder'
    BY <1>1, <2>5 DEF EnclaveBindFails, EnclaveDies
  <2>6. CASE EnclaveFails
    BY <1>1, <2>6 DEF EnclaveFails, EnclaveDies
  <2> QED
    BY <2>1, <2>2, <2>3, <2>4, <2>5, <2>6 DEF Enclave
<1> QED
  BY <1>1, <1>5, <1>6, <1>7 DEF BootInv

(* A client that gets through to /health changes nothing the invariant is  *)
(* about, and neither does a stutter.                                      *)
LEMMA UnchangedInv ==
  ASSUME BootInv, UNCHANGED <<payload, hpc, hbound, wire, queue, boot, rpc, from, data,
                              epc, lo, etcHosts, ebound, faults>>
  PROVE  BootInv'
BY DEF BootInv, TypeOK, Queued, NothingBeforeData, DataIsWhole, EnclaveInOrder, EnclaveListeners

(* Whatever the senders do, whatever is killed, fails or is given up early:*)
(* the invariant holds in every state.                                     *)
THEOREM Invariance == Spec => []BootInv
<1>1. BootInv /\ [Next]_vars => BootInv'
  <2> SUFFICES ASSUME BootInv, [Next]_vars PROVE BootInv'
    OBVIOUS
  <2>1. ASSUME NEW s \in Senders, Start(s) \/ Kill(s) \/ Sender(s) PROVE BootInv'
    BY <2>1, SendersInv
  <2>2. CASE Supervisor
    BY <2>2, SupervisorInv
  <2>3. CASE Reboot
    BY <2>3, RebootInv
  <2>4. CASE GetHealth
    BY <2>4, UnchangedInv, Zenon DEF GetHealth, hostVars, netVars, enclaveVars
  <2>5. CASE Enclave \/ EnclaveFails
    BY <2>5, EnclaveInv
  <2>6. CASE UNCHANGED vars
    BY <2>6, UnchangedInv, Zenon DEF vars, hostVars, netVars, runVars, enclaveVars
  <2> QED
    BY <2>1, <2>2, <2>3, <2>4, <2>5, <2>6 DEF Next
<1> QED
  BY InitInv, <1>1, PTL DEF Spec

(* The variables keep their types: no two processes of the parent ever hold*)
(* the same address, and who waits in the queue is a connection that has   *)
(* been dialled while the receiver listened.                               *)
THEOREM TypeCorrect == Spec => []TypeOK
<1>1. BootInv => TypeOK
  BY DEF BootInv
<1> QED
  BY Invariance, <1>1, PTL

(* Every hosts block and every listener of an enclave comes from one whole *)
(* file of the accepted sender that the enclave's own validation accepts,  *)
(* and the hosts block is there before the first listener.                 *)
THEOREM RunsOnlyWholeFiles == Spec => []OnlyWholeFiles
<1>1. BootInv => OnlyWholeFiles
  <2> SUFFICES ASSUME BootInv PROVE OnlyWholeFiles
    OBVIOUS
  <2>1. ASSUME etcHosts # Image
        PROVE  /\ etcHosts = data /\ data \in EnclaveOK
               /\ from \in Senders /\ data = payload[from] /\ wire[from].bytes = "whole"
    <3>1. etcHosts = data /\ data \in EnclaveOK /\ data \notin {Image, Cut}
      BY <2>1, BootAssumption DEF BootInv, EnclaveInOrder
    <3> QED
      BY <3>1 DEF BootInv, DataIsWhole
  <2>2. ebound # {} => lo /\ etcHosts = data /\ ebound \subseteq EnclaveListeners(data)
    BY DEF BootInv, EnclaveInOrder
  <2> QED
    BY <2>1, <2>2 DEF OnlyWholeFiles
<1> QED
  BY Invariance, <1>1, PTL

=============================================================================
