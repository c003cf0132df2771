------------------------------ MODULE Listener ------------------------------
(***************************************************************************)
(* One of argonaut's listeners (main.go): the accept loop with its peer    *)
(* CID check and connection limiter, and the life of every bridge          *)
(* goroutine it spawns, from the dial to the deferred closes and the       *)
(* deferred release of the slot.  What a bridge copies is in Relay; here   *)
(* it is one step that ends the copy.                                      *)
(***************************************************************************)
EXTENDS Naturals, Sequences, FiniteSets

CONSTANTS
  Conns,            \* the connections that peers may open
  Limit,            \* capacity of connectionLimiter.sem
  PeerCID,          \* PeerCID[c]: context id of the peer of connection c
  ExpectedCID,      \* the only context id a VSOCK listener serves
  Kinds,            \* which of the four listeners to check
  MaxAcceptErrors,  \* bound on transient Accept errors
  NoConn            \* the accept loop holds no connection

AllKinds == {"hostInbound", "hostOutbound", "enclaveInbound", "enclaveOutbound"}

ASSUME ListenerAssumption ==
  /\ IsFiniteSet(Conns)
  /\ Limit \in Nat \ {0}     \* envInt rejects parsed <= 0
  /\ Kinds \subseteq AllKinds
  /\ MaxAcceptErrors \in Nat
  /\ NoConn \notin Conns

VARIABLES
  kind,        \* which listener this is
  loop,        \* where the accept loop stands
  backlog,     \* connections the kernel holds for Accept, in order of arrival
  cur,         \* the connection in the accept loop's hands
  pc,          \* pc[c]: where connection c, later its goroutine, stands
  src,         \* src[c]: the accepted conn, as a file descriptor
  dst,         \* dst[c]: the dialled conn, as a file descriptor
  sem,         \* number of tokens in the limiter's channel
  acceptErrs   \* Accept errors so far

vars == <<kind, loop, backlog, cur, pc, src, dst, sem, acceptErrs>>

(* The goroutine of connection c exists, from the `go` statement to the    *)
(* receive of its deferred release.                                        *)
BridgePC == {"dial", "copy", "closeDst", "closeSrc", "release"}

Holding == {c \in Conns : pc[c] \in BridgePC}

TypeOK ==
  /\ kind \in Kinds
  /\ loop \in {"listen", "accept", "checkCID", "acquire", "dead"}
  /\ backlog \in Seq(Conns)
  /\ cur \in Conns \cup {NoConn}
  /\ pc \in [Conns -> {"new", "backlog", "accepted", "done"} \cup BridgePC]
  /\ src \in [Conns -> {"none", "open", "closed"}]
  /\ dst \in [Conns -> {"none", "open", "closed"}]
  /\ sem \in 0 .. Limit
  /\ acceptErrs \in 0 .. MaxAcceptErrors

Init ==
  /\ kind \in Kinds
  /\ loop = "listen"
  /\ backlog = <<>>
  /\ cur = NoConn
  /\ pc = [c \in Conns |-> "new"]
  /\ src = [c \in Conns |-> "none"]
  /\ dst = [c \in Conns |-> "none"]
  /\ sem = 0
  /\ acceptErrs = 0

-----------------------------------------------------------------------------
(* The peers and the kernel.                                               *)

Connect(c) ==
  /\ pc[c] = "new"
  /\ loop \notin {"listen", "dead"}
  /\ pc' = [pc EXCEPT ![c] = "backlog"]
  /\ backlog' = Append(backlog, c)
  /\ UNCHANGED <<kind, loop, cur, src, dst, sem, acceptErrs>>

-----------------------------------------------------------------------------
(* The accept loop.                                                        *)

(* net.Listen or vsock.Listen succeeds, the limiter is made.               *)
Listen ==
  /\ loop = "listen"
  /\ loop' = "accept"
  /\ UNCHANGED <<kind, backlog, cur, pc, src, dst, sem, acceptErrs>>

(* The bind fails: log.Fatalf ends the process.                            *)
ListenFails ==
  /\ loop = "listen"
  /\ loop' = "dead"
  /\ UNCHANGED <<kind, backlog, cur, pc, src, dst, sem, acceptErrs>>

(* A host outbound or enclave inbound listener goes on to the peer check,  *)
(* a TCP listener straight to the limiter.                                 *)
ChecksCID(k) == k \in {"hostOutbound", "enclaveInbound"}

(* A seeded fault: the new connection goes straight to the limiter.        *)
AcceptSkipsCheck ==
  /\ loop = "accept"
  /\ backlog # <<>>
  /\ cur' = Head(backlog)
  /\ backlog' = Tail(backlog)
  /\ pc' = [pc EXCEPT ![Head(backlog)] = "accepted"]
  /\ src' = [src EXCEPT ![Head(backlog)] = "open"]
  /\ loop' = "acquire"
  /\ UNCHANGED <<kind, dst, sem, acceptErrs>>

Accept ==
  /\ loop = "accept"
  /\ backlog # <<>>
  /\ cur' = Head(backlog)
  /\ backlog' = Tail(backlog)
  /\ pc' = [pc EXCEPT ![Head(backlog)] = "accepted"]
  /\ src' = [src EXCEPT ![Head(backlog)] = "open"]
  /\ loop' = IF ChecksCID(kind) THEN "checkCID" ELSE "acquire"
  /\ UNCHANGED <<kind, dst, sem, acceptErrs>>

(* A seeded fault: the loop returns on an Accept error.                    *)
AcceptReturns ==
  /\ loop = "accept"
  /\ acceptErrs < MaxAcceptErrors
  /\ acceptErrs' = acceptErrs + 1
  /\ loop' = "dead"
  /\ UNCHANGED <<kind, backlog, cur, pc, src, dst, sem>>

(* Accept returns an error, which is logged; the loop continues.           *)
AcceptFails ==
  /\ loop = "accept"
  /\ acceptErrs < MaxAcceptErrors
  /\ acceptErrs' = acceptErrs + 1
  /\ UNCHANGED <<kind, loop, backlog, cur, pc, src, dst, sem>>

(* The loop closes the connection it holds and continues.                  *)
CloseCur ==
  /\ src' = [src EXCEPT ![cur] = "closed"]
  /\ pc' = [pc EXCEPT ![cur] = "done"]
  /\ cur' = NoConn
  /\ loop' = "accept"

PeerMatches(c) == PeerCID[c] = ExpectedCID

(* A seeded fault: a mismatch is logged and nothing more.                  *)
CheckCIDOnlyLogs ==
  /\ loop = "checkCID"
  /\ loop' = "acquire"
  /\ UNCHANGED <<kind, backlog, cur, pc, src, dst, sem, acceptErrs>>

CheckCID ==
  /\ loop = "checkCID"
  /\ \/ /\ PeerMatches(cur)
        /\ loop' = "acquire"
        /\ UNCHANGED <<cur, pc, src>>
     \/ /\ ~ PeerMatches(cur)
        /\ CloseCur
  /\ UNCHANGED <<kind, backlog, dst, sem, acceptErrs>>

(* A seeded fault: the limiter is one token too large.                     *)
AdmitOneTooMany ==
  /\ loop = "acquire"
  /\ sem <= Limit
  /\ sem' = sem + 1
  /\ pc' = [pc EXCEPT ![cur] = "dial"]
  /\ cur' = NoConn
  /\ loop' = "accept"
  /\ UNCHANGED <<kind, backlog, src, dst, acceptErrs>>

(* tryAcquire sent a token: the bridge goroutine starts.                   *)
Admit ==
  /\ loop = "acquire"
  /\ sem < Limit
  /\ sem' = sem + 1
  /\ pc' = [pc EXCEPT ![cur] = "dial"]
  /\ cur' = NoConn
  /\ loop' = "accept"
  /\ UNCHANGED <<kind, backlog, src, dst, acceptErrs>>

(* The channel is full, tryAcquire took the default case.                  *)
TurnAway ==
  /\ loop = "acquire"
  /\ sem = Limit
  /\ CloseCur
  /\ UNCHANGED <<kind, backlog, dst, sem, acceptErrs>>

AcceptLoop == Listen \/ ListenFails \/ Accept \/ CheckCID \/ Admit \/ TurnAway

-----------------------------------------------------------------------------
(* The bridge goroutine of connection c.                                   *)

DialSucceeds(c) ==
  /\ pc[c] = "dial"
  /\ dst' = [dst EXCEPT ![c] = "open"]
  /\ pc' = [pc EXCEPT ![c] = "copy"]
  /\ UNCHANGED <<kind, loop, backlog, cur, src, sem, acceptErrs>>

(* A seeded fault: the slot is not returned after a failed dial.           *)
DialFailureLeaks(c) ==
  /\ pc[c] = "dial"
  /\ src' = [src EXCEPT ![c] = "closed"]
  /\ pc' = [pc EXCEPT ![c] = "done"]
  /\ UNCHANGED <<kind, loop, backlog, cur, dst, sem, acceptErrs>>

(* The dial error returns before `defer dst.Close()` is registered.        *)
DialFails(c) ==
  /\ pc[c] = "dial"
  /\ pc' = [pc EXCEPT ![c] = "closeSrc"]
  /\ UNCHANGED <<kind, loop, backlog, cur, src, dst, sem, acceptErrs>>

(* copyBidirectionalResult has both outcomes and returns.                  *)
CopyEnds(c) ==
  /\ pc[c] = "copy"
  /\ pc' = [pc EXCEPT ![c] = "closeDst"]
  /\ UNCHANGED <<kind, loop, backlog, cur, src, dst, sem, acceptErrs>>

(* The deferred calls, last registered first.                              *)
CloseDst(c) ==
  /\ pc[c] = "closeDst"
  /\ dst' = [dst EXCEPT ![c] = "closed"]
  /\ pc' = [pc EXCEPT ![c] = "closeSrc"]
  /\ UNCHANGED <<kind, loop, backlog, cur, src, sem, acceptErrs>>

(* A seeded fault: the accepted conn is not closed before the release.     *)
ForgetsToCloseSrc(c) ==
  /\ pc[c] = "closeSrc"
  /\ pc' = [pc EXCEPT ![c] = "release"]
  /\ UNCHANGED <<kind, loop, backlog, cur, src, dst, sem, acceptErrs>>

CloseSrc(c) ==
  /\ pc[c] = "closeSrc"
  /\ src' = [src EXCEPT ![c] = "closed"]
  /\ pc' = [pc EXCEPT ![c] = "release"]
  /\ UNCHANGED <<kind, loop, backlog, cur, dst, sem, acceptErrs>>

(* limiter.release receives a token: with none in the channel it blocks.   *)
Release(c) ==
  /\ pc[c] = "release"
  /\ sem > 0
  /\ sem' = sem - 1
  /\ pc' = [pc EXCEPT ![c] = "done"]
  /\ UNCHANGED <<kind, loop, backlog, cur, src, dst, acceptErrs>>

Bridge(c) ==
  \/ DialSucceeds(c) \/ DialFails(c) \/ CopyEnds(c)
  \/ CloseDst(c) \/ CloseSrc(c) \/ Release(c)

Next ==
  \/ AcceptLoop
  \/ AcceptFails
  \/ \E c \in Conns : Connect(c) \/ Bridge(c)

Safety == Init /\ [][Next]_vars

(* The accept loop and the goroutines are scheduled, a dial returns (30 s  *)
(* timeout for TCP, the kernel's connect timeout for VSOCK) and a copy     *)
(* ends: with idle deadlines it does if its peers send only finitely much  *)
(* (Relay's BridgeEnds), without them it is up to the peers altogether.    *)
(* Peers need not connect, Accept need not fail.                           *)
Fairness ==
  /\ WF_vars(AcceptLoop)
  /\ \A c \in Conns : WF_vars(Bridge(c))

Spec == Safety /\ Fairness

-----------------------------------------------------------------------------
(* Properties.                                                             *)

(* The tokens in the limiter's channel are exactly the bridges whose       *)
(* goroutine has not finished: no path through a bridge (failed dial,      *)
(* failed copy, clean end) leaks a slot, returns one twice or blocks on an *)
(* empty channel, so the listener never degrades into refusing everyone.   *)
SlotsMatchBridges == sem = Cardinality(Holding)

OpenSrc == {c \in Conns : src[c] = "open"}
OpenDst == {c \in Conns : dst[c] = "open"}

(* Descriptors are bounded by the limit: since a slot is returned only     *)
(* after both deferred closes, at most Limit dialled conns and Limit       *)
(* accepted ones are open, plus the one the accept loop is deciding on.    *)
OpenWithinLimit ==
  /\ Cardinality(OpenDst) <= Limit
  /\ Cardinality(OpenSrc \ {cur}) <= Limit

(* Nothing is left open behind a connection that is finished with, and     *)
(* nothing is ever dialled for a VSOCK peer other than the expected one.   *)
NoStrayConn == \A c \in Conns :
  /\ pc[c] = "done" => src[c] = "closed" /\ dst[c] # "open"
  /\ dst[c] # "none" /\ ChecksCID(kind) => PeerMatches(c)

(* A step that turns away a peer entitled to service finds Limit bridges   *)
(* still running: a slot freed before the decision is always seen.         *)
TurnedAwayOnlyWhenFull ==
  [][\A c \in Conns :
       /\ pc[c] = "accepted" /\ pc'[c] = "done"
       /\ ChecksCID(kind) => PeerMatches(c)
       => Cardinality(Holding) = Limit]_vars

(* Every connection that reaches the listener is either served to the end  *)
(* or closed, whatever Accept errors, foreign peers, full limiter or       *)
(* failed dials come between; and all its slots come back.                 *)
EveryConnSettles ==
  /\ \A c \in Conns : pc[c] = "backlog" ~> pc[c] = "done"
  /\ <>[](sem = 0)

(* The listener is a pool of Limit slots in the sense of ConnectionPool.   *)
Served == {c \in Conns : ChecksCID(kind) => PeerMatches(c)}

Pool == INSTANCE ConnectionPool WITH
  entitled <- Served,
  pending  <- {c \in Conns : pc[c] \in {"backlog", "accepted"}},
  serving  <- Holding,
  settled  <- {c \in Conns : pc[c] = "done"}

ImplementsPool == Pool!Spec

-----------------------------------------------------------------------------
(* The inductive invariant behind the theorems of ListenerProofs.          *)

(* A connection is in one place: in the backlog once, or in the accept     *)
(* loop's hands, or with its goroutine; and what the accept loop hands on  *)
(* has passed the checks of its kind of listener.                          *)
OnePlace ==
  /\ \A i \in DOMAIN backlog : pc[backlog[i]] = "backlog"
  /\ \A i, j \in DOMAIN backlog : backlog[i] = backlog[j] => i = j
  /\ cur # NoConn <=> loop \in {"checkCID", "acquire"}
  /\ \A c \in Conns : pc[c] = "accepted" <=> c = cur
  /\ loop = "checkCID" => ChecksCID(kind)
  /\ loop = "acquire" /\ ChecksCID(kind) => PeerMatches(cur)
  /\ \A c \in Holding : ChecksCID(kind) => PeerMatches(c)

(* What is open is told by how far the connection has come.                *)
OpenByPlace == \A c \in Conns :
  /\ src[c] = "none" <=> pc[c] \in {"new", "backlog"}
  /\ src[c] = "closed" <=> pc[c] \in {"release", "done"}
  /\ dst[c] = "open" <=> pc[c] \in {"copy", "closeDst"}
  /\ pc[c] \in {"new", "backlog", "accepted"} => dst[c] = "none"
  /\ dst[c] # "none" /\ ChecksCID(kind) => PeerMatches(c)

(* The type invariant, the two above, and the count of slots.  None of the *)
(* three is inductive alone: the count needs that the connection admitted  *)
(* is not yet Holding, which is OnePlace.                                  *)
IInv == TypeOK /\ OnePlace /\ OpenByPlace /\ SlotsMatchBridges
=============================================================================
