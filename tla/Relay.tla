------------------------------- MODULE Relay -------------------------------
(***************************************************************************)
(* One bridged connection after its dial has succeeded (main.go,           *)
(* copyBidirectionalResult and what surrounds it): two goroutines copy a   *)
(* to b and b to a, half-close the far side when their source ends, and    *)
(* report on a channel of capacity 2; the bridge waits for both reports    *)
(* and then runs its deferred closes.  Data is counted in chunks (one Read *)
(* and the Write of what it returned); the kernel's socket buffers hold    *)
(* Buf chunks.  Peers send, shut down, stop reading or reset as they like, *)
(* and nothing bounds how much or for how long they send.                  *)
(***************************************************************************)
EXTENDS Naturals, Sequences

CONSTANTS
  Buf,       \* chunks a socket buffer holds
  IdleModes  \* values of ARGONAUT_IDLE_TIMEOUT > 0 to check

ASSUME RelayAssumption ==
  /\ Buf \in Nat \ {0}
  /\ IdleModes \subseteq BOOLEAN

(* The two conns: a is the accepted one, b the dialled one.  A direction   *)
(* is named by the conn it reads.                                          *)
Sides == {"a", "b"}
Other(s) == IF s = "a" THEN "b" ELSE "a"

VARIABLES
  idle,      \* conns are wrapped in idleTimeoutConn
  owed,      \* owed[d]: chunks the peer at d has sent and the other has not read
  fin,       \* fin[s]: the peer at s has shut down its sending side
  rst,       \* rst[s]: conn s has been reset, by its peer or by the close here
  inq,       \* inq[s]: chunks in the receive buffer of conn s
  outq,      \* outq[s]: chunks written to conn s that its peer has not read
  finOut,    \* finOut[s]: conn s has been half-closed by closeWrite
  eof,       \* eof[s]: the peer at s has read end of file
  pc,        \* pc[d]: where the goroutine of direction d stands
  err,       \* err[d]: the error of direction d's io.Copy
  done,      \* the channel of outcomes
  received,  \* outcomes the bridge has received
  open       \* open[s]: conn s is an open descriptor

vars == <<idle, owed, fin, rst, inq, outq, finOut, eof, pc, err, done, received, open>>

Reading == {"read", "readWait"}
Writing == {"write", "writeWait"}

TypeOK ==
  /\ idle \in IdleModes
  /\ owed \in [Sides -> Nat]
  /\ inq \in [Sides -> 0 .. Buf] /\ outq \in [Sides -> 0 .. Buf]
  /\ fin \in [Sides -> BOOLEAN] /\ rst \in [Sides -> BOOLEAN]
  /\ finOut \in [Sides -> BOOLEAN] /\ eof \in [Sides -> BOOLEAN]
  /\ open \in [Sides -> BOOLEAN]
  /\ pc \in [Sides -> Reading \cup Writing \cup {"closeWrite", "report", "ended"}]
  /\ err \in [Sides -> {"none", "read", "write", "timeout"}]
  /\ done \in Seq(Sides) /\ Len(done) <= 2
  /\ received \in SUBSET Sides

Init ==
  /\ idle \in IdleModes
  /\ owed = [s \in Sides |-> 0]
  /\ inq = [s \in Sides |-> 0] /\ outq = [s \in Sides |-> 0]
  /\ fin = [s \in Sides |-> FALSE] /\ rst = [s \in Sides |-> FALSE]
  /\ finOut = [s \in Sides |-> FALSE] /\ eof = [s \in Sides |-> FALSE]
  /\ open = [s \in Sides |-> TRUE]
  /\ pc = [s \in Sides |-> "read"]
  /\ err = [s \in Sides |-> "none"]
  /\ done = <<>>
  /\ received = {}

-----------------------------------------------------------------------------
(* The peers and the network.                                              *)

PeerSends(s) ==
  /\ ~ fin[s] /\ ~ rst[s] /\ open[s]
  /\ inq[s] < Buf
  /\ owed' = [owed EXCEPT ![s] = @ + 1]
  /\ inq' = [inq EXCEPT ![s] = @ + 1]
  /\ UNCHANGED <<idle, fin, rst, outq, finOut, eof, pc, err, done, received, open>>

PeerShutsDown(s) ==
  /\ ~ fin[s] /\ ~ rst[s]
  /\ fin' = [fin EXCEPT ![s] = TRUE]
  /\ UNCHANGED <<idle, owed, rst, inq, outq, finOut, eof, pc, err, done, received, open>>

PeerReads(s) ==
  /\ outq[s] > 0
  /\ outq' = [outq EXCEPT ![s] = @ - 1]
  /\ owed' = [owed EXCEPT ![Other(s)] = @ - 1]
  /\ UNCHANGED <<idle, fin, rst, inq, finOut, eof, pc, err, done, received, open>>

PeerReadsEOF(s) ==
  /\ finOut[s] /\ outq[s] = 0 /\ ~ rst[s] /\ ~ eof[s]
  /\ eof' = [eof EXCEPT ![s] = TRUE]
  /\ UNCHANGED <<idle, owed, fin, rst, inq, outq, finOut, pc, err, done, received, open>>

(* The peer aborts, crashes or answers data it no longer wants: what is    *)
(* still on its way to it is lost.                                         *)
PeerResets(s) ==
  /\ ~ rst[s] /\ open[s]
  /\ rst' = [rst EXCEPT ![s] = TRUE]
  /\ outq' = [outq EXCEPT ![s] = 0]
  /\ UNCHANGED <<idle, owed, fin, inq, finOut, eof, pc, err, done, received, open>>

Peer(s) == \/ PeerSends(s) \/ PeerShutsDown(s) \/ PeerReads(s)
           \/ PeerReadsEOF(s) \/ PeerResets(s)

-----------------------------------------------------------------------------
(* The goroutine of direction d: io.Copy, closeWrite, the send on done.    *)

copyFrame == <<idle, owed, fin, rst, eof, received, open>>

(* Read finds data in the receive buffer.                                  *)
Read(d) ==
  /\ pc[d] \in Reading
  /\ inq[d] > 0
  /\ inq' = [inq EXCEPT ![d] = @ - 1]
  /\ pc' = [pc EXCEPT ![d] = "write"]
  /\ UNCHANGED <<copyFrame, outq, finOut, err, done>>

(* io.Copy returns with error e (none at end of file).                     *)
CopyReturns(d, e) ==
  /\ pc' = [pc EXCEPT ![d] = "closeWrite"]
  /\ err' = [err EXCEPT ![d] = e]
  /\ UNCHANGED <<copyFrame, inq, outq, finOut, done>>

ReadEOF(d) ==
  /\ pc[d] \in Reading
  /\ inq[d] = 0 /\ fin[d] /\ ~ rst[d]
  /\ CopyReturns(d, "none")

ReadFails(d) ==
  /\ pc[d] \in Reading
  /\ rst[d]
  /\ CopyReturns(d, "read")

(* Nothing to read: the goroutine parks, under the read deadline that      *)
(* idleTimeoutConn.Read set on entry if there is one.                      *)
ReadBlocks(d) ==
  /\ pc[d] = "read"
  /\ inq[d] = 0 /\ ~ fin[d] /\ ~ rst[d]
  /\ pc' = [pc EXCEPT ![d] = "readWait"]
  /\ UNCHANGED <<copyFrame, inq, outq, finOut, err, done>>

HasDeadline == idle

(* A seeded fault: a deadline is taken for the end of the stream.          *)
TimeoutTakenForEOF(d) ==
  /\ pc[d] = "readWait" /\ HasDeadline
  /\ CopyReturns(d, "none")

(* The read deadline of a parked goroutine expires; data may have arrived  *)
(* since.                                                                  *)
ReadTimesOut(d) ==
  /\ pc[d] = "readWait" /\ HasDeadline
  /\ CopyReturns(d, "timeout")

Write(d) ==
  /\ pc[d] \in Writing
  /\ ~ rst[Other(d)] /\ outq[Other(d)] < Buf
  /\ outq' = [outq EXCEPT ![Other(d)] = @ + 1]
  /\ pc' = [pc EXCEPT ![d] = "read"]
  /\ UNCHANGED <<copyFrame, inq, finOut, err, done>>

WriteFails(d) ==
  /\ pc[d] \in Writing
  /\ rst[Other(d)]
  /\ CopyReturns(d, "write")

(* A seeded fault: what does not fit is dropped, as by a short write.      *)
DropsWhenFull(d) ==
  /\ pc[d] = "write"
  /\ ~ rst[Other(d)] /\ outq[Other(d)] = Buf
  /\ pc' = [pc EXCEPT ![d] = "read"]
  /\ UNCHANGED <<copyFrame, inq, outq, finOut, err, done>>

WriteBlocks(d) ==
  /\ pc[d] = "write"
  /\ ~ rst[Other(d)] /\ outq[Other(d)] = Buf
  /\ pc' = [pc EXCEPT ![d] = "writeWait"]
  /\ UNCHANGED <<copyFrame, inq, outq, finOut, err, done>>

(* A seeded fault: Write sets no deadline.                                 *)
NoWriteDeadline(d) == FALSE

WriteTimesOut(d) ==
  /\ pc[d] = "writeWait" /\ HasDeadline
  /\ CopyReturns(d, "timeout")

(* A seeded fault: idleTimeoutConn lacks CloseWrite, so closeWrite finds   *)
(* no half-closer behind the wrapper and does nothing.                     *)
WrapperHidesCloseWrite(d) ==
  /\ pc[d] = "closeWrite"
  /\ pc' = [pc EXCEPT ![d] = "report"]
  /\ UNCHANGED <<copyFrame, inq, outq, finOut, err, done>>

(* closeWrite(dst), whose error is ignored.                                *)
CloseWrite(d) ==
  /\ pc[d] = "closeWrite"
  /\ finOut' = [finOut EXCEPT ![Other(d)] = ~ rst[Other(d)]]
  /\ pc' = [pc EXCEPT ![d] = "report"]
  /\ UNCHANGED <<copyFrame, inq, outq, err, done>>

(* A seeded fault: the outcome is sent again and again.                    *)
ReportsTwice(d) ==
  /\ pc[d] = "report" \/ (pc[d] = "ended" /\ Len(done) < 3)
  /\ done' = Append(done, d)
  /\ pc' = [pc EXCEPT ![d] = "ended"]
  /\ UNCHANGED <<copyFrame, inq, outq, finOut, err>>

Report(d) ==
  /\ pc[d] = "report"
  /\ done' = Append(done, d)
  /\ pc' = [pc EXCEPT ![d] = "ended"]
  /\ UNCHANGED <<copyFrame, inq, outq, finOut, err>>

Copier(d) ==
  \/ Read(d) \/ ReadEOF(d) \/ ReadFails(d) \/ ReadBlocks(d) \/ ReadTimesOut(d)
  \/ Write(d) \/ WriteFails(d) \/ WriteBlocks(d) \/ WriteTimesOut(d)
  \/ CloseWrite(d) \/ Report(d)

-----------------------------------------------------------------------------
(* The bridge goroutine.                                                   *)

(* first := <-done, then second := <-done.                                 *)
Receive ==
  /\ done # <<>>
  /\ received' = received \cup {Head(done)}
  /\ done' = Tail(done)
  /\ UNCHANGED <<idle, owed, fin, rst, inq, outq, finOut, eof, pc, err, open>>

(* A seeded fault: the first outcome is enough.                            *)
ReceivedOne == received # {}

ReceivedBoth == received = Sides

(* Close of conn s.  With unread data in the receive buffer the kernel     *)
(* resets the connection instead of ending it, and drops any part of what  *)
(* was still to be sent.                                                   *)
Close(s) ==
  /\ open[s]
  /\ open' = [open EXCEPT ![s] = FALSE]
  /\ \/ /\ inq[s] > 0
        /\ rst' = [rst EXCEPT ![s] = TRUE]
        /\ \E left \in 0 .. outq[s] : outq' = [outq EXCEPT ![s] = left]
     \/ /\ inq[s] = 0
        /\ UNCHANGED <<rst, outq>>
  /\ UNCHANGED <<idle, owed, fin, inq, finOut, eof, pc, err, done, received>>

(* The deferred closes: the dialled conn first, then the accepted one.     *)
CloseConns ==
  /\ ReceivedBoth
  /\ Close("b") \/ (~ open["b"] /\ Close("a"))

Returned == ~ open["a"]

(* A seeded fault: the second direction's error is forgotten.              *)
OnlyFirstErr == err["a"] = "none"

(* copyResult.Err: nil unless a direction failed.                          *)
ResultNil == err["a"] = "none" /\ err["b"] = "none"

Next ==
  \/ \E s \in Sides : Peer(s) \/ Copier(s)
  \/ Receive
  \/ CloseConns

(* The three goroutines are scheduled, a deadline that was set expires.    *)
(* Peers owe nothing.                                                      *)
Fairness ==
  /\ \A d \in Sides : WF_vars(Copier(d))
  /\ WF_vars(Receive)
  /\ WF_vars(CloseConns)

Safety == Init /\ [][Next]_vars

Spec == Safety /\ Fairness

-----------------------------------------------------------------------------
(* Properties.                                                             *)

(* A chunk read from a conn and not yet written to the other.              *)
Held(d) == IF pc[d] \in Writing THEN 1 ELSE 0

(* Exactly once: while a direction has not failed and neither conn was     *)
(* reset, every chunk that was sent and not yet read by the other peer is  *)
(* in one place on the way to it; nothing is lost, repeated or overtaken   *)
(* by the half-close.                                                      *)
ExactlyOnce == \A d \in Sides :
  err[d] = "none" /\ ~ rst[d] /\ ~ rst[Other(d)] =>
    owed[d] = inq[d] + Held(d) + outq[Other(d)]

(* A peer that reads end of file before the other peer's stream is         *)
(* complete (idle deadline, reset or failed write in between) has a bridge *)
(* that will report an error: a truncated stream never counts as clean.    *)
TruncationReported == \A d \in Sides :
  eof[Other(d)] /\ (~ fin[d] \/ owed[d] > 0) => ~ ResultNil

(* A bridge that returns nil has carried both streams to the end: both     *)
(* peers had finished sending, nothing was left unread when the conns were *)
(* closed, so no close turned into a reset.                                *)
CleanMeansComplete ==
  Returned /\ ResultNil =>
    \A d \in Sides : /\ fin[d] /\ inq[d] = 0
                     /\ ~ rst[Other(d)] => owed[d] = outq[Other(d)]

(* The end of one direction never cuts the other short: a step that closes *)
(* a conn finds both goroutines past their half-close.                     *)
NoEarlyTeardown ==
  [][\A s \in Sides : open[s] /\ ~ open'[s] =>
       \A d \in Sides : pc[d] = "ended"]_vars

(* From some moment on the peer at d sends no more.                        *)
Quiet(d) == <>[][~ PeerSends(d)]_vars

(* With idle deadlines a direction ends once its peer sends no more, by a  *)
(* shutdown or by silence, whether or not the other peer reads; when both  *)
(* have, the bridge ends, and the slot and descriptors it holds come back. *)
(* More the code does not give: every Read and Write sets the deadline     *)
(* anew (main.go:547-555), so a peer that sends a little before each one   *)
(* expires keeps its bridge for as long as it likes.                       *)
BridgeEnds == idle =>
  /\ \A d \in Sides : Quiet(d) => <>(pc[d] = "ended")
  /\ (\A d \in Sides : Quiet(d)) => <>Returned

(* The half-close travels: if the peer at the far side keeps making room,  *)
(* the end of a stream reaches it after all its data, even while the other *)
(* direction is silent, unless a conn is reset or a deadline intervenes.   *)
HalfCloseTravels == \A d \in Sides :
  ([]<>(outq[Other(d)] < Buf)) =>
    (fin[d] ~> finOut[Other(d)] \/ rst[d] \/ rst[Other(d)])

-----------------------------------------------------------------------------
(* The inductive invariant behind the theorems of RelayProofs.             *)

(* Resets and failures lose chunks, nothing makes or repeats one.          *)
AtMostOnce == \A d \in Sides :
  inq[d] + Held(d) + outq[Other(d)] <= owed[d]

Past == {"closeWrite", "report", "ended"}

(* A direction whose copy has ended without error has seen the end of its  *)
(* stream, and all of it is at or on the way to the far peer.              *)
CopiedToTheEnd == \A d \in Sides :
  /\ pc[d] \notin Past => err[d] = "none"
  /\ pc[d] \in Past /\ err[d] = "none" =>
       /\ fin[d] /\ inq[d] = 0
       /\ ~ rst[Other(d)] => owed[d] = outq[Other(d)]

(* Only closeWrite tells a peer that its stream has ended, so if the copy  *)
(* went well that peer has read everything.                                *)
EndOfFileIsTold == \A d \in Sides :
  /\ finOut[Other(d)] => pc[d] \in {"report", "ended"}
  /\ eof[Other(d)] => finOut[Other(d)]
  /\ eof[Other(d)] /\ err[d] = "none" => owed[d] = 0

(* Each goroutine reports once, when it is through with its half-close.    *)
OneOutcomeEach ==
  /\ \A k \in DOMAIN done : pc[done[k]] = "ended" /\ done[k] \notin received
  /\ \A j, k \in DOMAIN done : done[j] = done[k] => j = k
  /\ \A d \in received : pc[d] = "ended"

(* The closes come after both outcomes, the dialled conn's first.          *)
ClosedLast ==
  /\ \A s \in Sides : ~ open[s] => received = Sides
  /\ ~ open["a"] => ~ open["b"]

(* The type invariant, exactly-once delivery and what they need beside     *)
(* each other: the bound on what a peer can have read is AtMostOnce, that  *)
(* of the channel is OneOutcomeEach, and TruncationReported and            *)
(* CleanMeansComplete are about moments long after the copy has ended.     *)
RelayInv ==
  /\ TypeOK /\ AtMostOnce /\ ExactlyOnce
  /\ CopiedToTheEnd /\ EndOfFileIsTold /\ OneOutcomeEach /\ ClosedLast
=============================================================================
