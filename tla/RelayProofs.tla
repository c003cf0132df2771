---------------------------- MODULE RelayProofs ----------------------------
(***************************************************************************)
(* Proofs about Relay, for streams of any length, every buffer size and    *)
(* both idle modes: the inductive invariant, exactly-once delivery, the    *)
(* meaning of the bridge's result and the order of its teardown.           *)
(***************************************************************************)
EXTENDS Relay, TLAPS

(* The two conns of a bridge, named without spelling them out.             *)
LEMMA TwoSides ==
  /\ "a" \in Sides /\ "b" \in Sides
  /\ \A s \in Sides : Other(s) \in Sides /\ Other(s) # s /\ Other(Other(s)) = s
  /\ \A s, t \in Sides : s # t <=> t = Other(s)
BY DEF Sides, Other

(* What the proofs about data need of TypeOK: the counters are functions   *)
(* to numbers, the flags functions to truth values.                        *)
Shapes ==
  /\ owed \in [Sides -> Nat]
  /\ inq \in [Sides -> Nat] /\ outq \in [Sides -> Nat]
  /\ fin \in [Sides -> BOOLEAN] /\ rst \in [Sides -> BOOLEAN]
  /\ finOut \in [Sides -> BOOLEAN] /\ eof \in [Sides -> BOOLEAN]
  /\ \A s \in Sides : Held(s) \in {0, 1}

(* The part of TypeOK that most steps use.                                 *)
LEMMA TypeShapes == TypeOK => Shapes
BY RelayAssumption DEF TypeOK, Shapes, Held

(* The invariant holds when the copiers start.                             *)
LEMMA InitInv == Init => RelayInv
<1> SUFFICES ASSUME Init PROVE RelayInv
  OBVIOUS
<1> USE RelayAssumption, TwoSides DEF Init
<1>1. TypeOK
  BY DEF TypeOK, Reading
<1>2. AtMostOnce /\ ExactlyOnce
  BY DEF AtMostOnce, ExactlyOnce, Held, Writing
<1>3. CopiedToTheEnd /\ EndOfFileIsTold /\ OneOutcomeEach /\ ClosedLast
  BY DEF CopiedToTheEnd, EndOfFileIsTold, OneOutcomeEach, ClosedLast, Past
<1> QED
  BY <1>1, <1>2, <1>3 DEF RelayInv

(* A peer sends a chunk into the receive buffer of its conn.               *)
LEMMA PeerSendsInv ==
  ASSUME NEW s \in Sides, RelayInv, PeerSends(s) PROVE RelayInv'
<1>1. TypeOK /\ Shapes
  BY TypeShapes DEF RelayInv
<1>2. /\ inq' = [inq EXCEPT ![s] = @ + 1] /\ owed' = [owed EXCEPT ![s] = @ + 1]
      /\ UNCHANGED <<outq, pc, err, rst, fin, finOut, eof, done, received, open>>
      /\ ~ fin[s]
  BY DEF PeerSends
<1>3. \A d \in Sides : Held(d)' = Held(d)
  BY <1>2 DEF Held
<1>4. TypeOK'
  BY <1>1, RelayAssumption DEF TypeOK, PeerSends
<1>5. AtMostOnce' /\ ExactlyOnce'
  BY <1>1, <1>2, <1>3, TwoSides DEF RelayInv, AtMostOnce, ExactlyOnce, Shapes
<1>6. CopiedToTheEnd'
  BY <1>1, <1>2, TwoSides DEF RelayInv, CopiedToTheEnd, Shapes
<1>7. EndOfFileIsTold'
  BY <1>1, <1>2, TwoSides DEF RelayInv, EndOfFileIsTold, CopiedToTheEnd, Past, Shapes
<1>8. OneOutcomeEach' /\ ClosedLast'
  BY <1>2 DEF RelayInv, OneOutcomeEach, ClosedLast
<1> QED
  BY <1>4, <1>5, <1>6, <1>7, <1>8 DEF RelayInv

(* A peer reads a chunk.  By AtMostOnce there is one for it to read.       *)
LEMMA PeerReadsInv ==
  ASSUME NEW s \in Sides, RelayInv, PeerReads(s) PROVE RelayInv'
<1>1. TypeOK /\ Shapes
  BY TypeShapes DEF RelayInv
<1>2. /\ outq' = [outq EXCEPT ![s] = @ - 1] /\ owed' = [owed EXCEPT ![Other(s)] = @ - 1]
      /\ UNCHANGED <<inq, pc, err, rst, fin, finOut, eof, done, received, open>>
      /\ outq[s] > 0
  BY DEF PeerReads
<1>3. \A d \in Sides : Held(d)' = Held(d)
  BY <1>2 DEF Held
<1>4. ASSUME NEW d \in Sides
      PROVE  \/ d # Other(s) /\ owed'[d] = owed[d] /\ outq'[Other(d)] = outq[Other(d)]
             \/ /\ d = Other(s) /\ Other(d) = s /\ outq[s] > 0
                /\ owed'[d] = owed[d] - 1 /\ outq'[s] = outq[s] - 1
  BY <1>1, <1>2, TwoSides DEF Shapes
<1>5. /\ owed' \in [Sides -> Nat]
      /\ outq' \in [Sides -> Nat]
  <2>1. owed[Other(s)] > 0
    <3>1. inq[Other(s)] + Held(Other(s)) + outq[s] <= owed[Other(s)]
      BY TwoSides DEF RelayInv, AtMostOnce
    <3> QED
      BY <3>1, <1>1, <1>2, TwoSides DEF Shapes
  <2>2. owed[Other(s)] - 1 \in Nat /\ outq[s] - 1 \in Nat
    BY <2>1, <1>1, <1>2, TwoSides DEF Shapes
  <2> QED
    BY <2>2, <1>1, <1>2 DEF Shapes
<1>6. AtMostOnce' /\ ExactlyOnce'
  <2>1. ASSUME NEW d \in Sides
        PROVE  /\ inq[d] + Held(d) + outq'[Other(d)] <= owed'[d]
               /\ owed[d] = inq[d] + Held(d) + outq[Other(d)] =>
                    owed'[d] = inq[d] + Held(d) + outq'[Other(d)]
    <3>1. inq[d] + Held(d) + outq[Other(d)] <= owed[d]
      BY DEF RelayInv, AtMostOnce
    <3>2. inq[d] \in Nat /\ Held(d) \in Nat /\ outq[Other(d)] \in Nat /\ owed[d] \in Nat
      BY <1>1, TwoSides DEF Shapes
    <3> QED
      BY <3>1, <3>2, <1>4
  <2> QED
    BY <2>1, <1>2, <1>3 DEF RelayInv, AtMostOnce, ExactlyOnce
<1>7. TypeOK'
  <2>1. outq' \in [Sides -> 0 .. Buf]
    BY <1>1, <1>2, RelayAssumption DEF TypeOK
  <2> QED
    BY <2>1, <1>5, <1>1 DEF TypeOK, PeerReads
<1>8. CopiedToTheEnd'
  <2>1. ASSUME NEW d \in Sides, owed[d] = outq[Other(d)]
        PROVE  owed'[d] = outq'[Other(d)]
    BY <2>1, <1>4
  <2> QED
    BY <2>1, <1>2 DEF RelayInv, CopiedToTheEnd
<1>9. EndOfFileIsTold'
  <2> SUFFICES ASSUME NEW d \in Sides, eof[Other(d)], err[d] = "none"
               PROVE  owed'[d] = 0
    BY <1>2 DEF RelayInv, EndOfFileIsTold
  <2>1. owed[d] = 0
    BY DEF RelayInv, EndOfFileIsTold
  <2>2. inq[d] + Held(d) + outq[Other(d)] <= owed[d]
    BY DEF RelayInv, AtMostOnce
  <2>3. outq[Other(d)] = 0
    BY <2>1, <2>2, <1>1, TwoSides DEF Shapes
  <2> QED
    BY <2>1, <2>3, <1>4
<1>10. OneOutcomeEach' /\ ClosedLast'
  BY <1>2 DEF RelayInv, OneOutcomeEach, ClosedLast
<1> QED
  BY <1>6, <1>7, <1>8, <1>9, <1>10 DEF RelayInv

(* A peer shuts down its side, or reads the end of file it was told.       *)
LEMMA PeerEndsInv ==
  ASSUME NEW s \in Sides, RelayInv, PeerShutsDown(s) \/ PeerReadsEOF(s) PROVE RelayInv'
<1>1. TypeOK /\ Shapes
  BY TypeShapes DEF RelayInv
<1>2. UNCHANGED <<idle, owed, inq, outq, pc, err, rst, finOut, done, received, open>>
  BY DEF PeerShutsDown, PeerReadsEOF
<1>3. \A d \in Sides : Held(d)' = Held(d)
  BY <1>2 DEF Held
<1>4. fin' \in [Sides -> BOOLEAN] /\ eof' \in [Sides -> BOOLEAN]
  BY <1>1 DEF Shapes, PeerShutsDown, PeerReadsEOF
<1>5. \A d \in Sides : fin[d] => fin'[d]
  BY <1>1 DEF Shapes, PeerShutsDown, PeerReadsEOF
<1>6. TypeOK'
  BY <1>1, <1>2, <1>4 DEF TypeOK
<1>7. AtMostOnce' /\ ExactlyOnce'
  BY <1>2, <1>3 DEF RelayInv, AtMostOnce, ExactlyOnce
<1>8. CopiedToTheEnd'
  BY <1>2, <1>5 DEF RelayInv, CopiedToTheEnd
<1>9. EndOfFileIsTold'
  <2>1. CASE PeerShutsDown(s)
    BY <2>1, <1>2 DEF PeerShutsDown, RelayInv, EndOfFileIsTold
  <2>2. CASE PeerReadsEOF(s)
    <3>1. /\ finOut[s] /\ outq[s] = 0 /\ ~ rst[s]
          /\ eof' = [eof EXCEPT ![s] = TRUE]
      BY <2>2 DEF PeerReadsEOF
    <3>2. pc[Other(s)] \in Past
      BY <3>1, TwoSides DEF RelayInv, EndOfFileIsTold, Past
    <3>3. err[Other(s)] = "none" => owed[Other(s)] = 0
      BY <3>1, <3>2, <1>1, TwoSides DEF RelayInv, CopiedToTheEnd, Shapes
    <3> QED
      BY <3>1, <3>3, <1>1, <1>2, TwoSides DEF RelayInv, EndOfFileIsTold, Shapes
  <2> QED
    BY <2>1, <2>2
<1>10. OneOutcomeEach' /\ ClosedLast'
  BY <1>2 DEF RelayInv, OneOutcomeEach, ClosedLast
<1> QED
  BY <1>6, <1>7, <1>8, <1>9, <1>10 DEF RelayInv

(* A conn is reset, by its peer or by a close with unread data, and what   *)
(* was still on its way to the peer may be lost: everything that is said   *)
(* about that way holds until a reset only.                                *)
LEMMA ResetInv ==
  ASSUME NEW s \in Sides, NEW left \in 0 .. outq[s], RelayInv,
         rst' = [rst EXCEPT ![s] = TRUE], outq' = [outq EXCEPT ![s] = left],
         UNCHANGED <<idle, owed, fin, inq, finOut, eof, pc, err, done, received>>
  PROVE  /\ AtMostOnce' /\ ExactlyOnce' /\ CopiedToTheEnd' /\ EndOfFileIsTold'
         /\ OneOutcomeEach' /\ (open' \in [Sides -> BOOLEAN] => TypeOK')
<1>1. TypeOK /\ Shapes
  BY TypeShapes DEF RelayInv
<1>2. \A d \in Sides : Held(d)' = Held(d)
  BY DEF Held
<1>3. left \in Nat /\ left <= outq[s] /\ left \in 0 .. Buf
  <2>1. outq[s] \in 0 .. Buf
    BY <1>1 DEF TypeOK
  <2> QED
    BY <2>1, RelayAssumption
<1>4. \A d \in Sides : outq'[d] \in Nat /\ outq'[d] <= outq[d]
  BY <1>1, <1>3 DEF Shapes
<1>5. \A d \in Sides : ~ rst'[d] => ~ rst[d] /\ outq'[d] = outq[d]
  BY <1>1 DEF Shapes
<1>6. open' \in [Sides -> BOOLEAN] => TypeOK'
  <2>1. outq' \in [Sides -> 0 .. Buf]
    BY <1>1, <1>3 DEF TypeOK
  <2>2. rst' \in [Sides -> BOOLEAN]
    BY <1>1 DEF TypeOK
  <2> QED
    BY <2>1, <2>2, <1>1 DEF TypeOK
<1>7. AtMostOnce'
  <2> SUFFICES ASSUME NEW d \in Sides
               PROVE  inq[d] + Held(d) + outq'[Other(d)] <= owed[d]
    BY <1>2 DEF AtMostOnce
  <2>1. inq[d] + Held(d) + outq[Other(d)] <= owed[d]
    BY DEF RelayInv, AtMostOnce
  <2>2. /\ owed[d] \in Nat /\ inq[d] \in Nat /\ Held(d) \in Nat
        /\ outq[Other(d)] \in Nat
        /\ outq'[Other(d)] \in Nat /\ outq'[Other(d)] <= outq[Other(d)]
    BY <1>1, <1>4, TwoSides DEF Shapes
  <2> QED
    BY <2>1, <2>2
<1>8. ExactlyOnce' /\ CopiedToTheEnd' /\ EndOfFileIsTold'
  BY <1>2, <1>5, TwoSides DEF RelayInv, ExactlyOnce, CopiedToTheEnd, EndOfFileIsTold
<1>9. OneOutcomeEach'
  BY DEF RelayInv, OneOutcomeEach
<1> QED
  BY <1>6, <1>7, <1>8, <1>9

(* The peer's own reset, and with these all that a peer can do.            *)
LEMMA PeerInv ==
  ASSUME NEW s \in Sides, RelayInv, Peer(s) PROVE RelayInv'
<1>1. CASE PeerResets(s)
  <2>1. TypeOK /\ Shapes
    BY TypeShapes DEF RelayInv
  <2>2. 0 \in 0 .. outq[s]
    BY <2>1 DEF Shapes
  <2>3. open' \in [Sides -> BOOLEAN] /\ ClosedLast'
    BY <1>1, <2>1 DEF PeerResets, TypeOK, RelayInv, ClosedLast
  <2> QED
    BY <1>1, <2>2, <2>3, ResetInv DEF PeerResets, RelayInv
<1> QED
  BY <1>1, PeerSendsInv, PeerReadsInv, PeerEndsInv DEF Peer

(* Read moves a chunk from the receive buffer into the copier's hands,     *)
(* Write from there into the send buffer of the other conn.                *)
LEMMA MoveInv ==
  ASSUME NEW d \in Sides, RelayInv, Read(d) \/ Write(d) PROVE RelayInv'
<1>1. TypeOK /\ Shapes
  BY TypeShapes DEF RelayInv
<1>2. /\ UNCHANGED <<idle, owed, err, fin, rst, finOut, eof, done, received, open>>
      /\ pc[d] \in Reading \cup Writing
      /\ pc' = [pc EXCEPT ![d] = IF Read(d) THEN "write" ELSE "read"]
  BY <1>1 DEF Read, Write, copyFrame, Reading, Writing, TypeOK
<1>3. \A e \in Sides : e # d => /\ pc'[e] = pc[e] /\ inq'[e] = inq[e]
                                /\ outq'[Other(e)] = outq[Other(e)]
                                /\ Held(e)' = Held(e)
  <2> SUFFICES ASSUME NEW e \in Sides, e # d
               PROVE  /\ pc'[e] = pc[e] /\ inq'[e] = inq[e]
                      /\ outq'[Other(e)] = outq[Other(e)] /\ Held(e)' = Held(e)
    OBVIOUS
  <2>1. pc'[e] = pc[e]
    BY <1>1, <1>2 DEF TypeOK
  <2>2. inq'[e] = inq[e]
    BY <1>1 DEF Read, Write, TypeOK
  <2>3. outq'[Other(e)] = outq[Other(e)]
    BY <1>1, TwoSides DEF Read, Write, TypeOK
  <2> QED
    BY <2>1, <2>2, <2>3 DEF Held
<1>4. /\ inq'[d] \in Nat /\ outq'[Other(d)] \in Nat /\ Held(d)' \in Nat
      /\ inq'[d] + Held(d)' + outq'[Other(d)] = inq[d] + Held(d) + outq[Other(d)]
  <2>1. CASE Read(d)
    <3>1. inq[d] > 0 /\ inq' = [inq EXCEPT ![d] = @ - 1] /\ outq' = outq /\ pc[d] \in Reading
      BY <2>1 DEF Read
    <3>2. Held(d) = 0 /\ Held(d)' = 1
      BY <2>1, <3>1, <1>1, <1>2 DEF Held, Reading, Writing, TypeOK
    <3>3. inq[d] \in Nat /\ outq[Other(d)] \in Nat /\ inq'[d] = inq[d] - 1
      BY <3>1, <1>1, TwoSides DEF Shapes
    <3> QED
      BY <3>1, <3>2, <3>3
  <2>2. CASE Write(d)
    <3>1. /\ outq' = [outq EXCEPT ![Other(d)] = @ + 1] /\ inq' = inq
          /\ pc[d] \in Writing /\ pc' = [pc EXCEPT ![d] = "read"]
      BY <2>2 DEF Write
    <3>2. Held(d) = 1 /\ Held(d)' = 0
      BY <3>1, <1>1 DEF Held, Reading, Writing, TypeOK
    <3>3. inq[d] \in Nat /\ outq[Other(d)] \in Nat /\ outq'[Other(d)] = outq[Other(d)] + 1
      BY <3>1, <1>1, TwoSides DEF Shapes
    <3> QED
      BY <3>1, <3>2, <3>3
  <2> QED
    BY <2>1, <2>2
<1>5. TypeOK'
  <2>1. inq' \in [Sides -> 0 .. Buf]
    <3>1. \A e \in Sides : inq[e] > 0 => inq[e] - 1 \in 0 .. Buf
      BY <1>1, RelayAssumption DEF TypeOK
    <3> QED
      BY <3>1, <1>1 DEF Read, Write, TypeOK
  <2>2. outq' \in [Sides -> 0 .. Buf]
    <3>1. \A e \in Sides : outq[e] < Buf => outq[e] + 1 \in 0 .. Buf
      BY <1>1, RelayAssumption DEF TypeOK
    <3>2. CASE Read(d)
      BY <3>2, <1>1 DEF Read, TypeOK
    <3>3. CASE Write(d)
      BY <3>3, <3>1, <1>1, TwoSides DEF Write, TypeOK
    <3> QED
      BY <3>2, <3>3
  <2>3. pc' \in [Sides -> Reading \cup Writing \cup {"closeWrite", "report", "ended"}]
    BY <1>1, <1>2 DEF TypeOK, Reading, Writing
  <2> QED
    BY <2>1, <2>2, <2>3, <1>1, <1>2 DEF TypeOK
<1>6. AtMostOnce' /\ ExactlyOnce'
  <2>1. ASSUME NEW e \in Sides
        PROVE  inq'[e] + Held(e)' + outq'[Other(e)] = inq[e] + Held(e) + outq[Other(e)]
    <3>1. inq[e] \in Nat /\ Held(e) \in Nat /\ outq[Other(e)] \in Nat
      BY <1>1, TwoSides DEF Shapes
    <3>2. CASE e = d
      BY <3>1, <3>2, <1>4
    <3>3. CASE e # d
      <4>1. inq'[e] = inq[e] /\ outq'[Other(e)] = outq[Other(e)] /\ Held(e)' = Held(e)
        BY <3>3, <1>3
      <4> QED
        BY <4>1
    <3> QED
      BY <3>2, <3>3
  <2> QED
    BY <2>1, <1>2 DEF RelayInv, AtMostOnce, ExactlyOnce
<1>7. pc'[d] \notin Past /\ pc[d] \notin Past
  BY <1>1, <1>2 DEF Past, Reading, Writing, TypeOK
<1>8. CopiedToTheEnd' /\ EndOfFileIsTold'
  <2>1. ~ finOut[Other(d)]
    BY <1>7 DEF RelayInv, EndOfFileIsTold, Past
  <2>2. ASSUME NEW e \in Sides, e = d
        PROVE  /\ err[e] = "none"
               /\ ~ finOut[Other(e)] /\ ~ eof[Other(e)]
    BY <2>1, <2>2, <1>7 DEF RelayInv, CopiedToTheEnd, EndOfFileIsTold
  <2>3. CopiedToTheEnd'
    <3> SUFFICES ASSUME NEW e \in Sides
                 PROVE  /\ pc'[e] \notin Past => err[e] = "none"
                        /\ pc'[e] \in Past /\ err[e] = "none" =>
                             /\ fin[e] /\ inq'[e] = 0
                             /\ ~ rst[Other(e)] => owed[e] = outq'[Other(e)]
      BY <1>2 DEF CopiedToTheEnd
    <3>1. CASE e = d
      BY <3>1, <2>2, <1>7
    <3>2. CASE e # d
      <4>1. inq'[e] = inq[e] /\ outq'[Other(e)] = outq[Other(e)] /\ pc'[e] = pc[e]
        BY <3>2, <1>3
      <4> QED
        BY <4>1 DEF RelayInv, CopiedToTheEnd
    <3> QED
      BY <3>1, <3>2
  <2>4. EndOfFileIsTold'
    BY <2>2, <1>2, <1>3, <1>7 DEF RelayInv, EndOfFileIsTold
  <2> QED
    BY <2>3, <2>4
<1>9. OneOutcomeEach' /\ ClosedLast'
  <2>1. d \notin received /\ \A k \in DOMAIN done : done[k] # d
    BY <1>7 DEF RelayInv, OneOutcomeEach, Past
  <2>2. \A k \in DOMAIN done : done[k] \in Sides
    BY <1>1 DEF TypeOK
  <2> QED
    BY <2>1, <2>2, <1>1, <1>2, <1>3 DEF RelayInv, OneOutcomeEach, ClosedLast, TypeOK
<1> QED
  BY <1>5, <1>6, <1>8, <1>9 DEF RelayInv

(* A step of the copier of direction d that leaves the data where it is:   *)
(* what is left to show is its own part of the invariant.                  *)
LEMMA StandStill ==
  ASSUME NEW d \in Sides, RelayInv,
         pc[d] # "ended",
         pc' = [pc EXCEPT ![d] = pc'[d]],
         pc'[d] \in Reading \cup Writing \cup Past,
         err' = [err EXCEPT ![d] = err'[d]],
         err'[d] \in {"none", "read", "write", "timeout"},
         err'[d] # "none" \/ Held(d)' = Held(d),
         Held(d)' <= Held(d),
         UNCHANGED <<idle, owed, fin, rst, inq, outq, eof, received, open>>
  PROVE  /\ AtMostOnce'
         /\ (err[d] = "none" \/ err'[d] # "none") => ExactlyOnce'
         /\ (finOut' = finOut /\ done' = done) => TypeOK'
         /\ done' = done => OneOutcomeEach' /\ ClosedLast'
<1>1. TypeOK /\ Shapes
  BY TypeShapes DEF RelayInv
<1>2. \A e \in Sides : e # d => pc'[e] = pc[e] /\ err'[e] = err[e] /\ Held(e)' = Held(e)
  BY <1>1 DEF TypeOK, Held
<1>3. \A e \in Sides : Held(e)' \in {0, 1} /\ Held(e)' <= Held(e)
  BY <1>1, <1>2 DEF Held, Shapes
<1>4. AtMostOnce'
  <2> SUFFICES ASSUME NEW e \in Sides
               PROVE  inq[e] + Held(e)' + outq[Other(e)] <= owed[e]
    BY DEF AtMostOnce
  <2>1. inq[e] + Held(e) + outq[Other(e)] <= owed[e]
    BY DEF RelayInv, AtMostOnce
  <2>2. /\ inq[e] \in Nat /\ Held(e) \in Nat /\ outq[Other(e)] \in Nat
        /\ owed[e] \in Nat
    BY <1>1, TwoSides DEF Shapes
  <2> QED
    BY <2>1, <2>2, <1>3
<1>5. (err[d] = "none" \/ err'[d] # "none") => ExactlyOnce'
  BY <1>2 DEF RelayInv, ExactlyOnce
<1>6. (finOut' = finOut /\ done' = done) => TypeOK'
  <2>1. pc' \in [Sides -> Reading \cup Writing \cup {"closeWrite", "report", "ended"}]
    BY <1>1 DEF TypeOK, Past
  <2>2. err' \in [Sides -> {"none", "read", "write", "timeout"}]
    BY <1>1 DEF TypeOK
  <2> QED
    BY <2>1, <2>2, <1>1 DEF TypeOK
<1>7. done' = done => OneOutcomeEach' /\ ClosedLast'
  <2>1. d \notin received /\ \A k \in DOMAIN done : done[k] \in Sides /\ done[k] # d
    BY <1>1 DEF RelayInv, OneOutcomeEach, TypeOK
  <2> QED
    BY <2>1, <1>1, <1>2 DEF RelayInv, OneOutcomeEach, ClosedLast, TypeOK
<1> QED
  BY <1>4, <1>5, <1>6, <1>7

(* The goroutine parks: nothing else changes.                              *)
LEMMA BlocksInv ==
  ASSUME NEW d \in Sides, RelayInv, ReadBlocks(d) \/ WriteBlocks(d) PROVE RelayInv'
<1>1. TypeOK /\ Shapes
  BY TypeShapes DEF RelayInv
<1>2. /\ UNCHANGED <<idle, owed, fin, rst, inq, outq, finOut, eof, err, done, received, open>>
      /\ pc[d] \notin Past /\ pc'[d] \notin Past
      /\ pc' = [pc EXCEPT ![d] = pc'[d]] /\ pc'[d] \in Reading \cup Writing
      /\ Held(d)' = Held(d)
  BY <1>1 DEF ReadBlocks, WriteBlocks, copyFrame, Reading, Writing, Past, Held, TypeOK
<1>3. /\ pc[d] # "ended" /\ err[d] = "none" /\ err' = [err EXCEPT ![d] = err'[d]]
      /\ Held(d)' <= Held(d)
  <2>1. pc[d] # "ended" /\ err[d] = "none"
    BY <1>2 DEF RelayInv, CopiedToTheEnd, Past
  <2>2. err' = [err EXCEPT ![d] = err'[d]]
    BY <1>1, <1>2 DEF TypeOK
  <2>3. Held(d)' <= Held(d)
    BY <1>1, <1>2 DEF Shapes
  <2> QED
    BY <2>1, <2>2, <2>3
<1>4. AtMostOnce' /\ ExactlyOnce' /\ TypeOK' /\ OneOutcomeEach' /\ ClosedLast'
  BY <1>2, <1>3, StandStill
<1>5. \A e \in Sides : e # d => pc'[e] = pc[e]
  BY <1>1, <1>2 DEF TypeOK
<1>6. CopiedToTheEnd'
  BY <1>2, <1>3, <1>5 DEF RelayInv, CopiedToTheEnd
<1>7. EndOfFileIsTold'
  BY <1>2, <1>5 DEF RelayInv, EndOfFileIsTold, Past
<1> QED
  BY <1>4, <1>6, <1>7 DEF RelayInv

(* io.Copy returns.  Without error it does so only at the end of a stream  *)
(* that was not reset, with nothing left to read and nothing in hand.      *)
LEMMA CopyReturnsInv ==
  ASSUME NEW d \in Sides, NEW e \in {"none", "read", "write", "timeout"}, RelayInv,
         pc[d] \in Reading \cup Writing, CopyReturns(d, e),
         e = "none" => pc[d] \in Reading /\ inq[d] = 0 /\ fin[d] /\ ~ rst[d]
  PROVE  RelayInv'
<1>1. TypeOK /\ Shapes
  BY TypeShapes DEF RelayInv
<1>2. /\ UNCHANGED <<idle, owed, fin, rst, inq, outq, finOut, eof, done, received, open>>
      /\ pc' = [pc EXCEPT ![d] = "closeWrite"] /\ err' = [err EXCEPT ![d] = e]
  BY DEF CopyReturns, copyFrame
<1>3. /\ pc'[d] = "closeWrite" /\ err'[d] = e /\ Held(d)' = 0
      /\ pc[d] \notin Past /\ pc[d] # "ended" /\ Held(d) \in {0, 1}
  <2>1. pc'[d] = "closeWrite" /\ err'[d] = e
    BY <1>1, <1>2 DEF TypeOK
  <2>2. Held(d)' = 0
    BY <2>1 DEF Held, Writing
  <2>3. pc[d] \notin Past /\ pc[d] # "ended"
    BY DEF Reading, Writing, Past
  <2>4. Held(d) \in {0, 1}
    BY <1>1 DEF Shapes
  <2> QED
    BY <2>1, <2>2, <2>3, <2>4
<1>4. err[d] = "none" /\ ~ finOut[Other(d)] /\ ~ eof[Other(d)]
  BY <1>3 DEF RelayInv, CopiedToTheEnd, EndOfFileIsTold, Past
<1>5. e = "none" => Held(d) = 0
  BY DEF Held, Reading, Writing
<1>6. AtMostOnce' /\ ExactlyOnce' /\ TypeOK' /\ OneOutcomeEach' /\ ClosedLast'
  <2>1. pc' = [pc EXCEPT ![d] = pc'[d]] /\ err' = [err EXCEPT ![d] = err'[d]]
    BY <1>2, <1>3
  <2>2. pc'[d] \in Past /\ (err'[d] # "none" \/ Held(d)' = Held(d)) /\ Held(d)' <= Held(d)
    BY <1>3, <1>5 DEF Past
  <2> QED
    BY <2>1, <2>2, <1>2, <1>3, <1>4, StandStill
<1>7. \A t \in Sides : t # d => pc'[t] = pc[t] /\ err'[t] = err[t]
  BY <1>1, <1>2 DEF TypeOK
<1>8. CopiedToTheEnd'
  <2>1. e = "none" /\ ~ rst[Other(d)] => owed[d] = outq[Other(d)]
    <3>1. e = "none" /\ ~ rst[Other(d)] => owed[d] = 0 + 0 + outq[Other(d)]
      BY <1>4, <1>5 DEF RelayInv, ExactlyOnce
    <3> QED
      BY <3>1, <1>1, TwoSides DEF Shapes
  <2> SUFFICES ASSUME NEW t \in Sides
               PROVE  /\ pc'[t] \notin Past => err'[t] = "none"
                      /\ pc'[t] \in Past /\ err'[t] = "none" =>
                           /\ fin[t] /\ inq[t] = 0
                           /\ ~ rst[Other(t)] => owed[t] = outq[Other(t)]
    BY <1>2 DEF CopiedToTheEnd
  <2>2. CASE t = d
    BY <2>1, <2>2, <1>3 DEF Past
  <2>3. CASE t # d
    BY <2>3, <1>7 DEF RelayInv, CopiedToTheEnd
  <2> QED
    BY <2>2, <2>3
<1>9. EndOfFileIsTold'
  <2> SUFFICES ASSUME NEW t \in Sides
               PROVE  /\ finOut[Other(t)] => pc'[t] \in {"report", "ended"}
                      /\ eof[Other(t)] => finOut[Other(t)]
                      /\ eof[Other(t)] /\ err'[t] = "none" => owed[t] = 0
    BY <1>2 DEF EndOfFileIsTold
  <2>1. CASE t = d
    BY <2>1, <1>4
  <2>2. CASE t # d
    BY <2>2, <1>7 DEF RelayInv, EndOfFileIsTold
  <2> QED
    BY <2>1, <2>2
<1> QED
  BY <1>6, <1>8, <1>9 DEF RelayInv

(* closeWrite tells the far peer, and the outcome goes into the channel,   *)
(* which has room: at most the other direction's is in it.                 *)
LEMMA FinishInv ==
  ASSUME NEW d \in Sides, RelayInv, CloseWrite(d) \/ Report(d) PROVE RelayInv'
<1>1. TypeOK /\ Shapes
  BY TypeShapes DEF RelayInv
<1>2. /\ UNCHANGED <<idle, owed, fin, rst, inq, outq, eof, err, received, open>>
      /\ pc[d] \in Past /\ pc[d] # "ended" /\ pc'[d] \in {"report", "ended"}
      /\ pc' = [pc EXCEPT ![d] = pc'[d]] /\ Held(d)' = Held(d)
  BY <1>1 DEF CloseWrite, Report, copyFrame, Past, Writing, Held, TypeOK
<1>3. \A t \in Sides : t # d => pc'[t] = pc[t]
  BY <1>1, <1>2 DEF TypeOK
<1>4. /\ AtMostOnce' /\ ExactlyOnce'
      /\ (finOut' = finOut /\ done' = done) => TypeOK'
      /\ done' = done => OneOutcomeEach' /\ ClosedLast'
  <2>1. /\ err' = [err EXCEPT ![d] = err'[d]] /\ err'[d] = err[d]
        /\ err'[d] \in {"none", "read", "write", "timeout"}
    BY <1>1, <1>2 DEF TypeOK
  <2>2. pc'[d] \in Past
    BY <1>2 DEF Past
  <2>3. Held(d)' <= Held(d)
    BY <1>1, <1>2 DEF Shapes
  <2> QED
    BY <2>1, <2>2, <2>3, <1>2, StandStill
<1>5. CopiedToTheEnd'
  BY <1>2, <1>3 DEF RelayInv, CopiedToTheEnd, Past
<1>6. CASE CloseWrite(d)
  <2>1. finOut' = [finOut EXCEPT ![Other(d)] = ~ rst[Other(d)]] /\ done' = done
        /\ pc[d] = "closeWrite"
    BY <1>6 DEF CloseWrite, copyFrame
  <2>2. finOut' \in [Sides -> BOOLEAN]
    BY <2>1, <1>1, TwoSides DEF TypeOK
  <2>3. TypeOK'
    <3>1. pc' \in [Sides -> Reading \cup Writing \cup {"closeWrite", "report", "ended"}]
      BY <1>1, <1>2 DEF TypeOK
    <3> QED
      BY <3>1, <2>1, <2>2, <1>1, <1>2 DEF TypeOK
  <2>4. ~ eof[Other(d)]
    BY <2>1 DEF RelayInv, EndOfFileIsTold
  <2>5. EndOfFileIsTold'
    <3> SUFFICES ASSUME NEW t \in Sides
                 PROVE  /\ finOut'[Other(t)] => pc'[t] \in {"report", "ended"}
                        /\ eof[Other(t)] => finOut'[Other(t)]
                        /\ eof[Other(t)] /\ err[t] = "none" => owed[t] = 0
      BY <1>2 DEF EndOfFileIsTold
    <3>1. CASE t = d
      BY <3>1, <2>4, <1>2
    <3>2. CASE t # d
      <4>1. finOut'[Other(t)] = finOut[Other(t)]
        BY <3>2, <2>1, <1>1, TwoSides DEF TypeOK
      <4> QED
        BY <3>2, <4>1, <1>3 DEF RelayInv, EndOfFileIsTold
    <3> QED
      BY <3>1, <3>2
  <2> QED
    BY <2>1, <2>3, <2>5, <1>4, <1>5 DEF RelayInv
<1>7. CASE Report(d)
  <2>1. done' = Append(done, d) /\ finOut' = finOut /\ pc'[d] = "ended"
    BY <1>7, <1>1 DEF Report, copyFrame, TypeOK
  <2>2. /\ d \notin received
        /\ \A k \in DOMAIN done : done[k] \in Sides /\ done[k] # d
    BY <1>1, <1>2 DEF RelayInv, OneOutcomeEach, TypeOK
  <2>3. Len(done) <= 1
    <3>1. SUFFICES ASSUME Len(done) >= 2 PROVE FALSE
      BY <1>1 DEF TypeOK
    <3>2. 1 \in DOMAIN done /\ 2 \in DOMAIN done
      BY <3>1, <1>1 DEF TypeOK
    <3>3. done[1] = Other(d) /\ done[2] = Other(d)
      BY <3>2, <2>2, TwoSides
    <3> QED
      BY <3>2, <3>3 DEF RelayInv, OneOutcomeEach
  <2>4. TypeOK'
    <3>1. pc' \in [Sides -> Reading \cup Writing \cup {"closeWrite", "report", "ended"}]
      BY <1>1, <1>2 DEF TypeOK
    <3>2. done' \in Seq(Sides) /\ Len(done') <= 2
      BY <2>1, <2>3, <1>1 DEF TypeOK
    <3> QED
      BY <3>1, <3>2, <2>1, <1>1, <1>2 DEF TypeOK
  <2>5. OneOutcomeEach'
    <3>2. /\ \A k \in DOMAIN done' : k \in DOMAIN done \/ k = Len(done) + 1
          /\ done'[Len(done) + 1] = d
      BY <2>1, <1>1 DEF TypeOK
    <3>3. \A k \in DOMAIN done : done'[k] = done[k]
      BY <2>1, <1>1 DEF TypeOK
    <3>1. \A k \in DOMAIN done' : done'[k] = d \/ (k \in DOMAIN done /\ done'[k] = done[k])
      BY <3>2, <3>3
    <3>4. \A k \in DOMAIN done' : pc'[done'[k]] = "ended" /\ done'[k] \notin received
      BY <3>1, <2>1, <2>2, <1>3 DEF RelayInv, OneOutcomeEach
    <3>5. \A j, k \in DOMAIN done' : done'[j] = done'[k] => j = k
      BY <3>1, <3>2, <3>3, <2>2 DEF RelayInv, OneOutcomeEach
    <3>6. \A t \in received : pc'[t] = "ended"
      BY <1>1, <1>3, <2>2 DEF RelayInv, OneOutcomeEach, TypeOK
    <3> QED
      BY <3>4, <3>5, <3>6, <1>2 DEF OneOutcomeEach
  <2>6. EndOfFileIsTold' /\ ClosedLast'
    BY <2>1, <1>2, <1>3 DEF RelayInv, EndOfFileIsTold, ClosedLast
  <2> QED
    BY <2>4, <2>5, <2>6, <1>4, <1>5 DEF RelayInv
<1> QED
  BY <1>6, <1>7

(* Every step of a copier.                                                 *)
LEMMA CopierInv ==
  ASSUME NEW d \in Sides, RelayInv, Copier(d) PROVE RelayInv'
<1> USE DEF Reading, Writing
<1>1. CASE ReadEOF(d)
  BY <1>1, CopyReturnsInv DEF ReadEOF
<1>2. CASE ReadFails(d)
  BY <1>2, CopyReturnsInv DEF ReadFails
<1>3. CASE WriteFails(d)
  BY <1>3, CopyReturnsInv DEF WriteFails
<1>4. CASE ReadTimesOut(d)
  BY <1>4, CopyReturnsInv DEF ReadTimesOut
<1>5. CASE WriteTimesOut(d)
  BY <1>5, CopyReturnsInv DEF WriteTimesOut
<1> QED
  BY <1>1, <1>2, <1>3, <1>4, <1>5, MoveInv, BlocksInv, FinishInv DEF Copier

(* The bridge receives an outcome.                                         *)
LEMMA ReceiveInv == ASSUME RelayInv, Receive PROVE RelayInv'
<1>1. TypeOK /\ Shapes
  BY TypeShapes DEF RelayInv
<1>2. /\ UNCHANGED <<idle, owed, fin, rst, inq, outq, finOut, eof, pc, err, open>>
      /\ done # <<>> /\ done' = Tail(done) /\ received' = received \cup {done[1]}
  BY <1>1 DEF Receive, TypeOK
<1>3. /\ 1 \in DOMAIN done /\ done[1] \in Sides
      /\ done' \in Seq(Sides) /\ Len(done') = Len(done) - 1
      /\ \A k \in DOMAIN done' : k + 1 \in DOMAIN done /\ k + 1 # 1 /\ done'[k] = done[k + 1]
  BY <1>1, <1>2 DEF TypeOK
<1>4. TypeOK'
  BY <1>1, <1>2, <1>3 DEF TypeOK
<1>5. AtMostOnce' /\ ExactlyOnce' /\ CopiedToTheEnd' /\ EndOfFileIsTold'
  BY <1>2 DEF RelayInv, AtMostOnce, ExactlyOnce, CopiedToTheEnd, EndOfFileIsTold, Held
<1>6. OneOutcomeEach'
  <2>1. \A k \in DOMAIN done' : pc[done'[k]] = "ended" /\ done'[k] \notin received'
    BY <1>2, <1>3 DEF RelayInv, OneOutcomeEach
  <2>2. \A j, k \in DOMAIN done' : done'[j] = done'[k] => j = k
    <3> SUFFICES ASSUME NEW j \in DOMAIN done', NEW k \in DOMAIN done', done'[j] = done'[k]
                 PROVE  j = k
      OBVIOUS
    <3>1. j + 1 = k + 1
      BY <1>3 DEF RelayInv, OneOutcomeEach
    <3>2. j \in Nat /\ k \in Nat
      BY <1>3
    <3> QED
      BY <3>1, <3>2
  <2>3. \A d \in received' : pc[d] = "ended"
    BY <1>2, <1>3 DEF RelayInv, OneOutcomeEach
  <2> QED
    BY <2>1, <2>2, <2>3, <1>2 DEF OneOutcomeEach
<1>7. ClosedLast'
  BY <1>1, <1>2, <1>3 DEF RelayInv, ClosedLast, TypeOK
<1> QED
  BY <1>4, <1>5, <1>6, <1>7 DEF RelayInv

(* The deferred closes.                                                    *)
LEMMA CloseInv == ASSUME RelayInv, CloseConns PROVE RelayInv'
<1>1. TypeOK /\ Shapes
  BY TypeShapes DEF RelayInv
<1>2. PICK s \in Sides : Close(s) /\ (s = "a" => ~ open["b"])
  BY TwoSides DEF CloseConns
<1>3. open' = [open EXCEPT ![s] = FALSE] /\ open' \in [Sides -> BOOLEAN]
  BY <1>1, <1>2 DEF Close, TypeOK
<1>4. ClosedLast'
  <2>1. received' = Sides
    BY <1>2 DEF CloseConns, ReceivedBoth, Close
  <2>2. ~ open'["a"] => ~ open'["b"]
    BY <1>1, <1>2, <1>3, TwoSides DEF RelayInv, ClosedLast, TypeOK
  <2> QED
    BY <2>1, <2>2 DEF ClosedLast
<1>5. CASE /\ rst' = [rst EXCEPT ![s] = TRUE]
           /\ \E left \in 0 .. outq[s] : outq' = [outq EXCEPT ![s] = left]
  <2>1. PICK left \in 0 .. outq[s] : outq' = [outq EXCEPT ![s] = left]
    BY <1>5
  <2>2. UNCHANGED <<idle, owed, fin, inq, finOut, eof, pc, err, done, received>>
    BY <1>2 DEF Close
  <2> QED
    BY <2>1, <2>2, <1>3, <1>4, <1>5, ResetInv DEF RelayInv
<1>6. CASE UNCHANGED <<rst, outq>>
  <2>1. UNCHANGED <<idle, owed, fin, rst, inq, outq, finOut, eof, pc, err, done, received>>
    BY <1>2, <1>6 DEF Close
  <2>2. TypeOK'
    BY <1>1, <1>3, <2>1 DEF TypeOK
  <2>3. AtMostOnce' /\ ExactlyOnce' /\ CopiedToTheEnd' /\ EndOfFileIsTold' /\ OneOutcomeEach'
    BY <2>1 DEF RelayInv, AtMostOnce, ExactlyOnce, CopiedToTheEnd, EndOfFileIsTold,
                OneOutcomeEach, Held
  <2> QED
    BY <2>2, <2>3, <1>4 DEF RelayInv
<1> QED
  BY <1>2, <1>5, <1>6 DEF Close

(* RelayInv holds at every moment of a bridge, whatever its peers do.      *)
THEOREM Invariance == Safety => []RelayInv
<1>1. RelayInv /\ [Next]_vars => RelayInv'
  <2> SUFFICES ASSUME RelayInv, [Next]_vars PROVE RelayInv'
    OBVIOUS
  <2>1. CASE Next
    BY <2>1, PeerInv, CopierInv, ReceiveInv, CloseInv DEF Next
  <2>2. CASE UNCHANGED vars
    BY <2>2 DEF vars, RelayInv, TypeOK, AtMostOnce, ExactlyOnce, CopiedToTheEnd,
                EndOfFileIsTold, OneOutcomeEach, ClosedLast, Held
  <2> QED
    BY <2>1, <2>2
<1> QED
  BY InitInv, <1>1, PTL DEF Safety

(* Exactly once (the two io.Copy of copyBidirectionalResult): no chunk is  *)
(* lost, repeated or overtaken until a reset or a failure.                 *)
THEOREM DeliversExactlyOnce == Spec => []ExactlyOnce
<1>1. RelayInv => ExactlyOnce
  BY DEF RelayInv
<1> QED
  BY <1>1, Invariance, PTL DEF Spec

(* A peer that was told of an end of file too early has a bridge that will *)
(* return an error (copyResult.Err).                                       *)
THEOREM TruncationIsReported == Spec => []TruncationReported
<1>1. RelayInv => TruncationReported
  <2> SUFFICES ASSUME RelayInv, NEW d \in Sides, eof[Other(d)], ResultNil
               PROVE  fin[d] /\ ~ (owed[d] > 0)
    BY DEF TruncationReported
  <2>1. err[d] = "none"
    BY DEF ResultNil, Sides
  <2>2. pc[d] \in Past /\ owed[d] = 0
    BY <2>1 DEF RelayInv, EndOfFileIsTold, Past
  <2>3. fin[d]
    BY <2>1, <2>2 DEF RelayInv, CopiedToTheEnd
  <2>4. owed[d] \in Nat
    BY TypeShapes DEF RelayInv, Shapes
  <2> QED
    BY <2>2, <2>3, <2>4
<1> QED
  BY <1>1, Invariance, PTL DEF Spec

(* A bridge that returns nil has carried both streams to their ends.       *)
THEOREM CleanIsComplete == Spec => []CleanMeansComplete
<1>1. RelayInv => CleanMeansComplete
  <2> SUFFICES ASSUME RelayInv, Returned, ResultNil, NEW d \in Sides
               PROVE  /\ fin[d] /\ inq[d] = 0
                      /\ ~ rst[Other(d)] => owed[d] = outq[Other(d)]
    BY DEF CleanMeansComplete
  <2>1. pc[d] \in Past
    BY TwoSides DEF RelayInv, ClosedLast, OneOutcomeEach, Returned, Past
  <2>2. err[d] = "none"
    BY DEF ResultNil, Sides
  <2> QED
    BY <2>1, <2>2 DEF RelayInv, CopiedToTheEnd
<1> QED
  BY <1>1, Invariance, PTL DEF Spec

(* No conn is closed while a direction is still at work on it: both        *)
(* outcomes are received before the deferred closes run.                   *)
THEOREM TeardownIsLast == Spec => NoEarlyTeardown
<1>1. RelayInv /\ [Next]_vars =>
        [\A s \in Sides : open[s] /\ ~ open'[s] =>
           \A d \in Sides : pc[d] = "ended"]_vars
  <2> SUFFICES ASSUME RelayInv, Next, NEW s \in Sides, open[s] /\ ~ open'[s], NEW d \in Sides
               PROVE  pc[d] = "ended"
    OBVIOUS
  <2>1. CASE CloseConns
    BY <2>1 DEF CloseConns, ReceivedBoth, RelayInv, OneOutcomeEach
  <2>2. ASSUME open' = open PROVE FALSE
    BY <2>2
  <2> QED
    BY <2>1, <2>2 DEF Next, Peer, PeerSends, PeerShutsDown, PeerReads, PeerReadsEOF, PeerResets,
       Copier, Read, ReadEOF, ReadFails, ReadBlocks, ReadTimesOut, Write, WriteFails,
       WriteBlocks, WriteTimesOut, CloseWrite, Report, CopyReturns, copyFrame, Receive
<1> QED
  BY <1>1, Invariance, PTL DEF Spec, Safety, NoEarlyTeardown

(* Every value of every variable, the bounds on data included, is as       *)
(* TypeOK says.                                                            *)
THEOREM TypeCorrect == Spec => []TypeOK
<1>1. RelayInv => TypeOK
  BY DEF RelayInv
<1> QED
  BY <1>1, Invariance, PTL DEF Spec

-----------------------------------------------------------------------------
(* Why a bridge ends: what BridgeEnds rests on besides fairness.           *)

(* The steps a goroutine has before it when no more data comes, at most.   *)
Ahead(p) == CASE p = "write" -> 8 [] p = "writeWait" -> 7
              [] p = "read" -> 5 [] p = "readWait" -> 4
              [] p = "closeWrite" -> 3 [] p = "report" -> 2 [] p = "ended" -> 0

Bit(b) == IF b THEN 1 ELSE 0

(* The steps left on one side if no more is sent: each chunk has to be     *)
(* read, written and read by the far peer, with a wait at each place.      *)
StepsLeftOn(s) ==
  (5 * inq[s] + Ahead(pc[s])) + outq[s]
    + (Bit(~ fin[s]) + Bit(~ rst[s])) + (Bit(~ eof[s]) + Bit(open[s]))

StepsLeft == (StepsLeftOn("a") + StepsLeftOn("b")) + Len(done)

(* An outcome is not lost: a goroutine that is through has been heard or   *)
(* will be.                                                                *)
EachIsHeard == \A d \in Sides :
  pc[d] = "ended" => d \in received \/ \E k \in DOMAIN done : done[k] = d

(* A place is a number of steps, now and in the next state.                *)
LEMMA AheadFacts ==
  ASSUME NEW s \in Sides
  PROVE  /\ TypeOK => Ahead(pc[s]) \in Nat
         /\ TypeOK' => Ahead(pc'[s]) \in Nat
<1>1. ASSUME NEW p \in {"read", "readWait", "write", "writeWait", "closeWrite", "report", "ended"}
      PROVE  Ahead(p) \in Nat
  BY <1>1 DEF Ahead
<1>2. TypeOK => pc[s] \in {"read", "readWait", "write", "writeWait", "closeWrite", "report", "ended"}
  BY DEF TypeOK, Reading, Writing
<1>3. TypeOK' => pc'[s] \in {"read", "readWait", "write", "writeWait", "closeWrite", "report", "ended"}
  BY DEF TypeOK, Reading, Writing
<1> QED
  BY <1>1, <1>2, <1>3

(* The sum, seen from either side.                                         *)
StepsAdd ==
  /\ \A s \in Sides : StepsLeftOn(s) \in Nat
  /\ Len(done) \in Nat
  /\ \A s \in Sides : StepsLeft = (StepsLeftOn(s) + StepsLeftOn(Other(s))) + Len(done)

(* The flags count as numbers and the places are the seven there are.      *)
LEMMA StepsLeftFacts == TypeOK => StepsAdd
<1> SUFFICES ASSUME TypeOK PROVE StepsAdd
  OBVIOUS
<1>1. ASSUME NEW s \in Sides PROVE StepsLeftOn(s) \in Nat
  <2>1. /\ inq[s] \in Nat /\ outq[s] \in Nat
    BY <1>1, RelayAssumption DEF TypeOK
  <2>2. Ahead(pc[s]) \in Nat
    BY <1>1, AheadFacts
  <2>3. Bit(~ fin[s]) \in Nat /\ Bit(~ rst[s]) \in Nat /\ Bit(~ eof[s]) \in Nat /\ Bit(open[s]) \in Nat
    BY DEF Bit
  <2> QED
    BY <2>1, <2>2, <2>3 DEF StepsLeftOn
<1>2. Len(done) \in Nat
  BY DEF TypeOK
<1>3. ASSUME NEW s \in Sides
      PROVE  StepsLeft = (StepsLeftOn(s) + StepsLeftOn(Other(s))) + Len(done)
  <2>1. StepsLeftOn("a") \in Nat /\ StepsLeftOn("b") \in Nat
    BY <1>1, TwoSides
  <2> QED
    BY <1>2, <2>1 DEF StepsLeft, Sides, Other
<1> QED
  BY <1>1, <1>2, <1>3 DEF StepsAdd

(* The same after a step.                                                  *)
LEMMA StepsLeftNext == TypeOK' => StepsAdd'
BY StepsLeftFacts, PTL

(* What a step does to the three parts of the sum: it takes from one side, *)
(* moves a chunk across or an outcome into the channel at a loss, or takes *)
(* an outcome out of it.                                                   *)
Takes(s) ==
  /\ StepsLeftOn(Other(s))' = StepsLeftOn(Other(s))
  /\ \/ StepsLeftOn(s)' < StepsLeftOn(s) /\ done' = done
     \/ StepsLeftOn(s)' + 1 < StepsLeftOn(s) /\ Len(done') = Len(done) + 1
     \/ StepsLeftOn(s)' = StepsLeftOn(s) /\ Len(done') < Len(done)

MovesAcross(s) ==
  /\ StepsLeftOn(s)' + 1 < StepsLeftOn(s)
  /\ StepsLeftOn(Other(s))' = StepsLeftOn(Other(s)) + 1
  /\ done' = done

(* Each of these leaves fewer steps.                                       *)
LEMMA FewerLeft ==
  ASSUME TypeOK, TypeOK', NEW s \in Sides, Takes(s) \/ MovesAcross(s)
  PROVE  StepsLeft' < StepsLeft
<1> DEFINE x == StepsLeftOn(s)
           y == StepsLeftOn(Other(s))
           l == Len(done)
<1>1. StepsAdd /\ StepsAdd'
  BY StepsLeftFacts, StepsLeftNext
<1>2. x \in Nat /\ y \in Nat /\ l \in Nat /\ StepsLeft = (x + y) + l
  BY <1>1, TwoSides DEF StepsAdd
<1>3. x' \in Nat /\ y' \in Nat /\ l' \in Nat /\ StepsLeft' = (x' + y') + l'
  BY <1>1, TwoSides DEF StepsAdd
<1>4. \/ y' = y /\ x' < x /\ l' = l
      \/ y' = y /\ x' + 1 < x /\ l' = l + 1
      \/ y' = y /\ x' = x /\ l' < l
      \/ y' = y + 1 /\ x' + 1 < x /\ l' = l
  BY DEF Takes, MovesAcross
<1>5. \A a, b, c, e, f, g \in Nat :
        \/ e = b /\ f < a /\ g = c
        \/ e = b /\ f + 1 < a /\ g = c + 1
        \/ e = b /\ f = a /\ g < c
        \/ e = b + 1 /\ f + 1 < a /\ g = c
        => (f + e) + g < (a + b) + c
  OBVIOUS
<1>6. (x' + y') + l' < (x + y) + l
  <2> HIDE DEF x, y, l
  <2> QED
    BY <1>2, <1>3, <1>4, <1>5
<1> QED
  BY <1>2, <1>3, <1>6

(* A chunk that a peer sends is worth five steps; whatever else a peer     *)
(* does makes the way shorter.                                             *)
LEMMA PeerTakes ==
  ASSUME TypeOK, TypeOK', NEW s \in Sides, Peer(s)
  PROVE  Takes(s) \/ (PeerSends(s) /\ StepsLeft' = StepsLeft + 5)
<1> DEFINE o == Other(s)
<1>1. /\ inq[s] \in Nat /\ outq[s] \in Nat
      /\ outq'[s] \in Nat /\ Ahead(pc[s]) \in Nat
      /\ o \in Sides /\ o # s
  <2>1. Ahead(pc[s]) \in Nat /\ o \in Sides /\ o # s
    BY AheadFacts, TwoSides
  <2> QED
    BY <2>1, RelayAssumption DEF TypeOK
<1>2. Bit(~ fin[s]) \in Nat /\ Bit(~ rst[s]) \in Nat /\ Bit(~ eof[s]) \in Nat /\ Bit(open[s]) \in Nat
  BY DEF Bit
<1>3. CASE PeerSends(s)
  <2>1. /\ inq'[s] = inq[s] + 1 /\ inq'[o] = inq[o]
        /\ UNCHANGED <<fin, rst, outq, eof, pc, done, open>>
    BY <1>1, <1>3 DEF PeerSends, TypeOK
  <2>2. StepsLeftOn(o)' = StepsLeftOn(o)
    BY <2>1 DEF StepsLeftOn
  <2>3. StepsLeftOn(s)' = StepsLeftOn(s) + 5
    BY <1>1, <1>2, <2>1 DEF StepsLeftOn
  <2>4. /\ StepsLeftOn(s) \in Nat /\ StepsLeftOn(o) \in Nat /\ Len(done) \in Nat
        /\ StepsLeft = (StepsLeftOn(s) + StepsLeftOn(o)) + Len(done)
        /\ StepsLeft' = (StepsLeftOn(s)' + StepsLeftOn(o)') + Len(done')
    BY <1>1, StepsLeftFacts, StepsLeftNext DEF StepsAdd
  <2> QED
    BY <1>3, <2>1, <2>2, <2>3, <2>4
<1>4. CASE PeerShutsDown(s)
  <2>1. /\ ~ fin[s] /\ fin'[s] = TRUE /\ fin'[o] = fin[o]
        /\ UNCHANGED <<inq, rst, outq, eof, pc, done, open>>
    BY <1>1, <1>4 DEF PeerShutsDown, TypeOK
  <2>2. StepsLeftOn(o)' = StepsLeftOn(o)
    BY <2>1 DEF StepsLeftOn
  <2>3. Bit(~ fin[s]) = 1 /\ Bit(~ fin'[s]) = 0
    BY <2>1 DEF Bit
  <2>4. StepsLeftOn(s)' < StepsLeftOn(s)
    BY <1>1, <1>2, <2>1, <2>3 DEF StepsLeftOn
  <2> QED
    BY <2>1, <2>2, <2>4 DEF Takes
<1>5. CASE PeerReads(s)
  <2>1. /\ outq'[s] = outq[s] - 1 /\ outq'[o] = outq[o]
        /\ UNCHANGED <<inq, rst, fin, eof, pc, done, open>>
    BY <1>1, <1>5 DEF PeerReads, TypeOK
  <2>2. StepsLeftOn(o)' = StepsLeftOn(o)
    BY <2>1 DEF StepsLeftOn
  <2>3. StepsLeftOn(s)' < StepsLeftOn(s)
    BY <1>1, <1>2, <2>1 DEF StepsLeftOn
  <2> QED
    BY <2>1, <2>2, <2>3 DEF Takes
<1>6. CASE PeerReadsEOF(s)
  <2>1. /\ ~ eof[s] /\ eof'[s] = TRUE /\ eof'[o] = eof[o]
        /\ UNCHANGED <<inq, rst, fin, outq, pc, done, open>>
    BY <1>1, <1>6 DEF PeerReadsEOF, TypeOK
  <2>2. StepsLeftOn(o)' = StepsLeftOn(o)
    BY <2>1 DEF StepsLeftOn
  <2>3. Bit(~ eof[s]) = 1 /\ Bit(~ eof'[s]) = 0
    BY <2>1 DEF Bit
  <2>4. StepsLeftOn(s)' < StepsLeftOn(s)
    BY <1>1, <1>2, <2>1, <2>3 DEF StepsLeftOn
  <2> QED
    BY <2>1, <2>2, <2>4 DEF Takes
<1>7. CASE PeerResets(s)
  <2>1. /\ ~ rst[s] /\ rst'[s] = TRUE /\ rst'[o] = rst[o]
        /\ outq'[s] = 0 /\ outq'[o] = outq[o]
        /\ UNCHANGED <<inq, fin, eof, pc, done, open>>
    BY <1>1, <1>7 DEF PeerResets, TypeOK
  <2>2. StepsLeftOn(o)' = StepsLeftOn(o)
    BY <2>1 DEF StepsLeftOn
  <2>3. Bit(~ rst[s]) = 1 /\ Bit(~ rst'[s]) = 0
    BY <2>1 DEF Bit
  <2>4. StepsLeftOn(s)' < StepsLeftOn(s)
    BY <1>1, <1>2, <2>1, <2>3 DEF StepsLeftOn
  <2> QED
    BY <2>1, <2>2, <2>4 DEF Takes
<1> QED
  BY <1>3, <1>4, <1>5, <1>6, <1>7 DEF Peer

(* So does every step of a goroutine: a chunk that it takes is one less to *)
(* read, one that it passes on is worth less at the far side, and after a  *)
(* wait comes the chunk, the room or the end.                              *)
LEMMA CopierTakes ==
  ASSUME TypeOK, TypeOK', NEW d \in Sides, Copier(d)
  PROVE  Takes(d) \/ MovesAcross(d)
<1> DEFINE o == Other(d)
           rest == (Bit(~ fin[d]) + Bit(~ rst[d])) + (Bit(~ eof[d]) + Bit(open[d]))
<1>1. /\ inq[d] \in Nat /\ outq[d] \in Nat /\ outq[o] \in Nat
      /\ rest \in Nat
      /\ o \in Sides /\ o # d
  <2>1. Bit(~ fin[d]) \in Nat /\ Bit(~ rst[d]) \in Nat /\ Bit(~ eof[d]) \in Nat /\ Bit(open[d]) \in Nat
    BY DEF Bit
  <2>2. rest \in Nat
    BY <2>1
  <2>3. o \in Sides /\ o # d
    BY TwoSides
  <2>4. /\ inq[d] \in Nat /\ outq[d] \in Nat /\ outq[o] \in Nat
    BY <2>3, RelayAssumption DEF TypeOK
  <2> QED
    BY <2>2, <2>3, <2>4
<1>2. UNCHANGED <<fin, rst, eof, open>>
  BY DEF Copier, Read, ReadEOF, ReadFails, ReadBlocks, ReadTimesOut, Write, WriteFails,
         WriteBlocks, WriteTimesOut, CloseWrite, Report, CopyReturns, copyFrame
<1>3. rest' = rest
  BY <1>2
<1>4. /\ StepsLeftOn(d) = 5 * inq[d] + Ahead(pc[d]) + outq[d] + rest
      /\ StepsLeftOn(d)' = 5 * inq'[d] + Ahead(pc'[d]) + outq'[d] + rest
  <2>1. rest' = (Bit(~ fin'[d]) + Bit(~ rst'[d])) + (Bit(~ eof'[d]) + Bit(open'[d]))
    BY <1>2
  <2>2. Bit(~ fin[d]) \in Nat /\ Bit(~ rst[d]) \in Nat /\ Bit(~ eof[d]) \in Nat /\ Bit(open[d]) \in Nat
    BY DEF Bit
  <2>3. Ahead(pc[d]) \in Nat /\ Ahead(pc'[d]) \in Nat
    BY AheadFacts
  <2>4. inq'[d] \in Nat /\ outq'[d] \in Nat
    BY RelayAssumption DEF TypeOK
  <2> QED
    BY <1>1, <1>2, <2>1, <2>2, <2>3, <2>4 DEF StepsLeftOn
<1> HIDE DEF rest
<1>5. /\ Ahead("write") = 8 /\ Ahead("writeWait") = 7 /\ Ahead("read") = 5
      /\ Ahead("readWait") = 4 /\ Ahead("closeWrite") = 3 /\ Ahead("report") = 2
      /\ Ahead("ended") = 0
  BY DEF Ahead
<1>6. ASSUME NEW p, pc' = [pc EXCEPT ![d] = p]
      PROVE  pc'[d] = p /\ pc'[o] = pc[o]
  BY <1>1, <1>6 DEF TypeOK
<1>7. ASSUME inq'[o] = inq[o], pc'[o] = pc[o]
      PROVE  /\ outq'[o] = outq[o] => StepsLeftOn(o)' = StepsLeftOn(o)
             /\ outq'[o] = outq[o] + 1 => StepsLeftOn(o)' = StepsLeftOn(o) + 1
  <2>1. Bit(~ fin[o]) \in Nat /\ Bit(~ rst[o]) \in Nat /\ Bit(~ eof[o]) \in Nat /\ Bit(open[o]) \in Nat
    BY DEF Bit
  <2>2. Ahead(pc[o]) \in Nat /\ inq[o] \in Nat
    <3>1. Ahead(pc[o]) \in Nat
      BY <1>1, AheadFacts
    <3> QED
      BY <1>1, <3>1, RelayAssumption DEF TypeOK
  <2> QED
    BY <1>1, <1>2, <1>7, <2>1, <2>2 DEF StepsLeftOn

<1>8. ASSUME NEW p, pc' = [pc EXCEPT ![d] = p], outq' = outq, done' = done,
             \/ inq' = inq /\ Ahead(p) < Ahead(pc[d])
             \/ inq[d] > 0 /\ inq' = [inq EXCEPT ![d] = @ - 1] /\ Ahead(p) < Ahead(pc[d]) + 5,
             Ahead(p) \in Nat, Ahead(pc[d]) \in Nat
      PROVE  Takes(d)
  <2>1. pc'[d] = p /\ pc'[o] = pc[o]
    BY <1>6, <1>8
  <2>2. inq'[o] = inq[o]
    BY <1>1, <1>8 DEF TypeOK
  <2>3. \/ inq'[d] = inq[d] /\ Ahead(p) < Ahead(pc[d])
        \/ inq'[d] = inq[d] - 1 /\ Ahead(p) < Ahead(pc[d]) + 5
    BY <1>1, <1>8 DEF TypeOK
  <2>4. StepsLeftOn(d)' < StepsLeftOn(d)
    BY <1>1, <1>4, <1>8, <2>1, <2>3
  <2>5. StepsLeftOn(o)' = StepsLeftOn(o)
    BY <1>7, <1>8, <2>1, <2>2
  <2> QED
    BY <1>8, <2>4, <2>5 DEF Takes
<1>9. CASE Read(d)
  <2>1. pc[d] \in {"read", "readWait"} /\ pc' = [pc EXCEPT ![d] = "write"]
        /\ outq' = outq /\ done' = done /\ inq[d] > 0 /\ inq' = [inq EXCEPT ![d] = @ - 1]
    BY <1>9 DEF Read, Reading
  <2>2. Ahead("write") < Ahead(pc[d]) + 5 /\ Ahead(pc[d]) \in Nat /\ Ahead("write") \in Nat
    BY <1>5, <2>1
  <2> QED
    BY <1>8, <2>1, <2>2
<1>10. CASE ReadEOF(d) \/ ReadFails(d) \/ ReadTimesOut(d) \/ WriteFails(d) \/ WriteTimesOut(d)
  <2>1. pc[d] \in {"read", "readWait", "write", "writeWait"}
        /\ pc' = [pc EXCEPT ![d] = "closeWrite"]
        /\ outq' = outq /\ done' = done /\ inq' = inq
    BY <1>10 DEF ReadEOF, ReadFails, ReadTimesOut, WriteFails, WriteTimesOut, CopyReturns,
                 Reading, Writing
  <2>2. Ahead("closeWrite") < Ahead(pc[d]) /\ Ahead(pc[d]) \in Nat /\ Ahead("closeWrite") \in Nat
    BY <1>5, <2>1
  <2> QED
    BY <1>8, <2>1, <2>2
<1>11. CASE ReadBlocks(d)
  <2>1. pc[d] = "read" /\ pc' = [pc EXCEPT ![d] = "readWait"]
        /\ outq' = outq /\ done' = done /\ inq' = inq
    BY <1>11 DEF ReadBlocks
  <2>2. Ahead("readWait") < Ahead(pc[d]) /\ Ahead(pc[d]) \in Nat /\ Ahead("readWait") \in Nat
    BY <1>5, <2>1
  <2> QED
    BY <1>8, <2>1, <2>2
<1>12. CASE WriteBlocks(d)
  <2>1. pc[d] = "write" /\ pc' = [pc EXCEPT ![d] = "writeWait"]
        /\ outq' = outq /\ done' = done /\ inq' = inq
    BY <1>12 DEF WriteBlocks
  <2>2. Ahead("writeWait") < Ahead(pc[d]) /\ Ahead(pc[d]) \in Nat /\ Ahead("writeWait") \in Nat
    BY <1>5, <2>1
  <2> QED
    BY <1>8, <2>1, <2>2
<1>13. CASE CloseWrite(d)
  <2>1. pc[d] = "closeWrite" /\ pc' = [pc EXCEPT ![d] = "report"]
        /\ outq' = outq /\ done' = done /\ inq' = inq
    BY <1>13 DEF CloseWrite
  <2>2. Ahead("report") < Ahead(pc[d]) /\ Ahead(pc[d]) \in Nat /\ Ahead("report") \in Nat
    BY <1>5, <2>1
  <2> QED
    BY <1>8, <2>1, <2>2
<1>14. CASE Write(d)
  <2>1. /\ pc[d] \in {"write", "writeWait"} /\ pc' = [pc EXCEPT ![d] = "read"]
        /\ outq' = [outq EXCEPT ![o] = @ + 1] /\ done' = done /\ inq' = inq
    BY <1>14 DEF Write, Writing
  <2>2. pc'[d] = "read" /\ pc'[o] = pc[o] /\ inq'[d] = inq[d] /\ inq'[o] = inq[o]
    BY <1>6, <2>1
  <2>3. outq'[d] = outq[d] /\ outq'[o] = outq[o] + 1
    BY <1>1, <2>1 DEF TypeOK
  <2>4. StepsLeftOn(d)' + 1 < StepsLeftOn(d)
    <3>1. pc[d] = "write" \/ pc[d] = "writeWait"
      BY <2>1
    <3> QED
      BY <1>1, <1>4, <1>5, <2>2, <2>3, <3>1
  <2>5. StepsLeftOn(o)' = StepsLeftOn(o) + 1
    BY <1>7, <2>2, <2>3
  <2> QED
    BY <2>1, <2>4, <2>5 DEF MovesAcross
<1>15. CASE Report(d)
  <2>1. /\ pc[d] = "report" /\ pc' = [pc EXCEPT ![d] = "ended"]
        /\ outq' = outq /\ inq' = inq /\ done' = Append(done, d)
    BY <1>15 DEF Report
  <2>2. pc'[d] = "ended" /\ pc'[o] = pc[o]
    BY <1>6, <2>1
  <2>3. Len(done') = Len(done) + 1
    BY <2>1 DEF TypeOK
  <2>4. StepsLeftOn(d)' + 1 < StepsLeftOn(d)
    <3>1. inq'[d] = inq[d] /\ outq'[d] = outq[d] /\ Ahead(pc[d]) = 2 /\ Ahead(pc'[d]) = 0
      BY <1>5, <2>1, <2>2
    <3> QED
      BY <1>1, <1>4, <3>1
  <2>5. StepsLeftOn(o)' = StepsLeftOn(o)
    BY <1>7, <2>1, <2>2
  <2> QED
    BY <2>3, <2>4, <2>5 DEF Takes
<1> QED
  BY <1>9, <1>10, <1>11, <1>12, <1>13, <1>14, <1>15 DEF Copier

(* The receive takes an outcome from the channel, a close a descriptor.    *)
LEMMA BridgeTakes ==
  ASSUME TypeOK, TypeOK', Receive \/ CloseConns
  PROVE  \E s \in Sides : Takes(s)
<1>1. CASE Receive
  <2>1. UNCHANGED <<fin, rst, inq, outq, eof, pc, open>> /\ done # <<>> /\ done' = Tail(done)
    BY <1>1 DEF Receive
  <2>2. \A s \in Sides : StepsLeftOn(s)' = StepsLeftOn(s)
    BY <2>1 DEF StepsLeftOn
  <2>3. Len(done') < Len(done)
    BY <2>1 DEF TypeOK
  <2> QED
    BY <2>2, <2>3, TwoSides DEF Takes
<1>2. ASSUME NEW s \in Sides, Close(s)
      PROVE  Takes(s)
  <2> DEFINE o == Other(s)
  <2>1. o \in Sides /\ o # s
    BY TwoSides
  <2>2. /\ open[s] /\ open'[s] = FALSE /\ open'[o] = open[o] /\ rst'[o] = rst[o] /\ outq'[o] = outq[o]
        /\ UNCHANGED <<inq, fin, eof, pc, done>>
        /\ outq'[s] <= outq[s] /\ (rst[s] => rst'[s])
        /\ inq[s] \in Nat /\ outq[s] \in Nat /\ outq'[s] \in Nat
    BY <1>2, <2>1 DEF Close, TypeOK
  <2>3. StepsLeftOn(o)' = StepsLeftOn(o)
    BY <2>2 DEF StepsLeftOn
  <2>4. /\ Bit(open[s]) = 1 /\ Bit(open'[s]) = 0 /\ Bit(~ rst'[s]) <= Bit(~ rst[s])
        /\ Bit(~ fin[s]) \in Nat /\ Bit(~ rst[s]) \in Nat /\ Bit(~ eof[s]) \in Nat
        /\ Bit(~ rst'[s]) \in Nat
    BY <2>2 DEF Bit
  <2>5. Ahead(pc[s]) \in Nat
    BY AheadFacts
  <2>6. StepsLeftOn(s)' < StepsLeftOn(s)
    <3> DEFINE before == 5 * inq[s] + Ahead(pc[s])
    <3>1. before \in Nat
      BY <2>2, <2>5
    <3>2. StepsLeftOn(s)' = before + outq'[s] + (Bit(~ fin[s]) + Bit(~ rst'[s]))
                              + (Bit(~ eof[s]) + Bit(open'[s]))
      BY <2>2 DEF StepsLeftOn
    <3>3. StepsLeftOn(s) = before + outq[s] + (Bit(~ fin[s]) + Bit(~ rst[s]))
                             + (Bit(~ eof[s]) + Bit(open[s]))
      BY DEF StepsLeftOn
    <3> HIDE DEF before
    <3> QED
      BY <2>2, <2>4, <3>1, <3>2, <3>3
  <2> QED
    BY <2>2, <2>3, <2>6 DEF Takes
<1> QED
  BY <1>1, <1>2, TwoSides DEF CloseConns

(* Every step but a peer's sending leaves fewer steps than there were, and *)
(* each chunk sent adds five: no goroutine spins, no peer keeps a bridge   *)
(* going except by sending (main.go:547-555 sets the deadlines anew for    *)
(* it), and all that BridgeEnds takes for granted besides its premise is   *)
(* that who can move does.                                                 *)
THEOREM EveryStepCounts ==
  Spec => /\ [](StepsLeft \in Nat)
          /\ [][\/ StepsLeft' < StepsLeft
                \/ \E s \in Sides : PeerSends(s) /\ StepsLeft' = StepsLeft + 5]_vars
<1>1. RelayInv => StepsLeft \in Nat
  <2> SUFFICES ASSUME RelayInv PROVE StepsLeft \in Nat
    OBVIOUS
  <2>1. StepsAdd
    BY StepsLeftFacts DEF RelayInv
  <2>2. /\ StepsLeftOn("a") \in Nat /\ StepsLeftOn(Other("a")) \in Nat /\ Len(done) \in Nat
        /\ StepsLeft = (StepsLeftOn("a") + StepsLeftOn(Other("a"))) + Len(done)
    BY <2>1, TwoSides DEF StepsAdd
  <2> QED
    BY <2>2
<1>2. RelayInv /\ RelayInv' /\ [Next]_vars =>
        [\/ StepsLeft' < StepsLeft
         \/ \E s \in Sides : PeerSends(s) /\ StepsLeft' = StepsLeft + 5]_vars
  <2> SUFFICES ASSUME RelayInv, RelayInv', Next
               PROVE  \/ StepsLeft' < StepsLeft
                      \/ \E s \in Sides : PeerSends(s) /\ StepsLeft' = StepsLeft + 5
    OBVIOUS
  <2>1. TypeOK /\ TypeOK'
    BY DEF RelayInv
  <2>2. \E s \in Sides : \/ Takes(s) \/ MovesAcross(s)
                         \/ PeerSends(s) /\ StepsLeft' = StepsLeft + 5
    BY <2>1, PeerTakes, CopierTakes, BridgeTakes DEF Next
  <2> QED
    BY <2>1, <2>2, FewerLeft
<1> QED
  BY <1>1, <1>2, Invariance, PTL DEF Spec, Safety

(* The receives of copyBidirectionalResult never wait in vain: until both  *)
(* outcomes are received, one is in the channel or a goroutine is still    *)
(* under way.                                                              *)
THEOREM NobodyWaitsInVain ==
  Spec => [](ReceivedBoth \/ done # <<>> \/ \E d \in Sides : pc[d] # "ended")
<1>1. Init => EachIsHeard
  BY DEF Init, EachIsHeard
<1>2. RelayInv /\ EachIsHeard /\ [Next]_vars => EachIsHeard'
  <2> SUFFICES ASSUME RelayInv, EachIsHeard, [Next]_vars, NEW d \in Sides, pc'[d] = "ended"
               PROVE  d \in received' \/ \E k \in DOMAIN done' : done'[k] = d
    BY DEF EachIsHeard
  <2>1. done \in Seq(Sides) /\ pc \in [Sides -> Reading \cup Writing \cup {"closeWrite", "report", "ended"}]
    BY DEF RelayInv, TypeOK
  <2>2. CASE UNCHANGED <<pc, done, received>>
    BY <2>2 DEF EachIsHeard
  <2>3. ASSUME NEW e \in Sides, Report(e)
        PROVE  d \in received' \/ \E k \in DOMAIN done' : done'[k] = d
    <3>1. done' = Append(done, e) /\ pc' = [pc EXCEPT ![e] = "ended"] /\ received' = received
      BY <2>3 DEF Report, copyFrame
    <3>2. /\ DOMAIN done' = 1 .. Len(done) + 1 /\ Len(done) \in Nat /\ DOMAIN done = 1 .. Len(done)
          /\ done'[Len(done) + 1] = e /\ \A k \in 1 .. Len(done) : done'[k] = done[k]
      BY <2>1, <3>1
    <3>3. CASE d = e
      BY <3>2, <3>3
    <3>4. CASE d # e
      <4>1. pc[d] = "ended"
        BY <2>1, <3>1, <3>4
      <4>2. d \in received \/ \E k \in DOMAIN done : done[k] = d
        BY <4>1 DEF EachIsHeard
      <4> QED
        BY <3>1, <3>2, <4>2
    <3> QED
      BY <3>3, <3>4
  <2>4. ASSUME NEW e \in Sides, Copier(e), ~ Report(e)
        PROVE  done' = done /\ received' = received /\ pc[d] = "ended"
    <3>1. done' = done /\ received' = received
      BY <2>4 DEF Copier, Read, ReadEOF, ReadFails, ReadBlocks, ReadTimesOut, Write, WriteFails,
           WriteBlocks, WriteTimesOut, CloseWrite, CopyReturns, copyFrame
    <3>2. \E p \in {"write", "closeWrite", "readWait", "read", "writeWait", "report"} :
            pc' = [pc EXCEPT ![e] = p]
      BY <2>4 DEF Copier, Read, ReadEOF, ReadFails, ReadBlocks, ReadTimesOut, Write, WriteFails,
           WriteBlocks, WriteTimesOut, CloseWrite, CopyReturns
    <3> QED
      BY <2>1, <3>1, <3>2
  <2>5. CASE Receive
    <3>1. done # <<>> /\ received' = received \cup {Head(done)} /\ done' = Tail(done) /\ pc' = pc
      BY <2>5 DEF Receive
    <3>2. /\ Len(done) \in Nat /\ DOMAIN done = 1 .. Len(done) /\ Head(done) = done[1]
          /\ DOMAIN done' = 1 .. Len(done) - 1 /\ \A k \in 1 .. Len(done) - 1 : done'[k] = done[k + 1]
      BY <2>1, <3>1
    <3>3. d \in received \/ \E k \in DOMAIN done : done[k] = d
      BY <3>1 DEF EachIsHeard
    <3>4. ASSUME NEW k \in DOMAIN done, done[k] = d, k # 1
          PROVE  \E j \in DOMAIN done' : done'[j] = d
      <4>1. k - 1 \in 1 .. Len(done) - 1 /\ (k - 1) + 1 = k
        BY <3>2, <3>4
      <4> QED
        BY <3>2, <3>4, <4>1
    <3> QED
      BY <3>1, <3>2, <3>3, <3>4
  <2>6. CASE CloseConns
    <3>1. UNCHANGED <<pc, done, received>>
      BY <2>6 DEF CloseConns, Close
    <3> QED
      BY <2>2, <3>1
  <2>7. ASSUME NEW s \in Sides, Peer(s)
        PROVE  UNCHANGED <<pc, done, received>>
    BY <2>7 DEF Peer, PeerSends, PeerShutsDown, PeerReads, PeerReadsEOF, PeerResets
  <2>8. CASE UNCHANGED vars
    BY <2>2, <2>8 DEF vars
  <2>9. ASSUME NEW e \in Sides, Copier(e)
        PROVE  d \in received' \/ \E k \in DOMAIN done' : done'[k] = d
    <3>1. CASE Report(e)
      BY <2>3, <3>1
    <3>2. CASE ~ Report(e)
      BY <2>4, <2>9, <3>2 DEF EachIsHeard
    <3> QED
      BY <3>1, <3>2
  <2> QED
    BY <2>2, <2>5, <2>6, <2>7, <2>8, <2>9 DEF Next
<1>3. RelayInv /\ EachIsHeard =>
        ReceivedBoth \/ done # <<>> \/ \E d \in Sides : pc[d] # "ended"
  <2> SUFFICES ASSUME RelayInv, EachIsHeard, done = <<>>, \A d \in Sides : pc[d] = "ended"
               PROVE  ReceivedBoth
    OBVIOUS
  <2>1. \A d \in Sides : d \in received
    BY DEF EachIsHeard
  <2>2. received \subseteq Sides
    BY DEF RelayInv, TypeOK
  <2> QED
    BY <2>1, <2>2 DEF ReceivedBoth
<1> QED
  BY <1>1, <1>2, <1>3, Invariance, PTL DEF Spec, Safety
=============================================================================
