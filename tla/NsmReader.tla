----------------------------- MODULE NsmReader -----------------------------
(***************************************************************************)
(* The request side of nsmMode (nsm.go): readNsmLine cuts stdin into lines *)
(* through a bufio.Reader whose ReadSlice returns at most a buffer full,   *)
(* refuses a line that is too long, discards the rest of it and goes on    *)
(* with the next.  A byte is one of five classes; the buffer and the limit *)
(* are scaled down, the limit staying a multiple of the buffer (1 MiB and  *)
(* 4096 in the code).                                                      *)
(***************************************************************************)
EXTENDS Naturals, Sequences, FiniteSetsExt, SequencesExt

CONSTANTS
  BufSize,   \* size of the bufio.Reader
  LineMax,   \* nsmLineMaxSize
  Streams    \* what a client writes before it closes or breaks the pipe

Newline == "\n"
Return == "\r"
Space == " "
Brace == "{"
Bytes == {Newline, Return, Space, Brace, "x"}

ASSUME NsmReaderAssumption ==
  /\ BufSize \in Nat \ {0} /\ LineMax \in Nat \ {0}
  /\ LineMax % BufSize = 0
  /\ Streams \subseteq Seq(Bytes)

VARIABLES
  stream,    \* everything that will come on stdin
  ending,    \* how it ends: "eof", or "error" for a failing read
  input,     \* what of it has not been read
  line,      \* the part of the current line read so far
  pc,        \* "read", "discard", or "stopped" after the loop of nsmMode
  out        \* what the loop of nsmMode got for each line

vars == <<stream, ending, input, line, pc, out>>

Init ==
  /\ stream \in Streams
  /\ ending \in {"eof", "error"}
  /\ input = stream
  /\ line = <<>>
  /\ pc = "read"
  /\ out = <<>>

-----------------------------------------------------------------------------
(* bufio.Reader.ReadSlice('\n'): up to the first line break, or a buffer   *)
(* full without one, or what is left before the stream ends.               *)

Window == SubSeq(input, 1, Min({BufSize, Len(input)}))

BreakAt == SelectInSeq(Window, LAMBDA b : b = Newline)

Fragment == IF BreakAt > 0 THEN SubSeq(input, 1, BreakAt) ELSE Window

SliceErr == IF BreakAt > 0 THEN "nil"
            ELSE IF Len(Window) = BufSize THEN "bufferFull"
            ELSE ending

Rest == SubSeq(input, Len(Fragment) + 1, Len(input))

-----------------------------------------------------------------------------

(* nsmLineLooksJSON: whether the first byte that is no blank is a brace.   *)
LooksJSON(bytes) ==
  LET first == SelectInSeq(bytes, LAMBDA b : b \notin {Space, Return, Newline})
  IN  first > 0 /\ bytes[first] = Brace

TrimBreaks(bytes) ==
  SubSeq(bytes, 1, SelectLastInSeq(bytes, LAMBDA b : b \notin {Return, Newline}))

Line(bytes) == [kind |-> "line", bytes |-> bytes]
TooLarge(json) == [kind |-> "tooLarge", json |-> json]
Outcomes == [kind : {"line"}, bytes : Seq(Bytes)] \cup [kind : {"tooLarge"}, json : BOOLEAN]

(* A seeded fault: the limit is compared before the fragment is added.     *)
TooLongLate == Len(line) > LineMax

TooLong == Len(line) + Len(Fragment) > LineMax

(* A seeded fault: the rest of a long line is taken for the next one.      *)
NoDiscard ==
  /\ pc = "read" /\ TooLong
  /\ out' = Append(out, TooLarge(LooksJSON(line \o Fragment)))
  /\ input' = Rest
  /\ line' = <<>>
  /\ UNCHANGED <<stream, ending, pc>>

(* A seeded fault: the refused line's bytes are kept.                      *)
RefuseKeepsBytes ==
  /\ pc = "read" /\ TooLong
  /\ out' = Append(out, TooLarge(LooksJSON(line \o Fragment)))
  /\ input' = Rest
  /\ pc' = IF SliceErr = "bufferFull" THEN "discard" ELSE "read"
  /\ UNCHANGED <<stream, ending, line>>

RefuseLine ==
  /\ pc = "read" /\ TooLong
  /\ out' = Append(out, TooLarge(LooksJSON(line \o Fragment)))
  /\ input' = Rest
  /\ line' = <<>>
  /\ pc' = IF SliceErr = "bufferFull" THEN "discard" ELSE "read"
  /\ UNCHANGED <<stream, ending>>

(* A seeded fault: only a line break ends the discarding.                  *)
DiscardUntilBreak ==
  /\ pc = "discard"
  /\ input' = Rest
  /\ pc' = IF SliceErr = "nil" THEN "read" ELSE "discard"
  /\ UNCHANGED <<stream, ending, line, out>>

(* One turn of discardNsmLineRemainder.                                    *)
Discard ==
  /\ pc = "discard"
  /\ input' = Rest
  /\ pc' = IF SliceErr = "bufferFull" THEN "discard" ELSE "read"
  /\ UNCHANGED <<stream, ending, line, out>>

GrowLine ==
  /\ pc = "read" /\ ~ TooLong /\ SliceErr = "bufferFull"
  /\ line' = line \o Fragment
  /\ input' = Rest
  /\ UNCHANGED <<stream, ending, pc, out>>

(* A line is complete, or the stream ends behind a last one without break. *)
ReturnLine ==
  /\ pc = "read" /\ ~ TooLong
  /\ \/ /\ SliceErr = "nil"
        /\ out' = Append(out, Line(TrimBreaks(line \o Fragment)))
     \/ /\ SliceErr = "eof" /\ line \o Fragment # <<>>
        /\ out' = Append(out, Line(line \o Fragment))
  /\ line' = <<>>
  /\ input' = Rest
  /\ UNCHANGED <<stream, ending, pc>>

(* End of file with nothing read, or a read error, whose partial line is   *)
(* dropped: nsmMode leaves its loop.                                       *)
Stop ==
  /\ pc = "read" /\ ~ TooLong
  /\ SliceErr = "error" \/ (SliceErr = "eof" /\ line \o Fragment = <<>>)
  /\ pc' = "stopped"
  /\ line' = <<>>
  /\ input' = Rest
  /\ UNCHANGED <<stream, ending, out>>

Next == RefuseLine \/ Discard \/ GrowLine \/ ReturnLine \/ Stop

(* The loop runs; that stdin delivers what Streams holds is its premise.   *)
Spec == Init /\ [][Next]_vars /\ WF_vars(Next)

-----------------------------------------------------------------------------
(* The protocol's own view: stdin is cut after every line break and each   *)
(* piece is answered by itself.                                            *)

Breaks == {0} \cup {k \in DOMAIN stream : stream[k] = Newline}

PieceAfter(k) ==
  LET next == {j \in Breaks : j > k}
  IN  SubSeq(stream, k + 1, IF next = {} THEN Len(stream) ELSE Min(next))

Verdict(piece) ==
  IF Len(piece) > LineMax
  THEN <<TooLarge(LooksJSON(SubSeq(piece, 1, Min({Len(piece), LineMax + BufSize}))))>>
  ELSE IF piece # <<>> /\ Last(piece) = Newline THEN <<Line(TrimBreaks(piece))>>
  ELSE IF piece # <<>> /\ ending = "eof" THEN <<Line(piece)>>
  ELSE <<>>

BreaksBefore(k) == {j \in Breaks : j < k}

(* Where the n-th piece begins.                                            *)
Start(n) == CHOOSE k \in Breaks : Cardinality(BreaksBefore(k)) = n - 1

VerdictOn(n) == Verdict(PieceAfter(Start(n)))

-----------------------------------------------------------------------------
(* Properties.                                                             *)

TypeOK ==
  /\ pc \in {"read", "discard", "stopped"}
  /\ ending \in {"eof", "error"}
  /\ stream \in Seq(Bytes) /\ input \in Seq(Bytes) /\ line \in Seq(Bytes)
  /\ Len(input) <= Len(stream)
  /\ input = SubSeq(stream, Len(stream) - Len(input) + 1, Len(stream))
  /\ out \in Seq(Outcomes)
  /\ pc # "read" => line = <<>>

(* At every moment the lines handed out are the first ones of the stream,  *)
(* and in the end all of them: one verdict per line, in order, whatever    *)
(* the buffer boundaries, and a refused line neither swallows nor leaks    *)
(* bytes of its neighbours.                                                *)
OneVerdictPerLine ==
  /\ Len(out) <= Cardinality(Breaks)
  /\ \A n \in DOMAIN out : VerdictOn(n) = <<out[n]>>
  /\ pc = "stopped" => \A n \in Len(out) + 1 .. Cardinality(Breaks) : VerdictOn(n) = <<>>

(* What a client sends cannot make the process hold more than the limit.   *)
MemoryBounded == Len(line) <= LineMax

(* What makes these inductive: the line is the part of the current piece   *)
(* that has been read, whole buffers of it,                                *)
Taken == Len(stream) - Len(input)
PieceStart == Taken - Len(line)

LineIsThePiece ==
  /\ PieceStart >= 0
  /\ line = SubSeq(stream, PieceStart + 1, Taken)
  /\ \A i \in DOMAIN line : line[i] # Newline
  /\ Len(line) % BufSize = 0

(* and there are as many verdicts as pieces before it, or behind what is   *)
(* being discarded, or altogether.                                         *)
VerdictsAreThePieces ==
  \/ /\ pc = "read" /\ PieceStart \in Breaks
     /\ Cardinality(BreaksBefore(PieceStart)) = Len(out)
  \/ /\ pc = "discard" /\ Taken \notin Breaks
     /\ Cardinality(BreaksBefore(Taken)) = Len(out)
  \/ pc = "read" /\ input = <<>> /\ line = <<>> /\ Cardinality(Breaks) = Len(out)
  \/ pc = "stopped"

ReaderInv ==
  /\ TypeOK /\ MemoryBounded /\ LineIsThePiece /\ VerdictsAreThePieces /\ OneVerdictPerLine

(* The loop comes to the end of every finite stream.                       *)
Terminates == <>(pc = "stopped" /\ input = <<>>)
=============================================================================
