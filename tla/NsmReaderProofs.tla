-------------------------- MODULE NsmReaderProofs --------------------------
(***************************************************************************)
(* Proofs about NsmReader, for every stream of bytes, every buffer size    *)
(* and every limit that is a multiple of it.                               *)
(***************************************************************************)
EXTENDS NsmReader, SeqLemmas, FiniteSetTheorems, SequenceTheorems, TLAPS

(* Where in what is left the first line break of a buffer full is.         *)
LEMMA BreakAtFacts ==
  ASSUME TypeOK
  PROVE  \E w \in 0 .. Len(input) :
           /\ w = BufSize \/ (w = Len(input) /\ w < BufSize)
           /\ Window = SubSeq(input, 1, w) /\ Len(Window) = w
           /\ \/ BreakAt = 0 /\ \A i \in 1 .. w : input[i] # Newline
              \/ /\ BreakAt \in 1 .. w /\ input[BreakAt] = Newline
                 /\ \A i \in 1 .. BreakAt - 1 : input[i] # Newline
<1> DEFINE w == Min({BufSize, Len(input)})
           at == {i \in 1 .. Len(Window) : Window[i] = Newline}
<1>1. input \in Seq(Bytes) /\ Len(input) \in Nat /\ BufSize \in Nat \ {0}
  BY LenProperties, NsmReaderAssumption DEF TypeOK
<1>2. w \in {BufSize, Len(input)} /\ w <= BufSize /\ w <= Len(input)
  <2>1. {BufSize, Len(input)} \subseteq Nat /\ {BufSize, Len(input)} # {}
    BY <1>1
  <2>2. w \in {BufSize, Len(input)} /\ \A y \in {BufSize, Len(input)} : w <= y
    BY <2>1, MinOf
  <2> QED
    BY <2>2
<1>3. Window = SubSeq(input, 1, w)
  BY DEF Window
<1>4. BreakAt = IF at # {} THEN Min(at) ELSE 0
  BY DEF BreakAt, SelectInSeq
<1> HIDE DEF w
<1>5. w \in 0 .. Len(input) /\ (w = BufSize \/ (w = Len(input) /\ w < BufSize))
  BY <1>1, <1>2
<1>6. Len(Window) = w /\ \A i \in 1 .. w : Window[i] = input[i]
  BY <1>1, <1>3, <1>5, PrefixFacts
<1>7. CASE at = {}
  <2>1. \A i \in 1 .. w : Window[i] # Newline
    BY <1>6, <1>7
  <2> QED
    BY <1>3, <1>4, <1>5, <1>6, <1>7, <2>1
<1>8. CASE at # {}
  <2>1. at \subseteq Nat
    BY <1>5, <1>6
  <2>2. Min(at) \in at /\ \A y \in at : Min(at) <= y
    BY <1>8, <2>1, MinOf
  <2> DEFINE m == Min(at)
  <2>3. m \in 1 .. w /\ Window[m] = Newline
    BY <1>6, <2>2
  <2>4. ASSUME NEW i \in 1 .. m - 1 PROVE input[i] # Newline
    <3>1. i \in 1 .. w /\ ~ (m <= i)
      BY <1>1, <1>5, <2>3
    <3>2. i \notin at
      BY <2>2, <3>1
    <3> QED
      BY <1>6, <3>1, <3>2
  <2>5. BreakAt = m
    BY <1>4, <1>8
  <2> HIDE DEF m
  <2> QED
    BY <1>3, <1>5, <1>6, <2>3, <2>4, <2>5
<1> QED
  BY <1>7, <1>8

(* A call of ReadSlice: the fragment is what follows in the stream, with a *)
(* line break at its end and nowhere else, or without one; then it is a    *)
(* buffer full, or all that is left.                                       *)
LEMMA SliceFacts ==
  ASSUME TypeOK
  PROVE  /\ Len(stream) \in Nat /\ Taken \in 0 .. Len(stream)
         /\ Len(input) = Len(stream) - Taken
         /\ Fragment \in Seq(Bytes) /\ Len(Fragment) \in 0 .. BufSize
         /\ Taken + Len(Fragment) <= Len(stream)
         /\ \A i \in 1 .. Len(Fragment) : Fragment[i] = stream[Taken + i]
         /\ Rest \in Seq(Bytes)
         /\ Len(Rest) = Len(stream) - (Taken + Len(Fragment))
         /\ Rest = SubSeq(stream, Taken + Len(Fragment) + 1, Len(stream))
         /\ \/ /\ SliceErr = "nil" /\ Len(Fragment) > 0
               /\ stream[Taken + Len(Fragment)] = Newline
               /\ \A i \in Taken + 1 .. Taken + Len(Fragment) - 1 : stream[i] # Newline
            \/ /\ SliceErr = "bufferFull" /\ Len(Fragment) = BufSize
               /\ \A i \in Taken + 1 .. Taken + Len(Fragment) : stream[i] # Newline
            \/ /\ SliceErr = ending /\ Taken + Len(Fragment) = Len(stream)
               /\ \A i \in Taken + 1 .. Len(stream) : stream[i] # Newline
<1> DEFINE n == Len(stream)
           c == Taken
           f == Len(Fragment)
           l == Len(input)
<1>1. /\ n \in Nat /\ l \in Nat /\ l <= n /\ stream \in Seq(Bytes) /\ input \in Seq(Bytes)
      /\ BufSize \in Nat \ {0}
  BY LenProperties, NsmReaderAssumption DEF TypeOK
<1>2. c = n - l /\ input = SubSeq(stream, n - l + 1, n)
  BY DEF Taken, TypeOK
<1>3. PICK w \in 0 .. Len(input) :
        /\ w = BufSize \/ (w = Len(input) /\ w < BufSize)
        /\ Window = SubSeq(input, 1, w) /\ Len(Window) = w
        /\ \/ BreakAt = 0 /\ \A i \in 1 .. w : input[i] # Newline
           \/ /\ BreakAt \in 1 .. w /\ input[BreakAt] = Newline
              /\ \A i \in 1 .. BreakAt - 1 : input[i] # Newline
  BY BreakAtFacts
<1>4. w \in 0 .. l /\ (w = BufSize \/ (w = l /\ w < BufSize))
  BY <1>3
<1>5. PICK g \in 0 .. l :
        /\ Fragment = SubSeq(input, 1, g) /\ g <= BufSize
        /\ \/ /\ SliceErr = "nil" /\ g > 0 /\ input[g] = Newline
              /\ \A i \in 1 .. g - 1 : input[i] # Newline
           \/ SliceErr = "bufferFull" /\ g = BufSize /\ \A i \in 1 .. g : input[i] # Newline
           \/ SliceErr = ending /\ g = l /\ \A i \in 1 .. g : input[i] # Newline
  <2>1. CASE BreakAt = 0 /\ \A i \in 1 .. w : input[i] # Newline
    <3>1. ~ (BreakAt > 0)
      BY <2>1
    <3>2. Fragment = SubSeq(input, 1, w) /\ SliceErr = IF w = BufSize THEN "bufferFull" ELSE ending
      BY <1>3, <3>1 DEF Fragment, SliceErr
    <3> HIDE DEF l
    <3> QED
      BY <1>1, <1>4, <2>1, <3>2
  <2>2. CASE /\ BreakAt \in 1 .. w /\ input[BreakAt] = Newline
             /\ \A i \in 1 .. BreakAt - 1 : input[i] # Newline
    <3>1. BreakAt > 0 /\ BreakAt \in 0 .. l /\ BreakAt <= BufSize
      BY <1>1, <1>4, <2>2
    <3>2. Fragment = SubSeq(input, 1, BreakAt) /\ SliceErr = "nil"
      BY <3>1 DEF Fragment, SliceErr
    <3> QED
      BY <2>2, <3>1, <3>2
  <2> QED
    BY <1>3, <2>1, <2>2
<1>6. Fragment \in Seq(Bytes) /\ f = g /\ \A i \in 1 .. g : Fragment[i] = input[i]
  BY <1>1, <1>5, PrefixFacts
<1>7. \A i \in 1 .. l : input[i] = stream[c + i]
  <2>1. n - l + 1 \in Int /\ n \in Int /\ \A i \in n - l + 1 .. n : i \in 1 .. n
    BY <1>1
  <2>2. \A i \in n - l + 1 .. n : stream[i] \in Bytes
    BY <1>1, <2>1, ElementOfSeq
  <2>3. \A i \in 1 .. n - (n - l + 1) + 1 : SubSeq(stream, n - l + 1, n)[i] = stream[(n - l + 1) + i - 1]
    BY <2>1, <2>2, SubSeqProperties
  <2> HIDE DEF n, l, c
  <2>4. \A i \in 1 .. l : i \in 1 .. n - (n - l + 1) + 1 /\ (n - l + 1) + i - 1 = c + i
    BY <1>1, <1>2
  <2> QED
    BY <1>2, <2>3, <2>4
<1>8. /\ Rest = SubSeq(input, g + 1, l)
      /\ \A i \in g + 1 .. l : i \in 1 .. l
      /\ g + 1 \in Int /\ l \in Int
  BY <1>1, <1>6 DEF Rest
<1>9. \A i \in g + 1 .. l : input[i] \in Bytes
  BY <1>1, <1>8, ElementOfSeq
<1>10. /\ Rest \in Seq(Bytes)
       /\ Len(Rest) = IF g + 1 <= l THEN l - (g + 1) + 1 ELSE 0
       /\ \A i \in 1 .. l - (g + 1) + 1 : Rest[i] = input[(g + 1) + i - 1]
  BY <1>8, <1>9, SubSeqProperties
<1> HIDE DEF n, c, l, f
<1>11. /\ c \in 0 .. n /\ l = n - c /\ c + g <= n /\ g \in Nat
       /\ (IF g + 1 <= l THEN l - (g + 1) + 1 ELSE 0) = n - (c + g)
       /\ l - (g + 1) + 1 = n - (c + g)
  BY <1>1, <1>2
<1>12. \A i \in 1 .. g : Fragment[i] = stream[c + i]
  <2>1. \A i \in 1 .. g : i \in 1 .. l
    BY <1>1
  <2> QED
    BY <1>6, <1>7, <2>1
<1>13. Rest = SubSeq(stream, c + g + 1, n)
  <2> DEFINE t == SubSeq(stream, c + g + 1, n)
  <2>1. c + g + 1 \in Int /\ n \in Int /\ \A i \in c + g + 1 .. n : i \in 1 .. n
    BY <1>1, <1>11
  <2>2. \A i \in c + g + 1 .. n : stream[i] \in Bytes
    BY <1>1, <2>1, ElementOfSeq DEF n
  <2>3. /\ t \in Seq(Bytes)
        /\ Len(t) = IF c + g + 1 <= n THEN n - (c + g + 1) + 1 ELSE 0
        /\ \A i \in 1 .. n - (c + g + 1) + 1 : t[i] = stream[(c + g + 1) + i - 1]
    BY <2>1, <2>2, SubSeqProperties
  <2> HIDE DEF t
  <2>4. /\ (IF c + g + 1 <= n THEN n - (c + g + 1) + 1 ELSE 0) = n - (c + g)
        /\ n - (c + g + 1) + 1 = n - (c + g)
    BY <1>1, <1>11
  <2>5. Len(Rest) = Len(t)
    BY <1>10, <1>11, <2>3, <2>4
  <2>6. ASSUME NEW i \in 1 .. Len(Rest) PROVE Rest[i] = t[i]
    <3>1. i \in 1 .. n - (c + g)
      BY <1>10, <1>11
    <3>2. /\ (g + 1) + i - 1 \in 1 .. l
          /\ c + ((g + 1) + i - 1) = (c + g + 1) + i - 1
      BY <1>1, <1>11, <3>1
    <3>3. Rest[i] = input[(g + 1) + i - 1] /\ t[i] = stream[(c + g + 1) + i - 1]
      BY <1>10, <1>11, <2>3, <2>4, <3>1
    <3> QED
      BY <1>7, <3>2, <3>3
  <2>7. Rest = t
    BY <1>10, <2>3, <2>5, <2>6, SeqEqual
  <2> QED
    BY <2>7 DEF t
<1>14. \/ /\ SliceErr = "nil" /\ g > 0 /\ stream[c + g] = Newline
          /\ \A i \in c + 1 .. c + g - 1 : stream[i] # Newline
       \/ SliceErr = "bufferFull" /\ g = BufSize /\ \A i \in c + 1 .. c + g : stream[i] # Newline
       \/ SliceErr = ending /\ c + g = n /\ \A i \in c + 1 .. n : stream[i] # Newline
  <2>1. CASE /\ SliceErr = "nil" /\ g > 0 /\ input[g] = Newline
             /\ \A i \in 1 .. g - 1 : input[i] # Newline
    <3>1. g \in 1 .. l
      BY <1>1, <2>1
    <3>2. stream[c + g] = Newline
      BY <1>7, <2>1, <3>1
    <3>3. ASSUME NEW i \in c + 1 .. c + g - 1 PROVE stream[i] # Newline
      <4>1. i - c \in 1 .. g - 1 /\ i - c \in 1 .. l /\ c + (i - c) = i
        BY <1>1, <1>11, <3>1
      <4> QED
        BY <1>7, <2>1, <4>1
    <3> QED
      BY <2>1, <3>2, <3>3
  <2>2. ASSUME \A i \in 1 .. g : input[i] # Newline, NEW i \in c + 1 .. c + g
        PROVE  stream[i] # Newline
    <3>1. i - c \in 1 .. g /\ i - c \in 1 .. l /\ c + (i - c) = i
      BY <1>1, <1>11
    <3> QED
      BY <1>7, <2>2, <3>1
  <2>3. g = l => c + g = n
    BY <1>1, <1>11
  <2>4. CASE SliceErr = "bufferFull" /\ g = BufSize /\ \A i \in 1 .. g : input[i] # Newline
    BY <2>2, <2>4
  <2>5. CASE SliceErr = ending /\ g = l /\ \A i \in 1 .. g : input[i] # Newline
    BY <2>2, <2>3, <2>5 DEF l
  <2> QED
    BY <1>5, <2>1, <2>4, <2>5 DEF l
<1>15. g \in 0 .. BufSize
  BY <1>1, <1>5, <1>11
<1> QED
  BY <1>1, <1>6, <1>10, <1>11, <1>12, <1>13, <1>14, <1>15 DEF n, c, f, l

-----------------------------------------------------------------------------
(* Whole buffers.                                                          *)

(* A multiple of b that is not negative and less than b is none at all.    *)
LEMMA SmallMultiple ==
  ASSUME NEW b \in Nat \ {0}, NEW a \in Int, a * b < b, a * b >= 0
  PROVE  a = 0
OBVIOUS

(* Multiples of b as such.                                                 *)
LEMMA Multiple ==
  ASSUME NEW b \in Nat \ {0}, NEW m \in Nat
  PROVE  /\ m \div b \in Int /\ m % b \in Int /\ 0 <= m % b /\ m % b < b
         /\ m = b * (m \div b) + (m % b)
OBVIOUS

(* One more buffer is again a whole number of them.                        *)
LEMMA NextMultiple ==
  ASSUME NEW b \in Nat \ {0}, NEW l \in Nat, l % b = 0
  PROVE  (l + b) % b = 0
<1> DEFINE k == l \div b
           q == (l + b) \div b
           r == (l + b) % b
<1>1. k \in Int /\ l = b * k
  BY Multiple
<1>2. q \in Int /\ r \in Int /\ 0 <= r /\ r < b /\ l + b = b * q + r
  <2>1. l + b \in Nat
    OBVIOUS
  <2> QED
    BY <2>1, Multiple
<1> HIDE DEF k, q, r
<1>3. (k + 1 - q) * b = r
  BY <1>1, <1>2
<1>4. k + 1 - q = 0
  <2>1. k + 1 - q \in Int
    BY <1>1, <1>2
  <2> QED
    BY <1>2, <1>3, <2>1, SmallMultiple
<1>5. r = 0
  BY <1>3, <1>4
<1> QED
  BY <1>5 DEF r

(* So a line of whole buffers that another buffer takes over the limit has *)
(* reached it before.                                                      *)
LEMMA LimitReached ==
  ASSUME NEW b \in Nat \ {0}, NEW m \in Nat, NEW l \in Nat, NEW f \in 0 .. b,
         m % b = 0, l % b = 0, l <= m, l + f > m
  PROVE  l = m
<1> DEFINE k == l \div b
           j == m \div b
<1>1. k \in Int /\ j \in Int /\ l = b * k /\ m = b * j
  BY Multiple
<1> HIDE DEF k, j
<1>2. (j - k) * b = m - l /\ j - k \in Int
  BY <1>1
<1>3. m - l < b /\ m - l >= 0
  OBVIOUS
<1>4. j - k = 0
  BY <1>2, <1>3, SmallMultiple
<1> QED
  BY <1>1, <1>2, <1>4

-----------------------------------------------------------------------------
(* Pieces.                                                                 *)

(* The breaks are finitely many.                                           *)
LEMMA BreaksFacts ==
  ASSUME TypeOK
  PROVE  /\ Len(stream) \in Nat /\ Breaks \subseteq 0 .. Len(stream) /\ 0 \in Breaks
         /\ IsFiniteSet(Breaks) /\ Cardinality(Breaks) \in Nat
         /\ \A k \in 1 .. Len(stream) : k \in Breaks <=> stream[k] = Newline
         /\ \A k : /\ IsFiniteSet(BreaksBefore(k)) /\ Cardinality(BreaksBefore(k)) \in Nat
                   /\ Cardinality(BreaksBefore(k)) <= Cardinality(Breaks)
<1>1. Len(stream) \in Nat /\ DOMAIN stream = 1 .. Len(stream)
  BY LenProperties DEF TypeOK
<1>2. Breaks \subseteq 0 .. Len(stream) /\ 0 \in Breaks
  BY <1>1 DEF Breaks
<1>3. IsFiniteSet(Breaks) /\ Cardinality(Breaks) \in Nat
  <2>1. IsFiniteSet(0 .. Len(stream))
    BY <1>1, FS_Interval
  <2> QED
    BY <1>2, <2>1, FS_Subset, FS_CardinalityType
<1>4. \A k \in 1 .. Len(stream) : k \in Breaks <=> stream[k] = Newline
  BY <1>1 DEF Breaks
<1>5. ASSUME NEW k
      PROVE  /\ IsFiniteSet(BreaksBefore(k)) /\ Cardinality(BreaksBefore(k)) \in Nat
             /\ Cardinality(BreaksBefore(k)) <= Cardinality(Breaks)
  <2>1. BreaksBefore(k) \subseteq Breaks
    BY DEF BreaksBefore
  <2> QED
    BY <1>3, <2>1, FS_Subset, FS_CardinalityType
<1> QED
  BY <1>1, <1>2, <1>3, <1>4, <1>5

(* From a break to the next there is one more before.                      *)
LEMMA CountUp ==
  ASSUME TypeOK, NEW p \in Breaks, NEW q \in Nat, p < q, q <= Len(stream) + 1,
         \A i \in p + 1 .. q - 1 : stream[i] # Newline
  PROVE  Cardinality(BreaksBefore(q)) = Cardinality(BreaksBefore(p)) + 1
<1>1. /\ Len(stream) \in Nat /\ Breaks \subseteq 0 .. Len(stream)
      /\ \A k \in 1 .. Len(stream) : k \in Breaks <=> stream[k] = Newline
      /\ IsFiniteSet(BreaksBefore(p))
  BY BreaksFacts
<1>2. ASSUME NEW j \in Breaks, j < q, ~ (j < p) PROVE j = p
  <2>1. SUFFICES ASSUME j # p PROVE FALSE
    OBVIOUS
  <2>2. j \in 1 .. Len(stream) /\ j \in p + 1 .. q - 1
    BY <1>1, <1>2, <2>1
  <2> QED
    BY <1>1, <2>2
<1>3. \A j \in Breaks : j < p => j < q
  BY <1>1
<1>4. BreaksBefore(q) = BreaksBefore(p) \cup {p}
  BY <1>2, <1>3 DEF BreaksBefore
<1>5. p \notin BreaksBefore(p)
  BY <1>1 DEF BreaksBefore
<1> QED
  BY <1>1, <1>4, <1>5, FS_AddElement

(* A piece is found again by its number.                                   *)
LEMMA StartFacts ==
  ASSUME TypeOK, NEW p \in Breaks, NEW m \in Nat, Cardinality(BreaksBefore(p)) = m - 1
  PROVE  Start(m) = p
<1>1. /\ Len(stream) \in Nat /\ Breaks \subseteq 0 .. Len(stream)
      /\ \A k : IsFiniteSet(BreaksBefore(k)) /\ Cardinality(BreaksBefore(k)) \in Nat
  BY BreaksFacts
<1>2. ASSUME NEW k \in Breaks, NEW j \in Breaks, k < j
      PROVE  Cardinality(BreaksBefore(k)) < Cardinality(BreaksBefore(j))
  <2>1. BreaksBefore(k) \cup {k} \subseteq BreaksBefore(j) /\ k \notin BreaksBefore(k)
    <3>1. Breaks \subseteq Nat
      BY <1>1
    <3>2. \A i \in Breaks : i < k => i < j
      BY <1>2, <3>1
    <3>3. ~ (k < k)
      BY <3>1
    <3> QED
      BY <1>2, <3>2, <3>3 DEF BreaksBefore
  <2>2. /\ IsFiniteSet(BreaksBefore(k) \cup {k})
        /\ Cardinality(BreaksBefore(k) \cup {k}) = Cardinality(BreaksBefore(k)) + 1
    BY <1>1, <2>1, FS_AddElement
  <2>3. Cardinality(BreaksBefore(k) \cup {k}) <= Cardinality(BreaksBefore(j))
    BY <1>1, <2>1, FS_Subset
  <2> QED
    BY <1>1, <2>2, <2>3
<1>3. ASSUME NEW k \in Breaks, Cardinality(BreaksBefore(k)) = m - 1 PROVE k = p
  <2>1. k \in Nat /\ p \in Nat /\ ~ (m - 1 < m - 1)
    BY <1>1
  <2>2. ~ (k < p) /\ ~ (p < k)
    BY <1>2, <1>3, <2>1
  <2> QED
    BY <2>1, <2>2
<1>4. \E k \in Breaks : Cardinality(BreaksBefore(k)) = m - 1
  OBVIOUS
<1> QED
  BY <1>3, <1>4 DEF Start

(* A piece reaches to the next break, or to the end of the stream.         *)
LEMMA PieceFacts ==
  ASSUME TypeOK, NEW p \in Breaks
  PROVE  \E e \in p .. Len(stream) :
           /\ PieceAfter(p) = SubSeq(stream, p + 1, e)
           /\ \A i \in p + 1 .. e - 1 : stream[i] # Newline
           /\ \/ e > p /\ stream[e] = Newline
              \/ e = Len(stream) /\ \A i \in p + 1 .. e : stream[i] # Newline
<1> DEFINE next == {j \in Breaks : j > p}
           n == Len(stream)
<1>1. /\ n \in Nat /\ Breaks \subseteq 0 .. n
      /\ \A k \in 1 .. n : k \in Breaks <=> stream[k] = Newline
  BY BreaksFacts
<1>2. PieceAfter(p) = SubSeq(stream, p + 1, IF next = {} THEN n ELSE Min(next))
  BY DEF PieceAfter
<1> HIDE DEF n
<1>3. p \in 0 .. n
  BY <1>1
<1>4. ASSUME NEW i \in p + 1 .. n, stream[i] = Newline PROVE i \in next
  BY <1>1, <1>3, <1>4
<1>5. CASE next = {}
  <2>1. \A i \in p + 1 .. n : stream[i] # Newline
    BY <1>4, <1>5
  <2>2. n \in p .. n /\ \A i \in p + 1 .. n - 1 : i \in p + 1 .. n
    BY <1>1, <1>3
  <2> QED
    BY <1>2, <1>5, <2>1, <2>2 DEF n
<1>6. CASE next # {}
  <2>1. next \subseteq Nat
    <3>1. Breaks \subseteq Nat
      BY <1>1
    <3> QED
      BY <3>1
  <2>2. Min(next) \in next /\ \A y \in next : Min(next) <= y
    BY <1>6, <2>1, MinOf
  <2> DEFINE e == Min(next)
  <2>3. e \in Breaks /\ e > p
    BY <2>2
  <2>4. PieceAfter(p) = SubSeq(stream, p + 1, e)
    BY <1>2, <1>6
  <2>5. \A y \in next : e <= y
    BY <2>2
  <2> HIDE DEF e, next
  <2>6. e \in 1 .. n /\ e \in p .. n
    BY <1>1, <1>3, <2>3
  <2>7. stream[e] = Newline
    BY <1>1, <2>3, <2>6
  <2>8. ASSUME NEW i \in p + 1 .. e - 1 PROVE stream[i] # Newline
    <3>1. i \in p + 1 .. n /\ ~ (e <= i)
      BY <1>1, <1>3, <2>6
    <3> QED
      BY <1>4, <2>5, <3>1
  <2> QED
    BY <2>3, <2>4, <2>6, <2>7, <2>8 DEF n
<1> QED
  BY <1>5, <1>6

(* Behind a position that is no break nothing is added up to the next one. *)
LEMMA CountSame ==
  ASSUME TypeOK, NEW c \in Nat, c \notin Breaks, NEW q \in Nat, c <= q, q <= Len(stream) + 1,
         \A i \in c + 1 .. q - 1 : stream[i] # Newline
  PROVE  Cardinality(BreaksBefore(q)) = Cardinality(BreaksBefore(c))
<1>1. /\ Len(stream) \in Nat /\ Breaks \subseteq 0 .. Len(stream)
      /\ \A k \in 1 .. Len(stream) : k \in Breaks <=> stream[k] = Newline
  BY BreaksFacts
<1>2. ASSUME NEW j \in Breaks, j < q, ~ (j < c) PROVE FALSE
  <2>1. j \in 1 .. Len(stream) /\ j \in c + 1 .. q - 1
    <3>1. j \in 0 .. Len(stream) /\ j # c
      BY <1>1
    <3> QED
      BY <1>1, <1>2, <3>1
  <2> QED
    BY <1>1, <2>1
<1>3. \A j \in Breaks : j < c => j < q
  BY <1>1
<1>4. BreaksBefore(q) = BreaksBefore(c)
  BY <1>2, <1>3 DEF BreaksBefore
<1> QED
  BY <1>4

(* All breaks are before the end.                                          *)
LEMMA CountAll ==
  ASSUME TypeOK
  PROVE  BreaksBefore(Len(stream) + 1) = Breaks
<1>1. Len(stream) \in Nat /\ Breaks \subseteq 0 .. Len(stream)
  BY BreaksFacts
<1>2. \A j \in Breaks : j < Len(stream) + 1
  BY <1>1
<1> QED
  BY <1>2 DEF BreaksBefore

-----------------------------------------------------------------------------
(* A line and its verdict.                                                 *)

(* What has been read of the piece, the fragment included.                 *)
LEMMA WholeFacts ==
  ASSUME TypeOK, LineIsThePiece
  PROVE  /\ Len(line) \in Nat /\ PieceStart \in Nat /\ PieceStart + Len(line) = Taken
         /\ line \o Fragment \in Seq(Bytes)
         /\ Len(line \o Fragment) = Len(line) + Len(Fragment)
         /\ line \o Fragment = SubSeq(stream, PieceStart + 1, Taken + Len(Fragment))
         /\ \A i \in 1 .. Len(line) + Len(Fragment) : (line \o Fragment)[i] = stream[PieceStart + i]
         /\ \A i \in PieceStart + 1 .. Taken : stream[i] # Newline
<1> DEFINE n == Len(stream)
           c == Taken
           p == PieceStart
           f == Len(Fragment)
           l == Len(line)
           whole == line \o Fragment
           piece == SubSeq(stream, p + 1, c + f)
<1>1. /\ n \in Nat /\ c \in 0 .. n /\ Fragment \in Seq(Bytes) /\ f \in 0 .. BufSize /\ c + f <= n
      /\ \A i \in 1 .. f : Fragment[i] = stream[c + i]
  BY SliceFacts
<1>2. l \in Nat /\ line \in Seq(Bytes) /\ p = c - l /\ p >= 0 /\ DOMAIN line = 1 .. l
  BY LenProperties DEF TypeOK, PieceStart, LineIsThePiece
<1>3. stream \in Seq(Bytes) /\ BufSize \in Nat
  BY NsmReaderAssumption DEF TypeOK
<1>4. /\ whole \in Seq(Bytes) /\ Len(whole) = Len(line) + Len(Fragment)
      /\ \A i \in 1 .. Len(line) : whole[i] = line[i]
      /\ \A i \in 1 .. Len(Fragment) : whole[Len(line) + i] = Fragment[i]
  BY <1>1, <1>2, Concat
<1>5. line = SubSeq(stream, p + 1, c) /\ \A i \in 1 .. l : line[i] # Newline
  BY <1>2 DEF LineIsThePiece
<1>6. f \in Nat
  BY <1>1, <1>3
<1> HIDE DEF n, c, p, f, l, whole
<1>7. \A i \in p + 1 .. c + f : i \in 1 .. n
  BY <1>1, <1>2, <1>6
<1>8. \A i \in p + 1 .. c + f : stream[i] \in Bytes
  BY <1>3, <1>7, ElementOfSeq DEF n
<1>9. /\ p + 1 \in Int /\ c \in Int /\ c + f \in Int
      /\ \A i \in p + 1 .. c : i \in p + 1 .. c + f
  BY <1>1, <1>2, <1>6
<1>10. \A i \in 1 .. c - (p + 1) + 1 : line[i] = stream[(p + 1) + i - 1]
  BY <1>5, <1>8, <1>9, SubSeqProperties
<1>11. \A i \in 1 .. l : line[i] = stream[p + i]
  <2>1. \A i \in 1 .. l : i \in 1 .. c - (p + 1) + 1 /\ (p + 1) + i - 1 = p + i
    BY <1>1, <1>2
  <2> QED
    BY <1>10, <2>1
<1>12. ASSUME NEW i \in 1 .. l + f PROVE whole[i] = stream[p + i]
  <2>1. CASE i \in 1 .. l
    BY <1>4, <1>11, <2>1 DEF l
  <2>2. CASE i - l \in 1 .. f
    <3>1. l + (i - l) = i /\ c + (i - l) = p + i
      BY <1>1, <1>2
    <3>2. whole[l + (i - l)] = Fragment[i - l]
      BY <1>4, <2>2 DEF l, f
    <3> QED
      BY <1>1, <2>2, <3>1, <3>2
  <2>3. i \in 1 .. l \/ i - l \in 1 .. f
    BY <1>2, <1>6
  <2> QED
    BY <2>1, <2>2, <2>3
<1>13. /\ piece \in Seq(Bytes)
       /\ Len(piece) = IF p + 1 <= c + f THEN (c + f) - (p + 1) + 1 ELSE 0
       /\ \A i \in 1 .. (c + f) - (p + 1) + 1 : piece[i] = stream[(p + 1) + i - 1]
  <2>1. p + 1 \in Int /\ c + f \in Int /\ \A i \in p + 1 .. c + f : stream[i] \in Bytes
    BY <1>8, <1>9
  <2> QED
    BY <2>1, SubSeqProperties
<1>14. /\ (IF p + 1 <= c + f THEN (c + f) - (p + 1) + 1 ELSE 0) = l + f
       /\ (c + f) - (p + 1) + 1 = l + f
       /\ \A i \in 1 .. l + f : (p + 1) + i - 1 = p + i
  BY <1>1, <1>2, <1>6
<1>15. Len(whole) = l + f
  BY <1>4 DEF l, f
<1>16. whole = piece
  <2>1. Len(whole) = Len(piece)
    BY <1>13, <1>14, <1>15
  <2>2. \A i \in 1 .. Len(whole) : whole[i] = piece[i]
    BY <1>12, <1>13, <1>14, <1>15
  <2> QED
    BY <1>4, <1>13, <2>1, <2>2, SeqEqual
<1>17. ASSUME NEW i \in p + 1 .. c PROVE stream[i] # Newline
  <2>1. i - p \in 1 .. l /\ p + (i - p) = i
    BY <1>1, <1>2
  <2> QED
    BY <1>5, <1>11, <2>1
<1>18. p \in Nat /\ p + l = c
  BY <1>1, <1>2
<1> QED
  BY <1>2, <1>4, <1>12, <1>15, <1>16, <1>17, <1>18 DEF n, c, p, f, l, whole, piece

(* How far the piece reaches, by what ReadSlice has returned.              *)
LEMMA PieceEnd ==
  ASSUME TypeOK, LineIsThePiece, PieceStart \in Breaks
  PROVE  \E e \in Taken + Len(Fragment) .. Len(stream) :
           /\ PieceAfter(PieceStart) = SubSeq(stream, PieceStart + 1, e)
           /\ SliceErr # "bufferFull" => e = Taken + Len(Fragment)
<1> DEFINE n == Len(stream)
           c == Taken
           p == PieceStart
           f == Len(Fragment)
           q == c + f
<1>1. /\ n \in Nat /\ c \in 0 .. n /\ f \in Nat /\ q <= n
      /\ p \in Nat /\ p <= c
      /\ \A i \in p + 1 .. c : stream[i] # Newline
  BY SliceFacts, WholeFacts, NsmReaderAssumption
<1>2. \/ /\ SliceErr = "nil" /\ f > 0 /\ stream[q] = Newline
         /\ \A i \in c + 1 .. q - 1 : stream[i] # Newline
      \/ /\ SliceErr = "bufferFull" /\ \A i \in c + 1 .. q : stream[i] # Newline
      \/ SliceErr = ending /\ q = n /\ \A i \in c + 1 .. n : stream[i] # Newline
  BY SliceFacts
<1>3. PICK e \in p .. n :
        /\ PieceAfter(p) = SubSeq(stream, p + 1, e)
        /\ \A i \in p + 1 .. e - 1 : stream[i] # Newline
        /\ \/ e > p /\ stream[e] = Newline
           \/ e = n /\ \A i \in p + 1 .. e : stream[i] # Newline
  BY PieceFacts
<1> HIDE DEF n, c, p, f
<1>4. \A i \in p + 1 .. q - 1 : stream[i] # Newline
  <2>1. \A i \in p + 1 .. q - 1 : i \in p + 1 .. c \/ i \in c + 1 .. q - 1
    BY <1>1
  <2>2. \A i \in c + 1 .. q - 1 : i \in c + 1 .. q
    BY <1>1
  <2> QED
    BY <1>1, <1>2, <2>1, <2>2
<1>5. e >= q
  <2>1. SUFFICES ASSUME e < q PROVE FALSE
    BY <1>1
  <2>2. e # n
    BY <1>1, <2>1
  <2>3. e \in p + 1 .. q - 1
    BY <1>1, <1>3, <2>1, <2>2
  <2> QED
    BY <1>3, <1>4, <2>2, <2>3
<1>6. SliceErr # "bufferFull" => e = q
  <2>1. CASE /\ SliceErr = "nil" /\ f > 0 /\ stream[q] = Newline
    <3>1. ~ (q < e)
      <4>1. SUFFICES ASSUME q < e PROVE FALSE
        OBVIOUS
      <4>2. q \in p + 1 .. e - 1
        BY <1>1, <2>1, <4>1
      <4> QED
        BY <1>3, <2>1, <4>2
    <3> QED
      BY <1>1, <1>5, <3>1
  <2>2. CASE q = n
    BY <1>1, <1>5, <2>2
  <2> QED
    BY <1>2, <2>1, <2>2
<1> QED
  BY <1>1, <1>3, <1>5, <1>6 DEF n, c, p, f

-----------------------------------------------------------------------------
(* The verdicts.                                                           *)

(* What is made of a line is an outcome.                                   *)
LEMMA OutcomeFacts ==
  ASSUME NEW bytes \in Seq(Bytes)
  PROVE  /\ Line(bytes) \in Outcomes
         /\ Line(TrimBreaks(bytes)) \in Outcomes
         /\ TooLarge(LooksJSON(bytes)) \in Outcomes
<1>1. LooksJSON(bytes) \in BOOLEAN
  BY DEF LooksJSON
<1>2. TrimBreaks(bytes) \in Seq(Bytes)
  <2> DEFINE kept == {i \in 1 .. Len(bytes) : bytes[i] \notin {Return, Newline}}
             last == IF kept # {} THEN Max(kept) ELSE 0
  <2>1. TrimBreaks(bytes) = SubSeq(bytes, 1, last)
    BY DEF TrimBreaks, SelectLastInSeq
  <2>2. Len(bytes) \in Nat
    BY LenProperties
  <2>3. last \in 0 .. Len(bytes)
    <3>1. CASE kept = {}
      BY <2>2, <3>1
    <3>2. CASE kept # {}
      <4>1. kept \subseteq 0 .. Len(bytes)
        BY <2>2
      <4>2. Max(kept) \in kept
        BY <2>2, <3>2, <4>1, MaxOf
      <4> QED
        BY <2>2, <3>2, <4>1, <4>2
    <3> QED
      BY <3>1, <3>2
  <2> HIDE DEF last
  <2> QED
    BY <2>1, <2>3, PrefixFacts
<1> QED
  BY <1>1, <1>2 DEF Line, TooLarge, Outcomes

(* A piece that has not been read to its end, or has something in it, is   *)
(* numbered by the verdicts so far.                                        *)
LEMMA AtPiece ==
  ASSUME ReaderInv, pc = "read", Len(line) + Len(Fragment) > 0
  PROVE  PieceStart \in Breaks /\ Cardinality(BreaksBefore(PieceStart)) = Len(out)
<1>1. TypeOK /\ VerdictsAreThePieces
  BY DEF ReaderInv
<1>2. SUFFICES ASSUME input = <<>>, line = <<>> PROVE FALSE
  BY <1>1 DEF VerdictsAreThePieces
<1>3. Len(input) = 0 /\ Len(line) = 0
  BY <1>2
<1>4. /\ Len(stream) \in Nat /\ Len(input) = Len(stream) - Taken /\ Taken \in 0 .. Len(stream)
      /\ Len(Fragment) \in 0 .. BufSize /\ Taken + Len(Fragment) <= Len(stream)
  BY <1>1, SliceFacts
<1>5. BufSize \in Nat
  BY NsmReaderAssumption
<1> QED
  BY <1>3, <1>4, <1>5

(* A line that is refused is a piece over the limit, and what is looked at *)
(* of it is the same.                                                      *)
LEMMA RefusedIsTooLong ==
  ASSUME TypeOK, LineIsThePiece, MemoryBounded, PieceStart \in Breaks, TooLong
  PROVE  Verdict(PieceAfter(PieceStart)) = <<TooLarge(LooksJSON(line \o Fragment))>>
<1> DEFINE n == Len(stream)
           c == Taken
           p == PieceStart
           f == Len(Fragment)
           l == Len(line)
           whole == line \o Fragment
           piece == PieceAfter(p)
           cap == LineMax + BufSize
<1>1. BufSize \in Nat \ {0} /\ LineMax \in Nat \ {0} /\ LineMax % BufSize = 0
  BY NsmReaderAssumption
<1>2. /\ n \in Nat /\ c \in 0 .. n /\ f \in 0 .. BufSize /\ c + f <= n
      /\ SliceErr = "bufferFull" => f = BufSize
  BY SliceFacts DEF TypeOK
<1>3. /\ l \in Nat /\ p \in Nat /\ p + l = c
      /\ whole \in Seq(Bytes) /\ Len(whole) = l + f
      /\ \A i \in 1 .. l + f : whole[i] = stream[p + i]
  BY WholeFacts
<1>4. PICK e \in c + f .. n :
        /\ piece = SubSeq(stream, p + 1, e)
        /\ SliceErr # "bufferFull" => e = c + f
  BY PieceEnd
<1>5. stream \in Seq(Bytes) /\ l <= LineMax /\ l + f > LineMax /\ l % BufSize = 0
  BY DEF TypeOK, MemoryBounded, TooLong, LineIsThePiece
<1> HIDE DEF n, c, p, f, l, whole, piece
<1>6. l = LineMax
  BY <1>1, <1>2, <1>3, <1>5, LimitReached
<1>7. \A i \in p + 1 .. e : stream[i] \in Bytes
  <2>1. \A i \in p + 1 .. e : i \in 1 .. n
    BY <1>2, <1>3, <1>4
  <2> QED
    BY <1>5, <2>1, ElementOfSeq DEF n
<1>8. /\ piece \in Seq(Bytes)
      /\ Len(piece) = IF p + 1 <= e THEN e - (p + 1) + 1 ELSE 0
      /\ \A i \in 1 .. e - (p + 1) + 1 : piece[i] = stream[(p + 1) + i - 1]
  <2>1. p + 1 \in Int /\ e \in Int
    BY <1>1, <1>2, <1>3, <1>4
  <2>2. /\ SubSeq(stream, p + 1, e) \in Seq(Bytes)
        /\ Len(SubSeq(stream, p + 1, e)) = IF p + 1 <= e THEN e - (p + 1) + 1 ELSE 0
        /\ \A i \in 1 .. e - (p + 1) + 1 : SubSeq(stream, p + 1, e)[i] = stream[(p + 1) + i - 1]
    BY <1>7, <2>1, SubSeqProperties
  <2> QED
    BY <1>4, <2>2
<1>9. /\ Len(piece) \in Nat /\ Len(piece) >= l + f /\ l + f \in Nat
      /\ e = c + f => Len(piece) = l + f
      /\ e - (p + 1) + 1 = Len(piece)
      /\ cap \in Nat /\ l + f <= cap /\ (f = BufSize => l + f = cap)
  BY <1>1, <1>2, <1>3, <1>4, <1>6, <1>8
<1>10. Min({Len(piece), cap}) = l + f
  <2> HIDE DEF cap
  <2>1. {Len(piece), cap} \subseteq Nat /\ {Len(piece), cap} # {}
    BY <1>9
  <2>2. /\ Min({Len(piece), cap}) \in {Len(piece), cap}
        /\ \A y \in {Len(piece), cap} : Min({Len(piece), cap}) <= y
    BY <2>1, MinOf
  <2>3. Len(piece) = l + f \/ cap = l + f
    BY <1>2, <1>4, <1>9
  <2> QED
    BY <1>9, <2>2, <2>3
<1>11. SubSeq(piece, 1, l + f) = whole
  <2>1. l + f \in 0 .. Len(piece)
    BY <1>9
  <2>2. /\ SubSeq(piece, 1, l + f) \in Seq(Bytes)
        /\ Len(SubSeq(piece, 1, l + f)) = l + f
        /\ \A i \in 1 .. l + f : SubSeq(piece, 1, l + f)[i] = piece[i]
    BY <1>8, <2>1, PrefixFacts
  <2>3. \A i \in 1 .. l + f : i \in 1 .. e - (p + 1) + 1 /\ (p + 1) + i - 1 = p + i
    BY <1>3, <1>9
  <2>4. \A i \in 1 .. l + f : SubSeq(piece, 1, l + f)[i] = whole[i]
    BY <1>3, <1>8, <2>2, <2>3
  <2> QED
    BY <1>3, <2>2, <2>4, SeqEqual
<1>12. Len(piece) > LineMax
  BY <1>1, <1>5, <1>9
<1>13. Verdict(piece) = <<TooLarge(LooksJSON(whole))>>
  BY <1>10, <1>11, <1>12 DEF Verdict
<1> QED
  BY <1>13 DEF piece, p, whole

(* A line that is not refused and that ends with a break or the stream is  *)
(* a piece, with a break at its end or without one.                        *)
LEMMA PieceIsRead ==
  ASSUME TypeOK, LineIsThePiece, PieceStart \in Breaks, ~ TooLong, SliceErr # "bufferFull"
  PROVE  /\ PieceAfter(PieceStart) = line \o Fragment
         /\ Len(line \o Fragment) <= LineMax
         /\ line \o Fragment # <<>> => (Last(line \o Fragment) = Newline <=> SliceErr = "nil")
         /\ SliceErr = "nil" => line \o Fragment # <<>>
<1> DEFINE n == Len(stream)
           c == Taken
           p == PieceStart
           f == Len(Fragment)
           l == Len(line)
           whole == line \o Fragment
<1>1. BufSize \in Nat \ {0} /\ LineMax \in Nat \ {0}
  BY NsmReaderAssumption
<1>2. /\ n \in Nat /\ c \in 0 .. n /\ f \in 0 .. BufSize /\ c + f <= n
      /\ \/ SliceErr = "nil" /\ f > 0 /\ stream[c + f] = Newline
         \/ /\ SliceErr = ending /\ c + f = n
            /\ \A i \in c + 1 .. n : stream[i] # Newline
  BY SliceFacts
<1>3. /\ l \in Nat /\ p \in Nat /\ p + l = c
      /\ whole \in Seq(Bytes) /\ Len(whole) = l + f
      /\ whole = SubSeq(stream, p + 1, c + f)
      /\ \A i \in 1 .. l + f : whole[i] = stream[p + i]
      /\ \A i \in p + 1 .. c : stream[i] # Newline
  BY WholeFacts
<1>4. PieceAfter(p) = whole
  <2>1. PICK e \in c + f .. n :
          /\ PieceAfter(p) = SubSeq(stream, p + 1, e)
          /\ SliceErr # "bufferFull" => e = c + f
    BY PieceEnd
  <2> QED
    BY <1>3, <2>1
<1>5. ~ (l + f > LineMax) /\ ending # "nil"
  BY DEF TooLong, TypeOK
<1>6. Last(whole) = whole[Len(whole)]
  BY DEF Last
<1> HIDE DEF n, c, p, f, l, whole
<1>7. Len(whole) <= LineMax /\ (SliceErr = "nil" => Len(whole) > 0)
  BY <1>1, <1>2, <1>3, <1>5
<1>8. ASSUME whole # <<>> PROVE Last(whole) = Newline <=> SliceErr = "nil"
  <2>1. Len(whole) # 0
    BY <1>3, <1>8, EmptySeq
  <2>2. l + f \in 1 .. l + f /\ p + (l + f) = c + f /\ c + f >= p + 1 /\ c + f \in Nat
    BY <1>1, <1>2, <1>3, <2>1
  <2>3. Last(whole) = stream[c + f]
    BY <1>3, <1>6, <2>2
  <2>4. ASSUME SliceErr # "nil" PROVE stream[c + f] # Newline
    <3>1. c + f = n /\ \A i \in c + 1 .. n : stream[i] # Newline
      BY <1>2, <2>4
    <3>2. c + f \in c + 1 .. n \/ c + f \in p + 1 .. c
      BY <1>1, <1>2, <2>2, <3>1
    <3> QED
      BY <1>3, <3>1, <3>2
  <2>5. SliceErr = "nil" => stream[c + f] = Newline
    BY <1>2, <1>5
  <2> QED
    BY <2>3, <2>4, <2>5
<1>9. SliceErr = "nil" => whole # <<>>
  <2>1. Len(<<>>) = 0
    OBVIOUS
  <2> QED
    BY <1>7, <2>1
<1> QED
  BY <1>4, <1>7, <1>8, <1>9 DEF p, whole

(* One more verdict, the one on the next piece, keeps them in order.       *)
LEMMA OneMore ==
  ASSUME TypeOK, OneVerdictPerLine, PieceStart \in Breaks,
         Cardinality(BreaksBefore(PieceStart)) = Len(out),
         NEW v \in Outcomes, Verdict(PieceAfter(PieceStart)) = <<v>>
  PROVE  /\ Append(out, v) \in Seq(Outcomes) /\ Len(Append(out, v)) = Len(out) + 1
         /\ Len(out) + 1 <= Cardinality(Breaks)
         /\ \A n \in DOMAIN Append(out, v) : VerdictOn(n) = <<Append(out, v)[n]>>
<1> DEFINE p == PieceStart
           m == Len(out)
<1>1. out \in Seq(Outcomes) /\ m \in Nat /\ DOMAIN out = 1 .. m
  BY LenProperties DEF TypeOK
<1>2. /\ Append(out, v) \in Seq(Outcomes) /\ Len(Append(out, v)) = m + 1
      /\ \A i \in 1 .. m : Append(out, v)[i] = out[i]
      /\ Append(out, v)[m + 1] = v
  BY <1>1, AppendProperties
<1>3. m + 1 <= Cardinality(Breaks)
  <2>1. /\ IsFiniteSet(Breaks) /\ Cardinality(Breaks) \in Nat
        /\ IsFiniteSet(BreaksBefore(p)) /\ Breaks \subseteq Nat
    BY BreaksFacts
  <2>2. p \notin BreaksBefore(p) /\ BreaksBefore(p) \cup {p} \subseteq Breaks
    BY <2>1 DEF BreaksBefore
  <2>3. Cardinality(BreaksBefore(p) \cup {p}) = m + 1
    BY <2>1, <2>2, FS_AddElement
  <2>4. Cardinality(BreaksBefore(p) \cup {p}) <= Cardinality(Breaks)
    BY <2>1, <2>2, FS_Subset
  <2> QED
    BY <2>3, <2>4
<1>4. VerdictOn(m + 1) = <<v>>
  <2>1. m + 1 \in Nat /\ Cardinality(BreaksBefore(p)) = (m + 1) - 1
    BY <1>1
  <2>2. Start(m + 1) = p
    BY <2>1, StartFacts
  <2> QED
    BY <2>2 DEF VerdictOn
<1>5. \A n \in 1 .. m : VerdictOn(n) = <<out[n]>>
  BY <1>1 DEF OneVerdictPerLine
<1>6. DOMAIN Append(out, v) = 1 .. m + 1
  BY <1>2, LenProperties
<1> HIDE DEF m
<1>7. \A n \in 1 .. m + 1 : n \in 1 .. m \/ n = m + 1
  BY <1>1
<1>8. \A n \in 1 .. m + 1 : VerdictOn(n) = <<Append(out, v)[n]>>
  BY <1>2, <1>4, <1>5, <1>7
<1> QED
  BY <1>2, <1>3, <1>6, <1>8 DEF m

-----------------------------------------------------------------------------
(* Steps.                                                                  *)

(* Where a call of ReadSlice ends, counting the breaks before: m of them   *)
(* as long as none comes.                                                  *)
LEMMA AfterSlice ==
  ASSUME TypeOK, NEW m \in Nat,
         \A q \in Taken + 1 .. Len(stream) + 1 :
           (\A i \in Taken + 1 .. q - 1 : stream[i] # Newline)
             => Cardinality(BreaksBefore(q)) = m
  PROVE  \/ /\ SliceErr = "bufferFull" /\ Taken + Len(Fragment) \notin Breaks
            /\ Cardinality(BreaksBefore(Taken + Len(Fragment))) = m
         \/ /\ SliceErr = "nil" /\ Taken + Len(Fragment) \in Breaks
            /\ Cardinality(BreaksBefore(Taken + Len(Fragment))) = m
         \/ SliceErr = ending /\ Rest = <<>> /\ Cardinality(Breaks) = m
<1> DEFINE n == Len(stream)
           c == Taken
           f == Len(Fragment)
           t == c + f
<1>1. BufSize \in Nat \ {0} /\ f \in 0 .. BufSize
  BY NsmReaderAssumption, SliceFacts
<1>2. n \in Nat /\ c \in 0 .. n /\ f \in Nat /\ t <= n
  BY <1>1, SliceFacts
<1>3. Rest \in Seq(Bytes) /\ Len(Rest) = n - t
  BY SliceFacts
<1>4. \/ /\ SliceErr = "nil" /\ f > 0 /\ stream[t] = Newline
         /\ \A i \in c + 1 .. t - 1 : stream[i] # Newline
      \/ /\ SliceErr = "bufferFull" /\ f = BufSize
         /\ \A i \in c + 1 .. t : stream[i] # Newline
      \/ SliceErr = ending /\ t = n /\ \A i \in c + 1 .. n : stream[i] # Newline
  BY SliceFacts
<1>5. \A k \in 1 .. n : k \in Breaks <=> stream[k] = Newline
  BY BreaksFacts
<1>6. BreaksBefore(n + 1) = Breaks
  BY CountAll
<1>7. \A q \in c + 1 .. n + 1 :
        (\A i \in c + 1 .. q - 1 : stream[i] # Newline) => Cardinality(BreaksBefore(q)) = m
  OBVIOUS
<1> HIDE DEF n, c, f
<1>8. f > 0 => t \in 1 .. n /\ t \in c + 1 .. n + 1 /\ t \in c + 1 .. t
  BY <1>2
<1>9. CASE /\ SliceErr = "nil" /\ f > 0 /\ stream[t] = Newline
           /\ \A i \in c + 1 .. t - 1 : stream[i] # Newline
  BY <1>5, <1>7, <1>8, <1>9 DEF c, f
<1>10. CASE /\ SliceErr = "bufferFull" /\ f = BufSize
            /\ \A i \in c + 1 .. t : stream[i] # Newline
  <2>1. f > 0 /\ \A i \in c + 1 .. t - 1 : i \in c + 1 .. t
    BY <1>1, <1>2, <1>10
  <2>2. \A i \in c + 1 .. t - 1 : stream[i] # Newline
    BY <1>10, <2>1
  <2> QED
    BY <1>5, <1>7, <1>8, <1>10, <2>1, <2>2 DEF c, f
<1>11. CASE SliceErr = ending /\ t = n /\ \A i \in c + 1 .. n : stream[i] # Newline
  <2>1. n + 1 \in c + 1 .. n + 1 /\ (n + 1) - 1 = n /\ n - t = 0
    BY <1>2, <1>11
  <2>2. Cardinality(BreaksBefore(n + 1)) = m
    BY <1>7, <1>11, <2>1
  <2>3. Rest = <<>>
    BY <1>3, <2>1, EmptySeq
  <2> QED
    BY <1>6, <1>11, <2>2, <2>3
<1> QED
  BY <1>4, <1>9, <1>10, <1>11

(* From the start of a piece: one more break than it has before it.        *)
LEMMA AfterPiece ==
  ASSUME TypeOK, LineIsThePiece, PieceStart \in Breaks
  PROVE  \A q \in Taken + 1 .. Len(stream) + 1 :
           (\A i \in Taken + 1 .. q - 1 : stream[i] # Newline)
             => Cardinality(BreaksBefore(q)) = Cardinality(BreaksBefore(PieceStart)) + 1
<1> DEFINE c == Taken
           p == PieceStart
           n == Len(stream)
<1>1. n \in Nat /\ c \in 0 .. n /\ p \in Nat /\ p <= c /\ \A i \in p + 1 .. c : stream[i] # Newline
  BY SliceFacts, WholeFacts
<1>2. ASSUME NEW q \in c + 1 .. n + 1, \A i \in c + 1 .. q - 1 : stream[i] # Newline
      PROVE  Cardinality(BreaksBefore(q)) = Cardinality(BreaksBefore(p)) + 1
  <2> HIDE DEF c, n
  <2>1. \A i \in p + 1 .. q - 1 : i \in p + 1 .. c \/ i \in c + 1 .. q - 1
    BY <1>1
  <2>2. \A i \in p + 1 .. q - 1 : stream[i] # Newline
    BY <1>1, <1>2, <2>1
  <2>3. q \in Nat /\ p < q /\ q <= n + 1
    BY <1>1
  <2> QED
    BY <2>2, <2>3, CountUp DEF n
<1> QED
  BY <1>2

(* From within a piece that is discarded: none.                            *)
LEMMA AfterRefused ==
  ASSUME TypeOK, Taken \notin Breaks
  PROVE  \A q \in Taken + 1 .. Len(stream) + 1 :
           (\A i \in Taken + 1 .. q - 1 : stream[i] # Newline)
             => Cardinality(BreaksBefore(q)) = Cardinality(BreaksBefore(Taken))
<1> DEFINE c == Taken
           n == Len(stream)
<1>1. n \in Nat /\ c \in 0 .. n
  BY SliceFacts
<1>2. ASSUME NEW q \in c + 1 .. n + 1, \A i \in c + 1 .. q - 1 : stream[i] # Newline
      PROVE  Cardinality(BreaksBefore(q)) = Cardinality(BreaksBefore(c))
  <2>1. c \in Nat /\ q \in Nat /\ c <= q /\ q <= n + 1
    BY <1>1
  <2> QED
    BY <1>2, <2>1, CountSame
<1> QED
  BY <1>2

(* What the pieces and their verdicts are does not change.                 *)
LEMMA Unmoved ==
  ASSUME UNCHANGED <<stream, ending>>
  PROVE  /\ Breaks' = Breaks
         /\ \A k : BreaksBefore(k)' = BreaksBefore(k)
         /\ \A n : VerdictOn(n)' = VerdictOn(n)
<1>1. Breaks' = Breaks
  BY DEF Breaks
<1>2. \A k : BreaksBefore(k)' = BreaksBefore(k)
  BY <1>1 DEF BreaksBefore
<1>3. \A n : VerdictOn(n)' = VerdictOn(n)
  BY <1>1 DEF VerdictOn, Verdict, PieceAfter, Start, BreaksBefore
<1> QED
  BY <1>1, <1>2, <1>3

(* What a step reads is taken off the front.                               *)
LEMMA Reads ==
  ASSUME TypeOK, UNCHANGED <<stream, ending>>, input' = Rest
  PROVE  /\ ending' \in {"eof", "error"} /\ stream' \in Seq(Bytes) /\ input' \in Seq(Bytes)
         /\ Len(input') <= Len(stream')
         /\ input' = SubSeq(stream', Len(stream') - Len(input') + 1, Len(stream'))
         /\ Taken' = Taken + Len(Fragment)
<1> DEFINE n == Len(stream)
           c == Taken
           f == Len(Fragment)
<1>1. /\ n \in Nat /\ c \in 0 .. n /\ f \in Nat /\ c + f <= n
      /\ Rest \in Seq(Bytes) /\ Len(Rest) = n - (c + f)
      /\ Rest = SubSeq(stream, c + f + 1, n)
  BY SliceFacts, NsmReaderAssumption
<1>2. ending \in {"eof", "error"} /\ stream \in Seq(Bytes)
  BY DEF TypeOK
<1>3. Taken' = Len(stream') - Len(input')
  BY DEF Taken
<1> HIDE DEF n, c, f
<1>4. n - (n - (c + f)) + 1 = c + f + 1 /\ n - (n - (c + f)) = c + f /\ n - (c + f) <= n
  BY <1>1
<1> QED
  BY <1>1, <1>2, <1>3, <1>4 DEF n, c, f

(* With no line begun the current piece starts where the reading stands.   *)
LEMMA NoLine ==
  TypeOK /\ line = <<>> => LineIsThePiece /\ MemoryBounded /\ PieceStart = Taken
<1> SUFFICES ASSUME TypeOK, line = <<>>
             PROVE  LineIsThePiece /\ MemoryBounded /\ PieceStart = Taken
  OBVIOUS
<1>1. Len(stream) \in Nat /\ Taken \in 0 .. Len(stream)
  BY SliceFacts
<1>2. Len(line) = 0 /\ DOMAIN line = {}
  OBVIOUS
<1>3. PieceStart = Taken
  BY <1>1, <1>2 DEF PieceStart
<1>4. SubSeq(stream, Taken + 1, Taken) = <<>>
  <2>1. Taken \in Int /\ Taken + 1 \in Int /\ Taken < Taken + 1
    BY <1>1
  <2> QED
    BY <2>1, SubSeqEmpty
<1>5. Len(line) % BufSize = 0
  BY <1>2, NsmReaderAssumption
<1>6. MemoryBounded
  BY <1>2, NsmReaderAssumption DEF MemoryBounded
<1> QED
  BY <1>1, <1>2, <1>3, <1>4, <1>5, <1>6 DEF LineIsThePiece

(* The same after a step.                                                  *)
LEMMA NoLineNext ==
  (TypeOK /\ line = <<>> => LineIsThePiece /\ MemoryBounded /\ PieceStart = Taken)'
BY NoLine, PTL

-----------------------------------------------------------------------------
(* The inductive invariant.                                                *)

(* It holds before anything is read.                                       *)
LEMMA InitReader == Init => ReaderInv
<1> SUFFICES ASSUME Init PROVE ReaderInv
  OBVIOUS
<1>1. /\ stream \in Seq(Bytes) /\ ending \in {"eof", "error"} /\ input = stream
      /\ line = <<>> /\ pc = "read" /\ out = <<>>
  BY NsmReaderAssumption DEF Init
<1>2. Len(stream) \in Nat
  BY <1>1, LenProperties
<1>3. stream = SubSeq(stream, 1, Len(stream))
  <2>1. Len(stream) \in 0 .. Len(stream)
    BY <1>2
  <2>2. /\ SubSeq(stream, 1, Len(stream)) \in Seq(Bytes)
        /\ Len(SubSeq(stream, 1, Len(stream))) = Len(stream)
        /\ \A i \in 1 .. Len(stream) : SubSeq(stream, 1, Len(stream))[i] = stream[i]
    BY <1>1, <2>1, PrefixFacts
  <2> QED
    BY <1>1, <2>2, SeqEqual
<1>4. TypeOK
  <2>1. Len(stream) - Len(stream) + 1 = 1 /\ Len(stream) <= Len(stream)
    BY <1>2
  <2>2. out \in Seq(Outcomes) /\ line \in Seq(Bytes)
    BY <1>1
  <2> QED
    BY <1>1, <1>3, <2>1, <2>2 DEF TypeOK
<1>5. LineIsThePiece /\ MemoryBounded /\ PieceStart = Taken
  BY <1>1, <1>4, NoLine
<1>6. VerdictsAreThePieces
  <2>1. Taken = 0
    BY <1>1, <1>2 DEF Taken
  <2>2. 0 \in Breaks /\ Breaks \subseteq Nat
    BY <1>4, BreaksFacts
  <2>3. BreaksBefore(0) = {}
    <3>1. \A j \in Breaks : ~ (j < 0)
      BY <2>2
    <3> QED
      BY <3>1 DEF BreaksBefore
  <2>4. Cardinality(BreaksBefore(0)) = 0
    BY <2>3, FS_EmptySet
  <2> QED
    BY <1>1, <1>5, <2>1, <2>2, <2>4 DEF VerdictsAreThePieces
<1>7. OneVerdictPerLine
  <2>1. Cardinality(Breaks) \in Nat /\ Len(out) = 0 /\ DOMAIN out = {}
    BY <1>1, <1>4, BreaksFacts
  <2> QED
    BY <1>1, <2>1 DEF OneVerdictPerLine
<1> QED
  BY <1>4, <1>5, <1>6, <1>7 DEF ReaderInv

(* A step that hands out the verdict on the current piece, reads on and    *)
(* begins no line; it discards only after a full buffer.                   *)
LEMMA HandsOut ==
  ASSUME ReaderInv, PieceStart \in Breaks, Cardinality(BreaksBefore(PieceStart)) = Len(out),
         NEW v \in Outcomes, Verdict(PieceAfter(PieceStart)) = <<v>>,
         out' = Append(out, v), input' = Rest, line' = <<>>,
         pc' = IF SliceErr = "bufferFull" THEN "discard" ELSE "read",
         UNCHANGED <<stream, ending>>
  PROVE  ReaderInv'
<1>1. TypeOK /\ LineIsThePiece /\ OneVerdictPerLine
  BY DEF ReaderInv
<1>2. /\ Append(out, v) \in Seq(Outcomes) /\ Len(Append(out, v)) = Len(out) + 1
      /\ Len(out) + 1 <= Cardinality(Breaks)
      /\ \A n \in DOMAIN Append(out, v) : VerdictOn(n) = <<Append(out, v)[n]>>
  BY <1>1, OneMore
<1>3. \/ /\ SliceErr = "bufferFull" /\ Taken + Len(Fragment) \notin Breaks
         /\ Cardinality(BreaksBefore(Taken + Len(Fragment))) = Len(out) + 1
      \/ /\ SliceErr = "nil" /\ Taken + Len(Fragment) \in Breaks
         /\ Cardinality(BreaksBefore(Taken + Len(Fragment))) = Len(out) + 1
      \/ SliceErr = ending /\ Rest = <<>> /\ Cardinality(Breaks) = Len(out) + 1
  <2>1. \A q \in Taken + 1 .. Len(stream) + 1 :
          (\A i \in Taken + 1 .. q - 1 : stream[i] # Newline)
            => Cardinality(BreaksBefore(q)) = Len(out) + 1
    BY <1>1, AfterPiece
  <2>2. Len(out) + 1 \in Nat
    BY <1>1, LenProperties DEF TypeOK
  <2> QED
    BY <1>1, <2>1, <2>2, AfterSlice
<1>4. /\ ending' \in {"eof", "error"} /\ stream' \in Seq(Bytes) /\ input' \in Seq(Bytes)
      /\ Len(input') <= Len(stream')
      /\ input' = SubSeq(stream', Len(stream') - Len(input') + 1, Len(stream'))
      /\ Taken' = Taken + Len(Fragment)
  BY <1>1, Reads
<1>5. /\ Breaks' = Breaks /\ \A k : BreaksBefore(k)' = BreaksBefore(k)
      /\ \A n : VerdictOn(n)' = VerdictOn(n)
  BY Unmoved
<1>6. TypeOK'
  <2>1. line' \in Seq(Bytes) /\ pc' \in {"read", "discard", "stopped"}
    OBVIOUS
  <2> QED
    BY <1>2, <1>4, <2>1 DEF TypeOK
<1>7. LineIsThePiece' /\ MemoryBounded' /\ PieceStart' = Taken'
  BY <1>6, NoLineNext
<1>8. VerdictsAreThePieces'
  <2>1. ending # "bufferFull"
    BY <1>1 DEF TypeOK
  <2>2. \A k : Cardinality(BreaksBefore(k))' = Cardinality(BreaksBefore(k))
    BY <1>5
  <2>3. CASE /\ SliceErr = "bufferFull" /\ Taken + Len(Fragment) \notin Breaks
             /\ Cardinality(BreaksBefore(Taken + Len(Fragment))) = Len(out) + 1
    <3>1. pc' = "discard" /\ Taken' \notin Breaks'
      BY <1>4, <1>5, <2>3
    <3>2. Cardinality(BreaksBefore(Taken))' = Len(out')
      BY <1>2, <1>4, <1>5, <2>3 DEF BreaksBefore
    <3> QED
      BY <3>1, <3>2 DEF VerdictsAreThePieces
  <2>4. CASE /\ SliceErr = "nil" /\ Taken + Len(Fragment) \in Breaks
             /\ Cardinality(BreaksBefore(Taken + Len(Fragment))) = Len(out) + 1
    <3>1. pc' = "read" /\ PieceStart' \in Breaks'
      BY <1>4, <1>5, <1>7, <2>4
    <3>2. Cardinality(BreaksBefore(PieceStart))' = Len(out')
      BY <1>2, <1>4, <1>5, <1>7, <2>4 DEF BreaksBefore
    <3> QED
      BY <3>1, <3>2 DEF VerdictsAreThePieces
  <2>5. CASE SliceErr = ending /\ Rest = <<>> /\ Cardinality(Breaks) = Len(out) + 1
    BY <1>2, <1>5, <2>1, <2>5 DEF VerdictsAreThePieces
  <2> QED
    BY <1>3, <2>3, <2>4, <2>5
<1>9. OneVerdictPerLine'
  BY <1>2, <1>5 DEF OneVerdictPerLine
<1> QED
  BY <1>6, <1>7, <1>8, <1>9 DEF ReaderInv

(* Refusing a line keeps it.                                               *)
LEMMA RefuseLineReader ==
  ASSUME ReaderInv, RefuseLine
  PROVE  ReaderInv'
<1> DEFINE v == TooLarge(LooksJSON(line \o Fragment))
<1>1. /\ pc = "read" /\ TooLong
      /\ out' = Append(out, v) /\ input' = Rest /\ line' = <<>>
      /\ pc' = IF SliceErr = "bufferFull" THEN "discard" ELSE "read"
      /\ UNCHANGED <<stream, ending>>
  BY Zenon DEF RefuseLine
<1>2. TypeOK /\ LineIsThePiece /\ MemoryBounded
  BY DEF ReaderInv
<1>3. Len(line) + Len(Fragment) > 0
  <2>1. Len(line) \in Nat /\ Len(Fragment) \in 0 .. BufSize /\ BufSize \in Nat /\ LineMax \in Nat
    BY <1>2, WholeFacts, SliceFacts, NsmReaderAssumption
  <2> QED
    BY <1>1, <2>1 DEF TooLong
<1>4. PieceStart \in Breaks /\ Cardinality(BreaksBefore(PieceStart)) = Len(out)
  BY <1>1, <1>3, AtPiece
<1>5. v \in Outcomes
  BY <1>2, WholeFacts, OutcomeFacts
<1>6. Verdict(PieceAfter(PieceStart)) = <<v>>
  BY <1>1, <1>2, <1>4, RefusedIsTooLong
<1> HIDE DEF v
<1> QED
  BY <1>1, <1>4, <1>5, <1>6, HandsOut

(* Handing out a line keeps it.                                            *)
LEMMA ReturnLineReader ==
  ASSUME ReaderInv, ReturnLine
  PROVE  ReaderInv'
<1> DEFINE whole == line \o Fragment
<1>1. /\ pc = "read" /\ ~ TooLong
      /\ \/ SliceErr = "nil" /\ out' = Append(out, Line(TrimBreaks(whole)))
         \/ SliceErr = "eof" /\ whole # <<>> /\ out' = Append(out, Line(whole))
      /\ input' = Rest /\ line' = <<>> /\ pc' = "read"
      /\ UNCHANGED <<stream, ending>>
  BY Zenon DEF ReturnLine
<1>2. TypeOK /\ LineIsThePiece
  BY DEF ReaderInv
<1>3. SliceErr # "bufferFull"
  BY <1>1
<1>4. whole \in Seq(Bytes) /\ Len(whole) = Len(line) + Len(Fragment)
  BY <1>2, WholeFacts
<1>5. Len(line) + Len(Fragment) > 0
  <2>1. Len(line) \in Nat /\ Len(Fragment) \in 0 .. BufSize /\ BufSize \in Nat
    BY <1>2, WholeFacts, SliceFacts, NsmReaderAssumption
  <2>2. CASE SliceErr = "nil"
    <3>1. Len(Fragment) > 0
      BY <1>2, <2>2, SliceFacts, NsmReaderAssumption DEF TypeOK
    <3> QED
      BY <2>1, <3>1
  <2>3. CASE whole # <<>>
    <3>1. Len(whole) \in Nat \ {0}
      BY <1>4, <2>3, EmptySeq
    <3> QED
      BY <1>4, <3>1
  <2> QED
    BY <1>1, <2>2, <2>3
<1>6. PieceStart \in Breaks /\ Cardinality(BreaksBefore(PieceStart)) = Len(out)
  BY <1>1, <1>5, AtPiece
<1>7. /\ PieceAfter(PieceStart) = whole /\ ~ (Len(whole) > LineMax)
      /\ whole # <<>> => (Last(whole) = Newline <=> SliceErr = "nil")
      /\ SliceErr = "nil" => whole # <<>>
  <2>1. Len(whole) \in Nat /\ LineMax \in Nat
    BY <1>4, LenProperties, NsmReaderAssumption
  <2> QED
    BY <1>1, <1>2, <1>3, <1>6, <2>1, PieceIsRead
<1>8. Line(whole) \in Outcomes /\ Line(TrimBreaks(whole)) \in Outcomes
  BY <1>4, OutcomeFacts
<1> HIDE DEF whole
<1>9. pc' = IF SliceErr = "bufferFull" THEN "discard" ELSE "read"
  BY <1>1, <1>3
<1>10. CASE SliceErr = "nil" /\ out' = Append(out, Line(TrimBreaks(whole)))
  <2>1. Verdict(PieceAfter(PieceStart)) = <<Line(TrimBreaks(whole))>>
    BY <1>7, <1>10 DEF Verdict
  <2> QED
    BY <1>1, <1>6, <1>8, <1>9, <1>10, <2>1, HandsOut
<1>11. CASE SliceErr = "eof" /\ whole # <<>> /\ out' = Append(out, Line(whole))
  <2>1. ending = "eof"
    BY <1>2, <1>11, SliceFacts
  <2>2. Verdict(PieceAfter(PieceStart)) = <<Line(whole)>>
    BY <1>7, <1>11, <2>1 DEF Verdict
  <2> QED
    BY <1>1, <1>6, <1>8, <1>9, <1>11, <2>2, HandsOut
<1> QED
  BY <1>1, <1>10, <1>11

(* Taking another buffer full keeps it.                                    *)
LEMMA GrowLineReader ==
  ASSUME ReaderInv, GrowLine
  PROVE  ReaderInv'
<1> DEFINE n == Len(stream)
           c == Taken
           p == PieceStart
           f == Len(Fragment)
           l == Len(line)
           whole == line \o Fragment
<1>1. /\ pc = "read" /\ ~ TooLong /\ SliceErr = "bufferFull"
      /\ line' = whole /\ input' = Rest
      /\ UNCHANGED <<stream, ending, pc, out>>
  BY Zenon DEF GrowLine
<1>2. TypeOK /\ LineIsThePiece /\ OneVerdictPerLine
  BY DEF ReaderInv
<1>3. BufSize \in Nat \ {0} /\ LineMax \in Nat \ {0}
  BY NsmReaderAssumption
<1>4. /\ f = BufSize /\ c \in Nat /\ \A i \in c + 1 .. c + f : stream[i] # Newline
  BY <1>1, <1>2, SliceFacts DEF TypeOK
<1>5. /\ l \in Nat /\ p \in Nat /\ p + l = c
      /\ whole \in Seq(Bytes) /\ Len(whole) = l + f
      /\ whole = SubSeq(stream, p + 1, c + f)
      /\ \A i \in 1 .. l + f : whole[i] = stream[p + i]
      /\ \A i \in p + 1 .. c : stream[i] # Newline
  BY <1>2, WholeFacts
<1>6. PieceStart \in Breaks /\ Cardinality(BreaksBefore(PieceStart)) = Len(out)
  <2>1. Len(line) + Len(Fragment) > 0
    BY <1>3, <1>4, <1>5
  <2> QED
    BY <1>1, <2>1, AtPiece
<1>7. /\ ending' \in {"eof", "error"} /\ stream' \in Seq(Bytes) /\ input' \in Seq(Bytes)
      /\ Len(input') <= Len(stream')
      /\ input' = SubSeq(stream', Len(stream') - Len(input') + 1, Len(stream'))
      /\ Taken' = c + f
  BY <1>1, <1>2, Reads
<1>8. /\ Breaks' = Breaks /\ \A k : BreaksBefore(k)' = BreaksBefore(k)
      /\ \A k : VerdictOn(k)' = VerdictOn(k)
  BY <1>1, Unmoved
<1>9. l % BufSize = 0 /\ ~ (l + f > LineMax)
  BY <1>1, <1>2 DEF LineIsThePiece, TooLong
<1>10. PieceStart' = Taken' - Len(line')
  BY DEF PieceStart
<1> HIDE DEF n, c, p, f, l, whole
<1>11. TypeOK'
  BY <1>1, <1>2, <1>5, <1>7 DEF TypeOK
<1>12. PieceStart' = p
  BY <1>1, <1>3, <1>4, <1>5, <1>7, <1>10
<1>13. \A i \in DOMAIN whole : whole[i] # Newline
  <2>1. DOMAIN whole = 1 .. l + f
    BY <1>5, LenProperties
  <2>2. \A i \in 1 .. l + f : p + i \in p + 1 .. c \/ p + i \in c + 1 .. c + f
    BY <1>3, <1>4, <1>5
  <2> QED
    BY <1>4, <1>5, <2>1, <2>2
<1>14. (l + f) % BufSize = 0
  BY <1>3, <1>4, <1>5, <1>9, NextMultiple
<1>15. LineIsThePiece'
  BY <1>1, <1>5, <1>7, <1>12, <1>13, <1>14 DEF LineIsThePiece
<1>16. MemoryBounded'
  <2>1. l + f <= LineMax
    BY <1>3, <1>4, <1>5, <1>9
  <2> QED
    BY <1>1, <1>5, <2>1 DEF MemoryBounded
<1>17. VerdictsAreThePieces'
  <2>1. pc' = "read" /\ PieceStart' \in Breaks'
    BY <1>1, <1>6, <1>8, <1>12 DEF p
  <2>2. Cardinality(BreaksBefore(PieceStart))' = Len(out')
    BY <1>1, <1>6, <1>8, <1>12 DEF BreaksBefore, p
  <2> QED
    BY <2>1, <2>2 DEF VerdictsAreThePieces
<1>18. OneVerdictPerLine'
  BY <1>1, <1>2, <1>8 DEF OneVerdictPerLine
<1> QED
  BY <1>11, <1>15, <1>16, <1>17, <1>18 DEF ReaderInv

(* Discarding the rest of a refused line keeps it.                         *)
LEMMA DiscardReader ==
  ASSUME ReaderInv, Discard
  PROVE  ReaderInv'
<1>1. /\ pc = "discard" /\ input' = Rest
      /\ pc' = IF SliceErr = "bufferFull" THEN "discard" ELSE "read"
      /\ UNCHANGED <<stream, ending, line, out>>
  BY Zenon DEF Discard
<1>2. TypeOK /\ OneVerdictPerLine
  BY DEF ReaderInv
<1>3. Taken \notin Breaks /\ Cardinality(BreaksBefore(Taken)) = Len(out)
  BY <1>1 DEF ReaderInv, VerdictsAreThePieces
<1>4. \/ /\ SliceErr = "bufferFull" /\ Taken + Len(Fragment) \notin Breaks
         /\ Cardinality(BreaksBefore(Taken + Len(Fragment))) = Len(out)
      \/ /\ SliceErr = "nil" /\ Taken + Len(Fragment) \in Breaks
         /\ Cardinality(BreaksBefore(Taken + Len(Fragment))) = Len(out)
      \/ SliceErr = ending /\ Rest = <<>> /\ Cardinality(Breaks) = Len(out)
  <2>1. \A q \in Taken + 1 .. Len(stream) + 1 :
          (\A i \in Taken + 1 .. q - 1 : stream[i] # Newline)
            => Cardinality(BreaksBefore(q)) = Len(out)
    BY <1>2, <1>3, AfterRefused
  <2>2. Len(out) \in Nat
    BY <1>2, LenProperties DEF TypeOK
  <2> QED
    BY <1>2, <2>1, <2>2, AfterSlice
<1>5. /\ ending' \in {"eof", "error"} /\ stream' \in Seq(Bytes) /\ input' \in Seq(Bytes)
      /\ Len(input') <= Len(stream')
      /\ input' = SubSeq(stream', Len(stream') - Len(input') + 1, Len(stream'))
      /\ Taken' = Taken + Len(Fragment)
  BY <1>1, <1>2, Reads
<1>6. /\ Breaks' = Breaks /\ \A k : BreaksBefore(k)' = BreaksBefore(k)
      /\ \A n : VerdictOn(n)' = VerdictOn(n)
  BY <1>1, Unmoved
<1>7. line' = <<>>
  BY <1>1, <1>2 DEF TypeOK
<1>8. TypeOK'
  <2>1. line' \in Seq(Bytes) /\ pc' \in {"read", "discard", "stopped"}
    BY <1>1, <1>7
  <2> QED
    BY <1>1, <1>2, <1>5, <1>7, <2>1 DEF TypeOK
<1>9. LineIsThePiece' /\ MemoryBounded' /\ PieceStart' = Taken'
  BY <1>7, <1>8, NoLineNext
<1>10. VerdictsAreThePieces'
  <2>1. ending # "bufferFull"
    BY <1>2 DEF TypeOK
  <2>2. CASE /\ SliceErr = "bufferFull" /\ Taken + Len(Fragment) \notin Breaks
             /\ Cardinality(BreaksBefore(Taken + Len(Fragment))) = Len(out)
    <3>1. pc' = "discard" /\ Taken' \notin Breaks'
      BY <1>1, <1>5, <1>6, <2>2
    <3>2. Cardinality(BreaksBefore(Taken))' = Len(out')
      BY <1>1, <1>5, <1>6, <2>2 DEF BreaksBefore
    <3> QED
      BY <3>1, <3>2 DEF VerdictsAreThePieces
  <2>3. CASE /\ SliceErr = "nil" /\ Taken + Len(Fragment) \in Breaks
             /\ Cardinality(BreaksBefore(Taken + Len(Fragment))) = Len(out)
    <3>1. pc' = "read" /\ PieceStart' \in Breaks'
      BY <1>1, <1>5, <1>6, <1>9, <2>3
    <3>2. Cardinality(BreaksBefore(PieceStart))' = Len(out')
      BY <1>1, <1>5, <1>6, <1>9, <2>3 DEF BreaksBefore
    <3> QED
      BY <3>1, <3>2 DEF VerdictsAreThePieces
  <2>4. CASE SliceErr = ending /\ Rest = <<>> /\ Cardinality(Breaks) = Len(out)
    BY <1>1, <1>6, <1>7, <2>1, <2>4 DEF VerdictsAreThePieces
  <2> QED
    BY <1>4, <2>2, <2>3, <2>4
<1>11. OneVerdictPerLine'
  <2>1. pc' # "stopped"
    BY <1>1
  <2> QED
    BY <1>1, <1>2, <1>6, <2>1 DEF OneVerdictPerLine
<1> QED
  BY <1>8, <1>9, <1>10, <1>11 DEF ReaderInv

(* Stopping keeps it: no later piece has a verdict.                        *)
LEMMA StopReader ==
  ASSUME ReaderInv, Stop
  PROVE  ReaderInv'
<1> DEFINE whole == line \o Fragment
           m == Len(out)
<1>1. /\ pc = "read" /\ ~ TooLong
      /\ SliceErr = "error" \/ (SliceErr = "eof" /\ whole = <<>>)
      /\ pc' = "stopped" /\ line' = <<>> /\ input' = Rest
      /\ UNCHANGED <<stream, ending, out>>
  BY Zenon DEF Stop
<1>2. TypeOK /\ LineIsThePiece /\ OneVerdictPerLine
  BY DEF ReaderInv
<1>3. /\ ending' \in {"eof", "error"} /\ stream' \in Seq(Bytes) /\ input' \in Seq(Bytes)
      /\ Len(input') <= Len(stream')
      /\ input' = SubSeq(stream', Len(stream') - Len(input') + 1, Len(stream'))
  BY <1>1, <1>2, Reads
<1>4. /\ Breaks' = Breaks /\ \A n : VerdictOn(n)' = VerdictOn(n)
  BY <1>1, Unmoved
<1>5. TypeOK'
  <2>1. line' \in Seq(Bytes) /\ pc' \in {"read", "discard", "stopped"}
    BY <1>1
  <2> QED
    BY <1>1, <1>2, <1>3, <2>1 DEF TypeOK
<1>6. LineIsThePiece' /\ MemoryBounded'
  BY <1>1, <1>5, NoLineNext
<1>7. VerdictsAreThePieces'
  BY <1>1 DEF VerdictsAreThePieces
<1>8. m \in Nat
  BY <1>2, LenProperties DEF TypeOK
<1>9. \A n \in m + 1 .. Cardinality(Breaks) : VerdictOn(n) = <<>>
  <2>1. SliceErr \notin {"nil", "bufferFull"}
    BY <1>1
  <2>2. CASE PieceStart \in Breaks /\ Cardinality(BreaksBefore(PieceStart)) = m
    <3>1. Cardinality(Breaks) = m + 1
      <4>1. \A q \in Taken + 1 .. Len(stream) + 1 :
              (\A i \in Taken + 1 .. q - 1 : stream[i] # Newline)
                => Cardinality(BreaksBefore(q)) = m + 1
        BY <1>2, <2>2, AfterPiece
      <4>2. m + 1 \in Nat
        BY <1>8
      <4> HIDE DEF m
      <4> QED
        BY <1>2, <2>1, <4>1, <4>2, AfterSlice
    <3>2. Start(m + 1) = PieceStart
      <4>1. m + 1 \in Nat /\ Cardinality(BreaksBefore(PieceStart)) = (m + 1) - 1
        BY <1>8, <2>2
      <4> HIDE DEF m
      <4> QED
        BY <1>2, <2>2, <4>1, StartFacts
    <3>3. /\ PieceAfter(PieceStart) = whole /\ ~ (Len(whole) > LineMax)
          /\ whole # <<>> => Last(whole) # Newline
      <4>1. Len(whole) \in Nat /\ LineMax \in Nat
        BY <1>2, WholeFacts, LenProperties, NsmReaderAssumption
      <4> QED
        BY <1>1, <1>2, <2>1, <2>2, <4>1, PieceIsRead
    <3>4. whole # <<>> => ending # "eof"
      <4>1. SliceErr = ending
        BY <1>2, <2>1, SliceFacts
      <4> QED
        BY <1>1, <4>1
    <3> HIDE DEF whole, m
    <3>5. Verdict(PieceAfter(PieceStart)) = <<>>
      BY <3>3, <3>4 DEF Verdict
    <3>6. VerdictOn(m + 1) = <<>>
      BY <3>2, <3>5 DEF VerdictOn
    <3>7. \A n \in m + 1 .. Cardinality(Breaks) : n = m + 1
      BY <1>8, <3>1
    <3> QED
      BY <3>6, <3>7
  <2>3. CASE Cardinality(Breaks) = m
    BY <1>8, <2>3
  <2> QED
    BY <1>1, <2>2, <2>3 DEF ReaderInv, VerdictsAreThePieces
<1>10. OneVerdictPerLine'
  BY <1>1, <1>2, <1>4, <1>9 DEF OneVerdictPerLine
<1> QED
  BY <1>5, <1>6, <1>7, <1>10 DEF ReaderInv

(* So does a stuttering step.                                              *)
LEMMA StutterReader ==
  ASSUME ReaderInv, UNCHANGED vars
  PROVE  ReaderInv'
<1>1. UNCHANGED <<stream, ending, input, line, pc, out>>
  BY DEF vars
<1>2. /\ Breaks' = Breaks /\ \A k : BreaksBefore(k)' = BreaksBefore(k)
      /\ \A n : VerdictOn(n)' = VerdictOn(n)
  BY <1>1, Unmoved
<1>3. Taken' = Taken /\ PieceStart' = PieceStart
  BY <1>1 DEF Taken, PieceStart
<1>4. TypeOK' /\ MemoryBounded' /\ LineIsThePiece'
  BY <1>1, <1>3 DEF ReaderInv, TypeOK, MemoryBounded, LineIsThePiece
<1>5. OneVerdictPerLine'
  BY <1>1, <1>2 DEF ReaderInv, OneVerdictPerLine
<1>6. VerdictsAreThePieces'
  BY <1>1, <1>2, <1>3 DEF ReaderInv, VerdictsAreThePieces, BreaksBefore
<1> QED
  BY <1>4, <1>5, <1>6 DEF ReaderInv

(* In every reachable state the line is the part of the current piece that *)
(* has been read, and the verdicts are those on the pieces before it.      *)
THEOREM Invariance == Spec => []ReaderInv
<1>1. Init => ReaderInv
  BY InitReader
<1>2. ReaderInv /\ [Next]_vars => ReaderInv'
  <2> SUFFICES ASSUME ReaderInv, [Next]_vars PROVE ReaderInv'
    OBVIOUS
  <2>1. CASE RefuseLine
    BY <2>1, RefuseLineReader
  <2>2. CASE Discard
    BY <2>2, DiscardReader
  <2>3. CASE GrowLine
    BY <2>3, GrowLineReader
  <2>4. CASE ReturnLine
    BY <2>4, ReturnLineReader
  <2>5. CASE Stop
    BY <2>5, StopReader
  <2>6. CASE UNCHANGED vars
    BY <2>6, StutterReader
  <2> QED
    BY <2>1, <2>2, <2>3, <2>4, <2>5, <2>6 DEF Next
<1> QED
  BY <1>1, <1>2, PTL DEF Spec

(* Every variable keeps its type, and what is left to read is the end of   *)
(* the stream.                                                             *)
THEOREM TypeCorrect == Spec => []TypeOK
<1>1. ReaderInv => TypeOK
  BY DEF ReaderInv
<1> QED
  BY <1>1, Invariance, PTL

(* Whatever a client writes, and wherever the buffer boundaries fall in    *)
(* it, readNsmLine gives one verdict per line, in order.                   *)
THEOREM OneVerdict == Spec => []OneVerdictPerLine
<1>1. ReaderInv => OneVerdictPerLine
  BY DEF ReaderInv
<1> QED
  BY <1>1, Invariance, PTL

(* A line without a break never takes more memory than nsmLineMaxSize.     *)
THEOREM Bounded == Spec => []MemoryBounded
<1>1. ReaderInv => MemoryBounded
  BY DEF ReaderInv
<1> QED
  BY <1>1, Invariance, PTL

-----------------------------------------------------------------------------
(* Why the loop ends: what Terminates rests on besides fairness.           *)

(* The turns that are left, at most: bytes to read, a line to hand out, a  *)
(* rest to discard, the stop.                                              *)
TurnsLeft ==
  (3 * Len(input) + (IF line = <<>> THEN 0 ELSE 1))
    + (CASE pc = "discard" -> 2 [] pc = "read" -> 1 [] pc = "stopped" -> 0)

(* Every turn of readNsmLine, discardNsmLineRemainder and the loop around  *)
(* them uses up one of them, an empty read at the end included, whatever   *)
(* the stream.                                                             *)
THEOREM EveryTurnCounts == Spec => [](TurnsLeft \in Nat) /\ [][TurnsLeft' < TurnsLeft]_vars
<1>1. ReaderInv => TurnsLeft \in Nat
  <2> SUFFICES ASSUME ReaderInv PROVE TurnsLeft \in Nat
    OBVIOUS
  <2>1. Len(input) \in Nat /\ pc \in {"read", "discard", "stopped"}
    BY LenProperties DEF ReaderInv, TypeOK
  <2> QED
    BY <2>1 DEF TurnsLeft
<1>2. ReaderInv /\ [Next]_vars => [TurnsLeft' < TurnsLeft]_vars
  <2> SUFFICES ASSUME ReaderInv, Next PROVE TurnsLeft' < TurnsLeft
    OBVIOUS
  <2> DEFINE l == Len(input)
             f == Len(Fragment)
  <2>1. TypeOK /\ MemoryBounded /\ BufSize \in Nat \ {0} /\ LineMax \in Nat
    BY NsmReaderAssumption DEF ReaderInv
  <2>2. /\ l \in Nat /\ f \in Nat /\ Len(Rest) = l - f /\ f <= l
        /\ SliceErr = "nil" => f > 0
        /\ SliceErr = "bufferFull" => f > 0
        /\ Len(line) \in Nat
    <3>1. Len(line) \in Nat
      BY <2>1, LenProperties DEF TypeOK
    <3>2. ending \in {"eof", "error"}
      BY <2>1 DEF TypeOK
    <3>3. l \in Nat /\ f \in Nat /\ Len(Rest) = l - f /\ f <= l
      <4>1. /\ Len(stream) \in Nat /\ Taken \in 0 .. Len(stream)
            /\ l = Len(stream) - Taken
            /\ f \in 0 .. BufSize
            /\ Taken + f <= Len(stream)
            /\ Len(Rest) = Len(stream) - (Taken + f)
        BY <2>1, SliceFacts
      <4> HIDE DEF l, f
      <4> QED
        BY <2>1, <4>1
    <3>4. /\ SliceErr = "nil" => f > 0
          /\ SliceErr = "bufferFull" => f > 0
      <4>1. \/ SliceErr = "nil" /\ f > 0
            \/ SliceErr = "bufferFull" /\ f = BufSize
            \/ SliceErr = ending
        <5>1. TypeOK
          BY <2>1
        <5> HIDE DEF f
        <5> QED
          BY <5>1, SliceFacts, Zenon DEF f
      <4> HIDE DEF f
      <4> QED
        BY <2>1, <3>2, <4>1
    <3> QED
      BY <3>1, <3>3, <3>4
  <2>3. input' = Rest
    BY DEF Next, RefuseLine, Discard, GrowLine, ReturnLine, Stop
  <2>4. Len(input') = l - f
    BY <2>2, <2>3
  <2> HIDE DEF l, f
  <2>5. CASE RefuseLine
    <3>1. f > 0
      BY <2>1, <2>2, <2>5 DEF RefuseLine, TooLong, MemoryBounded, f
    <3>2. pc = "read" /\ pc' \in {"discard", "read"} /\ line' = <<>>
      BY <2>5 DEF RefuseLine
    <3> QED
      BY <2>2, <2>4, <3>1, <3>2 DEF TurnsLeft, l
  <2>6. CASE Discard
    <3>1. /\ pc = "discard" /\ line' = line
          /\ \/ pc' = "discard" /\ f > 0
             \/ pc' = "read"
      BY <2>2, <2>6 DEF Discard
    <3> QED
      BY <2>2, <2>4, <3>1 DEF TurnsLeft, l
  <2>7. CASE GrowLine
    <3>1. pc = "read" /\ pc' = "read" /\ f > 0
      BY <2>2, <2>7 DEF GrowLine
    <3> QED
      BY <2>2, <2>4, <3>1 DEF TurnsLeft, l
  <2>8. CASE ReturnLine
    <3>1. pc = "read" /\ pc' = "read" /\ line' = <<>>
      BY <2>8 DEF ReturnLine
    <3>2. f > 0 \/ line # <<>>
      <4>1. SliceErr = "nil" \/ line \o Fragment # <<>>
        BY <2>8 DEF ReturnLine
      <4>2. ASSUME f = 0, line = <<>> PROVE line \o Fragment = <<>>
        <5>1. Fragment \in Seq(Bytes)
          BY <2>1, SliceFacts
        <5>2. Fragment = <<>>
          BY <4>2, <5>1, EmptySeq DEF f
        <5> QED
          BY <4>2, <5>2
      <4> QED
        BY <2>2, <4>1, <4>2
    <3> QED
      BY <2>2, <2>4, <3>1, <3>2 DEF TurnsLeft, l
  <2>9. CASE Stop
    <3>1. pc = "read" /\ pc' = "stopped" /\ line' = <<>>
      BY <2>9 DEF Stop
    <3> QED
      BY <2>2, <2>4, <3>1 DEF TurnsLeft, l
  <2> QED
    BY <2>5, <2>6, <2>7, <2>8, <2>9 DEF Next
<1> QED
  BY <1>1, <1>2, Invariance, PTL DEF Spec

(* And it does not end before the stream does.                             *)
THEOREM StopsAtTheEnd == Spec => [](pc = "stopped" => input = <<>>)
<1> DEFINE AllRead == pc = "stopped" => input = <<>>
<1>1. Init => AllRead
  BY DEF Init
<1>2. ReaderInv /\ AllRead /\ [Next]_vars => AllRead'
  <2> SUFFICES ASSUME ReaderInv, AllRead, [Next]_vars, pc' = "stopped" PROVE input' = <<>>
    OBVIOUS
  <2>1. CASE Stop
    <3>1. input' = Rest /\ SliceErr \in {"eof", "error"}
      BY <2>1 DEF Stop
    <3>2. /\ Rest \in Seq(Bytes) /\ Len(Rest) = Len(stream) - (Taken + Len(Fragment))
          /\ Taken + Len(Fragment) = Len(stream) /\ Len(stream) \in Nat
      BY <3>1, SliceFacts DEF ReaderInv
    <3>3. Rest = <<>>
      BY <3>2, EmptySeq
    <3> QED
      BY <3>1, <3>3
  <2>2. CASE UNCHANGED vars
    BY <2>2 DEF vars
  <2>3. pc # "stopped" => ~ (RefuseLine \/ Discard \/ GrowLine \/ ReturnLine)
    BY DEF RefuseLine, Discard, GrowLine, ReturnLine
  <2>4. pc = "stopped" => ~ Next
    BY DEF Next, RefuseLine, Discard, GrowLine, ReturnLine, Stop
  <2> QED
    BY <2>1, <2>2, <2>3, <2>4 DEF Next
<1> QED
  BY <1>1, <1>2, Invariance, PTL DEF Spec
=============================================================================
