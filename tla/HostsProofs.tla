---------------------------- MODULE HostsProofs ----------------------------
(***************************************************************************)
(* Proofs about HostsFile, for every image's hosts file, every endpoint    *)
(* list, every other editor and any number of starts and power losses:     *)
(* lemmas about the text functions, then the inductive invariant.          *)
(***************************************************************************)
EXTENDS HostsFile, SeqLemmas, FiniteSetTheorems, SequenceTheorems, TLAPS

-----------------------------------------------------------------------------
(* The text functions.                                                     *)

(* What TrimRight takes off is all in the set, and what is left ends       *)
(* outside it.                                                             *)
LEMMA TrimRightFacts ==
  ASSUME NEW S, NEW s \in Seq(S), NEW cutset
  PROVE  \E n \in 0 .. Len(s) :
           /\ TrimRight(s, cutset) = SubSeq(s, 1, n)
           /\ n > 0 => s[n] \notin cutset
           /\ \A i \in n + 1 .. Len(s) : s[i] \in cutset
<1> DEFINE T == {0} \cup {i \in DOMAIN s : s[i] \notin cutset}
<1>1. Len(s) \in Nat /\ DOMAIN s = 1 .. Len(s)
  BY LenProperties
<1>2. T \subseteq 0 .. Len(s) /\ T # {}
  BY <1>1
<1> HIDE DEF T
<1>3. Max(T) \in T /\ \A y \in T : y <= Max(T)
  BY <1>1, <1>2, MaxOf
<1>4. Max(T) \in 0 .. Len(s)
  BY <1>2, <1>3
<1>5. Max(T) > 0 => s[Max(T)] \notin cutset
  BY <1>3, <1>4 DEF T
<1>6. ASSUME NEW i \in Max(T) + 1 .. Len(s) PROVE s[i] \in cutset
  <2>1. i \in DOMAIN s /\ ~ (i <= Max(T))
    BY <1>1, <1>4
  <2> QED
    BY <2>1, <1>3 DEF T
<1>7. TrimRight(s, cutset) = SubSeq(s, 1, Max(T))
  BY DEF TrimRight, T
<1> QED
  BY <1>4, <1>5, <1>6, <1>7

(* IndexFrom finds the first one from a position on, or says that there is *)
(* none.                                                                   *)
LEMMA IndexFromFacts ==
  ASSUME NEW S, NEW s \in Seq(S), NEW tok, NEW from \in Nat, from > 0
  PROVE  \/ /\ IndexFrom(s, tok, from) = 0
            /\ \A i \in from .. Len(s) : s[i] # tok
         \/ /\ IndexFrom(s, tok, from) \in from .. Len(s)
            /\ s[IndexFrom(s, tok, from)] = tok
            /\ \A i \in from .. IndexFrom(s, tok, from) - 1 : s[i] # tok
<1> DEFINE at == {i \in from .. Len(s) : s[i] = tok}
<1>1. Len(s) \in Nat
  BY LenProperties
<1>2. IndexFrom(s, tok, from) = IF at = {} THEN 0 ELSE Min(at)
  BY DEF IndexFrom
<1>3. CASE at = {}
  BY <1>2, <1>3
<1>4. CASE at # {}
  <2>1. at \subseteq Nat
    BY <1>1
  <2>2. Min(at) \in at /\ \A y \in at : Min(at) <= y
    BY <2>1, <1>4, MinOf
  <2> DEFINE m == Min(at)
  <2>3. IndexFrom(s, tok, from) = m /\ m \in from .. Len(s) /\ s[m] = tok
    BY <1>2, <1>4, <2>2
  <2>4. ASSUME NEW i \in from .. m - 1 PROVE s[i] # tok
    <3>1. i \in from .. Len(s) /\ ~ (m <= i)
      BY <1>1, <2>3
    <3> QED
      BY <2>2, <3>1
  <2> HIDE DEF m
  <2> QED
    BY <2>3, <2>4
<1> QED
  BY <1>3, <1>4

(* What follows the block is what is behind its breaks.                    *)
LEMMA SkipBreaksFacts ==
  ASSUME NEW S, NEW s \in Seq(S), NEW from \in 1 .. Len(s) + 1
  PROVE  \E m \in from .. Len(s) + 1 :
           /\ SkipBreaks(s, from) \in Seq(S)
           /\ Len(SkipBreaks(s, from)) = Len(s) - m + 1
           /\ \A x \in 1 .. Len(s) - m + 1 : SkipBreaks(s, from)[x] = s[m + x - 1]
           /\ \A i \in from .. m - 1 : s[i] \in {NL, CR}
<1> DEFINE rest == {i \in from .. Len(s) : s[i] \notin {NL, CR}}
           post == SkipBreaks(s, from)
<1>1. Len(s) \in Nat
  BY LenProperties
<1>2. post = IF rest = {} THEN <<>> ELSE SubSeq(s, Min(rest), Len(s))
  BY DEF SkipBreaks
<1>3. \E m \in from .. Len(s) + 1 :
        post = SubSeq(s, m, Len(s)) /\ \A i \in from .. m - 1 : s[i] \in {NL, CR}
  <2>1. CASE rest = {}
    <3>1. SubSeq(s, Len(s) + 1, Len(s)) = <<>>
      BY <1>1, SubSeqEmpty
    <3>2. \A i \in from .. Len(s) : s[i] \in {NL, CR}
      BY <2>1
    <3>3. Len(s) + 1 \in from .. Len(s) + 1 /\ (Len(s) + 1) - 1 = Len(s)
      BY <1>1
    <3>4. post = SubSeq(s, Len(s) + 1, Len(s))
      BY <1>2, <2>1, <3>1
    <3> HIDE DEF post, rest
    <3> QED
      BY <3>2, <3>3, <3>4
  <2>2. CASE rest # {}
    <3>1. rest \subseteq Nat
      BY <1>1
    <3>2. Min(rest) \in rest /\ \A y \in rest : Min(rest) <= y
      BY <2>2, <3>1, MinOf
    <3> DEFINE m == Min(rest)
    <3>3. m \in from .. Len(s) + 1 /\ m \in from .. Len(s) /\ post = SubSeq(s, m, Len(s))
      <4>1. m \in from .. Len(s)
        BY <3>2
      <4>2. post = SubSeq(s, m, Len(s))
        BY <1>2, <2>2
      <4> HIDE DEF m, post, rest
      <4> QED
        BY <1>1, <4>1, <4>2
    <3>4. \A y \in from .. Len(s) : y \in rest \/ s[y] \in {NL, CR}
      OBVIOUS
    <3> HIDE DEF m, post
    <3>5. ASSUME NEW i \in from .. m - 1 PROVE s[i] \in {NL, CR}
      <4>1. i \in from .. Len(s) /\ ~ (m <= i)
        BY <1>1, <3>3
      <4> QED
        BY <3>2, <3>4, <4>1 DEF m
    <3> QED
      BY <3>3, <3>5
  <2> QED
    BY <2>1, <2>2
<1> HIDE DEF post
<1>4. PICK m \in from .. Len(s) + 1 :
        post = SubSeq(s, m, Len(s)) /\ \A i \in from .. m - 1 : s[i] \in {NL, CR}
  BY <1>3
<1>5. m \in Int /\ Len(s) \in Int /\ \A i \in m .. Len(s) : i \in 1 .. Len(s)
  BY <1>1
<1>6. \A i \in m .. Len(s) : s[i] \in S
  BY <1>5, ElementOfSeq
<1>7. /\ SubSeq(s, m, Len(s)) \in Seq(S)
      /\ Len(SubSeq(s, m, Len(s))) = IF m <= Len(s) THEN Len(s) - m + 1 ELSE 0
      /\ \A x \in 1 .. Len(s) - m + 1 : SubSeq(s, m, Len(s))[x] = s[m + x - 1]
  BY <1>5, <1>6, SubSeqProperties
<1>8. (IF m <= Len(s) THEN Len(s) - m + 1 ELSE 0) = Len(s) - m + 1
  BY <1>1
<1> QED
  BY <1>4, <1>7, <1>8 DEF post

(* A text without the begin marker.                                        *)
NoBegin(s) == \A i \in 1 .. Len(s) : s[i] # Begin

(* Without its only block a text has no begin marker.                      *)
LEMMA StripFacts ==
  ASSUME NEW S, NL \in S, NEW s \in Seq(S), OneBegin(s)
  PROVE  /\ StripManagedHostsBlock(s) \in Seq(S)
         /\ NoBegin(StripManagedHostsBlock(s))
<1> DEFINE b == IndexFrom(s, Begin, 1)
           e == IndexFrom(s, End, b)
<1>1. Len(s) \in Nat /\ DOMAIN s = 1 .. Len(s)
  BY LenProperties
<1>2. \/ b = 0 /\ \A i \in 1 .. Len(s) : s[i] # Begin
      \/ b \in 1 .. Len(s) /\ s[b] = Begin
  <2>1. 1 \in Nat /\ 1 > 0
    OBVIOUS
  <2> QED
    BY <2>1, IndexFromFacts
<1>3. StripManagedHostsBlock(s) =
        IF b = 0 THEN s
        ELSE IF e = 0 THEN TrimRight(SubSeq(s, 1, b - 1), {NL}) \o <<NL>>
        ELSE SubSeq(s, 1, b - 1) \o SkipBreaks(s, e + 1)
  BY DEF StripManagedHostsBlock
<1>4. b > 0 => (e = 0 \/ e \in b .. Len(s))
  <2>1. SUFFICES ASSUME b > 0 PROVE e = 0 \/ e \in b .. Len(s)
    OBVIOUS
  <2>2. b \in Nat
    BY <1>1, <1>2
  <2> HIDE DEF b
  <2> QED
    BY <2>1, <2>2, IndexFromFacts
<1> HIDE DEF b, e
<1>5. CASE b = 0
  BY <1>2, <1>3, <1>5 DEF NoBegin
<1>6. CASE b \in 1 .. Len(s) /\ s[b] = Begin
  <2> DEFINE pre == SubSeq(s, 1, b - 1)
  <2>1. b - 1 \in 0 .. Len(s)
    BY <1>1, <1>6
  <2>2. pre \in Seq(S) /\ Len(pre) = b - 1 /\ \A i \in 1 .. b - 1 : pre[i] = s[i]
    BY <2>1, PrefixFacts
  <2>3. \A i \in 1 .. Len(s) : i # b => s[i] # Begin
    BY <1>1, <1>6 DEF OneBegin
  <2>4. NoBegin(pre)
    BY <1>1, <1>6, <2>2, <2>3 DEF NoBegin
  <2>5. \A i \in 1 .. Len(pre) : pre[i] # Begin
    BY <2>4 DEF NoBegin
  <2>6. StripManagedHostsBlock(s) =
          IF e = 0 THEN TrimRight(pre, {NL}) \o <<NL>> ELSE pre \o SkipBreaks(s, e + 1)
    <3>1. b # 0
      BY <1>1, <1>6
    <3> QED
      BY <1>3, <3>1
  <2> HIDE DEF pre
  <2>7. CASE e = 0
    <3>1. PICK n \in 0 .. Len(pre) : TrimRight(pre, {NL}) = SubSeq(pre, 1, n)
      BY <2>2, TrimRightFacts
    <3> DEFINE t == SubSeq(pre, 1, n)
    <3>2. t \in Seq(S) /\ Len(t) = n /\ \A i \in 1 .. n : t[i] = pre[i]
      BY <2>2, PrefixFacts
    <3> HIDE DEF t
    <3>3. <<NL>> \in Seq(S) /\ Len(<<NL>>) = 1 /\ <<NL>>[1] = NL /\ NL # Begin
      BY DEF NL, Begin
    <3>4. /\ t \o <<NL>> \in Seq(S)
          /\ Len(t \o <<NL>>) = n + 1
          /\ \A i \in 1 .. n + 1 : (t \o <<NL>>)[i] = IF i <= n THEN t[i] ELSE <<NL>>[i - n]
      BY <3>2, <3>3, ConcatProperties
    <3>5. ASSUME NEW i \in 1 .. n + 1 PROVE (t \o <<NL>>)[i] # Begin
      <4>1. n \in Nat /\ n <= Len(pre) /\ Len(pre) \in Nat
        BY <2>2, LenProperties
      <4>2. CASE i <= n
        <5>1. i \in 1 .. n /\ i \in 1 .. Len(pre)
          BY <4>1, <4>2
        <5> QED
          BY <5>1, <4>2, <3>4, <3>2, <2>5
      <4>3. CASE ~ (i <= n)
        <5>1. i - n = 1
          BY <4>1, <4>3
        <5> QED
          BY <5>1, <4>3, <3>4, <3>3
      <4> QED
        BY <4>2, <4>3
    <3>6. StripManagedHostsBlock(s) = t \o <<NL>>
      BY <2>6, <2>7, <3>1 DEF t
    <3>7. NoBegin(t \o <<NL>>)
      BY <3>4, <3>5 DEF NoBegin
    <3> QED
      BY <3>4, <3>6, <3>7
  <2>8. CASE e # 0
    <3>1. e \in b .. Len(s) /\ e + 1 \in 1 .. Len(s) + 1
      BY <1>1, <1>4, <1>6, <2>8
    <3> DEFINE post == SkipBreaks(s, e + 1)
    <3>2. PICK m \in e + 1 .. Len(s) + 1 :
            /\ post \in Seq(S) /\ Len(post) = Len(s) - m + 1
            /\ \A x \in 1 .. Len(s) - m + 1 : post[x] = s[m + x - 1]
      BY <3>1, SkipBreaksFacts
    <3> HIDE DEF post
    <3>3. Len(post) \in Nat
      BY <3>2, LenProperties
    <3>4. \A x \in 1 .. Len(s) - m + 1 : m + x - 1 \in 1 .. Len(s) /\ m + x - 1 # b
      BY <1>1, <1>6, <3>1
    <3>5. \A i \in 1 .. Len(post) : post[i] # Begin
      BY <2>3, <3>2, <3>4
    <3>6. /\ pre \o post \in Seq(S)
          /\ Len(pre \o post) = Len(pre) + Len(post)
          /\ \A i \in 1 .. Len(pre) + Len(post) :
               (pre \o post)[i] = IF i <= Len(pre) THEN pre[i] ELSE post[i - Len(pre)]
      BY <2>2, <3>2, ConcatProperties
    <3>7. ASSUME NEW i \in 1 .. Len(pre) + Len(post) PROVE (pre \o post)[i] # Begin
      <4>1. Len(pre) \in Nat
        BY <2>2, LenProperties
      <4>2. (i <= Len(pre) /\ i \in 1 .. Len(pre)) \/ (~ (i <= Len(pre)) /\ i - Len(pre) \in 1 .. Len(post))
        BY <3>3, <4>1
      <4> QED
        BY <2>5, <3>5, <3>6, <4>2
    <3>8. StripManagedHostsBlock(s) = pre \o post
      BY <2>6, <2>8 DEF post
    <3>9. NoBegin(pre \o post)
      BY <3>6, <3>7 DEF NoBegin
    <3> QED
      BY <3>6, <3>8, <3>9
  <2> QED
    BY <2>7, <2>8
<1> QED
  BY <1>2, <1>5, <1>6

(* What the block is appended to has no begin marker and is not blank, and *)
(* no line break is left at its end.                                       *)
LEMMA BaseFacts ==
  ASSUME NEW S, NL \in S, Localhost \in S, NEW s \in Seq(S), OneBegin(s)
  PROVE  /\ Base(s) \in Seq(S)
         /\ NoBegin(Base(s))
         /\ Len(Base(s)) > 0 /\ Base(s)[Len(Base(s))] # NL
         /\ ~ TrimmedIsEmpty(Base(s))
<1> DEFINE stripped == StripManagedHostsBlock(s)
           base == TrimRight(stripped, {NL})
<1>1. stripped \in Seq(S) /\ NoBegin(stripped)
  BY StripFacts
<1>2. Base(s) = IF TrimmedIsEmpty(base) THEN <<Localhost>> ELSE base
  BY DEF Base
<1> HIDE DEF stripped
<1>3. PICK n \in 0 .. Len(stripped) :
        base = SubSeq(stripped, 1, n) /\ (n > 0 => stripped[n] \notin {NL})
  BY <1>1, TrimRightFacts
<1>4. Len(stripped) \in Nat
  BY <1>1, LenProperties
<1>5. base \in Seq(S) /\ Len(base) = n /\ \A i \in 1 .. n : base[i] = stripped[i]
  BY <1>1, <1>3, PrefixFacts
<1> HIDE DEF base
<1>6. CASE TrimmedIsEmpty(base)
  <2>1. Base(s) = <<Localhost>>
    BY <1>2, <1>6
  <2>2. Len(<<Localhost>>) = 1 /\ <<Localhost>>[1] = Localhost /\ <<Localhost>> \in Seq(S)
    OBVIOUS
  <2>3. Localhost \notin {NL, CR, Blank, Begin}
    BY DEF Localhost, Text, NL, CR, Blank, Begin
  <2>4. 1 \in DOMAIN <<Localhost>>
    OBVIOUS
  <2>5. ~ TrimmedIsEmpty(<<Localhost>>)
    BY <2>2, <2>3, <2>4 DEF TrimmedIsEmpty
  <2>6. NoBegin(<<Localhost>>)
    BY <2>2, <2>3 DEF NoBegin
  <2> QED
    BY <2>1, <2>2, <2>3, <2>5, <2>6
<1>7. CASE ~ TrimmedIsEmpty(base)
  <2>1. Base(s) = base
    BY <1>2, <1>7
  <2>2. \A i \in 1 .. n : i \in 1 .. Len(stripped)
    BY <1>4
  <2>3. NoBegin(base)
    BY <1>1, <1>5, <2>2 DEF NoBegin
  <2>4. n > 0
    <3>1. SUFFICES ASSUME n = 0 PROVE FALSE
      BY <1>4
    <3>2. DOMAIN base = 1 .. 0
      BY <1>5, <3>1, LenProperties
    <3> QED
      BY <1>7, <3>2 DEF TrimmedIsEmpty
  <2>5. base[n] # NL
    <3>1. n \in 1 .. n
      BY <2>4
    <3> QED
      BY <1>3, <1>5, <2>4, <3>1
  <2> QED
    BY <1>5, <1>7, <2>1, <2>3, <2>4, <2>5
<1> QED
  BY <1>6, <1>7

(* The endpoint lines are what they are at each position, and hold no      *)
(* marker.                                                                 *)
LEMMA RenderFacts ==
  ASSUME NEW c, c \in Seq(ToSet(c))
  PROVE  /\ Render(c) \in Seq(ToSet(Render(c)))
         /\ \A i \in 1 .. Len(Render(c)) : Render(c)[i] \notin {Begin, End}
<1> DEFINE n == 2 * Len(c)
           r == Render(c)
<1>1. n \in Nat
  BY LenProperties
<1>2. r = [k \in 1 .. n |->
             IF k % 2 = 1
             THEN Entry(EndpointLocalIP(c[(k + 1) \div 2], ((k + 1) \div 2) - 1), c[(k + 1) \div 2].host)
             ELSE NL]
  BY DEF Render
<1>3. DOMAIN r = 1 .. n /\ \A k \in 1 .. n : r[k] \notin {Begin, End}
  BY <1>2 DEF Entry, NL, Begin, End
<1> HIDE DEF n
<1>4. r \in [1 .. n -> ToSet(r)]
  <2>1. r = [k \in 1 .. n |-> r[k]]
    BY <1>2
  <2>2. \A k \in 1 .. n : r[k] \in ToSet(r)
    BY <1>3 DEF ToSet
  <2> QED
    BY <2>1, <2>2
<1> HIDE DEF r
<1>5. r \in Seq(ToSet(r)) /\ Len(r) = n
  BY <1>1, <1>4
<1> QED
  BY <1>3, <1>5 DEF r

(* A text of the shape MergeHosts makes.                                   *)
Block(base, lines) == base \o <<NL, NL, Begin, NL>> \o lines \o <<End, NL>>

(* Where the pieces of such a text are.                                    *)
LEMMA BlockFacts ==
  ASSUME NEW S, {NL, Begin, End} \subseteq S, NEW base \in Seq(S), NEW lines \in Seq(S)
  PROVE  /\ Len(base) \in Nat /\ Len(lines) \in Nat
         /\ Block(base, lines) \in Seq(S)
         /\ Len(Block(base, lines)) = Len(base) + Len(lines) + 6
         /\ \A i \in 1 .. Len(base) : Block(base, lines)[i] = base[i]
         /\ \A k \in 1 .. Len(lines) : Block(base, lines)[Len(base) + 4 + k] = lines[k]
         /\ Block(base, lines)[Len(base) + 1] = NL
         /\ Block(base, lines)[Len(base) + 2] = NL
         /\ Block(base, lines)[Len(base) + 3] = Begin
         /\ Block(base, lines)[Len(base) + 4] = NL
         /\ Block(base, lines)[Len(base) + Len(lines) + 5] = End
         /\ Block(base, lines)[Len(base) + Len(lines) + 6] = NL
<1> DEFINE b == Len(base)
           n == Len(lines)
           open == <<NL, NL, Begin, NL>>
           close == <<End, NL>>
           t1 == base \o open
           t2 == t1 \o lines
           t3 == t2 \o close
<1>1. b \in Nat /\ n \in Nat /\ Len(base) = b /\ Len(lines) = n
  BY LenProperties
<1> HIDE DEF b, n
<1>2. /\ open \in Seq(S) /\ Len(open) = 4
      /\ open[1] = NL /\ open[2] = NL /\ open[3] = Begin /\ open[4] = NL
      /\ close \in Seq(S) /\ Len(close) = 2 /\ close[1] = End /\ close[2] = NL
  OBVIOUS
<1> HIDE DEF open, close
<1>3. /\ t1 \in Seq(S) /\ Len(t1) = b + 4
      /\ \A i \in 1 .. b : t1[i] = base[i]
      /\ \A j \in 1 .. 4 : t1[b + j] = open[j]
  <2>1. /\ t1 \in Seq(S) /\ Len(t1) = Len(base) + Len(open)
        /\ \A i \in 1 .. Len(base) : t1[i] = base[i]
        /\ \A j \in 1 .. Len(open) : t1[Len(base) + j] = open[j]
    <3>1. open \in Seq(S)
      BY <1>2
    <3> QED
      BY <3>1, Concat
  <2> HIDE DEF t1
  <2> QED
    BY <1>1, <1>2, <2>1
<1> HIDE DEF t1
<1>4. /\ t2 \in Seq(S) /\ Len(t2) = b + 4 + n
      /\ \A i \in 1 .. b + 4 : t2[i] = t1[i]
      /\ \A k \in 1 .. n : t2[b + 4 + k] = lines[k]
  <2>1. /\ t2 \in Seq(S) /\ Len(t2) = Len(t1) + Len(lines)
        /\ \A i \in 1 .. Len(t1) : t2[i] = t1[i]
        /\ \A k \in 1 .. Len(lines) : t2[Len(t1) + k] = lines[k]
    <3>1. t1 \in Seq(S)
      BY <1>3
    <3> QED
      BY <3>1, Concat
  <2> HIDE DEF t2
  <2> QED
    BY <1>1, <1>3, <2>1
<1> HIDE DEF t2
<1>5. /\ t3 \in Seq(S) /\ Len(t3) = b + 4 + n + 2
      /\ \A i \in 1 .. b + 4 + n : t3[i] = t2[i]
      /\ \A j \in 1 .. 2 : t3[b + 4 + n + j] = close[j]
  <2>1. /\ t3 \in Seq(S) /\ Len(t3) = Len(t2) + Len(close)
        /\ \A i \in 1 .. Len(t2) : t3[i] = t2[i]
        /\ \A j \in 1 .. Len(close) : t3[Len(t2) + j] = close[j]
    <3>1. t2 \in Seq(S) /\ close \in Seq(S)
      BY <1>2, <1>4
    <3> QED
      BY <3>1, Concat
  <2> HIDE DEF t3
  <2> QED
    BY <1>1, <1>2, <1>4, <2>1
<1>6. t3 = Block(base, lines)
  BY DEF Block, t2, t1, open, close
<1> HIDE DEF t3
<1>7. ASSUME NEW i \in 1 .. b PROVE t3[i] = base[i]
  <2>1. i \in 1 .. b + 4 /\ i \in 1 .. b + 4 + n
    BY <1>1
  <2> QED
    BY <1>3, <1>4, <1>5, <2>1
<1>8. ASSUME NEW j \in 1 .. 4 PROVE t3[b + j] = open[j]
  <2>1. b + j \in 1 .. b + 4 /\ b + j \in 1 .. b + 4 + n
    BY <1>1
  <2> QED
    BY <1>3, <1>4, <1>5, <2>1
<1>9. ASSUME NEW k \in 1 .. n PROVE t3[b + 4 + k] = lines[k]
  <2>1. b + 4 + k \in 1 .. b + 4 + n
    BY <1>1
  <2> QED
    BY <1>4, <1>5, <2>1
<1>10. /\ t3[b + 1] = NL /\ t3[b + 2] = NL /\ t3[b + 3] = Begin /\ t3[b + 4] = NL
       /\ t3[b + 4 + n + 1] = End /\ t3[b + 4 + n + 2] = NL
  BY <1>2, <1>5, <1>8
<1>11. /\ b + 4 + n + 1 = b + n + 5 /\ b + 4 + n + 2 = b + n + 6
  BY <1>1
<1> QED
  BY <1>1, <1>5, <1>6, <1>7, <1>9, <1>10, <1>11 DEF b, n

(* The lines of a block, which hold no marker themselves.                  *)
Unmarked(lines) == \A k \in 1 .. Len(lines) : lines[k] \notin {Begin, End}

(* Behind a text without the begin marker the block's own markers are the  *)
(* only ones that count.                                                   *)
LEMMA BlockMarkers ==
  ASSUME NEW S, {NL, Begin, End} \subseteq S, NEW base \in Seq(S), NEW lines \in Seq(S),
         NoBegin(base), Unmarked(lines),
         NEW i \in 1 .. Len(base) + Len(lines) + 6
  PROVE  /\ Block(base, lines)[i] = Begin <=> i = Len(base) + 3
         /\ i > Len(base) =>
              (Block(base, lines)[i] = End <=> i = Len(base) + Len(lines) + 5)
<1> DEFINE b == Len(base)
           n == Len(lines)
           t == Block(base, lines)
<1>0. b \in Nat /\ n \in Nat
  BY BlockFacts
<1>1. /\ b \in Nat /\ n \in Nat
      /\ \A k \in 1 .. b : t[k] = base[k]
      /\ \A k \in 1 .. n : t[b + 4 + k] = lines[k]
      /\ t[b + 1] = NL /\ t[b + 2] = NL /\ t[b + 3] = Begin /\ t[b + 4] = NL
      /\ t[b + n + 5] = End /\ t[b + n + 6] = NL
  <2>1. \A k \in 1 .. n : t[b + 4 + k] = lines[k]
    BY BlockFacts
  <2>2. /\ \A k \in 1 .. b : t[k] = base[k]
        /\ t[b + 1] = NL /\ t[b + 2] = NL /\ t[b + 3] = Begin /\ t[b + 4] = NL
    BY BlockFacts
  <2>3. t[b + n + 5] = End /\ t[b + n + 6] = NL
    BY BlockFacts
  <2> QED
    BY <1>0, <2>1, <2>2, <2>3
<1> HIDE DEF t
<1>2. \A k \in 1 .. b : base[k] # Begin
  BY DEF NoBegin
<1>3. \A k \in 1 .. n : lines[k] \notin {Begin, End}
  BY DEF Unmarked
<1>4. NL # Begin /\ NL # End /\ Begin # End
  BY DEF NL, Begin, End
<1> HIDE DEF b, n
<1>5. i \in 1 .. b + n + 6
  BY DEF b, n
<1>6. CASE i \in 1 .. b
  <2>1. t[i] # Begin /\ i # b + 3 /\ ~ (i > b)
    BY <1>1, <1>2, <1>6
  <2> QED
    BY <2>1 DEF b, n, t
<1>7. CASE i \in b + 5 .. b + 4 + n
  <2>1. i - (b + 4) \in 1 .. n /\ b + 4 + (i - (b + 4)) = i
    BY <1>1, <1>7
  <2>2. t[i] \notin {Begin, End}
    BY <1>1, <1>3, <2>1
  <2>3. i # b + 3 /\ i # b + n + 5
    BY <1>1, <1>7
  <2> QED
    BY <2>2, <2>3 DEF b, n, t
<1>8. CASE i \in {b + 1, b + 2, b + 4, b + n + 6}
  <2>1. i # b + 3 /\ i # b + n + 5
    BY <1>0, <1>8
  <2>2. t[i] = NL
    BY <1>1, <1>8
  <2> QED
    BY <1>4, <2>1, <2>2 DEF b, n, t
<1>9. CASE i = b + 3
  <2>1. t[i] = Begin /\ i # b + n + 5
    BY <1>1, <1>9
  <2> QED
    BY <1>4, <1>9, <2>1 DEF b, n, t
<1>10. CASE i = b + n + 5
  <2>1. t[i] = End /\ i # b + 3
    BY <1>1, <1>10
  <2> QED
    BY <1>4, <1>10, <2>1 DEF b, n, t
<1>11. \/ i \in 1 .. b \/ i \in b + 5 .. b + 4 + n \/ i = b + 3 \/ i = b + n + 5
       \/ i \in {b + 1, b + 2, b + 4, b + n + 6}
  BY <1>1, <1>5
<1> QED
  BY <1>6, <1>7, <1>8, <1>9, <1>10, <1>11

(* So the next merge finds this block, takes it off and comes back to what *)
(* it was appended to.                                                     *)
LEMMA BaseOfBlock ==
  ASSUME NEW S, {NL, Begin, End} \subseteq S, NEW base \in Seq(S), NEW lines \in Seq(S),
         NoBegin(base), Unmarked(lines),
         Len(base) > 0, base[Len(base)] # NL, ~ TrimmedIsEmpty(base)
  PROVE  Base(Block(base, lines)) = base
<1> DEFINE b == Len(base)
           n == Len(lines)
           t == Block(base, lines)
<1>1. /\ b \in Nat /\ n \in Nat
      /\ t \in Seq(S) /\ Len(t) = b + n + 6
      /\ \A k \in 1 .. b : t[k] = base[k]
      /\ t[b + 1] = NL /\ t[b + 2] = NL
      /\ t[b + n + 6] = NL
  BY BlockFacts
<1>2. \A i \in 1 .. b + n + 6 :
        /\ t[i] = Begin <=> i = b + 3
        /\ i > b => (t[i] = End <=> i = b + n + 5)
  BY BlockMarkers
<1>3. b > 0 /\ base[b] # NL
  OBVIOUS
<1> HIDE DEF b, n, t
<1>4. IndexFrom(t, Begin, 1) = b + 3
  <2>1. \/ IndexFrom(t, Begin, 1) = 0 /\ \A i \in 1 .. Len(t) : t[i] # Begin
        \/ /\ IndexFrom(t, Begin, 1) \in 1 .. Len(t)
           /\ t[IndexFrom(t, Begin, 1)] = Begin
    <3>1. 1 \in Nat /\ 1 > 0 /\ t \in Seq(S)
      BY <1>1
    <3> QED
      BY <3>1, IndexFromFacts
  <2>2. b + 3 \in 1 .. Len(t) /\ t[b + 3] = Begin
    BY <1>1, <1>2
  <2> QED
    BY <1>1, <1>2, <2>1, <2>2
<1>5. IndexFrom(t, End, b + 3) = b + n + 5
  <2> DEFINE e == IndexFrom(t, End, b + 3)
  <2>1. \/ e = 0 /\ \A i \in b + 3 .. Len(t) : t[i] # End
        \/ e \in b + 3 .. Len(t) /\ t[e] = End
    <3>1. b + 3 \in Nat /\ b + 3 > 0 /\ t \in Seq(S)
      BY <1>1
    <3> QED
      BY <3>1, IndexFromFacts
  <2>2. b + n + 5 \in b + 3 .. Len(t) /\ t[b + n + 5] = End
    BY <1>1, <1>2
  <2> HIDE DEF e
  <2>3. e \in b + 3 .. Len(t) /\ t[e] = End
    BY <2>1, <2>2
  <2>4. e \in 1 .. b + n + 6 /\ e > b
    BY <1>1, <2>3
  <2>5. e = b + n + 5
    BY <1>2, <2>3, <2>4
  <2> QED
    BY <2>5 DEF e
<1>6. SkipBreaks(t, b + n + 6) = <<>>
  <2>1. \A i \in b + n + 6 .. Len(t) : i = b + n + 6
    BY <1>1
  <2>2. {i \in b + n + 6 .. Len(t) : t[i] \notin {NL, CR}} = {}
    BY <1>1, <2>1
  <2> QED
    BY <2>2 DEF SkipBreaks
<1> DEFINE q == SubSeq(t, 1, b + 2)
<1>7. q \in Seq(S) /\ Len(q) = b + 2 /\ \A i \in 1 .. b + 2 : q[i] = t[i]
  <2>1. b + 2 \in 0 .. Len(t) /\ t \in Seq(S)
    BY <1>1
  <2> QED
    BY <2>1, PrefixFacts
<1>8. StripManagedHostsBlock(t) = q
  <2>1. StripManagedHostsBlock(t) = SubSeq(t, 1, (b + 3) - 1) \o SkipBreaks(t, (b + n + 5) + 1)
    <3>1. b + 3 # 0 /\ b + n + 5 # 0
      BY <1>1
    <3> QED
      BY <1>4, <1>5, <3>1 DEF StripManagedHostsBlock
  <2>2. (b + 3) - 1 = b + 2 /\ (b + n + 5) + 1 = b + n + 6
    BY <1>1
  <2>3. StripManagedHostsBlock(t) = q \o <<>>
    BY <1>6, <2>1, <2>2
  <2> HIDE DEF q
  <2> QED
    BY <1>7, <2>3, ConcatEmptySeq
<1> HIDE DEF q
<1>9. PICK m \in 0 .. Len(q) :
        /\ TrimRight(q, {NL}) = SubSeq(q, 1, m)
        /\ m > 0 => q[m] \notin {NL}
        /\ \A i \in m + 1 .. Len(q) : q[i] \in {NL}
  BY <1>7, TrimRightFacts
<1>10. m = b
  <2>1. q[b] # NL /\ q[b + 1] = NL /\ q[b + 2] = NL
    <3>1. b \in 1 .. b + 2 /\ b + 1 \in 1 .. b + 2 /\ b + 2 \in 1 .. b + 2 /\ b \in 1 .. b
      BY <1>1, <1>3
    <3> QED
      BY <1>1, <1>3, <1>7, <3>1
  <2>2. m # b + 1 /\ m # b + 2
    BY <1>1, <1>9, <2>1
  <2>3. ~ (m < b)
    <3>1. SUFFICES ASSUME m < b PROVE FALSE
      OBVIOUS
    <3>2. b \in m + 1 .. Len(q)
      BY <1>1, <1>7, <3>1
    <3> QED
      BY <1>9, <2>1, <3>2
  <2> QED
    BY <1>1, <1>7, <2>2, <2>3
<1>11. SubSeq(q, 1, b) = base
  <2> DEFINE p == SubSeq(q, 1, b)
  <2>1. p \in Seq(S) /\ Len(p) = b /\ \A i \in 1 .. b : p[i] = q[i]
    <3>1. b \in 0 .. Len(q) /\ q \in Seq(S)
      BY <1>1, <1>7
    <3> QED
      BY <3>1, PrefixFacts
  <2> HIDE DEF p
  <2>2. ASSUME NEW i \in 1 .. b PROVE p[i] = base[i]
    <3>1. i \in 1 .. b + 2
      BY <1>1
    <3> QED
      BY <1>1, <1>7, <2>1, <3>1
  <2>3. p = base
    BY <2>1, <2>2, SeqEqual DEF b
  <2> QED
    BY <2>3 DEF p
<1>12. TrimRight(StripManagedHostsBlock(t), {NL}) = base
  BY <1>8, <1>9, <1>10, <1>11
<1> QED
  BY <1>12 DEF Base, t

(* The text has one begin marker.                                          *)
LEMMA BlockOneBegin ==
  ASSUME NEW S, {NL, Begin, End} \subseteq S, NEW base \in Seq(S), NEW lines \in Seq(S),
         NoBegin(base), Unmarked(lines)
  PROVE  OneBegin(Block(base, lines))
<1> DEFINE t == Block(base, lines)
           last0 == Len(base) + Len(lines) + 6
<1>1. t \in Seq(S) /\ Len(t) = last0
  BY BlockFacts
<1>2. DOMAIN t = 1 .. last0
  BY <1>1, LenProperties
<1>3. \A i \in 1 .. last0 : t[i] = Begin => i = Len(base) + 3
  BY BlockMarkers
<1> HIDE DEF t, last0
<1>4. OneBegin(t)
  BY <1>2, <1>3 DEF OneBegin
<1> QED
  BY <1>4 DEF t

(* Inside is what is between the two markers.                              *)
LEMMA BlockInside ==
  ASSUME NEW S, {NL, Begin, End} \subseteq S, NEW base \in Seq(S), NEW lines \in Seq(S),
         NoBegin(base), Unmarked(lines),
         NEW i \in 1 .. Len(base) + Len(lines) + 6
  PROVE  Inside(Block(base, lines), i)
           <=> Len(base) + 3 <= i /\ i < Len(base) + Len(lines) + 5
<1> DEFINE b == Len(base)
           n == Len(lines)
           t == Block(base, lines)
<1>1. b \in Nat /\ n \in Nat
  BY BlockFacts
<1>2. \A j \in 1 .. b + n + 6 :
        /\ t[j] = Begin <=> j = b + 3
        /\ j > b => (t[j] = End <=> j = b + n + 5)
  BY BlockMarkers
<1>3. i \in 1 .. b + n + 6
  OBVIOUS
<1> HIDE DEF b, n, t
<1>4. ASSUME Inside(t, i) PROVE b + 3 <= i /\ i < b + n + 5
  <2>1. PICK m \in 1 .. i : t[m] = Begin /\ \A e \in m .. i : t[e] # End
    BY <1>4 DEF Inside
  <2>2. m \in 1 .. b + n + 6
    BY <1>1, <1>3
  <2>3. m = b + 3
    BY <1>2, <2>1, <2>2
  <2>4. b + 3 <= i
    BY <1>1, <1>3, <2>3
  <2>5. ~ (b + n + 5 <= i)
    <3>1. SUFFICES ASSUME b + n + 5 <= i PROVE FALSE
      OBVIOUS
    <3>2. b + n + 5 \in m .. i /\ b + n + 5 \in 1 .. b + n + 6 /\ b + n + 5 > b
      BY <1>1, <1>3, <2>3, <3>1
    <3> QED
      BY <1>2, <2>1, <3>2
  <2> QED
    BY <1>1, <1>3, <2>4, <2>5
<1>5. ASSUME b + 3 <= i, i < b + n + 5 PROVE Inside(t, i)
  <2>1. b + 3 \in 1 .. i /\ b + 3 \in 1 .. b + n + 6
    BY <1>1, <1>3, <1>5
  <2>2. \A e \in b + 3 .. i : e \in 1 .. b + n + 6 /\ e > b /\ e # b + n + 5
    BY <1>1, <1>3, <1>5
  <2>3. \A e \in b + 3 .. i : t[e] # End
    BY <1>2, <2>2
  <2>4. t[b + 3] = Begin
    BY <1>2, <2>1
  <2> QED
    BY <2>1, <2>3, <2>4 DEF Inside
<1> QED
  BY <1>4, <1>5 DEF b, n, t

(* So its managed lines are the lines of the block, and it is closed.      *)
LEMMA BlockManaged ==
  ASSUME NEW S, {NL, Begin, End} \subseteq S, NEW base \in Seq(S), NEW lines \in Seq(S),
         NoBegin(base), Unmarked(lines)
  PROVE  /\ ManagedAre(Block(base, lines), lines)
         /\ ~ Inside(Block(base, lines), Len(Block(base, lines)))
<1> DEFINE b == Len(base)
           n == Len(lines)
           t == Block(base, lines)
           at == {k \in DOMAIN lines : IsLine(lines[k])}
<1>1. /\ b \in Nat /\ n \in Nat /\ t \in Seq(S) /\ Len(t) = b + n + 6
      /\ DOMAIN lines = 1 .. n
  BY BlockFacts, LenProperties
<1>2. /\ t[b + 3] = Begin /\ t[b + 4] = NL
  BY BlockFacts
<1>3. \A k \in 1 .. n : t[b + 4 + k] = lines[k]
  BY BlockFacts
<1>4. \A i \in 1 .. b + n + 6 : Inside(t, i) <=> b + 3 <= i /\ i < b + n + 5
  BY BlockInside
<1>5. ~ IsLine(Begin) /\ ~ IsLine(NL)
  BY DEF IsLine, Begin, NL
<1>6. DOMAIN t = 1 .. b + n + 6
  BY <1>1, LenProperties
<1> HIDE DEF b, n, t
<1>7. ASSUME NEW i \in ManagedLines(t) PROVE \E k \in at : i = b + 4 + k
  <2>1. i \in 1 .. b + n + 6 /\ IsLine(t[i]) /\ b + 3 <= i /\ i < b + n + 5
    BY <1>4, <1>6 DEF ManagedLines
  <2>2. i # b + 3 /\ i # b + 4
    BY <1>2, <1>5, <2>1
  <2>3. i - (b + 4) \in 1 .. n /\ i = b + 4 + (i - (b + 4))
    BY <1>1, <2>1, <2>2
  <2>4. i - (b + 4) \in at
    BY <1>1, <1>3, <2>1, <2>3
  <2> QED
    BY <2>3, <2>4
<1>8. ASSUME NEW k \in at PROVE b + 4 + k \in ManagedLines(t) /\ t[b + 4 + k] = lines[k]
  <2>1. k \in 1 .. n /\ IsLine(lines[k])
    BY <1>1
  <2>2. b + 4 + k \in 1 .. b + n + 6 /\ b + 3 <= b + 4 + k /\ b + 4 + k < b + n + 5
    BY <1>1, <2>1
  <2>3. Inside(t, b + 4 + k)
    BY <1>4, <2>2
  <2> QED
    BY <1>3, <1>6, <2>1, <2>2, <2>3 DEF ManagedLines
<1> HIDE DEF at
<1>9. ManagedLines(t) = {b + 4 + k : k \in at}
  BY <1>7, <1>8
<1>10. b + 4 \in 0 .. Len(t)
  BY <1>1
<1>11. ManagedAre(t, lines)
  BY <1>8, <1>9, <1>10 DEF ManagedAre, at
<1>12. ~ Inside(t, Len(t))
  <2>1. b + n + 6 \in 1 .. b + n + 6 /\ ~ (b + n + 6 < b + n + 5)
    BY <1>1
  <2> QED
    BY <1>1, <1>4, <2>1
<1> QED
  BY <1>11, <1>12 DEF t

(* A line that somebody else appends to a closed text changes neither.     *)
LEMMA EditFacts ==
  ASSUME NEW S, NL \in S, NEW s \in Seq(S), NEW line \in S, line # Begin
  PROVE  /\ s \o <<line, NL>> \in Seq(S)
         /\ OneBegin(s) => OneBegin(s \o <<line, NL>>)
         /\ ~ Inside(s, Len(s)) =>
              /\ ~ Inside(s \o <<line, NL>>, Len(s \o <<line, NL>>))
              /\ ManagedLines(s \o <<line, NL>>) = ManagedLines(s)
         /\ \A i \in DOMAIN s : (s \o <<line, NL>>)[i] = s[i]
         /\ Len(s \o <<line, NL>>) = Len(s) + 2
<1> DEFINE more == <<line, NL>>
           t == s \o more
           n == Len(s)
<1>1. more \in Seq(S) /\ Len(more) = 2 /\ more[1] = line /\ more[2] = NL
  OBVIOUS
<1> HIDE DEF more
<1>2. more \in Seq(S)
  BY <1>1
<1>3. /\ t \in Seq(S) /\ Len(t) = Len(s) + Len(more)
      /\ \A i \in 1 .. Len(s) : t[i] = s[i]
      /\ \A i \in 1 .. Len(more) : t[Len(s) + i] = more[i]
  BY <1>2, Concat
<1>4. n \in Nat /\ DOMAIN s = 1 .. n
  BY LenProperties
<1> HIDE DEF t
<1>5. Len(s) = n
  OBVIOUS
<1> HIDE DEF n
<1>6. /\ Len(t) = n + 2 /\ \A i \in 1 .. n : t[i] = s[i]
      /\ t[n + 1] = line /\ t[n + 2] = NL /\ NL # Begin
  <2>1. 1 \in 1 .. Len(more) /\ 2 \in 1 .. Len(more)
    BY <1>1
  <2>2. t[n + 1] = line /\ t[n + 2] = NL
    BY <1>1, <1>3, <1>5, <2>1
  <2>3. NL # Begin
    BY DEF NL, Begin
  <2>4. Len(t) = n + 2 /\ \A i \in 1 .. n : t[i] = s[i]
    BY <1>1, <1>3, <1>5
  <2> QED
    BY <2>2, <2>3, <2>4
<1>7. DOMAIN t = 1 .. n + 2
  BY <1>3, <1>6, LenProperties
<1>8. \A i \in 1 .. n + 2 : t[i] = Begin => i \in 1 .. n /\ s[i] = Begin
  <2>1. \A i \in 1 .. n + 2 : i \in 1 .. n \/ i = n + 1 \/ i = n + 2
    BY <1>4
  <2> QED
    BY <1>6, <2>1
<1>9. OneBegin(s) => OneBegin(t)
  BY <1>4, <1>7, <1>8 DEF OneBegin
<1>10. \A i \in 1 .. n : Inside(t, i) <=> Inside(s, i)
  <2>1. \A i \in 1 .. n : \A j \in 1 .. i : j \in 1 .. n /\ \A e \in j .. i : e \in 1 .. n
    BY <1>4
  <2> QED
    BY <1>6, <2>1 DEF Inside
<1>11. ASSUME ~ Inside(s, Len(s)), NEW i \in {n + 1, n + 2} PROVE ~ Inside(t, i)
  <2>1. SUFFICES ASSUME Inside(t, i) PROVE FALSE
    OBVIOUS
  <2>2. PICK b \in 1 .. i : t[b] = Begin /\ \A e \in b .. i : t[e] # End
    BY <2>1 DEF Inside
  <2>3. i \in 1 .. n + 2 /\ b \in 1 .. n + 2
    BY <1>4
  <2>4. b \in 1 .. n /\ s[b] = Begin
    BY <1>8, <2>2, <2>3
  <2>5. \A e \in b .. n : e \in b .. i /\ e \in 1 .. n
    BY <1>4, <2>3, <2>4
  <2>6. \A e \in b .. n : s[e] # End
    BY <1>6, <2>2, <2>5
  <2> QED
    BY <1>5, <1>11, <2>4, <2>6 DEF Inside
<1>12. ASSUME ~ Inside(s, Len(s)) PROVE ManagedLines(t) = ManagedLines(s)
  <2>1. \A i \in 1 .. n + 2 : i \in 1 .. n \/ i \in {n + 1, n + 2}
    BY <1>4
  <2>2. \A i \in 1 .. n : i \in 1 .. n + 2
    BY <1>4
  <2> QED
    BY <1>4, <1>6, <1>7, <1>10, <1>11, <1>12, <2>1, <2>2 DEF ManagedLines
<1>13. Inside(t, Len(t)) => Inside(s, Len(s))
  BY <1>6, <1>11
<1>14. t \in Seq(S)
  BY <1>3
<1>15. \A i \in DOMAIN s : t[i] = s[i]
  BY <1>4, <1>6
<1>16. Len(t) = Len(s) + 2
  BY <1>5, <1>6
<1> QED
  BY <1>9, <1>12, <1>13, <1>14, <1>15, <1>16 DEF t, more

(* What a merge makes of a text with at most one block.                    *)
LEMMA MergeFacts ==
  ASSUME NEW S, {NL, Begin, End, Localhost} \subseteq S, NEW s \in Seq(S), OneBegin(s),
         NEW c, c \in Seq(ToSet(c)), Render(c) \in Seq(S)
  PROVE  /\ MergeHosts(s, c) = Block(Base(s), Render(c))
         /\ Base(s) \in Seq(S) /\ NoBegin(Base(s))
         /\ Unmarked(Render(c))
         /\ MergeHosts(s, c) \in Seq(S)
         /\ OneBegin(MergeHosts(s, c))
         /\ ManagedAre(MergeHosts(s, c), Render(c))
         /\ ~ Inside(MergeHosts(s, c), Len(MergeHosts(s, c)))
         /\ Base(MergeHosts(s, c)) = Base(s)
<1> DEFINE base == Base(s)
           lines == Render(c)
<1>1. /\ base \in Seq(S) /\ NoBegin(base)
      /\ Len(base) > 0 /\ base[Len(base)] # NL /\ ~ TrimmedIsEmpty(base)
  BY BaseFacts
<1>2. lines \in Seq(S) /\ Unmarked(lines)
  BY RenderFacts DEF Unmarked
<1>3. MergeHosts(s, c) = Block(base, lines)
  BY DEF MergeHosts, Block
<1> HIDE DEF base, lines
<1>4. Block(base, lines) \in Seq(S)
  BY <1>1, <1>2, BlockFacts
<1>5. OneBegin(Block(base, lines))
  BY <1>1, <1>2, BlockOneBegin
<1>6. /\ ManagedAre(Block(base, lines), lines)
      /\ ~ Inside(Block(base, lines), Len(Block(base, lines)))
  BY <1>1, <1>2, BlockManaged
<1>7. Base(Block(base, lines)) = base
  BY <1>1, <1>2, BaseOfBlock
<1> QED
  BY <1>1, <1>2, <1>3, <1>4, <1>5, <1>6, <1>7 DEF base, lines

(* A start that finds what an earlier merge with the same endpoints made   *)
(* of some text makes the same of it again.                                *)
LEMMA MergeIsIdempotent ==
  ASSUME NEW S, {NL, Begin, End, Localhost} \subseteq S, NEW s \in Seq(S), OneBegin(s),
         NEW c, c \in Seq(ToSet(c)), Render(c) \in Seq(S)
  PROVE  MergeHosts(MergeHosts(s, c), c) = MergeHosts(s, c)
<1>1. Base(MergeHosts(s, c)) = Base(s)
  BY MergeFacts
<1> QED
  BY <1>1 DEF MergeHosts

(* The positions of the lines of a text, whether managed or not.           *)
LinesOf(s) == {i \in DOMAIN s : IsLine(s[i])}

(* The unmanaged lines of s, moved so, are the lines of q.                 *)
KeptIn(s, q, k, d) ==
  /\ LinesOf(q) = {Moved(i, k, d) : i \in UnmanagedLines(s)}
  /\ \A i \in UnmanagedLines(s) : q[Moved(i, k, d)] = s[i]
  /\ \A i, j \in UnmanagedLines(s) : i < j => Moved(i, k, d) < Moved(j, k, d)

(* Unmanaged in a text with a block is what is a line before it.           *)
LEMMA BlockUnmanaged ==
  ASSUME NEW S, {NL, Begin, End} \subseteq S, NEW base \in Seq(S), NEW lines \in Seq(S),
         NoBegin(base), Unmarked(lines)
  PROVE  /\ UnmanagedLines(Block(base, lines)) = LinesOf(base)
         /\ \A i \in LinesOf(base) : Block(base, lines)[i] = base[i]
<1> DEFINE b == Len(base)
           n == Len(lines)
           t == Block(base, lines)
<1>1. /\ b \in Nat /\ n \in Nat /\ t \in Seq(S) /\ Len(t) = b + n + 6
      /\ DOMAIN base = 1 .. b
  BY BlockFacts, LenProperties
<1>2. /\ t[b + 1] = NL /\ t[b + 2] = NL
      /\ t[b + n + 5] = End /\ t[b + n + 6] = NL
  BY BlockFacts
<1>3. \A k \in 1 .. b : t[k] = base[k]
  BY BlockFacts
<1>4. \A i \in 1 .. b + n + 6 : Inside(t, i) <=> b + 3 <= i /\ i < b + n + 5
  BY BlockInside
<1>5. ~ IsLine(End) /\ ~ IsLine(NL)
  BY DEF IsLine, End, NL
<1>6. DOMAIN t = 1 .. b + n + 6
  BY <1>1, LenProperties
<1> HIDE DEF b, n, t
<1>7. ASSUME NEW i \in UnmanagedLines(t) PROVE i \in LinesOf(base)
  <2>1. i \in 1 .. b + n + 6 /\ IsLine(t[i]) /\ ~ (b + 3 <= i /\ i < b + n + 5)
    BY <1>4, <1>6 DEF UnmanagedLines
  <2>2. i \notin {b + 1, b + 2} /\ i # b + n + 5 /\ i # b + n + 6
    BY <1>2, <1>5, <2>1
  <2>3. i \in 1 .. b
    BY <1>1, <2>1, <2>2
  <2> QED
    BY <1>1, <1>3, <2>1, <2>3 DEF LinesOf
<1>8. ASSUME NEW i \in LinesOf(base) PROVE i \in UnmanagedLines(t) /\ t[i] = base[i]
  <2>1. i \in 1 .. b /\ IsLine(base[i])
    BY <1>1 DEF LinesOf
  <2>2. i \in 1 .. b + n + 6 /\ ~ (b + 3 <= i)
    BY <1>1, <2>1
  <2> QED
    BY <1>3, <1>4, <1>6, <2>1, <2>2 DEF UnmanagedLines
<1> QED
  BY <1>7, <1>8 DEF t

(* Trimming takes off no line.                                             *)
LEMMA TrimKeepsLines ==
  ASSUME NEW S, NEW s \in Seq(S)
  PROVE  /\ TrimRight(s, {NL}) \in Seq(S)
         /\ LinesOf(TrimRight(s, {NL})) = LinesOf(s)
         /\ \A i \in LinesOf(s) : TrimRight(s, {NL})[i] = s[i]
         /\ TrimmedIsEmpty(TrimRight(s, {NL})) <=> TrimmedIsEmpty(s)
<1>1. PICK n \in 0 .. Len(s) :
        TrimRight(s, {NL}) = SubSeq(s, 1, n) /\ \A i \in n + 1 .. Len(s) : s[i] \in {NL}
  BY TrimRightFacts
<1> DEFINE t == TrimRight(s, {NL})
<1>2. Len(s) \in Nat /\ DOMAIN s = 1 .. Len(s)
  BY LenProperties
<1>3. t \in Seq(S) /\ Len(t) = n /\ \A i \in 1 .. n : t[i] = s[i]
  BY <1>1, PrefixFacts
<1>4. DOMAIN t = 1 .. n
  BY <1>3, LenProperties
<1> HIDE DEF t
<1>5. ~ IsLine(NL)
  BY DEF IsLine, NL
<1>6. \A i \in 1 .. Len(s) : i \in 1 .. n \/ (i \notin 1 .. n /\ s[i] = NL)
  BY <1>1, <1>2
<1>7. \A i \in 1 .. n : i \in 1 .. Len(s)
  BY <1>2
<1>8. LinesOf(t) = LinesOf(s)
  BY <1>2, <1>3, <1>4, <1>5, <1>6, <1>7 DEF LinesOf
<1>9. \A i \in LinesOf(s) : t[i] = s[i]
  BY <1>3, <1>4, <1>8 DEF LinesOf
<1>10. TrimmedIsEmpty(t) <=> TrimmedIsEmpty(s)
  BY <1>2, <1>3, <1>4, <1>6, <1>7 DEF TrimmedIsEmpty
<1> QED
  BY <1>3, <1>8, <1>9, <1>10 DEF t

(* Inside is what is from the only begin marker on, up to the end marker.  *)
LEMMA InsideFacts ==
  ASSUME NEW S, NEW s \in Seq(S), OneBegin(s), NEW b \in 1 .. Len(s), s[b] = Begin
  PROVE  /\ \A i \in 1 .. b - 1 : ~ Inside(s, i)
         /\ \A i \in b .. Len(s) : Inside(s, i) <=> \A e \in b .. i : s[e] # End
<1>1. Len(s) \in Nat /\ DOMAIN s = 1 .. Len(s)
  BY LenProperties
<1>2. \A i \in 1 .. Len(s) : s[i] = Begin => i = b
  BY <1>1 DEF OneBegin
<1>3. \A i \in 1 .. Len(s) : \A j \in 1 .. i : j \in 1 .. Len(s)
  BY <1>1
<1>4. \A i \in 1 .. Len(s) :
        Inside(s, i) => b \in 1 .. i /\ \A e \in b .. i : s[e] # End
  BY <1>2, <1>3 DEF Inside
<1>5. ASSUME NEW i \in 1 .. b - 1 PROVE ~ Inside(s, i)
  <2>1. i \in 1 .. Len(s) /\ b \notin 1 .. i
    BY <1>1
  <2> QED
    BY <1>4, <2>1
<1>6. ASSUME NEW i \in b .. Len(s) PROVE Inside(s, i) <=> \A e \in b .. i : s[e] # End
  <2>1. i \in 1 .. Len(s) /\ b \in 1 .. i
    BY <1>1
  <2> QED
    BY <1>4, <2>1 DEF Inside
<1> QED
  BY <1>5, <1>6

(* A piece from behind the block, put behind what was before it.           *)
LEMMA CutKeeps ==
  ASSUME NEW S, NEW s \in Seq(S), NEW q \in Seq(S),
         NEW b \in 1 .. Len(s) + 1, NEW m \in b .. Len(s) + 1,
         Len(q) = (b - 1) + (Len(s) - m + 1),
         \A i \in 1 .. b - 1 : q[i] = s[i],
         \A i \in m .. Len(s) : q[i - (m - b)] = s[i],
         UnmanagedLines(s) = {i \in LinesOf(s) : i < b \/ i >= m}
  PROVE  KeptIn(s, q, b - 1, m - b)
<1> DEFINE n == Len(s)
<1>1. n \in Nat /\ DOMAIN s = 1 .. n /\ b \in Nat /\ m \in Nat
  BY LenProperties
<1>2. DOMAIN q = 1 .. (b - 1) + (n - m + 1)
  BY LenProperties
<1> DEFINE To(i) == Moved(i, b - 1, m - b)
<1> HIDE DEF n
<1>3. b \in 1 .. n + 1 /\ m \in b .. n + 1
  BY DEF n
<1>4. ASSUME NEW i \in UnmanagedLines(s)
      PROVE  /\ i \in 1 .. n /\ IsLine(s[i])
             /\ \/ i < b /\ To(i) = i
                \/ i >= m /\ To(i) = i - (m - b)
             /\ To(i) \in 1 .. (b - 1) + (n - m + 1)
             /\ q[To(i)] = s[i]
  <2>1. i \in 1 .. n /\ IsLine(s[i]) /\ (i < b \/ i >= m)
    BY <1>1 DEF LinesOf
  <2>2. CASE i < b
    <3>1. To(i) = i /\ i \in 1 .. b - 1 /\ i \in 1 .. (b - 1) + (n - m + 1)
      BY <1>1, <1>3, <2>1, <2>2 DEF Moved
    <3> QED
      BY <2>1, <2>2, <3>1
  <2>3. CASE i >= m
    <3>1. /\ To(i) = i - (m - b) /\ i \in m .. n
          /\ i - (m - b) \in 1 .. (b - 1) + (n - m + 1)
      BY <1>1, <1>3, <2>1, <2>3 DEF Moved
    <3>2. i \in m .. Len(s)
      BY <3>1 DEF n
    <3> QED
      BY <2>1, <2>3, <3>1, <3>2
  <2> QED
    BY <2>1, <2>2, <2>3
<1>5. ASSUME NEW j \in LinesOf(q) PROVE \E i \in UnmanagedLines(s) : j = To(i)
  <2>1. j \in 1 .. (b - 1) + (n - m + 1) /\ IsLine(q[j])
    BY <1>2 DEF LinesOf
  <2>2. CASE j < b
    <3>1. j \in 1 .. b - 1 /\ j \in 1 .. n /\ To(j) = j
      BY <1>1, <1>3, <2>1, <2>2 DEF Moved
    <3>2. j \in UnmanagedLines(s)
      BY <1>1, <2>1, <2>2, <3>1 DEF LinesOf
    <3> QED
      BY <3>1, <3>2
  <2>3. CASE ~ (j < b)
    <3> DEFINE i == j + (m - b)
    <3>1. i \in m .. n /\ i \in 1 .. n /\ i >= m /\ i - (m - b) = j /\ To(i) = j
      BY <1>1, <1>3, <2>1, <2>3 DEF Moved
    <3> HIDE DEF i
    <3>2. i \in m .. Len(s)
      BY <3>1 DEF n
    <3>3. s[i] = q[j]
      BY <3>1, <3>2
    <3>4. i \in UnmanagedLines(s)
      BY <1>1, <2>1, <3>1, <3>3 DEF LinesOf
    <3> QED
      BY <3>1, <3>4
  <2> QED
    BY <2>2, <2>3
<1>6. \A i \in UnmanagedLines(s) : To(i) \in LinesOf(q)
  BY <1>2, <1>4 DEF LinesOf
<1>7. ASSUME NEW i \in UnmanagedLines(s), NEW j \in UnmanagedLines(s), i < j
      PROVE  To(i) < To(j)
  <2>1. /\ i \in 1 .. n /\ j \in 1 .. n
        /\ (i < b /\ To(i) = i) \/ (i >= m /\ To(i) = i - (m - b))
        /\ (j < b /\ To(j) = j) \/ (j >= m /\ To(j) = j - (m - b))
    BY <1>4
  <2> HIDE DEF To
  <2> QED
    BY <1>1, <1>3, <1>7, <2>1
<1>8. /\ LinesOf(q) = {To(i) : i \in UnmanagedLines(s)}
      /\ \A i \in UnmanagedLines(s) : q[To(i)] = s[i]
      /\ \A i, j \in UnmanagedLines(s) : i < j => To(i) < To(j)
  <2> HIDE DEF To
  <2> QED
    BY <1>4, <1>5, <1>6, <1>7
<1> QED
  BY <1>8 DEF KeptIn

(* The lines of two texts at the same positions are kept alike.            *)
LEMMA KeptInBoth ==
  ASSUME NEW s, NEW q, NEW r, NEW k, NEW d,
         LinesOf(r) = LinesOf(q), \A i \in LinesOf(q) : r[i] = q[i], KeptIn(s, q, k, d)
  PROVE  KeptIn(s, r, k, d)
<1>1. \A i \in UnmanagedLines(s) : Moved(i, k, d) \in LinesOf(q)
  BY DEF KeptIn
<1> QED
  BY <1>1 DEF KeptIn

(* A line break behind a text adds no line.                                *)
LEMMA BreakIsNoLine ==
  ASSUME NEW S, NL \in S, NEW s \in Seq(S)
  PROVE  /\ LinesOf(s \o <<NL>>) = LinesOf(s)
         /\ \A i \in LinesOf(s) : (s \o <<NL>>)[i] = s[i]
<1> DEFINE t == s \o <<NL>>
           n == Len(s)
<1>1. <<NL>> \in Seq(S) /\ Len(<<NL>>) = 1 /\ <<NL>>[1] = NL
  OBVIOUS
<1>2. /\ t \in Seq(S) /\ Len(t) = Len(s) + Len(<<NL>>)
      /\ \A i \in 1 .. Len(s) : t[i] = s[i]
      /\ \A i \in 1 .. Len(<<NL>>) : t[Len(s) + i] = <<NL>>[i]
  BY <1>1, Concat
<1>3. n \in Nat /\ DOMAIN s = 1 .. n
  BY LenProperties
<1> HIDE DEF t
<1>4. Len(t) = n + 1 /\ t[n + 1] = NL /\ \A i \in 1 .. n : t[i] = s[i]
  <2>1. 1 \in 1 .. Len(<<NL>>)
    BY <1>1
  <2> QED
    BY <1>1, <1>2, <2>1
<1>5. DOMAIN t = 1 .. n + 1
  BY <1>2, <1>4, LenProperties
<1>6. ~ IsLine(NL)
  BY DEF IsLine, NL
<1>7. \A i \in 1 .. n + 1 : i \in 1 .. n \/ i = n + 1
  BY <1>3
<1>8. \A i \in 1 .. n : i \in 1 .. n + 1
  BY <1>3
<1> HIDE DEF n
<1>9. LinesOf(t) = LinesOf(s)
  BY <1>3, <1>4, <1>5, <1>6, <1>7, <1>8 DEF LinesOf
<1>10. \A i \in LinesOf(s) : t[i] = s[i]
  BY <1>3, <1>4 DEF LinesOf
<1> QED
  BY <1>9, <1>10 DEF t

(* Taking off the block keeps the lines that are outside of it.            *)
LEMMA StripKeeps ==
  ASSUME NEW S, NL \in S, NEW s \in Seq(S), OneBegin(s)
  PROVE  \E k, d \in 0 .. Len(s) : KeptIn(s, StripManagedHostsBlock(s), k, d)
<1> DEFINE n == Len(s)
           b == IndexFrom(s, Begin, 1)
           e == IndexFrom(s, End, b)
           q == StripManagedHostsBlock(s)
<1>1. n \in Nat /\ DOMAIN s = 1 .. n
  BY LenProperties
<1>2. \/ b = 0 /\ \A i \in 1 .. n : s[i] # Begin
      \/ b \in 1 .. n /\ s[b] = Begin
  <2>1. 1 \in Nat /\ 1 > 0
    OBVIOUS
  <2> QED
    BY <2>1, IndexFromFacts
<1>3. q = IF b = 0 THEN s
          ELSE IF e = 0 THEN TrimRight(SubSeq(s, 1, b - 1), {NL}) \o <<NL>>
          ELSE SubSeq(s, 1, b - 1) \o SkipBreaks(s, e + 1)
  BY DEF StripManagedHostsBlock
<1>4. b > 0 => \/ e = 0 /\ \A i \in b .. n : s[i] # End
               \/ e \in b .. n /\ s[e] = End /\ \A i \in b .. e - 1 : s[i] # End
  <2>1. SUFFICES ASSUME b > 0
                 PROVE  \/ e = 0 /\ \A i \in b .. n : s[i] # End
                        \/ e \in b .. n /\ s[e] = End /\ \A i \in b .. e - 1 : s[i] # End
    OBVIOUS
  <2>2. b \in Nat
    BY <1>1, <1>2
  <2> HIDE DEF b
  <2> QED
    BY <2>1, <2>2, IndexFromFacts
<1>5. Len(s) = n
  OBVIOUS
<1> HIDE DEF b, e, q, n
<1>6. CASE b = 0
  <2>1. \A i \in 1 .. n : ~ Inside(s, i)
    <3>1. \A i \in 1 .. n : \A j \in 1 .. i : j \in 1 .. n
      BY <1>1
    <3> QED
      BY <1>1, <1>2, <1>6, <3>1 DEF Inside
  <2>2. UnmanagedLines(s) = {i \in LinesOf(s) : i < n + 1 \/ i >= n + 1}
    BY <1>1, <2>1 DEF UnmanagedLines, LinesOf
  <2>3. /\ n + 1 \in 1 .. Len(s) + 1 /\ n + 1 \in n + 1 .. Len(s) + 1
        /\ Len(s) = ((n + 1) - 1) + (Len(s) - (n + 1) + 1)
        /\ \A i \in n + 1 .. Len(s) : s[i - ((n + 1) - (n + 1))] = s[i]
    BY <1>1, <1>5
  <2>4. KeptIn(s, s, (n + 1) - 1, (n + 1) - (n + 1))
    BY <2>2, <2>3, CutKeeps
  <2>5. (n + 1) - 1 \in 0 .. n /\ (n + 1) - (n + 1) \in 0 .. n
    BY <1>1
  <2> QED
    BY <1>3, <1>5, <1>6, <2>4, <2>5 DEF q
<1>7. CASE b \in 1 .. n /\ s[b] = Begin
  <2> DEFINE pre == SubSeq(s, 1, b - 1)
  <2>1. b - 1 \in 0 .. Len(s) /\ b \in 1 .. Len(s) /\ b > 0 /\ b # 0 /\ b \in 1 .. Len(s) + 1
    BY <1>1, <1>5, <1>7
  <2>2. pre \in Seq(S) /\ Len(pre) = b - 1 /\ \A i \in 1 .. b - 1 : pre[i] = s[i]
    BY <2>1, PrefixFacts
  <2>3. /\ \A i \in 1 .. b - 1 : ~ Inside(s, i)
        /\ \A i \in b .. n : Inside(s, i) <=> \A x \in b .. i : s[x] # End
    BY <1>5, <1>7, <2>1, InsideFacts
  <2>4. q = IF e = 0 THEN TrimRight(pre, {NL}) \o <<NL>> ELSE pre \o SkipBreaks(s, e + 1)
    BY <1>3, <2>1
  <2> HIDE DEF pre
  <2>5. CASE e = 0
    <3>1. \A i \in b .. n : s[i] # End
      BY <1>1, <1>4, <1>7, <2>1, <2>5
    <3>2. \A i \in b .. n : \A x \in b .. i : x \in b .. n
      BY <1>1, <1>7
    <3>3. \A i \in b .. n : Inside(s, i)
      BY <2>3, <3>1, <3>2
    <3>4. \A i \in 1 .. n : \/ i \in 1 .. b - 1 /\ i < b
                            \/ i \in b .. n /\ ~ (i < b) /\ ~ (i >= n + 1)
      BY <1>1, <1>7
    <3>5. UnmanagedLines(s) = {i \in LinesOf(s) : i < b \/ i >= n + 1}
      BY <1>1, <2>3, <3>3, <3>4 DEF UnmanagedLines, LinesOf
    <3>6. /\ n + 1 \in b .. Len(s) + 1
          /\ Len(pre) = (b - 1) + (Len(s) - (n + 1) + 1)
          /\ \A i \in n + 1 .. Len(s) : pre[i - ((n + 1) - b)] = s[i]
      BY <1>1, <1>5, <1>7, <2>2
    <3>7. KeptIn(s, pre, b - 1, (n + 1) - b)
      BY <2>1, <2>2, <3>5, <3>6, CutKeeps
    <3> DEFINE t == TrimRight(pre, {NL})
    <3>8. t \in Seq(S) /\ LinesOf(t) = LinesOf(pre) /\ \A i \in LinesOf(pre) : t[i] = pre[i]
      BY <2>2, TrimKeepsLines
    <3> HIDE DEF t
    <3>9. KeptIn(s, t, b - 1, (n + 1) - b)
      BY <3>7, <3>8, KeptInBoth
    <3>10. /\ LinesOf(t \o <<NL>>) = LinesOf(t)
           /\ \A i \in LinesOf(t) : (t \o <<NL>>)[i] = t[i]
      BY <3>8, BreakIsNoLine
    <3>11. KeptIn(s, t \o <<NL>>, b - 1, (n + 1) - b)
      BY <3>9, <3>10, KeptInBoth
    <3>12. b - 1 \in 0 .. n /\ (n + 1) - b \in 0 .. n
      BY <1>1, <1>7
    <3>13. q = t \o <<NL>>
      BY <2>4, <2>5 DEF t
    <3> QED
      BY <1>5, <3>11, <3>12, <3>13 DEF q
  <2>6. CASE e # 0
    <3>1. e \in b .. n /\ s[e] = End /\ \A i \in b .. e - 1 : s[i] # End
      BY <1>4, <2>1, <2>6
    <3>2. e + 1 \in 1 .. Len(s) + 1
      BY <1>1, <1>5, <1>7, <3>1
    <3> DEFINE post == SkipBreaks(s, e + 1)
    <3>3. PICK m \in e + 1 .. Len(s) + 1 :
            /\ post \in Seq(S) /\ Len(post) = Len(s) - m + 1
            /\ \A x \in 1 .. Len(s) - m + 1 : post[x] = s[m + x - 1]
            /\ \A i \in e + 1 .. m - 1 : s[i] \in {NL, CR}
      BY <3>2, SkipBreaksFacts
    <3> HIDE DEF post
    <3>4. m \in e + 1 .. n + 1 /\ m \in b .. Len(s) + 1 /\ m \in b .. n + 1
      BY <1>1, <1>5, <1>7, <3>1
    <3>5. /\ pre \o post \in Seq(S)
          /\ Len(pre \o post) = Len(pre) + Len(post)
          /\ \A i \in 1 .. Len(pre) : (pre \o post)[i] = pre[i]
          /\ \A x \in 1 .. Len(post) : (pre \o post)[Len(pre) + x] = post[x]
      <4>1. pre \in Seq(S) /\ post \in Seq(S)
        BY <2>2, <3>3
      <4> QED
        BY <4>1, Concat
    <3> DEFINE r == pre \o post
    <3> HIDE DEF r
    <3>6. /\ r \in Seq(S) /\ Len(r) = (b - 1) + (Len(s) - m + 1)
          /\ \A i \in 1 .. b - 1 : r[i] = s[i]
      BY <2>2, <3>3, <3>5 DEF r
    <3>7. ASSUME NEW i \in m .. Len(s) PROVE r[i - (m - b)] = s[i]
      <4>1. /\ i - m + 1 \in 1 .. Len(s) - m + 1
            /\ (b - 1) + (i - m + 1) = i - (m - b) /\ m + (i - m + 1) - 1 = i
        BY <1>1, <1>5, <1>7, <3>4
      <4>2. r[Len(pre) + (i - m + 1)] = post[i - m + 1]
        BY <3>3, <3>5, <4>1 DEF r
      <4>3. post[i - m + 1] = s[m + (i - m + 1) - 1]
        BY <3>3, <4>1
      <4> QED
        BY <2>2, <4>1, <4>2, <4>3
    <3>8. UnmanagedLines(s) = {i \in LinesOf(s) : i < b \/ i >= m}
      <4>1. ~ IsLine(NL) /\ ~ IsLine(CR) /\ ~ IsLine(End)
        BY DEF IsLine, NL, CR, End
      <4>2. ASSUME NEW i \in b .. e - 1 PROVE Inside(s, i) /\ ~ (i < b) /\ ~ (i >= m)
        <5>1. i \in b .. n /\ ~ (i < b) /\ ~ (i >= m) /\ \A x \in b .. i : x \in b .. e - 1
          BY <1>1, <1>7, <3>1, <3>4
        <5> QED
          BY <2>3, <3>1, <5>1
      <4>3. ASSUME NEW i \in e .. m - 1 PROVE ~ IsLine(s[i])
        <5>1. i = e \/ i \in e + 1 .. m - 1
          BY <1>1, <1>7, <3>1, <3>4
        <5> QED
          BY <3>1, <3>3, <4>1, <5>1
      <4>4. ASSUME NEW i \in m .. n PROVE ~ Inside(s, i) /\ i >= m
        <5>1. i \in b .. n /\ e \in b .. i /\ i >= m
          BY <1>1, <1>7, <3>1, <3>4
        <5> QED
          BY <2>3, <3>1, <5>1
      <4>5. \A i \in 1 .. n :
              \/ i \in 1 .. b - 1 /\ i < b
              \/ i \in b .. e - 1 \/ i \in e .. m - 1 \/ i \in m .. n
        BY <1>1, <1>7, <3>1, <3>4
      <4> QED
        BY <1>1, <2>3, <4>2, <4>3, <4>4, <4>5 DEF UnmanagedLines, LinesOf
    <3>9. KeptIn(s, r, b - 1, m - b)
      BY <2>1, <3>4, <3>6, <3>7, <3>8, CutKeeps
    <3>10. b - 1 \in 0 .. n /\ m - b \in 0 .. n
      BY <1>1, <1>7, <3>4
    <3>11. q = r
      BY <2>4, <2>6 DEF r, post
    <3> QED
      BY <1>5, <3>9, <3>10, <3>11 DEF q
  <2> QED
    BY <2>5, <2>6
<1> QED
  BY <1>2, <1>6, <1>7

(* So a merge keeps the unmanaged lines of the text, in order, and adds    *)
(* only the localhost line where nothing is left.                          *)
LEMMA MergeKeeps ==
  ASSUME NEW S, {NL, Begin, End, Localhost} \subseteq S, NEW s \in Seq(S), OneBegin(s),
         NEW c, c \in Seq(ToSet(c)), Render(c) \in Seq(S)
  PROVE  IF TrimmedIsEmpty(StripManagedHostsBlock(s))
         THEN UnmanagedLines(MergeHosts(s, c)) = {1} /\ MergeHosts(s, c)[1] = Localhost
         ELSE SameUnmanaged(s, MergeHosts(s, c))
<1> DEFINE base == Base(s)
           t == MergeHosts(s, c)
           q == StripManagedHostsBlock(s)
           r == TrimRight(q, {NL})
<1>1. t = Block(base, Render(c)) /\ base \in Seq(S) /\ NoBegin(base) /\ Unmarked(Render(c))
  BY MergeFacts
<1>2. base = IF TrimmedIsEmpty(r) THEN <<Localhost>> ELSE r
  BY DEF Base
<1>3. q \in Seq(S)
  BY StripFacts
<1>4. PICK k \in 0 .. Len(s), d \in 0 .. Len(s) : KeptIn(s, q, k, d)
  BY StripKeeps
<1> HIDE DEF base, t, q
<1>5. UnmanagedLines(t) = LinesOf(base) /\ \A i \in LinesOf(base) : t[i] = base[i]
  BY <1>1, BlockUnmanaged
<1>6. /\ LinesOf(r) = LinesOf(q) /\ \A i \in LinesOf(q) : r[i] = q[i]
      /\ TrimmedIsEmpty(r) <=> TrimmedIsEmpty(q)
  BY <1>3, TrimKeepsLines
<1> HIDE DEF r
<1>7. CASE TrimmedIsEmpty(q)
  <2>1. base = <<Localhost>>
    BY <1>2, <1>6, <1>7
  <2>2. IsLine(Localhost)
    BY DEF IsLine, Localhost, Text
  <2>3. DOMAIN <<Localhost>> = {1} /\ <<Localhost>>[1] = Localhost
    OBVIOUS
  <2>4. LinesOf(<<Localhost>>) = {1}
    BY <2>2, <2>3 DEF LinesOf
  <2>5. UnmanagedLines(t) = {1} /\ t[1] = Localhost
    BY <1>5, <2>1, <2>3, <2>4
  <2> QED
    BY <1>7, <2>5 DEF t, q
<1>8. CASE ~ TrimmedIsEmpty(q)
  <2>1. base = r
    BY <1>2, <1>6, <1>8
  <2>2. KeptIn(s, r, k, d)
    BY <1>4, <1>6, KeptInBoth
  <2>3. KeptIn(s, base, k, d)
    BY <2>1, <2>2
  <2>4. \A i \in UnmanagedLines(s) : Moved(i, k, d) \in LinesOf(base)
    BY <2>3 DEF KeptIn
  <2>5. SameUnmanaged(s, t)
    BY <1>5, <2>3, <2>4 DEF KeptIn, SameUnmanaged
  <2> QED
    BY <1>8, <2>5 DEF t, q
<1> QED
  BY <1>7, <1>8

-----------------------------------------------------------------------------
(* The invariant.                                                          *)

(* Every text there can be is a sequence over the tokens.                  *)
LEMMA TokenFacts ==
  /\ {NL, Begin, End, Localhost} \subseteq Tokens /\ Edits \subseteq Tokens
  /\ \A t \in InitialTexts : t \in Seq(Tokens) /\ OneBegin(t)
  /\ \A c \in Configs : c \in Seq(ToSet(c)) /\ Render(c) \in Seq(Tokens)
<1>1. {NL, Begin, End, Localhost} \subseteq Tokens /\ Edits \subseteq Tokens
  BY DEF Tokens
<1>2. ASSUME NEW t \in InitialTexts PROVE t \in Seq(Tokens) /\ OneBegin(t)
  <2>1. t \in Seq(ToSet(t)) /\ OneBegin(t)
    BY HostsFileAssumption, OneBlockAssumption
  <2>2. ToSet(t) \subseteq Tokens
    BY DEF Tokens
  <2> QED
    BY <2>1, <2>2, SeqMonotonic
<1>3. ASSUME NEW c \in Configs PROVE c \in Seq(ToSet(c)) /\ Render(c) \in Seq(Tokens)
  <2>1. c \in Seq(ToSet(c))
    BY HostsFileAssumption
  <2>2. Render(c) \in Seq(ToSet(Render(c)))
    BY <2>1, RenderFacts
  <2>3. ToSet(Render(c)) \subseteq Tokens
    BY DEF Tokens
  <2> QED
    BY <2>1, <2>2, <2>3, SeqMonotonic
<1> QED
  BY <1>1, <1>2, <1>3

(* The appended lines are different ones, so there are at most as many as  *)
(* there are lines to append.                                              *)
LEMMA EditsBounded ==
  ASSUME NEW s \in Seq(Edits), Cardinality(ToSet(s)) = Len(s)
  PROVE  s \in BoundedSeq(Edits, Cardinality(Edits))
<1>1. IsFiniteSet(Edits)
  BY HostsFileAssumption
<1>2. Len(s) \in Nat /\ s \in [1 .. Len(s) -> Edits] /\ DOMAIN s = 1 .. Len(s)
  BY LenProperties
<1>3. ToSet(s) \subseteq Edits
  BY <1>2 DEF ToSet
<1>4. Cardinality(ToSet(s)) <= Cardinality(Edits) /\ Cardinality(Edits) \in Nat
  BY <1>1, <1>3, FS_Subset, FS_CardinalityType
<1>5. Len(s) \in 0 .. Cardinality(Edits)
  BY <1>2, <1>4
<1> QED
  BY <1>2, <1>5 DEF BoundedSeq, SeqOf

(* The invariant holds before the first start.                             *)
LEMMA InitInv == Init => HostsInv
<1> SUFFICES ASSUME Init PROVE HostsInv
  OBVIOUS
<1> USE DEF Init
<1>1. PICK t \in InitialTexts : file = Content(t, "0644")
  OBVIOUS
<1>2. file.text = t /\ file.mode = "0644" /\ stable = {file} /\ whole = {file.text}
  BY <1>1 DEF Content
<1>3. edits \in Seq(Edits) /\ Cardinality(ToSet(edits)) = Len(edits)
  <2>1. <<>> \in Seq(Edits) /\ Len(<<>>) = 0
    BY EmptySeq
  <2>2. ToSet(<<>>) = {}
    BY DEF ToSet
  <2> QED
    BY <2>1, <2>2, FS_EmptySet
<1>4. edits \in BoundedSeq(Edits, Cardinality(Edits))
  BY <1>3, EditsBounded
<1>5. TypeOK
  BY <1>2, <1>4, HostsFileAssumption DEF TypeOK, NoTmp
<1>6. TmpByCall
  BY DEF TmpByCall, NoTmp
<1>7. NeverTorn
  BY <1>2 DEF NeverTorn
<1>8. TextsHaveOneBlock
  <2>1. t \in Seq(Tokens) /\ OneBegin(t)
    BY TokenFacts
  <2>2. <<>> \in Seq(Tokens) /\ OneBegin(<<>>)
    BY DEF OneBegin
  <2> QED
    BY <1>2, <2>1, <2>2 DEF TextsHaveOneBlock
<1>9. BlockIsCurrent
  BY DEF BlockIsCurrent
<1> QED
  BY <1>3, <1>5, <1>6, <1>7, <1>8, <1>9 DEF HostsInv

(* A merge of the text that was read is a whole text with one block.       *)
LEMMA MergedFacts ==
  ASSUME HostsInv
  PROVE  /\ Merged \in Seq(Tokens) /\ OneBegin(Merged)
         /\ ManagedAre(Merged, Render(config)) /\ ~ Inside(Merged, Len(Merged))
<1>1. seen \in Seq(Tokens) /\ OneBegin(seen)
  BY DEF HostsInv, TextsHaveOneBlock
<1>2. config \in Configs
  BY DEF HostsInv, TypeOK
<1>3. /\ {NL, Begin, End, Localhost} \subseteq Tokens
      /\ config \in Seq(ToSet(config)) /\ Render(config) \in Seq(Tokens)
  BY <1>2, TokenFacts
<1> QED
  BY <1>1, <1>3, MergeFacts DEF Merged

(* The process starts, or ends by itself or by force.                      *)
LEMMA StartStopInv ==
  ASSUME HostsInv, (\E c \in Configs : Start(c)) \/ CallFails \/ Killed
  PROVE  HostsInv'
<1>1. CASE \E c \in Configs : Start(c)
  <2>1. PICK c \in Configs : Start(c)
    BY <1>1
  <2> USE <2>1 DEF Start, HostsInv
  <2>2. starts' \in 0 .. MaxStarts
    BY HostsFileAssumption DEF TypeOK
  <2>3. TypeOK'
    BY <2>2 DEF TypeOK, Calls
  <2>4. TmpByCall'
    BY DEF TmpByCall
  <2>5. NeverTorn' /\ TextsHaveOneBlock' /\ BlockIsCurrent'
    BY DEF NeverTorn, TextsHaveOneBlock, BlockIsCurrent
  <2> QED
    BY <2>3, <2>4, <2>5
<1>2. CASE CallFails \/ Killed
  <2> USE DEF HostsInv
  <2>1. /\ pc' = "down" /\ (tmp' = NoTmp \/ tmp' = tmp)
        /\ UNCHANGED <<config, seen, file, stable, starts, edits, losses, whole, last>>
    BY <1>2 DEF CallFails, Killed
  <2>2. TypeOK'
    BY <2>1 DEF TypeOK, NoTmp
  <2>3. TmpByCall'
    BY <2>1 DEF TmpByCall, NoTmp
  <2>4. NeverTorn' /\ TextsHaveOneBlock' /\ BlockIsCurrent'
    BY <2>1 DEF NeverTorn, TextsHaveOneBlock, BlockIsCurrent
  <2> QED
    BY <2>1, <2>2, <2>3, <2>4
<1> QED
  BY <1>1, <1>2

(* What is read is the text at the path, which somebody has written whole. *)
LEMMA ReadInv ==
  ASSUME HostsInv, ReadHosts
  PROVE  HostsInv'
<1> USE DEF HostsInv, ReadHosts
<1>1. file.text \in whole
  BY DEF TypeOK, NeverTorn
<1>2. TypeOK'
  BY <1>1 DEF TypeOK, Calls
<1>3. TmpByCall'
  BY DEF TmpByCall
<1>4. NeverTorn' /\ BlockIsCurrent'
  BY DEF NeverTorn, BlockIsCurrent
<1>5. TextsHaveOneBlock'
  BY <1>1 DEF TextsHaveOneBlock
<1> QED
  BY <1>2, <1>3, <1>4, <1>5

(* A record of the temporary file with one field changed.                  *)
LEMMA TmpFields ==
  ASSUME NEW r, NEW v,
         r = [exists |-> r.exists, text |-> r.text, mode |-> r.mode, synced |-> r.synced]
  PROVE  /\ [r EXCEPT !.text = v]
              = [exists |-> r.exists, text |-> v, mode |-> r.mode, synced |-> r.synced]
         /\ [r EXCEPT !.mode = v]
              = [exists |-> r.exists, text |-> r.text, mode |-> v, synced |-> r.synced]
         /\ [r EXCEPT !.synced = v]
              = [exists |-> r.exists, text |-> r.text, mode |-> r.mode, synced |-> v]
<1> DEFINE a == r.exists
           b == r.text
           c == r.mode
           d == r.synced
<1>1. r = [exists |-> a, text |-> b, mode |-> c, synced |-> d]
  OBVIOUS
<1> HIDE DEF a, b, c, d
<1>2. [r EXCEPT !.text = v] = [exists |-> a, text |-> v, mode |-> c, synced |-> d]
  BY <1>1
<1>3. [r EXCEPT !.mode = v] = [exists |-> a, text |-> b, mode |-> v, synced |-> d]
  BY <1>1
<1>4. [r EXCEPT !.synced = v] = [exists |-> a, text |-> b, mode |-> c, synced |-> v]
  BY <1>1
<1> QED
  BY <1>2, <1>3, <1>4 DEF a, b, c, d

(* The calls on the temporary file, one after the other.                   *)
LEMMA TempInv ==
  ASSUME HostsInv, CreateTemp \/ WriteTemp \/ ChmodTemp \/ SyncTemp \/ CloseTemp
  PROVE  HostsInv'
<1> USE DEF HostsInv
<1>1. tmp = [exists |-> tmp.exists, text |-> tmp.text, mode |-> tmp.mode, synced |-> tmp.synced]
  BY DEF TmpByCall
<1>2. /\ pc' \in {"write", "chmod", "sync", "close", "rename"}
      /\ UNCHANGED <<config, seen, file, stable, starts, edits, losses, last>>
      /\ whole' = whole \/ whole' = whole \cup {Merged}
  BY DEF CreateTemp, WriteTemp, ChmodTemp, SyncTemp, CloseTemp
<1>3. Merged' = Merged
  BY <1>2 DEF Merged
<1>4. ASSUME CreateTemp PROVE TmpByCall' /\ tmp'.mode \in {"0600", "0644"}
  <2>1. tmp' = [exists |-> TRUE, text |-> <<>>, mode |-> "0600", synced |-> FALSE]
    BY <1>4 DEF CreateTemp, NoTmp
  <2>2. pc' = "write" /\ whole' = whole \cup {Merged}
    BY <1>4 DEF CreateTemp
  <2>3. TmpByCall' /\ tmp'.mode \in {"0600", "0644"}
    BY <1>3, <2>1, <2>2 DEF TmpByCall
  <2> QED
    BY <2>3
<1>5. ASSUME WriteTemp PROVE TmpByCall' /\ tmp'.mode \in {"0600", "0644"}
  <2>1. tmp' = [exists |-> tmp.exists, text |-> Merged, mode |-> tmp.mode, synced |-> tmp.synced]
    BY <1>1, <1>5, TmpFields DEF WriteTemp
  <2>2. pc = "write" /\ pc' = "chmod" /\ whole' = whole
    BY <1>5 DEF WriteTemp
  <2> QED
    BY <1>3, <2>1, <2>2 DEF TmpByCall, TypeOK
<1>6. ASSUME ChmodTemp PROVE TmpByCall' /\ tmp'.mode \in {"0600", "0644"}
  <2>1. tmp' = [exists |-> tmp.exists, text |-> tmp.text, mode |-> "0644", synced |-> tmp.synced]
    BY <1>1, <1>6, TmpFields DEF ChmodTemp
  <2>2. pc = "chmod" /\ pc' = "sync" /\ whole' = whole
    BY <1>6 DEF ChmodTemp
  <2> QED
    BY <1>3, <2>1, <2>2 DEF TmpByCall, TypeOK
<1>7. ASSUME SyncTemp PROVE TmpByCall' /\ tmp'.mode \in {"0600", "0644"}
  <2>1. tmp' = [exists |-> tmp.exists, text |-> tmp.text, mode |-> tmp.mode, synced |-> TRUE]
    BY <1>1, <1>7, TmpFields DEF SyncTemp
  <2>2. pc = "sync" /\ pc' = "close" /\ whole' = whole
    BY <1>7 DEF SyncTemp
  <2> QED
    BY <1>3, <2>1, <2>2 DEF TmpByCall, TypeOK
<1>8. ASSUME CloseTemp PROVE TmpByCall' /\ tmp'.mode \in {"0600", "0644"}
  <2>1. pc = "close" /\ pc' = "rename" /\ whole' = whole /\ tmp' = tmp
    BY <1>8 DEF CloseTemp
  <2> QED
    BY <1>3, <2>1 DEF TmpByCall, TypeOK
<1>9. TmpByCall' /\ tmp'.mode \in {"0600", "0644"}
  BY <1>4, <1>5, <1>6, <1>7, <1>8
<1>10. TypeOK'
  BY <1>2, <1>9 DEF TypeOK, Calls
<1>11. NeverTorn' /\ BlockIsCurrent'
  BY <1>2 DEF NeverTorn, BlockIsCurrent
<1>12. TextsHaveOneBlock'
  BY <1>2, MergedFacts DEF TextsHaveOneBlock
<1> QED
  BY <1>2, <1>9, <1>10, <1>11, <1>12

(* The rename puts a complete, synced and readable text at the path.       *)
LEMMA RenameInv ==
  ASSUME HostsInv, Rename
  PROVE  HostsInv'
<1> USE DEF HostsInv
<1>1. tmp.text = Merged /\ Merged \in whole /\ tmp.mode = "0644" /\ tmp.synced
  BY DEF Rename, TmpByCall
<1>2. /\ pc' = "syncdir" /\ file' = Content(Merged, "0644")
      /\ stable' = stable \cup {file'}
      /\ last' = {[text |-> Merged, config |-> config]}
      /\ tmp' = NoTmp
      /\ UNCHANGED <<config, seen, starts, edits, losses, whole>>
  BY <1>1 DEF Rename
<1>3. file'.text = Merged /\ file'.mode = "0644"
  BY <1>2 DEF Content
<1>4. TypeOK'
  BY <1>2 DEF TypeOK, Calls, NoTmp
<1>5. TmpByCall'
  BY <1>2 DEF TmpByCall, NoTmp
<1>6. NeverTorn'
  BY <1>1, <1>2, <1>3 DEF NeverTorn
<1>7. TextsHaveOneBlock'
  <2>1. seen \in whole \cup {<<>>}
    BY DEF TypeOK
  <2>2. \A done \in last' : done.text = MergeHosts(seen, done.config)
    BY <1>2 DEF Merged
  <2>3. \A text \in whole' \cup {seen'} : text \in Seq(Tokens) /\ OneBegin(text)
    BY <1>2 DEF TextsHaveOneBlock
  <2> QED
    BY <1>2, <2>1, <2>2, <2>3 DEF TextsHaveOneBlock
<1>8. BlockIsCurrent'
  BY <1>2, <1>3, MergedFacts DEF BlockIsCurrent
<1> QED
  BY <1>2, <1>4, <1>5, <1>6, <1>7, <1>8

(* After it nothing but what a power loss may bring back changes.          *)
LEMMA SyncDirInv ==
  ASSUME HostsInv, SyncDir
  PROVE  HostsInv'
<1> USE DEF HostsInv
<1>1. /\ pc = "syncdir" /\ pc' = "ready"
      /\ file \in stable' /\ stable' \subseteq stable
      /\ UNCHANGED <<config, seen, file, tmp, starts, edits, losses, whole, last>>
  BY DEF SyncDir, TypeOK
<1>2. TypeOK'
  BY <1>1 DEF TypeOK
<1>3. TmpByCall'
  BY <1>1 DEF TmpByCall
<1>4. NeverTorn' /\ TextsHaveOneBlock'
  BY <1>1 DEF NeverTorn, TextsHaveOneBlock
<1>5. BlockIsCurrent'
  BY <1>1 DEF BlockIsCurrent
<1> QED
  BY <1>1, <1>2, <1>3, <1>4, <1>5

(* Another program's line comes behind the closed block.                   *)
LEMMA EditInv ==
  ASSUME HostsInv, NEW line \in Edits, OtherEdits(line)
  PROVE  HostsInv'
<1> USE DEF HostsInv
<1> DEFINE more == file.text \o <<line, NL>>
<1>1. /\ line \notin ToSet(edits) /\ edits' = Append(edits, line)
      /\ file' = Content(more, file.mode)
      /\ stable' = {file'} /\ whole' = whole \cup {more}
      /\ UNCHANGED <<pc, config, seen, tmp, starts, losses, last>>
  BY DEF OtherEdits, Content
<1>2. file.text \in whole /\ file.mode = "0644"
  BY DEF TypeOK, NeverTorn
<1>3. file.text \in Seq(Tokens) /\ OneBegin(file.text)
  BY <1>2 DEF TextsHaveOneBlock
<1>4. line \in Tokens /\ line # Begin /\ NL \in Tokens
  BY TokenFacts, OneBlockAssumption
<1>5. more \in Seq(Tokens) /\ OneBegin(more)
  BY <1>3, <1>4, EditFacts
<1>6. file'.text = more /\ file'.mode = "0644"
  BY <1>1, <1>2 DEF Content
<1>7. edits' \in Seq(Edits) /\ Cardinality(ToSet(edits')) = Len(edits')
  <2>1. edits \in Seq(Edits) /\ Cardinality(ToSet(edits)) = Len(edits)
    OBVIOUS
  <2>2. /\ edits' \in Seq(Edits) /\ Len(edits') = Len(edits) + 1
        /\ \A i \in 1 .. Len(edits) : edits'[i] = edits[i]
        /\ edits'[Len(edits) + 1] = line
    BY <1>1, <2>1, AppendProperties
  <2>3. Len(edits) \in Nat /\ DOMAIN edits = 1 .. Len(edits) /\ DOMAIN edits' = 1 .. Len(edits) + 1
    BY <2>1, <2>2, LenProperties
  <2>4. ToSet(edits') = ToSet(edits) \cup {line}
    <3>1. \A i \in 1 .. Len(edits) + 1 : i \in 1 .. Len(edits) \/ i = Len(edits) + 1
      BY <2>3
    <3>2. Len(edits) + 1 \in 1 .. Len(edits) + 1 /\ 1 .. Len(edits) \subseteq 1 .. Len(edits) + 1
      BY <2>3
    <3>3. \A x \in ToSet(edits') : x \in ToSet(edits) \cup {line}
      BY <2>2, <2>3, <3>1 DEF ToSet
    <3>4. \A x \in ToSet(edits) \cup {line} : x \in ToSet(edits')
      BY <2>2, <2>3, <3>2 DEF ToSet
    <3> QED
      BY <3>3, <3>4
  <2>5. IsFiniteSet(ToSet(edits))
    <3>1. \A i \in DOMAIN edits : edits[i] \in Edits
      BY <2>1, <2>3, ElementOfSeq
    <3>2. ToSet(edits) \subseteq Edits
      BY <3>1 DEF ToSet
    <3> QED
      BY <3>2, HostsFileAssumption, FS_Subset
  <2>6. Cardinality(ToSet(edits) \cup {line}) = Cardinality(ToSet(edits)) + 1
    BY <1>1, <2>5, FS_AddElement
  <2> QED
    BY <2>1, <2>2, <2>4, <2>6
<1>8. edits' \in BoundedSeq(Edits, Cardinality(Edits))
  BY <1>7, EditsBounded
<1>9. TypeOK'
  BY <1>1, <1>8 DEF TypeOK
<1>10. TmpByCall'
  BY <1>1 DEF TmpByCall, Merged
<1>11. NeverTorn'
  BY <1>1, <1>6 DEF NeverTorn
<1>12. TextsHaveOneBlock'
  BY <1>1, <1>5 DEF TextsHaveOneBlock
<1>13. BlockIsCurrent'
  <2>1. SUFFICES ASSUME pc \in {"syncdir", "ready"}
                 PROVE  ManagedAre(more, Render(config)) /\ ~ Inside(more, Len(more))
    BY <1>1, <1>6 DEF BlockIsCurrent
  <2>2. ManagedAre(file.text, Render(config)) /\ ~ Inside(file.text, Len(file.text))
    BY <2>1 DEF BlockIsCurrent
  <2>3. /\ ~ Inside(more, Len(more))
        /\ ManagedLines(more) = ManagedLines(file.text)
        /\ \A i \in DOMAIN file.text : more[i] = file.text[i]
        /\ Len(more) = Len(file.text) + 2
    BY <1>3, <1>4, <2>2, EditFacts
  <2> HIDE DEF more
  <2> DEFINE at == {k \in DOMAIN Render(config) : IsLine(Render(config)[k])}
  <2>4. PICK d \in 0 .. Len(file.text) :
          /\ ManagedLines(file.text) = {d + k : k \in at}
          /\ \A k \in at : file.text[d + k] = Render(config)[k]
    BY <2>2 DEF ManagedAre
  <2>5. d \in 0 .. Len(more)
    BY <1>3, <2>3, LenProperties
  <2> HIDE DEF at
  <2>6. ASSUME NEW k \in at PROVE more[d + k] = Render(config)[k]
    <3>1. d + k \in ManagedLines(file.text)
      BY <2>4
    <3>2. d + k \in DOMAIN file.text
      BY <3>1 DEF ManagedLines
    <3> QED
      BY <2>3, <2>4, <3>2
  <2>7. ManagedAre(more, Render(config))
    BY <2>3, <2>4, <2>5, <2>6 DEF ManagedAre, at
  <2> QED
    BY <2>3, <2>7
<1> QED
  BY <1>7, <1>9, <1>10, <1>11, <1>12, <1>13

(* What a power loss leaves at the path is one of the texts it may leave.  *)
LEMMA PowerLossInv ==
  ASSUME HostsInv, PowerLoss
  PROVE  HostsInv'
<1> USE DEF HostsInv
<1>1. PICK left \in stable : file' = left /\ stable' = {left}
  BY DEF PowerLoss
<1>2. /\ losses < MaxLosses /\ losses' = losses + 1 /\ pc' = "down" /\ tmp' = NoTmp
      /\ UNCHANGED <<config, seen, starts, edits, whole, last>>
  BY DEF PowerLoss
<1>3. losses' \in 0 .. MaxLosses
  BY <1>2, HostsFileAssumption DEF TypeOK
<1>4. TypeOK'
  BY <1>1, <1>2, <1>3 DEF TypeOK, NoTmp
<1>5. TmpByCall'
  BY <1>2 DEF TmpByCall, NoTmp
<1>6. NeverTorn' /\ TextsHaveOneBlock' /\ BlockIsCurrent'
  BY <1>1, <1>2 DEF NeverTorn, TextsHaveOneBlock, BlockIsCurrent
<1> QED
  BY <1>2, <1>4, <1>5, <1>6

(* A step of nobody.                                                       *)
LEMMA StutterInv ==
  ASSUME HostsInv, UNCHANGED vars
  PROVE  HostsInv'
<1> USE DEF HostsInv, vars
<1>1. TypeOK' /\ TmpByCall' /\ NeverTorn' /\ TextsHaveOneBlock' /\ BlockIsCurrent'
  BY DEF TypeOK, TmpByCall, Merged, NeverTorn, TextsHaveOneBlock, BlockIsCurrent
<1> QED
  BY <1>1

-----------------------------------------------------------------------------
(* Theorems.                                                               *)

(* HostsInv holds at every moment, whatever fails, whoever edits, and      *)
(* wherever a kill or a power loss comes between two calls.                *)
THEOREM Invariance == Spec => []HostsInv
<1>1. Init => HostsInv
  BY InitInv
<1>2. HostsInv /\ [Next]_vars => HostsInv'
  <2> SUFFICES ASSUME HostsInv, [Next]_vars PROVE HostsInv'
    OBVIOUS
  <2>1. CASE (\E c \in Configs : Start(c)) \/ CallFails \/ Killed
    BY <2>1, StartStopInv
  <2>2. CASE ReadHosts
    BY <2>2, ReadInv
  <2>3. CASE CreateTemp \/ WriteTemp \/ ChmodTemp \/ SyncTemp \/ CloseTemp
    BY <2>3, TempInv
  <2>4. CASE Rename
    BY <2>4, RenameInv
  <2>5. CASE SyncDir
    BY <2>5, SyncDirInv
  <2>6. CASE \E line \in Edits : OtherEdits(line)
    BY <2>6, EditInv
  <2>7. CASE PowerLoss
    BY <2>7, PowerLossInv
  <2>8. CASE UNCHANGED vars
    BY <2>8, StutterInv
  <2> QED
    BY <2>1, <2>2, <2>3, <2>4, <2>5, <2>6, <2>7, <2>8 DEF Next, Process
<1> QED
  BY <1>1, <1>2, PTL DEF Spec

(* The state of the writer, of the file and of its editors is well-formed. *)
THEOREM TypeCorrect == Spec => []TypeOK
<1>1. HostsInv => TypeOK
  BY DEF HostsInv
<1> QED
  BY <1>1, Invariance, PTL

(* Whatever a kill or a power loss may leave at the path of /etc/hosts is  *)
(* a text that some writer meant, readable by everyone.                    *)
THEOREM AlwaysWhole == Spec => []NeverTorn
<1>1. HostsInv => NeverTorn
  BY DEF HostsInv
<1> QED
  BY <1>1, Invariance, PTL

(* When the enclave goes on to start its bridges, the managed lines are    *)
(* those of its own configuration, at the addresses its proxies bind, and  *)
(* nothing is left of an earlier block.                                    *)
THEOREM ReadyIsCurrent == Spec => []ReadyMeansCurrent
<1>1. HostsInv => ReadyMeansCurrent
  BY DEF HostsInv, BlockIsCurrent, ReadyMeansCurrent
<1> QED
  BY <1>1, Invariance, PTL

(* The text behind the path after a rename is the merge of what was read.  *)
LEMMA RenamesMerged ==
  ASSUME HostsInv, Next, pc = "rename", pc' = "syncdir"
  PROVE  file'.text = Merged
<1>1. Rename
  BY DEF Next, Process, Start, ReadHosts, CreateTemp, WriteTemp, ChmodTemp, SyncTemp,
         CloseTemp, SyncDir, CallFails, Killed, OtherEdits, PowerLoss
<1>2. tmp.text = Merged
  BY DEF HostsInv, TmpByCall
<1> QED
  BY <1>1, <1>2 DEF Rename, Content

(* The rename keeps every unmanaged line of the text that was read, in     *)
(* order; a file that had none gets the localhost line.                    *)
THEOREM KeepsUnmanaged == Spec => RenameKeepsUnmanaged
<1> DEFINE Kept == pc = "rename" /\ pc' = "syncdir" =>
                     IF TrimmedIsEmpty(StripManagedHostsBlock(seen))
                     THEN UnmanagedLines(file'.text) = {1} /\ file'.text[1] = Localhost
                     ELSE SameUnmanaged(seen, file'.text)
<1>1. HostsInv /\ [Next]_vars => [Kept]_vars
  <2> SUFFICES ASSUME HostsInv, Next, pc = "rename", pc' = "syncdir"
               PROVE  IF TrimmedIsEmpty(StripManagedHostsBlock(seen))
                      THEN UnmanagedLines(file'.text) = {1} /\ file'.text[1] = Localhost
                      ELSE SameUnmanaged(seen, file'.text)
    OBVIOUS
  <2>1. file'.text = MergeHosts(seen, config)
    BY RenamesMerged DEF Merged
  <2>2. seen \in Seq(Tokens) /\ OneBegin(seen)
    BY DEF HostsInv, TextsHaveOneBlock
  <2>3. /\ {NL, Begin, End, Localhost} \subseteq Tokens
        /\ config \in Seq(ToSet(config)) /\ Render(config) \in Seq(Tokens)
    BY TokenFacts DEF HostsInv, TypeOK
  <2> QED
    BY <2>1, <2>2, <2>3, MergeKeeps
<1> QED
  BY <1>1, Invariance, PTL DEF Spec, RenameKeepsUnmanaged

(* A restart with the same endpoints rewrites the text it has found: the   *)
(* file does not grow from start to start.                                 *)
THEOREM RestartsDoNotGrowIt == Spec => RestartIsIdempotent
<1> DEFINE Same == pc = "rename" /\ pc' = "syncdir" /\ [text |-> seen, config |-> config] \in last
                     => file'.text = seen
<1>1. HostsInv /\ [Next]_vars => [Same]_vars
  <2> SUFFICES ASSUME HostsInv, Next, pc = "rename", pc' = "syncdir",
                      [text |-> seen, config |-> config] \in last
               PROVE  file'.text = seen
    OBVIOUS
  <2> USE DEF HostsInv
  <2>1. file'.text = Merged
    BY RenamesMerged
  <2>2. PICK text \in whole \cup {<<>>} : seen = MergeHosts(text, config)
    BY DEF TextsHaveOneBlock
  <2>3. text \in Seq(Tokens) /\ OneBegin(text)
    <3>1. <<>> \in Seq(Tokens) /\ OneBegin(<<>>)
      BY DEF OneBegin
    <3> QED
      BY <3>1 DEF TextsHaveOneBlock
  <2>4. /\ {NL, Begin, End, Localhost} \subseteq Tokens
        /\ config \in Seq(ToSet(config)) /\ Render(config) \in Seq(Tokens)
    BY TokenFacts DEF TypeOK
  <2>5. MergeHosts(seen, config) = seen
    BY <2>2, <2>3, <2>4, MergeIsIdempotent
  <2> QED
    BY <2>1, <2>5 DEF Merged
<1> QED
  BY <1>1, Invariance, PTL DEF Spec, RestartIsIdempotent
=============================================================================
