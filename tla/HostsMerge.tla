----------------------------- MODULE HostsMerge -----------------------------
(***************************************************************************)
(* The text functions of hosts.go.  A hosts file is a sequence of tokens:  *)
(* a line break, another blank, one of the two marker strings, a piece of  *)
(* other text, or one rendered endpoint line.                              *)
(***************************************************************************)
EXTENDS Naturals, Sequences, FiniteSetsExt, SequencesExt

NL == <<"nl">>
CR == <<"cr">>
Blank == <<"blank">>
Begin == <<"# argonaut begin">>
End == <<"# argonaut end">>
Text(t) == <<"text", t>>
Entry(ip, host) == <<"entry", ip, host>>

Localhost == Text("127.0.0.1 localhost")

(* strings.TrimRight: without the longest suffix over the cutset.          *)
TrimRight(s, cutset) ==
  SubSeq(s, 1, Max({0} \cup {i \in DOMAIN s : s[i] \notin cutset}))

TrimmedIsEmpty(s) == \A i \in DOMAIN s : s[i] \in {NL, CR, Blank}

(* strings.Index of a marker from a position on, 0 if there is none.       *)
IndexFrom(s, tok, from) ==
  LET at == {i \in from .. Len(s) : s[i] = tok}
  IN  IF at = {} THEN 0 ELSE Min(at)

(* What follows a block: the line breaks after the end marker go with it.  *)
SkipBreaks(s, from) ==
  LET rest == {i \in from .. Len(s) : s[i] \notin {NL, CR}}
  IN  IF rest = {} THEN <<>> ELSE SubSeq(s, Min(rest), Len(s))

(* A seeded fault: the old block stays where it is.                        *)
KeepOldBlock(s) == s

(* Only the first block goes; one that is never closed reaches to the end. *)
StripManagedHostsBlock(s) ==
  LET begin == IndexFrom(s, Begin, 1)
      end   == IndexFrom(s, End, begin)
  IN  IF begin = 0 THEN s
      ELSE IF end = 0 THEN TrimRight(SubSeq(s, 1, begin - 1), {NL}) \o <<NL>>
      ELSE SubSeq(s, 1, begin - 1) \o SkipBreaks(s, end + 1)

(* 127.0.0.(64 + index): the index counts from 0.                          *)
EndpointLocalIP(ep, index) == IF ep.localIP # 0 THEN ep.localIP ELSE 64 + index

(* A seeded fault: the block counts its endpoints from 1.                  *)
RenderFromOne(endpoints) ==
  [k \in 1 .. 2 * Len(endpoints) |->
     LET i == (k + 1) \div 2
     IN  IF k % 2 = 1 THEN Entry(EndpointLocalIP(endpoints[i], i), endpoints[i].host) ELSE NL]

(* The endpoint lines, each with its line break.                           *)
Render(endpoints) ==
  [k \in 1 .. 2 * Len(endpoints) |->
     LET i == (k + 1) \div 2
     IN  IF k % 2 = 1 THEN Entry(EndpointLocalIP(endpoints[i], i - 1), endpoints[i].host) ELSE NL]

(* A seeded fault: the line breaks before the block pile up.               *)
UntrimmedBase(existing) ==
  LET base == StripManagedHostsBlock(existing)
  IN  IF TrimmedIsEmpty(base) THEN <<Localhost>> ELSE base

(* A seeded fault: the file is rendered anew, as by renderHosts.           *)
BaseIgnoresExisting(existing) == <<Localhost>>

Base(existing) ==
  LET base == TrimRight(StripManagedHostsBlock(existing), {NL})
  IN  IF TrimmedIsEmpty(base) THEN <<Localhost>> ELSE base

MergeHosts(existing, endpoints) ==
  Base(existing) \o <<NL, NL, Begin, NL>> \o Render(endpoints) \o <<End, NL>>

-----------------------------------------------------------------------------
(* The reader's view of a file, independent of the functions above.        *)

(* Position i is inside a block: a begin marker before it is not closed.   *)
Inside(s, i) ==
  \E b \in 1 .. i : s[b] = Begin /\ \A e \in b .. i : s[e] # End

IsLine(tok) == tok[1] \in {"text", "entry"}

(* Where the lines outside of every block are, and those inside one.       *)
UnmanagedLines(s) == {i \in DOMAIN s : IsLine(s[i]) /\ ~ Inside(s, i)}
ManagedLines(s) == {i \in DOMAIN s : IsLine(s[i]) /\ Inside(s, i)}

(* The managed lines are those of the given block, in its order.           *)
ManagedAre(s, lines) ==
  LET at == {k \in DOMAIN lines : IsLine(lines[k])}
  IN  \E d \in 0 .. Len(s) :
        ManagedLines(s) = {d + k : k \in at} /\ \A k \in at : s[d + k] = lines[k]

(* Where position i comes to be when d tokens behind k are cut out.        *)
Moved(i, k, d) == IF i <= k THEN i ELSE i - d

(* With one piece cut out of s, its unmanaged lines are those of t, in the *)
(* same order.                                                             *)
SameUnmanaged(s, t) ==
  \E k, d \in 0 .. Len(s) :
    /\ UnmanagedLines(t) = {Moved(i, k, d) : i \in UnmanagedLines(s)}
    /\ \A i \in UnmanagedLines(s) : t[Moved(i, k, d)] = s[i]
    /\ \A i, j \in UnmanagedLines(s) : i < j => Moved(i, k, d) < Moved(j, k, d)

(* Only one block, or none.                                                *)
OneBegin(s) == \A i, j \in DOMAIN s : s[i] = Begin /\ s[j] = Begin => i = j

(* No marker, or one begin and after it one end.                           *)
WellFormed(s) ==
  \/ \A i \in DOMAIN s : s[i] \notin {Begin, End}
  \/ \E b, e \in DOMAIN s :
       b < e /\ \A i \in DOMAIN s : (s[i] = Begin <=> i = b) /\ (s[i] = End <=> i = e)
=============================================================================
