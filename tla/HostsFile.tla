----------------------------- MODULE HostsFile -----------------------------
(***************************************************************************)
(* writeHosts and writeFileAtomic (hosts.go) as the enclave process runs   *)
(* them at every start, among what else happens to /etc/hosts: other       *)
(* programs edit it, any call may fail, the process may be killed between  *)
(* two calls and the machine may lose power, which undoes what was not     *)
(* synced.  HostsMerge has the text functions.                             *)
(***************************************************************************)
EXTENDS HostsMerge

CONSTANTS
  InitialTexts,  \* contents of the file before the first start
  Configs,       \* validated endpoint lists a start may get
  Edits,         \* lines that other programs append
  MaxStarts,     \* bound on starts of the process
  MaxLosses      \* bound on power losses

ASSUME HostsFileAssumption ==
  /\ \A t \in InitialTexts : t \in Seq(ToSet(t))
  /\ \A c \in Configs : c \in Seq(ToSet(c))
  /\ IsFiniteSet(Edits)
  /\ MaxStarts \in Nat /\ MaxLosses \in Nat

(* Nobody else writes begin markers: the image's file has at most one, and *)
(* no other program adds one.  Only the first block is ever taken off.     *)
ASSUME OneBlockAssumption ==
  /\ \A t \in InitialTexts : OneBegin(t)
  /\ Begin \notin Edits

VARIABLES
  pc,        \* the next call of writeFileAtomic, or "down", or "ready"
  config,    \* the endpoints of this start
  seen,      \* what os.ReadFile returned
  file,      \* the text and mode at the path
  stable,    \* the contents a power loss may leave at the path
  tmp,       \* the temporary file of this start
  starts,    \* starts so far
  edits,     \* lines other programs have appended, in order
  losses,    \* power losses so far
  last,      \* the text and endpoints of the last rename, if there was one
  whole      \* every text that some writer meant the file to have

vars == <<pc, config, seen, file, stable, tmp, starts, edits, losses, last, whole>>

Content(text, mode) == [text |-> text, mode |-> mode]

(* A file whose data never reached the disk.                               *)
Torn == Content(<<>>, "0600")

NoTmp == [exists |-> FALSE, text |-> <<>>, mode |-> "0600", synced |-> FALSE]

Merged == MergeHosts(seen, config)

Calls == {"read", "create", "write", "chmod", "sync", "close", "rename", "syncdir"}

TypeOK ==
  /\ pc \in Calls \cup {"down", "ready"}
  /\ config \in Configs
  /\ file \in stable
  /\ tmp.mode \in {"0600", "0644"}
  /\ starts \in 0 .. MaxStarts /\ losses \in 0 .. MaxLosses
  /\ edits \in BoundedSeq(Edits, Cardinality(Edits))
  /\ seen \in whole \cup {<<>>}

Init ==
  /\ pc = "down"
  /\ config \in Configs
  /\ seen = <<>>
  /\ file \in {Content(t, "0644") : t \in InitialTexts}
  /\ stable = {file}
  /\ tmp = NoTmp
  /\ starts = 0
  /\ edits = <<>>
  /\ losses = 0
  /\ whole = {file.text}
  /\ last = {}

-----------------------------------------------------------------------------
(* The enclave process.                                                    *)

Start(c) ==
  /\ pc = "down" /\ starts < MaxStarts
  /\ pc' = "read"
  /\ config' = c
  /\ starts' = starts + 1
  /\ UNCHANGED <<seen, file, stable, tmp, edits, losses, whole, last>>

(* os.ReadFile, and mergeHosts on what it returned.  A missing file, which *)
(* is no error, reads as an empty one and is not told from it.             *)
ReadHosts ==
  /\ pc = "read"
  /\ pc' = "create"
  /\ seen' = file.text
  /\ UNCHANGED <<config, file, stable, tmp, starts, edits, losses, whole, last>>

(* os.CreateTemp opens with mode 0600.                                     *)
CreateTemp ==
  /\ pc = "create"
  /\ pc' = "write"
  /\ tmp' = [NoTmp EXCEPT !.exists = TRUE]
  /\ whole' = whole \cup {Merged}
  /\ UNCHANGED <<config, seen, file, stable, starts, edits, losses, last>>

WriteTemp ==
  /\ pc = "write"
  /\ pc' = "chmod"
  /\ tmp' = [tmp EXCEPT !.text = Merged]
  /\ UNCHANGED <<config, seen, file, stable, starts, edits, losses, whole, last>>

(* A seeded fault: the file is made writable by everyone.                  *)
ChmodTooOpen ==
  /\ pc = "chmod"
  /\ pc' = "sync"
  /\ tmp' = [tmp EXCEPT !.mode = "0666"]
  /\ UNCHANGED <<config, seen, file, stable, starts, edits, losses, whole, last>>

ChmodTemp ==
  /\ pc = "chmod"
  /\ pc' = "sync"
  /\ tmp' = [tmp EXCEPT !.mode = "0644"]
  /\ UNCHANGED <<config, seen, file, stable, starts, edits, losses, whole, last>>

(* A seeded fault: the temporary file is not synced.                       *)
SkipSync ==
  /\ pc = "sync"
  /\ pc' = "close"
  /\ UNCHANGED <<config, seen, file, stable, tmp, starts, edits, losses, whole, last>>

SyncTemp ==
  /\ pc = "sync"
  /\ pc' = "close"
  /\ tmp' = [tmp EXCEPT !.synced = TRUE]
  /\ UNCHANGED <<config, seen, file, stable, starts, edits, losses, whole, last>>

CloseTemp ==
  /\ pc = "close"
  /\ pc' = "rename"
  /\ UNCHANGED <<config, seen, file, stable, tmp, starts, edits, losses, whole, last>>

(* The rename is atomic for every reader, but until the directory is       *)
(* synced a power loss may undo it, and data that was not synced may be    *)
(* missing behind the new name.                                            *)
Rename ==
  /\ pc = "rename"
  /\ pc' = "syncdir"
  /\ file' = Content(tmp.text, tmp.mode)
  /\ stable' = stable \cup {file'} \cup (IF tmp.synced THEN {} ELSE {Torn})
  /\ last' = {[text |-> tmp.text, config |-> config]}
  /\ tmp' = NoTmp
  /\ UNCHANGED <<config, seen, starts, edits, losses, whole>>

(* syncDir, whose failure is ignored; then the start goes on to its        *)
(* bridges.                                                                *)
SyncDir ==
  /\ pc = "syncdir"
  /\ pc' = "ready"
  /\ \/ stable' = {file} \cup (stable \cap {Torn})
     \/ UNCHANGED stable
  /\ UNCHANGED <<config, seen, file, tmp, starts, edits, losses, whole, last>>

(* A call fails: the deferred os.Remove takes the temporary file away and  *)
(* enclaveMode ends the process.                                           *)
CallFails ==
  /\ pc \in Calls \ {"syncdir"}
  /\ pc' = "down"
  /\ tmp' = NoTmp
  /\ UNCHANGED <<config, seen, file, stable, starts, edits, losses, whole, last>>

(* The process is killed, or dies later: no deferred call runs, and a      *)
(* temporary file stays behind under a name no later start uses.           *)
Killed ==
  /\ pc # "down"
  /\ pc' = "down"
  /\ UNCHANGED <<config, seen, file, stable, tmp, starts, edits, losses, whole, last>>

Process ==
  \/ ReadHosts \/ CreateTemp \/ WriteTemp \/ ChmodTemp \/ SyncTemp
  \/ CloseTemp \/ Rename \/ SyncDir \/ CallFails

-----------------------------------------------------------------------------
(* Everything else.                                                        *)

(* Another program appends a line and syncs the file and its directory.    *)
OtherEdits(line) ==
  /\ line \notin ToSet(edits)
  /\ edits' = Append(edits, line)
  /\ file' = Content(file.text \o <<line, NL>>, file.mode)
  /\ stable' = {file'}
  /\ whole' = whole \cup {file'.text}
  /\ UNCHANGED <<pc, config, seen, tmp, starts, losses, last>>

PowerLoss ==
  /\ losses < MaxLosses
  /\ losses' = losses + 1
  /\ pc' = "down"
  /\ tmp' = NoTmp
  /\ \E left \in stable : file' = left /\ stable' = {left}
  /\ UNCHANGED <<config, seen, starts, edits, whole, last>>

Next ==
  \/ \E c \in Configs : Start(c)
  \/ Process
  \/ Killed
  \/ \E line \in Edits : OtherEdits(line)
  \/ PowerLoss

Spec == Init /\ [][Next]_vars

-----------------------------------------------------------------------------
(* Properties.                                                             *)

(* At every moment, and after every kill or power loss, the path holds a   *)
(* text that some writer meant it to hold, readable by everyone: never a   *)
(* part of one, never a file only root can read.                           *)
NeverTorn == \A left \in stable : left.text \in whole /\ left.mode = "0644"

(* What makes it inductive: the temporary file is what the calls so far    *)
(* have made of it,                                                        *)
TmpByCall ==
  /\ pc \in {"write", "chmod", "sync", "close", "rename"} => Merged \in whole
  /\ pc \in {"chmod", "sync", "close", "rename"} => tmp.text = Merged
  /\ pc \in {"sync", "close", "rename"} => tmp.mode = "0644"
  /\ pc \in {"close", "rename"} => tmp.synced
  /\ tmp = [exists |-> tmp.exists, text |-> tmp.text, mode |-> tmp.mode, synced |-> tmp.synced]

(* and no text has a second block, so that the text of the last rename is  *)
(* what a merge makes of a text with none.                                 *)
Tokens == {NL, Begin, End, Localhost} \cup Edits
            \cup UNION {ToSet(t) : t \in InitialTexts \cup {Render(c) : c \in Configs}}

TextsHaveOneBlock ==
  /\ \A text \in whole \cup {seen} : text \in Seq(Tokens) /\ OneBegin(text)
  /\ \A done \in last :
       \E text \in whole \cup {<<>>} : done.text = MergeHosts(text, done.config)

(* The block of the last rename is there, and it is closed, so that a line *)
(* which somebody appends is outside of it.                                *)
BlockIsCurrent ==
  pc \in {"syncdir", "ready"} =>
    ManagedAre(file.text, Render(config)) /\ ~ Inside(file.text, Len(file.text))

HostsInv ==
  /\ TypeOK /\ edits \in Seq(Edits) /\ Cardinality(ToSet(edits)) = Len(edits)
  /\ TmpByCall /\ NeverTorn /\ TextsHaveOneBlock /\ BlockIsCurrent

(* Once the process goes on to start its bridges, the endpoint lines in    *)
(* the file are those of its own configuration, each at the address its    *)
(* proxy will bind: nothing is left of an earlier start's block.           *)
ReadyMeansCurrent ==
  pc = "ready" => ManagedAre(file.text, Render(config))

(* The rename keeps every unmanaged line of the text that was read, in     *)
(* order; a file that had none gets the localhost line.                    *)
RenameKeepsUnmanaged ==
  [][pc = "rename" /\ pc' = "syncdir" =>
       IF TrimmedIsEmpty(StripManagedHostsBlock(seen))
       THEN UnmanagedLines(file'.text) = {1} /\ file'.text[1] = Localhost
       ELSE SameUnmanaged(seen, file'.text)]_vars

(* A start that finds the file as an earlier start with the same endpoints *)
(* left it leaves it so: the file does not grow from start to start.       *)
RestartIsIdempotent ==
  [][pc = "rename" /\ pc' = "syncdir" /\ [text |-> seen, config |-> config] \in last
       => file'.text = seen]_vars

(* README: "Existing non-managed `/etc/hosts` content is preserved."       *)
(* Every line that somebody other than this process has put into the file  *)
(* is still there.                                                         *)
NonManagedPreserved ==
  \A text \in whole : \A i \in DOMAIN text :
    text[i][1] = "text" /\ text[i] # Localhost => text[i] \in ToSet(file.text)
=============================================================================
