------------------------------ MODULE MCHosts ------------------------------
(* Every well-formed file of up to four tokens and a few longer ones, two  *)
(* configurations, one without endpoints, one line appended by someone     *)
(* else.                                                                   *)
EXTENDS HostsFile

MCTokens == {NL, CR, Blank, Text("a"), Begin, End, Entry(70, "old")}

MCInitialTexts ==
  {s \in BoundedSeq(MCTokens, 4) : WellFormed(s)} \cup
  { <<Localhost, NL, Begin, NL, Entry(64, "h"), NL, End, NL, Text("a"), NL>>,
    <<Text("a"), CR, NL, Begin, CR, NL, Entry(70, "old"), CR, NL, End, CR, NL>>,
    <<Begin, NL, End, Text("a")>>, <<Text("a"), Begin, End, NL, NL>> }

(* A begin marker that is never closed, with a line of someone else's      *)
(* after it.                                                               *)
MCUnclosedTexts == { <<Text("a"), NL, Begin, NL, Entry(64, "h"), NL, Text("b"), NL>> }
MCPlainTexts == { <<Localhost, NL, Text("a"), NL>> }

Ep(ip, host) == [localIP |-> ip, host |-> host]
MCConfigs == { <<>>, <<Ep(1, "g"), Ep(0, "h")>> }
MCEdits == {Text("edit")}
=============================================================================
