------------------------------ MODULE MCConfig ------------------------------
(* Up to three endpoints, the most that MaxEndpoints allows here, out of a *)
(* dozen that each differ in a field or two from the first; one list too   *)
(* long; and one file for each way the rest of it can be wrong.            *)
EXTENDS ConfigFile

MCHosts == {"h", "H", "g", "f", "e", ""}
MCGoodHosts == MCHosts \ {""}
MCLower == [h \in MCHosts |-> IF h = "H" THEN "h" ELSE h]

MCField == [k \in Schema \cup {"HTTPPORT", "Endpoints", "app"} |->
  CASE k = "HTTPPORT" -> "httpPort" [] k = "Endpoints" -> "endpoints"
    [] k = "app" -> "" [] OTHER -> k]

Ep == [host |-> V("h"), vsockPort |-> V(1)]
G(p) == [host |-> V("g"), vsockPort |-> V(p)]
With(key, v) == [k \in {key} |-> v]

MCEndpoints ==
  { Ep,
    [Ep EXCEPT !.host = V("H"), !.vsockPort = V(2)],
    G(2),
    G(1),
    [Ep EXCEPT !.host = V("")],
    [Ep EXCEPT !.vsockPort = V(0)],
    [Ep EXCEPT !.vsockPort = V(65536)],
    Ep @@ With("tcpPort", V(0)),
    Ep @@ With("localPort", V(0)),
    G(3) @@ With("localIP", V(64)),
    G(3) @@ With("localPort", V(2)) @@ With("localIP", V(64)),
    G(3) @@ With("localPort", V(8080)) @@ With("localIP", V(1)),
    Ep @@ With("localIP", V(0)),
    Ep @@ With("localIP", V(256)) }

(* Elements that occur in lists of their own only.                         *)
OddElements ==
  { Null, Wrong, V(Ep @@ With("tcpport", V(444))),
    V([Ep EXCEPT !.host = Null]), V(With("host", V("h"))),
    V(Ep @@ With("tcpPort", Null)), V(Ep @@ With("localPort", Null)),
    V(Ep @@ With("localIP", Null)), V(Ep @@ With("localPort", Wrong)),
    V(Ep @@ With("tcpPort", V(65536))), V([Ep EXCEPT !.vsockPort = V(MaxUint32 + 1)]) }

M(k, v) == [key |-> k, value |-> v]
Doc(members) == [text |-> "object", members |-> members]
Eps(list) == M("endpoints", V([k \in DOMAIN list |-> V(list[k])]))

Head3 == <<M("httpPort", V(80)), M("httpVsockPort", V(3000)), M("httpTcpPort", V(8080))>>
Good == Head3 \o <<Eps(<<Ep>>)>>
But(k, v) == Doc([j \in DOMAIN Good |-> IF Good[j].key = k THEN M(k, v) ELSE Good[j]])

PlainFiles == {Doc(Append(Head3, Eps(eps))) : eps \in BoundedSeq(MCEndpoints, 3)}

OddFiles ==
  {Doc(Append(Head3, M("endpoints", V(<<v>>)))) : v \in OddElements} \cup
  {Doc(Append(Good, M("schemaVersion", v))) : v \in {V("v0.1"), V("v0.2"), V(""), Null, Wrong}} \cup
  {But(k, v) : k \in {"httpPort", "httpVsockPort", "httpTcpPort"},
               v \in {V(0), V(65536), Null, Wrong}} \cup
  { But("endpoints", Null), But("endpoints", Wrong), Doc(Head3), Doc(<<>>),
    [Doc(Good) EXCEPT !.text = "trailing"], [Doc(Good) EXCEPT !.text = "cut"],
    [Doc(Good) EXCEPT !.text = "over 1 MiB"],
    Doc(<<M("httpVsockPort", V(MaxUint32 + 1))>> \o Good),
    Doc(Append(Good, M("app", Wrong))),
    Doc(Append(Good, M("HTTPPORT", V(81)))), Doc(Append(Good, M("HTTPPORT", Wrong))),
    Doc(Append(Head3, M("Endpoints", V(<<V(Ep)>>)))),
    Doc(Append(Good, Eps(<<[Ep EXCEPT !.host = V("g")], G(2)>>))),
    Doc(<<Eps(<<Ep @@ With("localPort", V(444)), G(2) @@ With("tcpPort", V(8))>>)>>
        \o Head3 \o <<Eps(<<Ep>>), Eps(<<Ep, G(3)>>)>>),
    Doc(Append(Head3, Eps([k \in 1 .. 4 |->
      [host |-> V(<<"h", "g", "f", "e">>[k]), vsockPort |-> V(k)]]))) }

MCFiles == PlainFiles \cup OddFiles

MCRawConfigs == {UnmarshalConfig(f.members) : f \in {g \in MCFiles : Parses(g)}}
=============================================================================
