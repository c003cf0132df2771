----------------------------- MODULE MCNsmProxy -----------------------------
(* Up to three pipelined lines: each way a line can be refused, each field *)
(* at, above and below its limit, and three legal fields too large         *)
(* together, in both protocols.                                            *)
EXTENDS NsmProxy

MCRequests ==
  { Other("invalidJSON"), Other("longJSON"), Other("longLegacy"), Other("blank"),
    JSON("1", "RND", <<Absent, Absent, Absent>>),
    JSON("1", "RND", <<Absent, Hex(4), Absent>>),
    JSON("", "RND", <<Absent, Absent, Absent>>),
    JSON("1", "ATT", <<Hex(2048), Hex(1900), Hex(99)>>),
    JSON("1", "ATT", <<Hex(2048), Hex(1900), Hex(100)>>),
    JSON("1", "ATT", <<Hex(32), Absent, Hex(2049)>>),
    Legacy("2", "RND", <<>>),
    Legacy("2", "RND", <<Hex(4)>>),
    Legacy("2", "ATT", <<>>),
    Legacy("2", "ATT", <<Hex(32), Hex(4)>>),
    Legacy("2", "ATT", <<Hex(2049)>>),
    Legacy("2", "ATT", <<Hex(32), Dash, Hex(1)>>),
    Legacy("2", "ATT", <<Hex(32), Hex(2049), Dash>>),
    Legacy("2", "ATT", <<Hex(32), BadHex, Dash>>),
    Legacy("2", "ATT", <<Dash, Dash, Dash>>),
    Legacy("2", "GET", <<>>),
    Legacy("2", "", <<>>),
    Legacy("bad id", "RND", <<>>) }

(* Each variant, and a key the proxy does not know, with each payload; no  *)
(* key; and two keys, of which one alone would do.                         *)
Payloads == {"wrong type", "no field", "not bytes", "empty", "bytes"}

MCResponses ==
  {Failed("errno"), Failed("too large"), Failed("no map"), Entries(<<>>)}
    \cup {Entries([k \in {key} |-> p]) :
            key \in {"Attestation", "GetRandom", "Error", "unknown"}, p \in Payloads}
    \cup {Entries([k \in {"Attestation", "GetRandom"} |-> "bytes"])}
=============================================================================
