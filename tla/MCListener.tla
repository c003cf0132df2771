----------------------------- MODULE MCListener -----------------------------
(* Four connections, one of them from a foreign context id, two slots.     *)
EXTENDS Listener, TLC

CONSTANTS c1, c2, c3, c4

MCConns == {c1, c2, c3, c4}
MCPeerCID == (c1 :> 3) @@ (c2 :> 3) @@ (c3 :> 3) @@ (c4 :> 5)
=============================================================================
