------------------------------- MODULE MCBoot -------------------------------
(* Two starts of `argonaut host` and one `config send`.  File B has another*)
(* endpoint than A behind the same HTTP port; "otherPort" sends inbound    *)
(* traffic to a port that is not the supervisor's, "captured" has its      *)
(* endpoint at the supervisor's address, "hostOnly" has no httpTcpPort and *)
(* "junk" is no configuration.                                             *)
EXTENDS Boot, TLC

CONSTANTS h1, h2, u

MCEnclaveOK == {"A", "B", "otherPort", "captured"}
MCHostOK == MCEnclaveOK \cup {"hostOnly"}
MCHttpPort == [f \in MCHostOK |-> 80]
MCHttpVsock == [f \in MCHostOK |-> 3000]
MCHttpTcp ==
  [f \in MCEnclaveOK |-> IF f = "otherPort" THEN "127.0.0.1:8080" ELSE "127.0.0.1:3000"]
MCEndpoints ==
  [f \in MCHostOK |->
    {[vsock |-> IF f = "B" THEN 2 ELSE 1,
      local |-> IF f = "captured" THEN "127.0.0.1:3000" ELSE "127.0.0.64:443"]}]

MCPayloads ==
  { (h1 :> "A") @@ (h2 :> f) @@ (u :> "junk") : f \in MCHostOK \ {"A"} }
=============================================================================
