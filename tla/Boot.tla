-------------------------------- MODULE Boot --------------------------------
(***************************************************************************)
(* From a host file to running bridges: processes `argonaut host` and      *)
(* `argonaut config send` on the parent, and in the enclave a supervisor   *)
(* (the smoke test's runner or the benchmark's server) that takes one      *)
(* configuration with `argonaut config recv` and starts `argonaut enclave` *)
(* with it.  The VSOCK connection carries bytes without frame or answer.   *)
(* What happens on a bound listener is Listener's.                         *)
(***************************************************************************)
EXTENDS Naturals, Sequences, FiniteSets

CONSTANTS
  Hosts,       \* processes `argonaut host <cid> <file>`, one per start
  Utils,       \* processes `argonaut config send <cid> 7777`
  Payloads,    \* who sends what: a set of functions from senders to files
  HostOK,      \* the files that ParseConfig and ValidateConfig accept on the host,
  EnclaveOK,   \*   those they accept in the enclave,
  OneEndpoint, \*   and those that parseSmokeEndpoint accepts
  HttpPort,    \* HttpPort[f], HttpVsock[f]: httpPort and httpVsockPort of file f,
  HttpVsock,
  HttpTcp,     \* HttpTcp[f]: 127.0.0.1:<httpTcpPort>, where inbound traffic goes
  Endpoints,   \* Endpoints[f]: its endpoints, [vsock |-> port, local |-> address]
  Cut,         \* what is read if a sender dies before the last byte
  Image,       \* /etc/hosts of the enclave image; also: nothing received
  MaxStarts,   \* bound on the senders that are started
  MaxBoots,    \* bound on the starts of the enclave
  MaxFaults    \* bound on kills, failing calls and early deadlines

Senders == Hosts \cup Utils

(* A proper prefix of a JSON object is no JSON object: nobody accepts it.  *)
ASSUME BootAssumption ==
  /\ Hosts \cap Utils = {}
  /\ Cut \notin HostOK \cup EnclaveOK \cup OneEndpoint
  /\ Image \notin EnclaveOK
  /\ MaxStarts \in Nat /\ MaxBoots \in Nat \ {0} /\ MaxFaults \in Nat

VARIABLES
  payload,     \* payload[s]: the file, or the stdin, of sender s
  hpc,         \* hpc[s]: where sender s stands
  hbound,      \* hbound[s]: the addresses of the parent that s listens on
  wire,        \* wire[s]: the connection of s to VSOCK:7777
  queue,       \* connections that wait for the receiver's Accept
  program,     \* the supervisor: "smoke" or "bench"
  boot,        \* which start of the enclave this is
  rpc,         \* where the supervisor stands, its receiver included
  from,        \* the sender whose connection was accepted
  data,        \* the bytes received
  verdict,     \* what run() returned
  hit,         \* an inbound request has reached the HTTP server
  epc,         \* where `argonaut enclave` stands
  lo,          \* the loopback interface is up
  etcHosts,    \* whose managed block /etc/hosts has
  ebound,      \* the addresses `argonaut enclave` listens on
  faults       \* faults so far

hostVars == <<payload, hpc, hbound>>
netVars == <<wire, queue>>
runVars == <<program, boot, rpc, from, data, verdict, hit>>
enclaveVars == <<epc, lo, etcHosts, ebound>>
vars == <<hostVars, netVars, runVars, enclaveVars, faults>>

NoConn == [at |-> "none", bytes |-> "part", ended |-> "no"]

(* httpListenAddr: the supervisor's HTTP server has this address whatever  *)
(* the file says, from before `argonaut enclave` starts until after it is  *)
(* killed (the order of run's deferred calls).                             *)
ServerAddr == "127.0.0.1:3000"

LocalAddrs(f) == {ep.local : ep \in Endpoints[f]}

(* hostMode: the inbound bridge's TCP port and a VSOCK port per endpoint.  *)
HostListeners(f) ==
  {<<"tcp", HttpPort[f]>>} \cup {<<"vsock", ep.vsock>> : ep \in Endpoints[f]}

(* A seeded fault: the inbound bridge is not started.                      *)
OutboundListenersOnly(f) == {<<"tcp", a>> : a \in LocalAddrs(f)}

(* enclaveMode: the inbound VSOCK port and one proxy per endpoint.  The    *)
(* local addresses of proxies differ (Config's NoCollision).               *)
EnclaveListeners(f) == {<<"vsock", HttpVsock[f]>>} \cup {<<"tcp", a>> : a \in LocalAddrs(f)}

HostUp(h) == hpc[h] = "bind" /\ hbound[h] = HostListeners(payload[h])
EnclaveUp == epc = "bind" /\ ebound = EnclaveListeners(data)

Init ==
  /\ payload \in Payloads
  /\ hpc = [s \in Senders |-> "idle"]
  /\ hbound = [s \in Senders |-> {}]
  /\ wire = [s \in Senders |-> NoConn]
  /\ queue = <<>>
  /\ program \in {"smoke", "bench"}
  /\ boot = 1 /\ rpc = "launch" /\ from = Image /\ data = Image
  /\ verdict = "" /\ hit = FALSE
  /\ epc = "off" /\ lo = FALSE /\ etcHosts = Image /\ ebound = {}
  /\ faults = 0

Fault == faults < MaxFaults /\ faults' = faults + 1

-----------------------------------------------------------------------------
(* The senders on the parent.                                              *)

(* Arguments, the file or stdin, and for a host the validation.            *)
Start(s) ==
  /\ hpc[s] = "idle" /\ Cardinality({t \in Senders : hpc[t] # "idle"}) < MaxStarts
  /\ hpc' = [hpc EXCEPT ![s] =
       IF s \in Utils \/ payload[s] \in HostOK THEN "dial" ELSE "dead"]
  /\ UNCHANGED <<payload, hbound, netVars, runVars, enclaveVars, faults>>

(* sendConfigVSOCK.  Nobody listens: log.Fatalf, without a second try.     *)
Dial(s) ==
  /\ hpc[s] = "dial"
  /\ IF rpc = "listen"
     THEN /\ hpc' = [hpc EXCEPT ![s] = "write"]
          /\ wire' = [wire EXCEPT ![s].at = "queue"]
          /\ queue' = Append(queue, s)
     ELSE /\ hpc' = [hpc EXCEPT ![s] = "dead"]
          /\ UNCHANGED netVars
  /\ UNCHANGED <<payload, hbound, runVars, enclaveVars, faults>>

(* The last write of writeAll; before it none, some or all but one of the  *)
(* bytes are on their way.  It may succeed though the receiver has reset   *)
(* the connection, or never accepts it.                                    *)
Write(s) ==
  /\ hpc[s] = "write"
  /\ wire' = [wire EXCEPT ![s].bytes = "whole"]
  /\ hpc' = [hpc EXCEPT ![s] = "close"]
  /\ UNCHANGED <<payload, hbound, queue, runVars, enclaveVars, faults>>

WriteFails(s) ==
  /\ hpc[s] = "write" /\ wire[s].at = "gone"
  /\ hpc' = [hpc EXCEPT ![s] = "dead"]
  /\ UNCHANGED <<payload, hbound, netVars, runVars, enclaveVars, faults>>

(* conn.Close, with no answer awaited.  The utility ends, the host goes on *)
(* to its bridges.                                                         *)
CloseConn(s) ==
  /\ hpc[s] = "close"
  /\ wire' = [wire EXCEPT ![s].ended = "eof"]
  /\ hpc' = [hpc EXCEPT ![s] = IF s \in Hosts THEN "bind" ELSE "dead"]
  /\ UNCHANGED <<payload, hbound, queue, runVars, enclaveVars, faults>>

Taken(l) == \E s \in Senders : l \in hbound[s]

(* One goroutine per listener l, once hpc[h] is "bind".                    *)
Bind(h, l) ==
  /\ ~ Taken(l)
  /\ hbound' = [hbound EXCEPT ![h] = @ \cup {l}]
  /\ UNCHANGED <<payload, hpc, netVars, runVars, enclaveVars, faults>>

Dies(s) ==
  /\ hpc' = [hpc EXCEPT ![s] = "dead"]
  /\ hbound' = [hbound EXCEPT ![s] = {}]
  /\ UNCHANGED payload

(* A seeded fault: a bridge that cannot listen returns to its WaitGroup.   *)
BindFailureReturns(h, l) ==
  /\ Taken(l) /\ l \notin hbound[h]
  /\ UNCHANGED vars

(* The address is another process's: log.Fatalf ends all bridges.          *)
BindFails(h, l) ==
  /\ Taken(l) /\ l \notin hbound[h]
  /\ Dies(h)
  /\ UNCHANGED <<netVars, runVars, enclaveVars, faults>>

(* The kernel closes the connection of a killed sender, in order or not.   *)
Kill(s) ==
  /\ Fault
  /\ hpc[s] \notin {"idle", "dead"}
  /\ Dies(s)
  /\ IF hpc[s] \in {"write", "close"}
     THEN \E how \in {"eof", "reset"} : wire' = [wire EXCEPT ![s].ended = how]
     ELSE UNCHANGED wire
  /\ UNCHANGED <<queue, runVars, enclaveVars>>

Sender(s) ==
  \/ Dial(s) \/ Write(s) \/ WriteFails(s) \/ CloseConn(s)
  \/ hpc[s] = "bind" /\ \E l \in HostListeners(payload[s]) : Bind(s, l) \/ BindFails(s, l)

-----------------------------------------------------------------------------
(* The supervisor in the enclave and its `argonaut config recv`.           *)

Queued == {queue[k] : k \in DOMAIN queue}

HangUp(S) ==
  wire' = [s \in Senders |-> IF s \in S THEN [wire[s] EXCEPT !.at = "gone"] ELSE wire[s]]

GoOn(pc) == rpc' = pc /\ UNCHANGED verdict

(* run() returns: its deferred stopProcess kills `argonaut enclave`.       *)
Return(end, why) ==
  /\ rpc' = end /\ verdict' = why
  /\ epc' = IF epc = "off" THEN "off" ELSE "dead"
  /\ ebound' = {}
  /\ UNCHANGED <<program, boot, from, data, hit, lo, etcHosts>>

(* The supervisor waits for something that can still happen: to give up on *)
(* it counts as a fault (a deadline too early), else it is only a matter   *)
(* of time.                                                                *)
GiveUp(canHappen, why) ==
  /\ Return("failed", why)
  /\ IF canHappen THEN Fault ELSE UNCHANGED faults
  /\ UNCHANGED hostVars

(* The receiver listens some time after the supervisor says it waits.      *)
Listen ==
  /\ rpc = "launch"
  /\ GoOn("listen")
  /\ UNCHANGED <<hostVars, netVars, program, boot, from, data, hit, enclaveVars, faults>>

(* A seeded fault: the listening socket stays open.                        *)
AcceptKeepsListening ==
  /\ rpc = "listen" /\ queue # <<>>
  /\ from' = Head(queue)
  /\ wire' = [wire EXCEPT ![Head(queue)].at = "read"]
  /\ queue' = Tail(queue)
  /\ GoOn("read")
  /\ UNCHANGED <<hostVars, program, boot, data, hit, enclaveVars, faults>>

(* One Accept; ln.Close resets every other connection.                     *)
AcceptOne ==
  /\ rpc = "listen" /\ queue # <<>>
  /\ from' = Head(queue)
  /\ wire' = [s \in Senders |->
       IF s = Head(queue) THEN [wire[s] EXCEPT !.at = "read"]
       ELSE IF s \in Queued THEN [wire[s] EXCEPT !.at = "gone"] ELSE wire[s]]
  /\ queue' = <<>>
  /\ GoOn("read")
  /\ UNCHANGED <<hostVars, program, boot, data, hit, enclaveVars, faults>>

(* readAllLimited reads to the end of file, and stdout is the supervisor's *)
(* buffer.  The smoke test parses what it got and tries the NSM first.     *)
ReadToEnd ==
  /\ rpc = "read" /\ wire[from].ended = "eof"
  /\ data' = IF wire[from].bytes = "whole" THEN payload[from] ELSE Cut
  /\ GoOn(IF program = "smoke" THEN "parse" ELSE "start")
  /\ UNCHANGED <<hostVars, netVars, program, boot, from, hit, enclaveVars, faults>>

ReadFails ==
  /\ rpc = "read" /\ wire[from].ended = "reset"
  /\ Return("failed", "config recv")
  /\ UNCHANGED <<hostVars, netVars, faults>>

(* A seeded fault: the 90 s hold from the Accept on.                       *)
TimeoutOfReadOnly ==
  /\ rpc = "read"
  /\ GiveUp(TRUE, "config recv")
  /\ HangUp({from})
  /\ queue' = <<>>

(* 90 s for the receiver, from its start to its end.                       *)
ReceiveTimesOut ==
  /\ rpc \in {"launch", "listen", "read"}
  /\ GiveUp(\/ rpc # "listen" \/ queue # <<>>
            \/ \E s \in Senders : hpc[s] = "dial", "config recv")
  /\ HangUp(Queued \cup {from})
  /\ queue' = <<>>

ParseSmokeEndpoint ==
  /\ rpc = "parse"
  /\ IF data \in OneEndpoint
     THEN /\ GoOn("nsm")
          /\ UNCHANGED <<program, boot, from, data, hit, enclaveVars>>
     ELSE Return("failed", "endpoint")
  /\ UNCHANGED <<hostVars, netVars, faults>>

(* RND, then ATT, to a proxy of its own: NsmProxy.                         *)
TestNSM ==
  /\ rpc = "nsm"
  /\ \/ /\ GoOn("start")
        /\ UNCHANGED <<program, boot, from, data, hit, enclaveVars, faults>>
     \/ Fault /\ Return("failed", "nsm")
  /\ UNCHANGED <<hostVars, netVars>>

(* The HTTP server listens, then `argonaut enclave` gets the bytes.        *)
StartEnclave ==
  /\ rpc = "start"
  /\ \/ /\ GoOn(IF program = "smoke" THEN "hosts" ELSE "wait")
        /\ epc' = "validate"
        /\ UNCHANGED <<program, boot, from, data, hit, lo, etcHosts, ebound, faults>>
     \/ Fault /\ Return("failed", "start")
  /\ UNCHANGED <<hostVars, netVars>>

VerifyHostsBlock ==
  /\ rpc = "hosts" /\ epc # "dead" /\ etcHosts = data
  /\ GoOn("outbound")
  /\ UNCHANGED <<hostVars, netVars, program, boot, from, data, hit, enclaveVars, faults>>

(* The dial of the proxy is tried again until it listens.  What comes      *)
(* after it is not: if no host process listens on the VSOCK port, bridge   *)
(* and test end here, and so they do if the target on the far side does    *)
(* not answer as host-echo does (a fault), or if the address is the HTTP   *)
(* server's, which answers the ping with an error.                         *)
OutboundFails == Return("failed", "outbound")

TestOutbound ==
  /\ rpc = "outbound"
  /\ \E ep \in Endpoints[data] :
       \/ /\ ep.local = ServerAddr
          /\ OutboundFails /\ UNCHANGED faults
       \/ /\ <<"tcp", ep.local>> \in ebound /\ Taken(<<"vsock", ep.vsock>>)
          /\ \/ /\ GoOn("inbound")
                /\ UNCHANGED <<program, boot, from, data, hit, enclaveVars, faults>>
             \/ Fault /\ OutboundFails
       \/ /\ <<"tcp", ep.local>> \in ebound /\ ~ Taken(<<"vsock", ep.vsock>>)
          /\ OutboundFails /\ UNCHANGED faults
  /\ UNCHANGED <<hostVars, netVars>>

(* A client of the parent gets through to /health: over a host process, to *)
(* the inbound bridge, and from it to 127.0.0.1:<httpTcpPort>, where the   *)
(* HTTP server must be the one that listens.                               *)
CanReachHealth ==
  /\ rpc = "inbound"
  /\ \E h \in Hosts :
       /\ hpc[h] = "bind" /\ <<"tcp", HttpPort[payload[h]]>> \in hbound[h]
       /\ <<"vsock", HttpVsock[payload[h]]>> \in ebound
  /\ HttpTcp[data] = ServerAddr

GetHealth ==
  /\ CanReachHealth /\ ~ hit
  /\ hit' = TRUE
  /\ UNCHANGED <<hostVars, netVars, program, boot, rpc, from, data, verdict, enclaveVars, faults>>

InboundHit ==
  /\ rpc = "inbound" /\ hit
  /\ Return("ok", "")
  /\ UNCHANGED <<hostVars, netVars, faults>>

(* 10 s for the hosts block, 60 s for each direction.                      *)
WaitTimesOut ==
  /\ rpc \in {"hosts", "outbound", "inbound"}
  /\ GiveUp(\/ rpc # "inbound" \/ hit \/ CanReachHealth \/ ~ EnclaveUp
            \/ \E h \in Hosts : hpc[h] \in {"dial", "write", "close", "bind"} /\ ~ HostUp(h),
            "timeout")
  /\ UNCHANGED netVars

EnclaveExited ==
  /\ rpc \in {"hosts", "outbound", "inbound", "wait"} /\ epc = "dead"
  /\ Return("failed", "exited")
  /\ UNCHANGED <<hostVars, netVars, faults>>

Supervisor ==
  \/ Listen \/ AcceptOne \/ ReadToEnd \/ ReadFails \/ ReceiveTimesOut
  \/ ParseSmokeEndpoint \/ TestNSM \/ StartEnclave
  \/ VerifyHostsBlock \/ TestOutbound \/ InboundHit \/ WaitTimesOut \/ EnclaveExited

(* The supervisor is the enclave's first process: with it the enclave ends *)
(* and only a new start, from the image, brings another one.               *)
Reboot ==
  /\ rpc \in {"ok", "failed"} /\ boot < MaxBoots
  /\ boot' = boot + 1 /\ rpc' = "launch" /\ from' = Image /\ data' = Image
  /\ verdict' = "" /\ hit' = FALSE
  /\ epc' = "off" /\ lo' = FALSE /\ etcHosts' = Image /\ ebound' = {}
  /\ HangUp({s \in Senders : wire[s].at # "none"})
  /\ UNCHANGED <<hostVars, queue, program, faults>>

-----------------------------------------------------------------------------
(* enclaveMode.                                                            *)

EnclaveStep == UNCHANGED <<hostVars, netVars, runVars>>

EnclaveDies == epc' = "dead" /\ ebound' = {} /\ UNCHANGED <<lo, etcHosts>>

(* A seeded fault: what cannot be accepted is logged only.                 *)
ValidateLogsOnly ==
  /\ epc = "validate"
  /\ epc' = "loopback"
  /\ EnclaveStep /\ UNCHANGED <<lo, etcHosts, ebound, faults>>

Validate ==
  /\ epc = "validate"
  /\ epc' = IF data \in EnclaveOK THEN "loopback" ELSE "dead"
  /\ EnclaveStep /\ UNCHANGED <<lo, etcHosts, ebound, faults>>

(* Reads the flags of lo and sets IFF_UP if it is missing.                 *)
EnsureLoopbackUp ==
  /\ epc = "loopback"
  /\ epc' = "hosts" /\ lo' = TRUE
  /\ EnclaveStep /\ UNCHANGED <<etcHosts, ebound, faults>>

(* HostsFile has the steps of writeHosts.                                  *)
WriteHosts ==
  /\ epc = "hosts"
  /\ epc' = "bind" /\ etcHosts' = data
  /\ EnclaveStep /\ UNCHANGED <<lo, ebound, faults>>

(* One goroutine per listener l, once epc is "bind".                       *)
EnclaveBind(l) ==
  /\ l \notin ebound /\ l # <<"tcp", ServerAddr>>
  /\ ebound' = ebound \cup {l}
  /\ EnclaveStep /\ UNCHANGED <<epc, lo, etcHosts, faults>>

(* The proxy's address is the HTTP server's: log.Fatalf ends all bridges.  *)
EnclaveBindFails(l) ==
  /\ l = <<"tcp", ServerAddr>>
  /\ EnclaveDies
  /\ EnclaveStep /\ UNCHANGED faults

(* A failing call, a bind that fails for another reason, or a kill.        *)
EnclaveFails ==
  /\ Fault
  /\ epc \notin {"off", "dead"}
  /\ EnclaveDies /\ EnclaveStep

Enclave ==
  \/ Validate \/ EnsureLoopbackUp \/ WriteHosts
  \/ epc = "bind" /\ \E l \in EnclaveListeners(data) : EnclaveBind(l) \/ EnclaveBindFails(l)

Next ==
  \/ \E s \in Senders : Start(s) \/ Kill(s) \/ Sender(s)
  \/ Supervisor \/ Reboot \/ GetHealth
  \/ Enclave \/ EnclaveFails

(* Started processes run, clients of the parent ask again (the script does *)
(* so for 30 s) and deadlines expire.  Nobody need start a sender or the   *)
(* enclave anew.                                                           *)
Spec ==
  /\ Init /\ [][Next]_vars
  /\ \A s \in Senders : WF_vars(Sender(s))
  /\ WF_vars(Supervisor) /\ WF_vars(Enclave) /\ WF_vars(GetHealth)

-----------------------------------------------------------------------------
(* Properties.                                                             *)

TypeOK ==
  /\ payload \in Payloads
  /\ hpc \in [Senders -> {"idle", "dial", "write", "close", "bind", "dead"}]
  /\ \A s, t \in Senders : s # t => hbound[s] \cap hbound[t] = {}
  /\ \A s \in Senders : hbound[s] # {} => hpc[s] = "bind"
  /\ wire \in [Senders -> [at: {"none", "queue", "read", "gone"},
                           bytes: {"part", "whole"}, ended: {"no", "eof", "reset"}]]
  /\ \A s \in Senders : wire[s].at = "queue" <=> s \in Queued
  /\ queue # <<>> => rpc = "listen"
  /\ rpc \in {"launch", "listen", "read", "parse", "nsm", "start", "hosts",
              "outbound", "inbound", "wait", "ok", "failed"}
  /\ epc \in {"off", "validate", "loopback", "hosts", "bind", "dead"}
  /\ boot \in 1 .. MaxBoots /\ faults \in 0 .. MaxFaults

(* README: configuration from the host is untrusted input "before it can   *)
(* affect /etc/hosts or listeners".  Whatever senders are killed, queued   *)
(* or cut off, and in which start: the hosts block and every listener of   *)
(* an enclave come from one whole file of the sender that was accepted,    *)
(* one that the enclave's own validation accepts; and names resolve before *)
(* the first listener takes a connection.                                  *)
OnlyWholeFiles ==
  /\ etcHosts # Image =>
       etcHosts = data /\ data \in EnclaveOK
       /\ from \in Senders /\ data = payload[from] /\ wire[from].bytes = "whole"
  /\ ebound # {} => lo /\ etcHosts = data /\ ebound \subseteq EnclaveListeners(data)

(* What makes it inductive.  Until the supervisor starts it, no trace of   *)
(* `argonaut enclave` is in the enclave, and until its receiver has read to*)
(* the end there is no data;                                               *)
NothingBeforeData ==
  /\ rpc \in {"launch", "listen", "read"} => data = Image
  /\ rpc = "read" => from \in Senders
  /\ rpc \in {"launch", "listen", "read", "parse", "nsm", "start"} =>
       epc = "off" /\ etcHosts = Image

(* data is what the accepted sender has sent to its last byte, or of no    *)
(* use;                                                                    *)
DataIsWhole ==
  data \notin {Image, Cut} =>
    from \in Senders /\ data = payload[from] /\ wire[from].bytes = "whole"

(* and how far `argonaut enclave` has come tells what it has done.         *)
EnclaveInOrder ==
  /\ epc \in {"loopback", "hosts", "bind"} => data \in EnclaveOK
  /\ epc \in {"hosts", "bind"} => lo
  /\ etcHosts # Image => etcHosts = data /\ data \in EnclaveOK
  /\ epc = "bind" => etcHosts = data
  /\ ebound # {} => epc = "bind" /\ ebound \subseteq EnclaveListeners(data)

BootInv ==
  /\ TypeOK /\ queue \in Seq(Senders) /\ hbound = [s \in Senders |-> hbound[s]]
  /\ NothingBeforeData /\ DataIsWhole /\ EnclaveInOrder

(* "All bridges run forever -- if any returns, something failed" (main.go):*)
(* a process that listens on some of its addresses gets all of them or     *)
(* ends; it does not go on with a part of its bridges.                     *)
AllListenersOrNone ==
  /\ \A h \in Hosts : hbound[h] # {} ~> HostUp(h) \/ hpc[h] = "dead"
  /\ ebound # {} ~> EnclaveUp \/ epc = "dead"

(* Whatever the senders do, whatever is killed: the smoke test comes to a  *)
(* verdict.                                                                *)
SmokeEnds == rpc = "launch" /\ program = "smoke" ~> rpc \in {"ok", "failed"}

(* What the supervisor needs of a file that argonaut accepts: its own      *)
(* address left free, and for the smoke test the one endpoint to try and   *)
(* inbound traffic that is sent to its server.                             *)
FitsImage(f) ==
  /\ f \in EnclaveOK /\ ServerAddr \notin LocalAddrs(f)
  /\ program = "smoke" => f \in OneEndpoint /\ HttpTcp[f] = ServerAddr

(* A file good for both sides and for the image, whose connection is       *)
(* accepted, leads to both sides up, and to a passed smoke test, unless    *)
(* something is killed, fails or is given up early (faults), unless        *)
(* another host process has an address of this one, or unless the test of  *)
(* the outbound bridge comes before the host listens, which sends first    *)
(* and listens later.                                                      *)
Boots ==
  \A h \in Hosts :
    rpc = "read" /\ from = h /\ FitsImage(payload[h])
      ~> \/ rpc = "ok"
         \/ program = "bench" /\ EnclaveUp /\ HostUp(h)
         \/ faults > 0 \/ hpc[h] = "dead"
         \/ verdict = "outbound"
=============================================================================
