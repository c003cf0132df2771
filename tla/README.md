# A verification of argonaut

argonaut is one Go binary with four modes. On the EC2 parent, `argonaut host`
sends a configuration to the enclave and bridges TCP and VSOCK; in the enclave,
`argonaut enclave` takes the configuration, maintains `/etc/hosts` and runs the
other half of the bridges; `argonaut nsm` is a line protocol in front of the
NSM device; `argonaut config` is a low-level one-shot sender and receiver. This
directory holds TLA+ models of its parts, the TLC runs that check them on small
instances and proofs, checked by TLAPS, that the main results hold for every
value of the constants.

`PROJECT.json` lists the components, the runs, which definition stands for
which lines of the source, a plausible fault of the code for every property
(definitions commented "A seeded fault"), the hazards and the theorems.

## The system

| component | state | operations | hard part |
|---|---|---|---|
| listeners (`main.go`: `hostInboundBridge`, `hostOutboundBridge`, `inboundBridge`, `outboundProxy`, `connectionLimiter`) | the listening socket, the token channel, one goroutine and two descriptors per bridge | accept, check the peer's context id, acquire or refuse, dial, copy, close, release | any path through a bridge must give back exactly one slot and close what it opened, while other connections come and go |
| bidirectional copy (`main.go`: `copyBidirectionalResult`, `idleTimeoutConn`, `closeWrite`) | two conns with their socket buffers, two goroutines, a channel of outcomes | read, write, half-close, report; deadlines; deferred closes | two directions that end at different times and for different reasons, against peers that stop reading, half-close or reset |
| `/etc/hosts` (`hosts.go`) | the file, a temporary file, what the disk holds | read, merge, write, chmod, sync, rename, sync of the directory | kills and power losses between the calls, other editors, text left by earlier starts |
| configuration (`config.go`) | the struct with its xxxSet flags, the three maps of the validation loop | decoding, defaults, head checks, one turn of the loop per endpoint | two processes judge the same bytes on their own; explicit and generated addresses meet; a null, a zero and a missing field look alike |
| NSM reader (`nsm.go`: `readNsmLine`) | the bufio buffer, the line so far | grow, return, refuse, discard | lines cut by buffer boundaries, over-long lines, the end of the stream in the middle of one |
| NSM protocol (`nsm.go`: `handleNsmLine`, `NitroBackend`, `nsmIoctl`) | the pipelined lines, the call in the device | parse in two encodings, validate, call, check the answer, respond | order and identity of responses, combined size limits, answers of the wrong kind |
| boot delivery (`main.go`: `sendConfigVSOCK`, `configRecv`) | one VSOCK connection | dial once, write, close; accept once, read to the end | no retry, no framing, no answer |
| start-up (`main.go`: `hostMode`, `enclaveMode`; `loopback_linux.go`) | the addresses a process listens on, the loopback flag | validate, send, loopback, hosts, listen; `log.Fatalf` of one bridge ends all | the two sides start on their own, and either may be started, killed or cut off at any time |
| supervisor in the enclave (`scripts/nitro-smoke/enclave-runner`, `scripts/nitro-bench/enclave-server`) | the bytes received, the child processes, deadlines | receive, test, start `argonaut enclave`, wait | deadlines against late events; what is retried and what is not |
| runtime knobs, shell scripts, echo server | | | see "Not modelled" |

They interact as follows. `host` validates the file, sends its bytes through
boot delivery, and starts one inbound listener and one outbound listener per
endpoint. The enclave's start feeds the received bytes to `argonaut enclave`,
which validates them again, brings up the loopback interface, rewrites
`/etc/hosts` and starts its own listeners. A name in `/etc/hosts` leads a
client in the enclave to an outbound proxy, which dials the parent's VSOCK port
of that endpoint. Every accepted connection is a goroutine that runs one
bidirectional copy. Listeners share nothing with each other but the process:
each has a limiter of its own. `argonaut nsm` is a process of its own and
handles one line at a time; the reader feeds the protocol.

What makes each part correct:

- listeners: slots are neither leaked nor returned twice, descriptors are
  bounded, foreign peers cause no dial, an entitled peer is refused only at the
  limit, every connection is settled;
- copy: data arrives once and in order or an error is reported, an end of file
  is passed on, no direction is cut short by the end of the other, a bridge
  with deadlines ends when its peers send no more;
- hosts: the path always holds a whole text, a started enclave resolves by its
  own configuration, lines of others survive the rename, restarts change nothing;
- configuration: accepted endpoints do not collide, rejected configurations
  deserve it, host and enclave agree;
- boot: an enclave runs one whole file that it has validated itself, processes
  have all of their listeners or end, a good file that arrives and
  fits the image brings both sides up, and what both sides run leads each name to its own endpoint;
- NSM: one verdict per line whatever the buffering, bounded memory, one
  response per line in order with its own id, no illegal request to the device.

## Modules

`Listener` models one listener of any of the four kinds. `loop` is the place of
the accept loop between its calls, `pc[c]` the place of connection `c` and of
the goroutine made for it, `src[c]`/`dst[c]` its descriptors, `sem` the number
of tokens in the limiter's channel. Accept and each of its checks are separate
steps, so bridges end between them as goroutines do. The deferred calls of the
bridge function and of the goroutine run in the order Go gives them: the
dialled conn, the accepted conn, the token. The copy itself is one step. The
kinds differ in whether the peer's context id is checked (VSOCK) or not (TCP).

`ConnectionPool` is what a listener promises: connections arrive, at most
`Limit` are served, one is turned away only if it is not entitled to service or
the pool is full. `Listener!Pool` gives the refinement mapping.

`Relay` is the copy step opened up, for one bridge. Direction `d` is named by
the conn it reads; `a` is the accepted conn, `b` the dialled one. A chunk is
what one `Read` returns and one `Write` takes. `inq[s]` is the receive buffer
of conn `s`, `outq[s]` what was written to it and its peer has not read. A
goroutine that finds nothing to read or no room parks (`readWait`,
`writeWait`); only a parked one can meet its deadline, since deadlines are set
anew at every call. `Close` of a conn with unread data resets it and may lose
any part of what was on its way, as TCP does. Peers are unconstrained: they
send, half-close, stop reading, reset, and streams have no end but what the
peers give them: `owed[d]` counts only the chunks that the peer at `d` has sent
and the other has not read, which the buffers bound.

`HostsMerge` has the text functions of `hosts.go` on sequences of tokens (line
breaks, blanks, markers, endpoint lines, other text); its second part says
independently of them where a file has managed lines (an endpoint line inside a
block) and where the lines of others (`ManagedLines`, `UnmanagedLines`, sets of
positions).
`HostsFile` runs `writeHosts` call by call. `stable` is the set of contents
that a power loss may leave at the path: an unsynced directory may show the
file before or after the rename, unsynced data may be missing.

`Config` runs `normalizeConfig` and `ValidateConfig` in both processes, one
endpoint per step, with the three maps as sets. An address is the last octet of
`127.0.0.n`. `ConfigFile` puts `ParseConfig` in front of it: a file is a
sequence of members, a value is null, of the wrong type, or a value. The
decoders are those of `config.go` on top of `encoding/json`, whose three rules
that matter here are modelled: a null leaves a field as it is (but its key is
there), keys of the top-level struct match without regard to case, and an array
is decoded into the elements that an earlier one has left. Behind it,
`RoutesLeadHome` composes what an accepted file becomes in both processes: the
block that `HostsMerge` renders, the addresses that proxies listen on, the VSOCK
ports they dial and the targets of the parent's bridges.

`Boot` is the system around the bridges: any number of `argonaut host` and
`argonaut config send` processes on the parent, one connection each to
VSOCK:7777, the supervisor in the enclave with its one-shot receiver, and
`argonaut enclave`. `hpc`, `rpc` and `epc` are the places of senders,
supervisor and `argonaut enclave`; `hbound` and `ebound` the addresses they
listen on, of which the parent has one table for all processes. A connection
carries part of the bytes or all of them and ends in order or by a reset; the
kernel may end that of a killed sender either way. A sender's write succeeds
whether or not anybody reads. Every bridge binds in a step of its own, since
each is a goroutine. `faults` counts kills, failing calls and deadlines that
expire while what is waited for can still come; a deadline that waits for
something that can no longer come is not a fault. `program` says which of the
two supervisors the image has: the smoke test tries its outbound and inbound
connection and ends, the benchmark's server waits. Both have an HTTP server at a
fixed address (`ServerAddr`, 127.0.0.1:3000) before `argonaut enclave` starts, so
that a proxy whose endpoint has that address cannot bind it
(`EnclaveBindFails`), and `/health` answers only where `httpTcpPort` sends
inbound traffic there (`CanReachHealth`). Nothing checks a file for either;
`FitsImage` says which files have neither problem. What a bound listener does is
`Listener`'s, what `WriteHosts` does in detail is `HostsFile`'s, and that the
addresses of accepted files differ is `Config`'s.

`NsmReader` has `ReadSlice` as the piece of input up to a line break, a full
buffer or the end, and one action per outcome of a turn of `readNsmLine` and
`discardNsmLineRemainder`. `VerdictOn(n)` says, without buffers, what is due on
the n-th line of a stream: a piece begins behind a line break, ends with the next
one, and has a verdict or, if it is the empty end of the stream, none. `NsmProxy` has the decisions of both handlers, of the request
encoder's checks and of the response decoders; a hex field is its kind and its
length, and the encoded length of a request is computed as CBOR does. A response
is an error of the ioctl, bytes that are no map, or a map from keys to payloads
of each kind that `decodeNsmResponse` tells apart.

The `MC*` modules give the constants of the runs; `Relay` needs none.
The theorems are in `ListenerProofs`, `RelayProofs`, `ConfigProofs`,
`HostsProofs`, `BootProofs`, `NsmReaderProofs` and `NsmProxyProofs`, on top of
`SeqLemmas`: what the community modules' operators on sequences return, and
induction along a sequence in the form "if it fails anywhere, look at the least
place".

## Runs

| run | question | instance |
|---|---|---|
| `listener` | do accept errors, foreign peers, a full limiter and failed dials in any order leak a slot or a descriptor or strand a connection; is the pool implemented | 4 connections, one foreign, 2 slots, 1 Accept error, 4 kinds |
| `relay_data` | is data lost, repeated or truncated without a report; is a conn closed too early | streams without end, buffers of 2, with and without deadlines |
| `relay_live` | does a bridge with deadlines end when its peers send no more; does a half-close travel | streams without end, buffers of 1, with and without deadlines |
| `hosts_file` | is the file whole after every kill and power loss, current when the enclave is ready, kept and stable | all well-formed texts of up to 4 tokens and longer ones, 2 configurations of which one is empty, 2 starts, 1 power loss, 1 foreign edit |
| `config` | is what is accepted what the file says, do accepted endpoints collide, does each name lead to its endpoint, are rejections justified, do both sides agree | files with all lists of up to 3 of 14 endpoints, one list too long, nulls, wrong types, repeated and missing fields in every place |
| `boot` | does an enclave run anything but one whole valid file, does a process go on with a part of its listeners, does the smoke test end, does a file that fits the image bring both sides up | 2 hosts with different files (other endpoints, another `httpTcpPort`, an endpoint at the supervisor's address, one for the host alone) and 1 utility with junk, of which 2 are started; 2 starts of the enclave; 1 fault; both supervisors |
| `nsm_reader` | one verdict per line, bounded memory, an end | all streams of up to 7 bytes over 4 classes (5 classes up to 5), buffer 2, limit 4, both endings |
| `nsm_proxy` | own answers in order, legal device requests, equal encodings, everything answered | up to 3 pipelined lines of 22 kinds, 25 responses, real limits 2048 and 4096 |
| `hosts_unclosed`, `hosts_race`, `config_capture`, `config_extra` | four statements of the documentation that the code does not keep | see below |

Why the bounds are enough. Listener: with two slots and three entitled
connections the limiter can be empty, partly and entirely full, and refuse
while others end; a fourth, foreign connection may stand anywhere in between.
Relay: with buffers full on both sides a copier holds a chunk while others wait
behind it, the deepest state of back-pressure; with two chunks of buffer a reset
may also lose a part of what is on its way. The length of streams needs no bound,
and the proofs below remove that of the buffers. Hosts: two starts are what
"left by an earlier start" takes; a third repeats the second. Config: a
collision takes two endpoints, a collision of a generated address with an
explicit one before or after it takes three positions. Reader: a line of seven
bytes overruns the limit of four and spans all the ways a buffer of two can cut
it; the limit is a multiple of the buffer as in the code (1 MiB, 4096).
Proxy: three lines put one in the device, one answered, one waiting; the pairs
of requests that sit at and one above each limit are among them.
Boot: two senders are what it takes to have one in front of the other, to have
one use up the receiver of the other, and to compete for an address; a third
start multiplies the states by five and adds no new pair. Two starts of the enclave leave
a host of the first behind for the second; one fault at any step is one kill,
reset or expiry, and `Boots` is about behaviours without one.

Every run says `CHECK_DEADLOCK FALSE` because each system here may rightly
stop: peers have gone, the process has ended or the bounds are spent. That it
does not stop too early is what the liveness properties say.

### Fairness

- `Listener`: the accept loop and every goroutine are scheduled (`WF`). This
  includes that a dial returns (30 s timeout for TCP, the kernel's for VSOCK)
  and that a copy ends. With idle deadlines that is an assumption on how much the
  peers send (`Relay!BridgeEnds`), with `ARGONAUT_IDLE_TIMEOUT=0` an assumption
  on the peers altogether. Connections need not come and Accept need not fail.
- `Relay`: each of the three goroutines is scheduled and a deadline that was set
  expires; peers owe nothing. `HalfCloseTravels` has its condition on the
  far peer (it keeps making room) in the property, and `BridgeEnds` has its own:
  from some moment on the peers send no more (`Quiet`), whether they have shut
  down or are silent. Without it the property is false of the code, which sets
  the deadline anew at every `Read` and `Write` (main.go:547-555): a peer that
  sends a little within each keeps its bridge, a slot and two descriptors, for as
  long as it likes.
- `NsmReader`, `NsmProxy`: the process runs; the ioctl returns; the client need
  neither send nor close.
- `Boot`: started senders run (`WF` per sender), the supervisor and `argonaut
  enclave` run, deadlines expire, and a client of the parent tries `/health`
  again while it can reach it, as `nitro-smoke.sh` does for its own time. Nobody
  need start a sender or the enclave; kills and failures need not happen.
- `HostsFile`, `Config`, `ConfigFile`: none, only safety is stated.

### Four statements that fail

- `hosts_unclosed`: README.md:108 says that non-managed content of `/etc/hosts`
  is preserved. In a file with a begin marker and no end marker
  `stripManagedHostsBlock` (hosts.go:57) keeps what is before the marker and
  drops every line behind it, also one that somebody other than argonaut wrote
  (`NonManagedPreserved` is about those; to `UnmanagedLines` an open block
  reaches to the end).
- `hosts_race`: the same sentence. `writeHosts` reads the file (hosts.go:67)
  and later renames the merged text over it (hosts.go:106); what another
  program writes in between is lost. In the enclave image other writers are
  rare.
- `config_capture`: main.go:17 says inbound traffic goes to the HTTP runtime on
  localhost. `ValidateConfig` compares local addresses of endpoints with each
  other (config.go:223) and not with `127.0.0.1:<httpTcpPort>`, so an endpoint
  with that `localIP` and `localPort` is accepted and its proxy listens where
  the inbound bridge dials.
- `config_extra`: config.go:29 says that extra top-level fields are tolerated so
  that application configuration can travel unchanged. The struct is decoded by
  `json.Unmarshal` (config.go:69), which matches keys without regard to case: an
  application's `Endpoints` (in the trace) or `HTTPPORT` replaces argonaut's own value or, if of
  another type, fails the file.

## Proofs

All are checked by TLAPS with Z3, Zenon and LS4; no step is left out. Every
safety property and action property of the passing runs is a theorem: what the
runs show on a small instance holds for every number of connections, chunks,
endpoints, members of a file, tokens of a text, bytes of a stream, lines in a
pipe, senders and starts.

### Assumptions

TLC evaluates each of them on the instances it checks.

- `ListenerAssumption`: finitely many connections, a limit of at least one
  (`envInt` refuses a smaller one).
- `RelayAssumption`: a buffer holds at least one chunk.
- `ConfigAssumption`: configurations have the types of the Go struct, and the
  last generated address is at most `127.0.0.254` (191 endpoints in the code, the
  largest such number). 443 is a port.
- `FilesAssumption`: the members of a file have values that a JSON decoder can
  meet at that field; the empty name is no good host; a `uint32` holds every port
  (`MaxUint32`, scaled down in the runs, since TLC's integers have 32 bits with
  their sign). Nothing is assumed of their
  number and order. A field that occurs twice is excluded in the property, not
  here.
- `HostsFileAssumption`: texts and configurations are sequences.
- `OneBlockAssumption`: the file has at most one begin marker to start with, and
  nobody but argonaut writes one. hosts.go:51 takes only the first block off, so
  without this the properties are false; it is the hazard listed there.
- `BootAssumption`: hosts and utilities are different processes, what is cut off
  is not a valid file, and the image's own text is no configuration.
- `NsmReaderAssumption`: the limit is a multiple of the buffer, as 1 MiB is of
  4096; without it how much of a refused line has been read would depend on the
  buffer's place in it.
- `NsmProxyAssumption`, `RequestsAssumption`: the shapes that requests of the
  two encodings have; a legacy line names no absent fields.

### The arguments

**Listener.** `SlotsMatchBridges` (tokens = running bridges) is not inductive:
when `Admit` starts a goroutine for `cur`, nothing says that `cur` has none
yet; when `Accept` takes the head of the backlog, nothing says the connection
is not there twice. `IInv` adds `OnePlace` (a connection is in the backlog
once, or in the loop's hands, or with its goroutine, and what is handed on has
passed its checks) and `OpenByPlace` (how far a connection has come tells what
it has open). `Invariance` proves `IInv` by one lemma per group of actions, on
top of a lemma that `Holding` is finite and grows or shrinks by one.
`SlotsCorrect`, `DescriptorsBounded`, `NothingStray`, `TypeCorrect` follow in a
state: open conns outside the loop belong to slot holders, whose number is the
number of tokens, at most `Limit`. `AdmissionRule` looks at the one step that
turns an entitled peer away: `TurnAway`, whose guard is a full channel, hence
`Limit` bridges. `Refinement` proves that initial states map to initial states
of `ConnectionPool` and each step to a step or a stutter.

**Relay.** The run's properties speak of moments long after the fact: that a
peer was told the end of a stream too early matters when the bridge returns.
`RelayInv` carries that knowledge: `AtMostOnce` (what is on its way never exceeds
what the peer has not read yet, even after resets), `ExactlyOnce`,
`CopiedToTheEnd` (a copy that ended without error has seen the end of its
stream and left nothing behind), `EndOfFileIsTold` (an end of file at a peer
comes from a half-close only, and if the copy went well after all the data),
`OneOutcomeEach` and `ClosedLast` (each direction reports once, after its
half-close, and closes follow both reports). The lemmas group the actions by
what they change: the peers, a chunk moved through a goroutine, a goroutine
that parks, one whose copy returns, half-close and report, the receive, the
closes. `DeliversExactlyOnce`, `TruncationIsReported`, `CleanIsComplete` and
`TypeCorrect` follow in a state, `TeardownIsLast` for a step: `CloseConns` has
both outcomes, which only ended directions send.

**Config.** `ConfigInv` is the loop invariant of `ValidateConfig`: the three
maps hold exactly the keys of the endpoints passed so far (`MapsOfPassed`),
those are valid and pairwise free of collisions (`PassedAreGood`), the head was
in order (`Progress`), and both processes look at the same configuration, since
normalizing twice is normalizing once (`SameConfig`, from `NormalizeFacts`).
`AcceptedAreDistinct` is that invariant at the end of the loop,
`RejectedForAReason` comes with it, `BindsLegal` adds what the defaults fill in
and the arithmetic of generated addresses. `SidesJudgeAlike` combines them: an
accepted configuration has no bad endpoint and no collision, so that the other
process can only have rejected its head.

`ValidationIsExact` says it the other way round and for files: what the loop,
its early returns and its three maps decide is that the head is in order, each
endpoint is, and no two collide; no more and no less.

**Files.** Unmarshalling is a recursive function of the number of members read.
That it has a value for every file is `UnmarshalSteps`, by the least place at
which it had none; a second such argument tells that with one member per field
the last state has what that member gives. `FileInv` says that either the file
does not parse and both processes are at an end with the zero struct, or both
stand in the loop invariant with what the file decodes to. `FilesAreUsedAsGiven`
compares that with the members themselves, `FilesKeepThePromises` carries the
properties of `Config` over. `NamesLeadHome` follows one name from end to end:
`EntriesOfBlock` finds the lines of the rendered block to be those of the
endpoints in their order; since names and addresses of an accepted file differ,
the line leads to the address of that endpoint's proxy alone, and since its ports
differ, to its own target.

**Hosts.** `HostsInv` has, for every call of `writeFileAtomic`, what the
temporary file is (`TmpByCall`: from the write on the whole merged text, from the
sync on safe from a power loss); without it the rename could show anything.
`NeverTorn` is inductive with that. `TextsHaveOneBlock` says that every text
anybody may still read has at most one begin marker and that each start's result
was merged from such a text; `BlockIsCurrent` that after the rename the block is
this configuration's, and closed, so that what others append is outside.
`ReadyIsCurrent` follows. `KeepsUnmanaged` and `RestartsDoNotGrowIt` rest on two
facts about the text functions alone: `MergeKeeps` (the lines outside of the block
are, in order, those of the text that was merged) and `MergeIsIdempotent`. Both
come from cutting a text at its markers and from where the cut and joined parts
have their lines.

**Boot.** `OnlyWholeFiles` is about an enclave that runs, long after the sender
may have died. `BootInv` remembers for it: nothing is known before the receiver
has closed (`NothingBeforeData`), data that is more than a part of a file came
to its last byte from a sender that sent just that (`DataIsWhole`), and how far
`argonaut enclave` has come tells what it has validated, written and bound
(`EnclaveInOrder`).

**NSM reader.** The verdicts are stated on the whole stream, the code sees
buffers of it. `ReaderInv` says where it stands: the line is what has been read
of the current piece (`LineIsThePiece`), and there are as many verdicts as breaks
before it, or before the end of what is being discarded
(`VerdictsAreThePieces`). `SliceFacts` says what one `ReadSlice` returns in terms
of the stream; each action then either moves within a piece or ends it and
gives its verdict. The line is whole buffers, so that a refusal comes with the
first `LineMax + BufSize` bytes of the piece at hand, or all of it, wherever the
piece began; the encoding of the refusal is guessed from those.

**NSM proxy.** `ProxyInv`: answers, the call in the device and the pipe are, in
this order, the lines sent (`PipeIsTheRest`), and the call is what the next line
asks for (`CallIsNext`). `EachAnswerToItsLine` is part of it; `OnlyValidCalls`
follows from `CallIsNext` and the arithmetic of encoded sizes.
`EncodingsDecideAlike` is about the two handlers as functions: lemmas list the
decisions of each in terms of the method, the id and the three fields.

**Why things end.** The liveness properties themselves are out of the prover's
reach, what they rest on besides fairness is not:

- `EveryStepCounts` (`Relay`), `EveryTurnCounts` (`NsmReader`) and
  `NeverBusyForNothing` (`NsmProxy`): a number that every step makes smaller, but
  in `Relay` a peer's sending, which makes it greater by five: what a chunk takes
  at most to be read, written and read again, with the waits in between. So none
  of them spins, and each comes to rest if it is scheduled and, in `Relay`, its
  peers send no more.
- It rests at the right place: `StopsAtTheEnd` (nothing is left to read),
  `StopsWithNothingOwed` (every line has its answer and stdin is closed),
  `NobodyWaitsInVain` (the receive of an outcome has one in the channel or a
  running copier that will send one), `NothingStrands` (a connection that waits is
  in the backlog of a loop that listens, and the deferred release never blocks).

### Model-checked only

Liveness: `EveryConnSettles`, `BridgeEnds`, `HalfCloseTravels`,
`AllListenersOrNone`, `SmokeEnds`, `Boots`, `Terminates`, `EveryLineAnswered`,
and the fairness of `ConnectionPool` in `ImplementsPool`, since the prover has no
rules for fairness and `ENABLED`. The four statements that fail are TLC's
counterexamples.

## Not modelled

- The text of JSON, hex and CBOR: values are null, of the wrong type, or values.
  Whether a file is one JSON object, over 1 MiB or followed by something else is
  a mark on it. Wording of errors and logs, durations and byte counts.
- The grammar of host names (`validateHostname`): a set of good names.
- Endpoint hosts that are addresses, or names that an unmanaged line of
  `/etc/hosts` has already: a resolver never gets to the managed block for them.
  `RoutesLeadHome` is about names that only the block has.
- A prefix of a file that lacks white space at its end only: it parses like the
  whole, and counts as the whole.
- Partial reads and writes of a chunk: `io.Copy` retries neither, a short write
  is an error; a chunk is the unit that a read returns and a write takes.
- Several listeners in one process beyond their start: they interact only
  through `log.Fatalf` of one ending all, which `Boot` has.
- The ioctl number and the layout of its message; opening `/dev/nsm`, which
  either succeeds at the start of the process or ends it.
- Environment knobs: constants here (`Limit`, `IdleModes`); the bind address of
  the HTTP bridge is one address of the parent.
- The shell scripts, the echo server and the payload handlers of the HTTP servers.
- What the code promises nothing about, each with its place in the list of
  hazards: an `Accept` error that never goes away (main.go:166), a host process
  that bridges an enclave with another file (main.go:115), temporary files left
  by a kill (hosts.go:89), a second managed block (hosts.go:51), a repeated
  `endpoints` field (config.go:95).

## Plan

Done: all modules and runs above; the safety part of all of them is proved.

Left, in this order:

1. An abstract specification of what `NsmReader` and `NsmProxy` promise together
   (a server that takes lines and answers each one) and the proof that the proxy
   implements it step by step, as for the listener.
2. The same for `writeHosts`: a file that changes in one step, which `HostsFile`
   implements but for what a power loss may take back.
3. Measures for `Listener` and `Boot`, in the way of "Why things end".
