----------------------------- MODULE ConfigFile -----------------------------
(***************************************************************************)
(* ParseConfig (config.go) in front of Config, and what both processes     *)
(* make of the result behind it.  A file is its top-level members in their *)
(* order, each a key and a JSON value: null, a value that has not the type *)
(* of its field, or a value; the value of "endpoints" is a sequence of     *)
(* elements, one of which is null, no object, or a function of its keys    *)
(* (of a repeated key of an endpoint only the last counts).                *)
(***************************************************************************)
EXTENDS Config, SequencesExt

CONSTANTS
  Files,     \* the files to parse
  Field,     \* Field[k]: the field encoding/json gives a top-level key k to, or ""
  MaxUint32  \* the largest number a uint32 field holds

VARIABLE file

Null == <<"null">>
Wrong == <<"wrong">>
V(x) == <<"value", x>>

EtcHosts == INSTANCE HostsMerge

EndpointKeys == {"host", "vsockPort", "tcpPort", "localPort", "localIP"}
Schema == {"schemaVersion", "httpPort", "httpVsockPort", "httpTcpPort", "endpoints"}

ZeroEndpoint ==
  [host |-> "", vsockPort |-> 0, tcpPort |-> 0, tcpPortSet |-> FALSE,
   localPort |-> 0, localPortSet |-> FALSE, localIP |-> 0, localIPSet |-> FALSE]

ZeroConfig ==
  [schemaVersion |-> "", httpPort |-> 0, httpVsockPort |-> 0, httpTcpPort |-> 0,
   endpointsSet |-> FALSE, endpointsNil |-> TRUE, endpoints |-> <<>>]

(* What JSON a field can be given: a number, a text, or no value of its    *)
(* type; an element of the array gives some keys such values.              *)
Typed(v, type) == v \in {Null, Wrong} \/ (v = V(v[2]) /\ v[2] \in type)
TypeOfKey(k) == IF k = "host" THEN DOMAIN Lower ELSE Nat
TypedElement(v) ==
  \/ v \in {Null, Wrong}
  \/ v = V(v[2]) /\ \A k \in DOMAIN v[2] \cap EndpointKeys : Typed(v[2][k], TypeOfKey(k))
TypedMember(member) ==
  LET f == Field[member.key]
      v == member.value
  IN  /\ member.key \in DOMAIN Field /\ f \in Schema \cup {""}
      /\ f = "schemaVersion" => Typed(v, Versions)
      /\ f \in {"httpPort", "httpVsockPort", "httpTcpPort"} => Typed(v, Nat)
      /\ f = "endpoints" /\ v \notin {Null, Wrong} =>
           /\ v = V(v[2]) /\ v[2] \in Seq(ToSet(v[2]))
           /\ \A k \in DOMAIN v[2] : TypedElement(v[2][k])

ASSUME FilesAssumption ==
  /\ "" \in DOMAIN Lower \ GoodHosts
  /\ MaxUint32 \in Nat /\ MaxPort <= MaxUint32
  /\ \A f \in Files : f.text = "object" =>
       f.members \in Seq(ToSet(f.members)) /\ \A k \in DOMAIN f.members : TypedMember(f.members[k])

-----------------------------------------------------------------------------
(* The decoding.                                                           *)

(* null decodes into anything; a number must fit its uint16 or uint32.     *)
Decodes(field, v) ==
  \/ v = Null
  \/ /\ v # Wrong
     /\ field \in {"httpPort", "httpTcpPort", "tcpPort", "localPort"} => v[2] <= MaxPort
     /\ field \in {"httpVsockPort", "vsockPort"} => v[2] <= MaxUint32

EndpointDecodes(v) ==
  \/ v = Null
  \/ /\ v # Wrong
     /\ DOMAIN v[2] \subseteq EndpointKeys
     /\ \A k \in DOMAIN v[2] : Decodes(k, v[2][k])

MemberDecodes(member) ==
  LET f == Field[member.key]
  IN  /\ f # "" => Decodes(f, member.value)
      /\ f = "endpoints" /\ member.value # Null =>
           \A k \in DOMAIN member.value[2] : EndpointDecodes(member.value[2][k])

(* At most 1 MiB, one JSON object and nothing behind it.                   *)
Parses(f) == f.text = "object" /\ \A k \in DOMAIN f.members : MemberDecodes(f.members[k])

(* A seeded fault: a null counts as a key that is not there.               *)
NullIsAbsent(ep, v) ==
  LET obj  == IF v = Null THEN <<>> ELSE v[2]
      Given(k) == k \in DOMAIN obj /\ obj[k] # Null
      New(k) == IF Given(k) THEN obj[k][2] ELSE ep[k]
  IN  [host |-> New("host"), vsockPort |-> New("vsockPort"), tcpPort |-> New("tcpPort"),
       tcpPortSet |-> ep.tcpPortSet \/ Given("tcpPort"),
       localPort |-> New("localPort"),
       localPortSet |-> ep.localPortSet \/ Given("localPort"),
       localIP |-> New("localIP"), localIPSet |-> ep.localIPSet \/ Given("localIP")]

(* A field that is not given, or null, stays as it is; a flag tells        *)
(* whether its key is there.                                               *)
UnmarshalEndpoint(ep, v) ==
  LET obj  == IF v = Null THEN <<>> ELSE v[2]
      Has(k) == k \in DOMAIN obj
      New(k) == IF Has(k) /\ obj[k] # Null THEN obj[k][2] ELSE ep[k]
  IN  [host |-> New("host"), vsockPort |-> New("vsockPort"), tcpPort |-> New("tcpPort"),
       tcpPortSet |-> ep.tcpPortSet \/ Has("tcpPort"),
       localPort |-> New("localPort"),
       localPortSet |-> ep.localPortSet \/ Has("localPort"),
       localIP |-> New("localIP"), localIPSet |-> ep.localIPSet \/ Has("localIP")]

(* encoding/json decodes an array into the elements that an earlier member *)
(* for the same field has left in the slice, those beyond its length       *)
(* included.                                                               *)
UnmarshalArray(array, list) ==
  IF list = <<>> THEN <<>>
  ELSE [k \in 1 .. Max({Len(list), Len(array)}) |->
          IF k > Len(list) THEN array[k]
          ELSE UnmarshalEndpoint(IF k <= Len(array) THEN array[k] ELSE ZeroEndpoint, list[k])]

(* One member, in the order of the file: the last one for a field wins.    *)
UnmarshalMember(d, member) ==
  LET f == Field[member.key]
      v == member.value
      list  == IF v = Null THEN <<>> ELSE v[2]
      array == UnmarshalArray(d.array, list)
  IN  CASE f = "" -> d
        [] f = "endpoints" ->
             [array |-> array,
              cfg |-> [d.cfg EXCEPT !.endpoints = SubSeq(array, 1, Len(list)),
                                    !.endpointsNil = (v = Null)]]
        [] OTHER -> IF v = Null THEN d ELSE [d EXCEPT !.cfg = [@ EXCEPT ![f] = v[2]]]

(* What the first n members leave behind, with n from 0.                   *)
Unmarshal(members) ==
  LET decoded[n \in 0 .. Len(members)] ==
        IF n = 0 THEN [cfg |-> ZeroConfig, array |-> <<>>]
        ELSE UnmarshalMember(decoded[n - 1], members[n])
  IN  decoded

(* The struct by keys up to case, endpointsSet by the exact key.           *)
UnmarshalConfig(members) ==
  [Unmarshal(members)[Len(members)].cfg EXCEPT
     !.endpointsSet = \E k \in DOMAIN members : members[k].key = "endpoints"]

(* Both processes parse the same bytes; where ParseConfig fails the        *)
(* process ends (log.Fatalf) before it validates anything.                 *)
FileInit ==
  /\ file \in Files
  /\ config = [m \in Modes |-> IF Parses(file) THEN UnmarshalConfig(file.members) ELSE ZeroConfig]
  /\ at = [m \in Modes |-> IF Parses(file) THEN "normalize" ELSE "rejected"]
  /\ i = [m \in Modes |-> 1]
  /\ hosts = [m \in Modes |-> {}]
  /\ vsockPorts = [m \in Modes |-> {}]
  /\ localAddrs = [m \in Modes |-> {}]

FileNext == Next /\ UNCHANGED file

FileSpec == FileInit /\ [][FileNext]_<<vars, file>>

-----------------------------------------------------------------------------
(* Properties.                                                             *)

NamedOnce(members) == \A j, k \in DOMAIN members :
  j # k /\ Field[members[j].key] # "" => Field[members[j].key] # Field[members[k].key]

AsGiven(v, ep) ==
  /\ v # Null
  /\ \A k \in EndpointKeys :
       IF k \in DOMAIN v[2] THEN v[2][k] = V(ep[k])
       ELSE \/ k \in {"tcpPort", "localPort"} /\ ep[k] = 443
            \/ k = "localIP" /\ ep[k] = 0

(* What a file says is used as it says or refused: no port and no address  *)
(* that it gives, be it null, zero, out of range or of another type, is    *)
(* silently replaced by a default, and none that it does not give is       *)
(* anything but the default.  (For files that name each field once.)       *)
GivenIsUsed == \A m \in Modes :
  at[m] = "accepted" /\ NamedOnce(file.members) =>
    \A k \in DOMAIN file.members :
      LET f == Field[file.members[k].key]
          v == file.members[k].value
      IN  /\ f \in {"httpVsockPort", IF m = "host" THEN "httpPort" ELSE "httpTcpPort"} =>
               v = V(config[m][f])
          /\ f = "endpoints" =>
               /\ Len(v[2]) = Len(config[m].endpoints)
               /\ \A j \in DOMAIN v[2] : AsGiven(v[2][j], config[m].endpoints[j])

(* The composition of /etc/hosts, the outbound proxies and the parent's    *)
(* bridges is the identity: a client in the enclave that connects to the   *)
(* name of an endpoint, at its local port, finds the name in the managed   *)
(* block, one listener at that address, one bridge on the parent at the    *)
(* VSOCK port that this listener dials, and behind it the same endpoint.   *)
RoutesLeadHome ==
  (\A m \in Modes : at[m] = "accepted") =>
    LET inside  == config["enclave"].endpoints
        outside == config["host"].endpoints
        text    == EtcHosts!MergeHosts(<<EtcHosts!Localhost, EtcHosts!NL>>, inside)
        Resolve(name) == {text[k][2] :
          k \in {l \in EtcHosts!ManagedLines(text) : Lower[text[l][3]] = Lower[name]}}
        Listeners(ip, p) == {k \in DOMAIN inside : LocalAddr(inside[k], k - 1) = <<ip, p>>}
        Bridges(p) == {k \in DOMAIN outside : outside[k].vsockPort = p}
    IN  \A j \in DOMAIN inside :
          \E ip \in 1 .. MaxOctet, k \in DOMAIN inside, q \in DOMAIN outside :
            /\ Resolve(inside[j].host) = {ip}
            /\ Listeners(ip, inside[j].localPort) = {k}
            /\ Bridges(inside[k].vsockPort) = {q}
            /\ Lower[outside[q].host] = Lower[inside[j].host]
            /\ outside[q].tcpPort = inside[j].tcpPort

(* config.go: "Extra top-level fields are intentionally tolerated so       *)
(* application config can travel through host mode to the enclave          *)
(* unchanged".  Then members with other keys than those of the schema make *)
(* no difference to what is parsed.                                        *)
ExtraFieldsTolerated == \A m \in Modes :
  LET members == SelectSeq(file.members, LAMBDA member : member.key \in Schema)
  IN  Parses([file EXCEPT !.members = members]) =>
        /\ Parses(file)
        /\ at[m] = "normalize" => config[m] = UnmarshalConfig(members)
=============================================================================
