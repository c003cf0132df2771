------------------------------ MODULE NsmProxy ------------------------------
(***************************************************************************)
(* nsmMode's loop (nsm.go) between a client that pipelines requests and    *)
(* the NSM device: one line in, one line out.  The handlers are modelled   *)
(* decision by decision; a hex field is its kind and its decoded length.   *)
(* Cutting stdin into lines is NsmReader's; a line it refused arrives here *)
(* as a request of form "longJSON" or "longLegacy".                        *)
(***************************************************************************)
EXTENDS Naturals, Sequences, FiniteSets

CONSTANTS
  Requests,      \* the lines the client may send
  Responses,     \* what the ioctl may return
  MaxRequests,   \* bound on the lines it sends
  FieldMax,      \* nsmFieldMaxSize
  RequestMax     \* nsmRequestMaxSize

ASSUME NsmProxyAssumption ==
  MaxRequests \in Nat /\ FieldMax \in Nat /\ RequestMax \in Nat

VARIABLES
  pipe,       \* lines in stdin, in order
  closed,     \* the client has closed stdin
  asked,      \* every line the client sent
  pc,         \* "read", "device" during the ioctl, "stopped"
  cur,        \* the request being handled
  call,       \* the request in the device
  answers     \* every line written to stdout

vars == <<pipe, closed, asked, pc, cur, call, answers>>

-----------------------------------------------------------------------------
(* Fields: absent (an empty JSON string), "-", not hex, or hex of n bytes. *)

Absent == [kind |-> "absent", len |-> 0]
Dash == [kind |-> "dash", len |-> 0]
BadHex == [kind |-> "bad", len |-> 0]
Hex(n) == [kind |-> "hex", len |-> n]

JSON(id, method, args) == [form |-> "json", id |-> id, method |-> method, args |-> args]
Legacy(id, method, args) == [form |-> "legacy", id |-> id, method |-> method, args |-> args]
Other(form) == [form |-> form, id |-> "", method |-> "", args |-> <<>>]

(* What the decoders leave of a line: a JSON request has its three fields, *)
(* absent or not; a legacy one as many as there are words.                 *)
Fields == [kind : {"absent", "dash", "bad", "hex"}, len : Nat]

ASSUME RequestsAssumption == \A req \in Requests :
  /\ req.form \in {"json", "legacy", "invalidJSON", "longJSON", "longLegacy", "blank"}
  /\ req.form = "json" => req.args \in [1 .. 3 -> Fields]
  /\ req.form = "legacy" =>
       req.args \in Seq(Fields) /\ \A k \in DOMAIN req.args : req.args[k].kind # "absent"
  /\ \A k \in DOMAIN req.args :
       req.args[k].kind = "absent" => req.args[k] = Absent

IsJSON(req) == req.form \in {"json", "invalidJSON", "longJSON"}

ValidNsmID(id) == id \notin {"", "bad id"}

(* What a handler decides about a line: an error code, or a backend call.  *)
Refuse(id, code) == [id |-> id, code |-> code, method |-> "", args |-> <<>>]
Call(id, method, args) == [id |-> id, code |-> "", method |-> method, args |-> args]

DecodesRequired(f) == f.kind = "hex"
DecodesOptional(f) == f.kind \in {"hex", "absent"}
DecodesOptionalLegacy(f) == f.kind \in {"hex", "absent", "dash"}

(* A dash stands for no bytes in the legacy protocol.                      *)
Undash(f) == IF f.kind = "dash" THEN Absent ELSE f

(* A seeded fault: an RND request may carry fields.                        *)
HandleJSONLoosely(req) ==
  IF ~ ValidNsmID(req.id) THEN Refuse("", "invalid_id")
  ELSE IF req.method = "ATT" THEN
    IF req.args[1] = Absent THEN Refuse(req.id, "missing_public_key")
    ELSE IF \/ ~ DecodesRequired(req.args[1])
            \/ \E k \in 2 .. 3 : ~ DecodesOptional(req.args[k])
      THEN Refuse(req.id, "invalid_hex")
    ELSE Call(req.id, "ATT", req.args)
  ELSE IF req.method = "RND" THEN Call(req.id, "RND", <<>>)
  ELSE Refuse(req.id, "unknown_method")

HandleJSON(req) ==
  IF ~ ValidNsmID(req.id) THEN Refuse("", "invalid_id")
  ELSE IF req.method = "ATT" THEN
    IF req.args[1] = Absent THEN Refuse(req.id, "missing_public_key")
    ELSE IF \/ ~ DecodesRequired(req.args[1])
            \/ \E k \in 2 .. 3 : ~ DecodesOptional(req.args[k])
      THEN Refuse(req.id, "invalid_hex")
    ELSE Call(req.id, "ATT", req.args)
  ELSE IF req.method = "RND" THEN
    IF \E k \in DOMAIN req.args : req.args[k] # Absent
    THEN Refuse(req.id, "invalid_request")
    ELSE Call(req.id, "RND", <<>>)
  ELSE Refuse(req.id, "unknown_method")

HandleLegacy(req) ==
  LET n == Len(req.args)
  IN  IF ~ ValidNsmID(req.id) THEN Refuse("0", "invalid_id")
      ELSE IF req.method = "" THEN Refuse(req.id, "invalid_request")
      ELSE IF req.method = "ATT" THEN
        IF n = 0 THEN Refuse(req.id, "missing_public_key")
        ELSE IF n \notin {1, 3} THEN Refuse(req.id, "invalid_request")
        ELSE IF \/ ~ DecodesRequired(req.args[1])
                \/ \E k \in 2 .. n : ~ DecodesOptionalLegacy(req.args[k])
          THEN Refuse(req.id, "invalid_hex")
        ELSE Call(req.id, "ATT",
                  [k \in 1 .. 3 |-> IF k <= n THEN Undash(req.args[k]) ELSE Absent])
      ELSE IF req.method = "RND" THEN
        IF n > 0 THEN Refuse(req.id, "invalid_request") ELSE Call(req.id, "RND", <<>>)
      ELSE Refuse(req.id, "unknown_method")

Handle(req) ==
  CASE req.form = "json"        -> HandleJSON(req)
    [] req.form = "legacy"      -> HandleLegacy(req)
    [] req.form = "invalidJSON" -> Refuse("", "invalid_json")
    [] req.form = "longJSON"    -> Refuse("", "line_too_large")
    [] req.form = "longLegacy"  -> Refuse("0", "line_too_large")
    [] req.form = "blank"       -> Refuse("0", "empty_request")

-----------------------------------------------------------------------------
(* NitroBackend.                                                           *)

(* Errors of validateAttestationRequest are single tokens; all others are  *)
(* sentences.                                                              *)
FieldError(args) ==
  IF args[1].len = 0 THEN "missing_public_key"
  ELSE IF args[1].len > FieldMax THEN "public_key_too_large"
  ELSE IF args[2].len > FieldMax THEN "nonce_too_large"
  ELSE IF args[3].len > FieldMax THEN "user_data_too_large"
  ELSE ""

(* The length of a CBOR byte string or null, and of the whole request      *)
(* {"Attestation": {"user_data": u, "nonce": n, "public_key": k}}.         *)
CborBytes(f) ==
  IF f.kind = "absent" THEN 1
  ELSE f.len + (IF f.len < 24 THEN 1 ELSE IF f.len < 256 THEN 2 ELSE 3)

RequestSize(args) ==
  14 + (11 + CborBytes(args[1])) + (6 + CborBytes(args[2])) + (10 + CborBytes(args[3]))

(* A seeded fault: the size check is left to the device.                   *)
TooLargeNever(method, args) == FALSE

TooLargeForDevice(method, args) == method = "ATT" /\ RequestSize(args) > RequestMax

Sentence == "a reason with blanks"

ProtocolError(reason) == IF reason \in {"", Sentence} THEN "backend_error" ELSE reason

(* A seeded fault: an error reported as a success.                         *)
ErrMarkedOK(id, code) == [id |-> id, ok |-> TRUE, code |-> code, data |-> <<>>]

OK(id, data) == [id |-> id, ok |-> TRUE, code |-> "", data |-> data]
Err(id, code) == [id |-> id, ok |-> FALSE, code |-> code, data |-> <<>>]

-----------------------------------------------------------------------------

Idle == [id |-> "", code |-> "", method |-> "", args |-> <<>>]

Init ==
  /\ pipe = <<>> /\ closed = FALSE /\ asked = <<>>
  /\ pc = "read"
  /\ cur = Other("blank") /\ call = Idle
  /\ answers = <<>>

(* The client need not wait for an answer before it sends the next line.   *)
Ask(req) ==
  /\ ~ closed /\ Len(asked) < MaxRequests
  /\ pipe' = Append(pipe, req)
  /\ asked' = Append(asked, req)
  /\ UNCHANGED <<closed, pc, cur, call, answers>>

CloseStdin ==
  /\ ~ closed
  /\ closed' = TRUE
  /\ UNCHANGED <<pipe, asked, pc, cur, call, answers>>

(* A line that its handler, or the backend before the ioctl, refuses.      *)
ReadAndRefuse ==
  /\ pc = "read" /\ pipe # <<>>
  /\ LET req == Head(pipe)
         d   == Handle(req)
     IN  \/ /\ d.code # ""
            /\ answers' = Append(answers, Err(d.id, d.code))
         \/ /\ d.code = "" /\ d.method = "ATT" /\ FieldError(d.args) # ""
            /\ answers' = Append(answers, Err(d.id, ProtocolError(FieldError(d.args))))
         \/ /\ d.code = "" /\ (d.method = "ATT" => FieldError(d.args) = "")
            /\ TooLargeForDevice(d.method, d.args)
            /\ answers' = Append(answers, Err(d.id, ProtocolError(Sentence)))
  /\ pipe' = Tail(pipe)
  /\ cur' = Head(pipe)
  /\ UNCHANGED <<closed, asked, pc, call>>

ReadAndCall ==
  /\ pc = "read" /\ pipe # <<>>
  /\ LET d == Handle(Head(pipe))
     IN  /\ d.code = "" /\ (d.method = "ATT" => FieldError(d.args) = "")
         /\ ~ TooLargeForDevice(d.method, d.args)
         /\ call' = d
  /\ pc' = "device"
  /\ pipe' = Tail(pipe)
  /\ cur' = Head(pipe)
  /\ UNCHANGED <<closed, asked, answers>>

(* What the ioctl returns: an errno, a length beyond the response buffer,  *)
(* bytes that are no CBOR map, or a map from keys to what they hold; the   *)
(* payload of a variant can be of the wrong type, lack its field, hold a   *)
(* field that is not bytes, an empty one, or bytes (for "Error", a code).  *)
Failed(how) == [ioctl |-> how, entries |-> <<>>]
Entries(map) == [ioctl |-> "map", entries |-> map]

NoResponse == <<"", "">>

(* decodeNsmResponse: the variant of a response and what it carries.       *)
DecodeNsmResponse(resp) ==
  LET keys == DOMAIN resp.entries
      key  == CHOOSE k \in keys : TRUE
  IN  IF /\ resp.ioctl = "map" /\ Cardinality(keys) = 1
         /\ key \in {"Attestation", "GetRandom", "Error"}
         /\ resp.entries[key] = "bytes"
      THEN <<key, "bytes">>
      ELSE NoResponse

(* A seeded fault: any well-formed response is taken for the right one.    *)
AnyVariant(method, variant) == variant \in {"Attestation", "GetRandom"}

RightVariant(method, variant) ==
  variant = (IF method = "ATT" THEN "Attestation" ELSE "GetRandom")

(* Whatever the device returns is one answer: its bytes, or an error.      *)
DeviceAnswers ==
  /\ pc = "device"
  /\ \E resp \in Responses :
       LET decoded == DecodeNsmResponse(resp)
       IN  answers' = Append(answers,
             IF RightVariant(call.method, decoded[1]) THEN OK(call.id, decoded)
             ELSE Err(call.id, ProtocolError(Sentence)))
  /\ pc' = "read"
  /\ call' = Idle
  /\ UNCHANGED <<pipe, closed, asked, cur>>

(* A seeded fault: the loop ends at the close, whatever is in the pipe.    *)
StopsAtClose ==
  /\ pc = "read" /\ closed
  /\ pc' = "stopped"
  /\ UNCHANGED <<pipe, closed, asked, cur, call, answers>>

Stop ==
  /\ pc = "read" /\ pipe = <<>> /\ closed
  /\ pc' = "stopped"
  /\ UNCHANGED <<pipe, closed, asked, cur, call, answers>>

Proxy == ReadAndRefuse \/ ReadAndCall \/ DeviceAnswers \/ Stop

Next ==
  \/ \E req \in Requests : Ask(req)
  \/ CloseStdin
  \/ Proxy

(* The process runs and the ioctl returns.                                 *)
Spec == Init /\ [][Next]_vars /\ WF_vars(Proxy)

-----------------------------------------------------------------------------
(* Properties.                                                             *)

Codes == {"empty_request", "invalid_json", "invalid_id", "invalid_request",
          "unknown_method", "missing_public_key", "invalid_hex", "line_too_large",
          "public_key_too_large", "nonce_too_large", "user_data_too_large",
          "backend_error"}

TypeOK ==
  /\ pipe \in Seq(Requests) /\ asked \in Seq(Requests) /\ Len(asked) <= MaxRequests
  /\ pc \in {"read", "device", "stopped"}
  /\ \A k \in DOMAIN answers : answers[k].ok <=> answers[k].code = ""

(* What the k-th line asks for is what the k-th answer answers: the id is  *)
(* the request's own if it could be read and is valid, an empty or zero    *)
(* one otherwise; success carries what the method asks for; an error is    *)
(* one token of the protocol, so that a legacy line keeps its three words. *)
Matches(req, answer) ==
  /\ answer.id = IF req.form \in {"json", "legacy"} /\ ValidNsmID(req.id) THEN req.id
                 ELSE IF IsJSON(req) THEN "" ELSE "0"
  /\ answer.ok => /\ req.method = "ATT" => answer.data = <<"Attestation", "bytes">>
                  /\ req.method = "RND" => answer.data = <<"GetRandom", "bytes">>
  /\ ~ answer.ok => answer.code \in Codes

InDevice == IF pc = "device" THEN 1 ELSE 0

AnswersInOrder ==
  /\ Len(answers) + InDevice + Len(pipe) = Len(asked)
  /\ \A k \in DOMAIN answers : Matches(asked[k], answers[k])

(* What makes it inductive: stdin holds the lines not read yet, in their   *)
(* order, and the device has the call of the first line that is not        *)
(* answered.                                                               *)
Replies == [id : {"", "0"} \cup {req.id : req \in Requests}, ok : BOOLEAN,
            code : Codes \cup {""},
            data : {<<>>, <<"Attestation", "bytes">>, <<"GetRandom", "bytes">>}]

PipeIsTheRest == \A k \in DOMAIN pipe : pipe[k] = asked[Len(answers) + InDevice + k]

CallIsNext ==
  pc = "device" =>
    /\ call = Handle(asked[Len(answers) + 1]) /\ call.code = ""
    /\ call.method = "ATT" => FieldError(call.args) = ""
    /\ ~ TooLargeForDevice(call.method, call.args)

ProxyInv ==
  /\ TypeOK /\ answers \in Seq(Replies)
  /\ PipeIsTheRest /\ CallIsNext /\ AnswersInOrder

(* The device only sees requests it can take: a key, no field over its     *)
(* limit, and the encoded whole within the device's request buffer, which  *)
(* three legal fields together can exceed.                                 *)
DeviceSeesValid ==
  pc = "device" /\ call.method = "ATT" =>
    /\ call.args[1].len \in 1 .. FieldMax
    /\ \A k \in 2 .. 3 : call.args[k].len <= FieldMax
    /\ RequestSize(call.args) <= RequestMax

(* The two protocols are one: a request that both can say is decided the   *)
(* same way, with the same code or the same call, in JSON and in words.    *)
(* (A dash is how words leave out the nonce or the user data.)             *)
InJSON(req) ==
  JSON(req.id, req.method,
       [k \in 1 .. 3 |-> IF k > Len(req.args) THEN Absent
                         ELSE IF k > 1 /\ req.method = "ATT" THEN Undash(req.args[k])
                         ELSE req.args[k]])

EncodingsAgree == \A k \in DOMAIN asked :
  LET req == asked[k]
  IN  /\ req.form = "legacy" /\ req.method # "" /\ ValidNsmID(req.id)
      /\ req.method = "ATT" => Len(req.args) \in {0, 1, 3}
      => Handle(req) = Handle(InJSON(req))

(* Every line is answered, also those still in the pipe when the client    *)
(* closes it, and the proxy ends when they are.                            *)
EveryLineAnswered ==
  /\ \A k \in 1 .. MaxRequests : Len(asked) >= k ~> Len(answers) >= k
  /\ closed ~> pc = "stopped"
=============================================================================
