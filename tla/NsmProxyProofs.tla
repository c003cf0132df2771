--------------------------- MODULE NsmProxyProofs ---------------------------
(***************************************************************************)
(* Proofs about NsmProxy, for any requests the decoders can return, any    *)
(* responses of the device and any limits: every answer is the one to its  *)
(* line, the device only gets what it can take, and the two encodings of a *)
(* request are decided alike.                                              *)
(***************************************************************************)
EXTENDS NsmProxy, SequenceTheorems, TLAPS

(* What a handler decides: an id that is the request's own or none, a code *)
(* of the protocol, and a call only of a method the device has, with three *)
(* fields for an attestation.                                              *)
Decides(d, req, none) ==
  /\ d.id = IF ValidNsmID(req.id) THEN req.id ELSE none
  /\ d.code \in Codes \cup {""}
  /\ d.code = "" => /\ ValidNsmID(req.id)
                    /\ d.method = req.method /\ d.method \in {"ATT", "RND"}
                    /\ d.method = "ATT" => d.args \in [1 .. 3 -> Fields]

(* HandleJSON does.                                                        *)
LEMMA HandleJSONDecides ==
  ASSUME NEW req, req.form = "json", req.args \in [1 .. 3 -> Fields]
  PROVE  Decides(HandleJSON(req), req, "")
BY DEF Decides, HandleJSON, Refuse, Call, Codes

(* HandleLegacy does, whatever the number of its fields.                   *)
LEMMA HandleLegacyDecides ==
  ASSUME NEW req, req.form = "legacy", req.args \in Seq(Fields)
  PROVE  Decides(HandleLegacy(req), req, "0")
<1> DEFINE n == Len(req.args)
           full == [k \in 1 .. 3 |-> IF k <= n THEN Undash(req.args[k]) ELSE Absent]
<1>1. full \in [1 .. 3 -> Fields]
  <2>1. Absent \in Fields /\ \A f \in Fields : Undash(f) \in Fields
    BY DEF Undash, Absent, Fields
  <2> QED
    BY <2>1
<1>2. \/ HandleLegacy(req) = Refuse("0", "invalid_id") /\ ~ ValidNsmID(req.id)
      \/ \E code \in Codes : HandleLegacy(req) = Refuse(req.id, code) /\ ValidNsmID(req.id)
      \/ HandleLegacy(req) = Call(req.id, "ATT", full) /\ ValidNsmID(req.id) /\ req.method = "ATT"
      \/ HandleLegacy(req) = Call(req.id, "RND", <<>>) /\ ValidNsmID(req.id) /\ req.method = "RND"
  <2> HIDE DEF full
  <2> QED
    BY DEF HandleLegacy, Codes, full
<1> HIDE DEF full
<1>3. ~ ValidNsmID(req.id) => Decides(Refuse("0", "invalid_id"), req, "0")
  BY DEF Decides, Refuse, Codes
<1>4. ASSUME NEW code \in Codes
      PROVE  ValidNsmID(req.id) => Decides(Refuse(req.id, code), req, "0")
  BY DEF Decides, Refuse, Codes
<1>5. ValidNsmID(req.id) /\ req.method = "ATT" => Decides(Call(req.id, "ATT", full), req, "0")
  BY <1>1 DEF Decides, Call
<1>6. ValidNsmID(req.id) /\ req.method = "RND" => Decides(Call(req.id, "RND", <<>>), req, "0")
  BY DEF Decides, Call
<1> QED
  BY <1>2, <1>3, <1>4, <1>5, <1>6

(* So does Handle, for a line of any form; only a request that was read    *)
(* leads to a call.                                                        *)
LEMMA HandleDecides ==
  ASSUME NEW req \in Requests
  PROVE  /\ req.form \in {"json", "legacy"} =>
              Decides(Handle(req), req, IF IsJSON(req) THEN "" ELSE "0")
         /\ req.form \notin {"json", "legacy"} =>
              Handle(req).id = (IF IsJSON(req) THEN "" ELSE "0") /\ Handle(req).code \in Codes
<1>1. CASE req.form = "json"
  <2>1. Handle(req) = HandleJSON(req) /\ IsJSON(req)
    BY <1>1 DEF Handle, IsJSON
  <2> QED
    BY <1>1, <2>1, HandleJSONDecides, RequestsAssumption
<1>2. CASE req.form = "legacy"
  <2>1. Handle(req) = HandleLegacy(req) /\ ~ IsJSON(req)
    BY <1>2 DEF Handle, IsJSON
  <2> QED
    BY <1>2, <2>1, HandleLegacyDecides, RequestsAssumption
<1>3. CASE req.form \in {"invalidJSON", "longJSON", "longLegacy", "blank"}
  BY <1>3 DEF Handle, IsJSON, Refuse, Codes
<1> QED
  BY <1>1, <1>2, <1>3, RequestsAssumption

(* A request that both encodings can say.                                  *)
SayableInBoth(req) ==
  /\ req.form = "legacy" /\ req.method # "" /\ ValidNsmID(req.id)
  /\ req.method = "ATT" => Len(req.args) \in {0, 1, 3}

(* Both say it to the same effect.                                         *)
LEMMA SameDecision ==
  ASSUME NEW req \in Requests, SayableInBoth(req)
  PROVE  Handle(req) = Handle(InJSON(req))
<1> DEFINE n == Len(req.args)
           j == InJSON(req)
<1>1. /\ req.args \in Seq(Fields) /\ n \in Nat
      /\ \A k \in 1 .. n : req.args[k].kind # "absent"
  <2>1. req.args \in Seq(Fields) /\ \A k \in DOMAIN req.args : req.args[k].kind # "absent"
    BY RequestsAssumption DEF SayableInBoth
  <2>2. DOMAIN req.args = 1 .. n /\ n \in Nat
    BY <2>1, LenProperties
  <2> QED
    BY <2>1, <2>2
<1>2. /\ j.form = "json" /\ j.id = req.id /\ j.method = req.method
      /\ DOMAIN j.args = 1 .. 3
      /\ \A k \in 1 .. 3 : j.args[k] = IF k > n THEN Absent
                                       ELSE IF k > 1 /\ req.method = "ATT" THEN Undash(req.args[k])
                                       ELSE req.args[k]
  BY DEF InJSON, JSON
<1>3. Handle(req) = HandleLegacy(req) /\ Handle(j) = HandleJSON(j)
  BY <1>2 DEF Handle, SayableInBoth
<1>0. j = InJSON(req)
  OBVIOUS
<1> HIDE DEF j
<1>4. ValidNsmID(j.id) /\ ValidNsmID(req.id)
  BY <1>2 DEF SayableInBoth
<1>5. CASE req.method = "ATT" /\ n = 0
  <2>1. j.args[1] = Absent
    BY <1>2, <1>5
  <2>2. HandleLegacy(req) = Refuse(req.id, "missing_public_key")
    BY <1>5 DEF HandleLegacy, SayableInBoth
  <2>3. HandleJSON(j) = Refuse(req.id, "missing_public_key")
    BY <1>2, <1>4, <1>5, <2>1 DEF HandleJSON
  <2> QED
    BY <1>0, <1>3, <2>2, <2>3
<1>6. CASE req.method = "ATT" /\ n \in {1, 3}
  <2>1. j.args[1] = req.args[1] /\ j.args[1] # Absent
    <3>1. j.args[1] = req.args[1]
      BY <1>2, <1>6
    <3>2. req.args[1].kind # "absent" /\ Absent.kind = "absent"
      BY <1>1, <1>6 DEF Absent
    <3> QED
      BY <3>1, <3>2
  <2>2. DecodesRequired(j.args[1]) <=> DecodesRequired(req.args[1])
    BY <2>1
  <2>3. \A k \in 2 .. n : DecodesOptional(j.args[k]) <=> DecodesOptionalLegacy(req.args[k])
    BY <1>1, <1>2, <1>6 DEF DecodesOptional, DecodesOptionalLegacy, Undash, Absent
  <2>4. \A k \in 2 .. 3 : k > n => DecodesOptional(j.args[k])
    BY <1>2, <1>6 DEF DecodesOptional, Absent
  <2>5. (\E k \in 2 .. 3 : ~ DecodesOptional(j.args[k]))
          <=> (\E k \in 2 .. n : ~ DecodesOptionalLegacy(req.args[k]))
    BY <1>6, <2>3, <2>4
  <2>6. CASE ~ DecodesRequired(req.args[1]) \/ \E k \in 2 .. n : ~ DecodesOptionalLegacy(req.args[k])
    <3>1. HandleLegacy(req) = Refuse(req.id, "invalid_hex")
      BY <1>6, <2>6 DEF HandleLegacy, SayableInBoth
    <3>2. HandleJSON(j) = Refuse(req.id, "invalid_hex")
      BY <1>2, <1>4, <1>6, <2>1, <2>2, <2>5, <2>6 DEF HandleJSON
    <3> QED
      BY <1>0, <1>3, <3>1, <3>2
  <2>7. CASE DecodesRequired(req.args[1]) /\ ~ \E k \in 2 .. n : ~ DecodesOptionalLegacy(req.args[k])
    <3> DEFINE full == [k \in 1 .. 3 |-> IF k <= n THEN Undash(req.args[k]) ELSE Absent]
    <3>1. j.args = full
      <4>1. Undash(req.args[1]) = req.args[1]
        BY <2>7 DEF DecodesRequired, Undash
      <4>2. j.args = [k \in 1 .. 3 |-> j.args[k]]
        BY DEF InJSON, JSON, j
      <4>3. \A k \in 1 .. 3 : j.args[k] = IF k <= n THEN Undash(req.args[k]) ELSE Absent
        BY <1>1, <1>2, <1>6, <4>1
      <4> QED
        BY <4>2, <4>3
    <3>2. HandleLegacy(req) = Call(req.id, "ATT", full)
      <4> HIDE DEF full
      <4> QED
        BY <1>6, <2>7 DEF HandleLegacy, SayableInBoth, full
    <3>3. HandleJSON(j) = Call(req.id, "ATT", j.args)
      BY <1>2, <1>4, <1>6, <2>1, <2>2, <2>5, <2>7 DEF HandleJSON
    <3> QED
      BY <1>0, <1>3, <3>1, <3>2, <3>3
  <2> QED
    BY <2>6, <2>7
<1>7. CASE req.method = "RND" /\ n = 0
  <2>1. \A k \in DOMAIN j.args : j.args[k] = Absent
    BY <1>2, <1>7
  <2>2. HandleLegacy(req) = Call(req.id, "RND", <<>>)
    BY <1>7 DEF HandleLegacy, SayableInBoth
  <2>3. HandleJSON(j) = Call(req.id, "RND", <<>>)
    BY <1>2, <1>4, <1>7, <2>1 DEF HandleJSON
  <2> QED
    BY <1>0, <1>3, <2>2, <2>3
<1>8. CASE req.method = "RND" /\ n > 0
  <2>1. 1 \in DOMAIN j.args /\ j.args[1] # Absent
    <3>1. j.args[1] = req.args[1]
      BY <1>1, <1>2, <1>8
    <3>2. req.args[1].kind # "absent" /\ Absent.kind = "absent"
      BY <1>1, <1>8 DEF Absent
    <3>3. 1 \in DOMAIN j.args
      <4>1. DOMAIN j.args = 1 .. 3 /\ 1 \in 1 .. 3
        BY <1>2
      <4> QED
        BY <4>1, Zenon
    <3> QED
      BY <3>1, <3>2, <3>3
  <2>2. HandleLegacy(req) = Refuse(req.id, "invalid_request")
    BY <1>8 DEF HandleLegacy, SayableInBoth
  <2>3. HandleJSON(j) = Refuse(req.id, "invalid_request")
    BY <1>2, <1>4, <1>8, <2>1 DEF HandleJSON
  <2> QED
    BY <1>0, <1>3, <2>2, <2>3
<1>9. CASE req.method \notin {"ATT", "RND"}
  <2>1. HandleLegacy(req) = Refuse(req.id, "unknown_method")
    BY <1>9 DEF HandleLegacy, SayableInBoth
  <2>2. HandleJSON(j) = Refuse(req.id, "unknown_method")
    BY <1>2, <1>4, <1>9 DEF HandleJSON
  <2> QED
    BY <1>0, <1>3, <2>1, <2>2
<1>10. \/ req.method = "ATT" /\ n \in {0, 1, 3}
       \/ req.method = "RND" /\ (n = 0 \/ n > 0)
       \/ req.method \notin {"ATT", "RND"}
  <2>1. \A m \in Nat : m = 0 \/ m > 0
    OBVIOUS
  <2>2. n = 0 \/ n > 0
    BY <1>1, <2>1, Zenon
  <2> QED
    BY <2>2 DEF SayableInBoth
<1> QED
  BY <1>5, <1>6, <1>7, <1>8, <1>9, <1>10

(* An answer to the line req.                                              *)
Fits(req, a) == a \in Replies /\ Matches(req, a) /\ (a.ok <=> a.code = "")

(* An error line with the id of the decision is an answer to its request.  *)
LEMMA ErrFits ==
  ASSUME NEW req \in Requests, NEW code \in Codes
  PROVE  Fits(req, Err(Handle(req).id, code))
<1> DEFINE a == Err(Handle(req).id, code)
<1>1. a.id = Handle(req).id /\ a.ok = FALSE /\ a.code = code /\ a.data = <<>> /\ code # ""
  BY DEF Err, Codes
<1>2. a.id = IF req.form \in {"json", "legacy"} /\ ValidNsmID(req.id) THEN req.id
             ELSE IF IsJSON(req) THEN "" ELSE "0"
  BY <1>1, HandleDecides DEF Decides
<1>3. a.id \in {"", "0"} \cup {r.id : r \in Requests}
  BY <1>2
<1>4. a \in Replies
  BY <1>1, <1>3 DEF Err, Replies
<1> QED
  BY <1>1, <1>2, <1>4 DEF Matches, Fits

(* Each answer is added behind those to the lines before.                  *)
LEMMA Answered ==
  ASSUME ProxyInv, NEW a, Fits(asked[Len(answers) + 1], a),
         answers' = Append(answers, a), asked' = asked
  PROVE  /\ answers' \in Seq(Replies) /\ Len(answers') = Len(answers) + 1
         /\ \A k \in DOMAIN answers' : Fits(asked'[k], answers'[k])
<1>1. /\ answers \in Seq(Replies)
      /\ \A k \in DOMAIN answers : Fits(asked[k], answers[k])
  <2>1. answers \in Seq(Replies)
    BY DEF ProxyInv
  <2>2. \A k \in DOMAIN answers : answers[k] \in Replies
    BY <2>1, ElementOfSeq, LenProperties
  <2> QED
    BY <2>1, <2>2, Zenon DEF ProxyInv, TypeOK, AnswersInOrder, Fits
<1>2. /\ answers' \in Seq(Replies) /\ Len(answers') = Len(answers) + 1
      /\ \A k \in 1 .. Len(answers) : answers'[k] = answers[k]
      /\ answers'[Len(answers) + 1] = a
  BY <1>1, AppendProperties DEF Fits
<1>3. DOMAIN answers = 1 .. Len(answers) /\ DOMAIN answers' = 1 .. (Len(answers) + 1)
      /\ Len(answers) \in Nat
  BY <1>1, <1>2, LenProperties
<1> QED
  BY <1>1, <1>2, <1>3

(* The line that is read next is the first without an answer.              *)
LEMMA HeadIsNext ==
  ASSUME ProxyInv, pc = "read", pipe # <<>>
  PROVE  /\ Head(pipe) = asked[Len(answers) + 1] /\ Head(pipe) \in Requests
         /\ Tail(pipe) \in Seq(Requests) /\ Len(Tail(pipe)) = Len(pipe) - 1
         /\ \A k \in DOMAIN Tail(pipe) : Tail(pipe)[k] = asked[Len(answers) + 1 + k]
<1>1. /\ pipe \in Seq(Requests) /\ Len(answers) \in Nat
      /\ \A k \in DOMAIN pipe : pipe[k] = asked[Len(answers) + k]
  <2>1. pipe \in Seq(Requests) /\ answers \in Seq(Replies)
    BY DEF ProxyInv, TypeOK
  <2>2. Len(answers) \in Nat
    BY <2>1, LenProperties
  <2>3. \A k \in DOMAIN pipe : pipe[k] = asked[Len(answers) + 0 + k]
    BY DEF ProxyInv, PipeIsTheRest, InDevice
  <2>4. DOMAIN pipe = 1 .. Len(pipe) /\ Len(pipe) \in Nat
    BY <2>1, LenProperties
  <2> QED
    BY <2>1, <2>2, <2>3, <2>4
<1>2. /\ Head(pipe) = pipe[1] /\ Head(pipe) \in Requests
      /\ Tail(pipe) \in Seq(Requests) /\ Len(Tail(pipe)) = Len(pipe) - 1
      /\ \A k \in 1 .. Len(Tail(pipe)) : Tail(pipe)[k] = pipe[k + 1]
  BY <1>1, HeadTailProperties
<1>3. /\ DOMAIN pipe = 1 .. Len(pipe) /\ Len(pipe) \in Nat \ {0}
      /\ DOMAIN Tail(pipe) = 1 .. (Len(pipe) - 1)
  BY <1>1, <1>2, LenProperties, EmptySeq
<1> QED
  BY <1>1, <1>2, <1>3

(* Nothing has been asked.                                                 *)
LEMMA InitInv == Init => ProxyInv
<1> SUFFICES ASSUME Init PROVE ProxyInv
  OBVIOUS
<1>1. pipe = <<>> /\ asked = <<>> /\ answers = <<>> /\ pc = "read"
  BY Zenon DEF Init
<1>2. pipe \in Seq(Requests) /\ asked \in Seq(Requests) /\ answers \in Seq(Replies)
  BY <1>1
<1>3. Len(pipe) = 0 /\ Len(asked) = 0 /\ Len(answers) = 0 /\ InDevice = 0
  BY <1>1 DEF InDevice
<1>4. DOMAIN pipe = {} /\ DOMAIN answers = {}
  BY <1>1
<1> QED
  BY <1>1, <1>2, <1>3, <1>4, NsmProxyAssumption
     DEF ProxyInv, TypeOK, AnswersInOrder, PipeIsTheRest, CallIsNext

(* What the invariant says, in the form the steps need.                    *)
LEMMA InvFacts ==
  ASSUME ProxyInv
  PROVE  /\ pipe \in Seq(Requests) /\ asked \in Seq(Requests) /\ answers \in Seq(Replies)
         /\ Len(pipe) \in Nat /\ Len(asked) \in Nat /\ Len(answers) \in Nat
         /\ DOMAIN pipe = 1 .. Len(pipe) /\ DOMAIN asked = 1 .. Len(asked)
         /\ DOMAIN answers = 1 .. Len(answers)
         /\ InDevice \in {0, 1} /\ Len(answers) + InDevice + Len(pipe) = Len(asked)
         /\ Len(asked) <= MaxRequests
         /\ \A k \in DOMAIN answers : Fits(asked[k], answers[k])
         /\ PipeIsTheRest /\ CallIsNext
<1>1. pipe \in Seq(Requests) /\ asked \in Seq(Requests) /\ answers \in Seq(Replies)
  BY DEF ProxyInv, TypeOK
<1>2. \A k \in DOMAIN answers : answers[k] \in Replies
  BY <1>1, ElementOfSeq, LenProperties
<1>3. \A k \in DOMAIN answers : Fits(asked[k], answers[k])
  BY <1>2, Zenon DEF ProxyInv, TypeOK, AnswersInOrder, Fits
<1>4. /\ Len(answers) + InDevice + Len(pipe) = Len(asked) /\ Len(asked) <= MaxRequests
      /\ PipeIsTheRest /\ CallIsNext
  BY Zenon DEF ProxyInv, TypeOK, AnswersInOrder
<1>5. InDevice \in {0, 1}
  BY DEF InDevice
<1> QED
  BY <1>1, <1>3, <1>4, <1>5, LenProperties

(* The client adds a line behind those in stdin, and to what it has asked. *)
LEMMA AskInv ==
  ASSUME ProxyInv, NEW req \in Requests, Ask(req)
  PROVE  ProxyInv'
<1> USE InvFacts
<1>1. /\ pipe' = Append(pipe, req) /\ asked' = Append(asked, req) /\ Len(asked) < MaxRequests
      /\ UNCHANGED <<closed, pc, cur, call, answers>>
  BY Zenon DEF Ask
<1>2. /\ pipe' \in Seq(Requests) /\ Len(pipe') = Len(pipe) + 1
      /\ \A k \in 1 .. Len(pipe) : pipe'[k] = pipe[k]
      /\ pipe'[Len(pipe) + 1] = req
  BY <1>1, AppendProperties
<1>3. /\ asked' \in Seq(Requests) /\ Len(asked') = Len(asked) + 1
      /\ \A k \in 1 .. Len(asked) : asked'[k] = asked[k]
      /\ asked'[Len(asked) + 1] = req
  BY <1>1, AppendProperties
<1>4. DOMAIN pipe' = 1 .. (Len(pipe) + 1) /\ InDevice' = InDevice
  BY <1>1, <1>2, LenProperties DEF InDevice
<1>5. \A k \in DOMAIN answers' : Fits(asked'[k], answers'[k])
  BY <1>1, <1>3
<1>6. PipeIsTheRest'
  <2>1. ASSUME NEW k \in DOMAIN pipe'
        PROVE  pipe'[k] = asked'[Len(answers) + InDevice + k]
    <3>1. CASE k \in DOMAIN pipe
      <4>1. pipe[k] = asked[Len(answers) + InDevice + k]
        BY <3>1, Zenon DEF PipeIsTheRest
      <4>2. Len(answers) + InDevice + k \in 1 .. Len(asked) /\ k \in 1 .. Len(pipe)
        BY <3>1
      <4> QED
        BY <1>2, <1>3, <4>1, <4>2
    <3>2. CASE k = Len(pipe) + 1
      BY <1>2, <1>3, <3>2
    <3> QED
      BY <1>4, <3>1, <3>2
  <2> QED
    BY <1>1, <1>4, <2>1, Zenon DEF PipeIsTheRest
<1>7. CallIsNext'
  <2>1. pc = "device" => Len(answers) + 1 \in 1 .. Len(asked)
    BY DEF InDevice
  <2>2. pc = "device" => asked'[Len(answers) + 1] = asked[Len(answers) + 1]
    BY <1>3, <2>1
  <2> QED
    BY <1>1, <2>2, Zenon DEF CallIsNext
<1>8. Len(answers') + InDevice' + Len(pipe') = Len(asked') /\ Len(asked') <= MaxRequests
  BY <1>1, <1>2, <1>3, <1>4, NsmProxyAssumption
<1> QED
  BY <1>1, <1>2, <1>3, <1>5, <1>6, <1>7, <1>8, Zenon DEF ProxyInv, TypeOK, AnswersInOrder, Fits

(* A refused line: its answer is an error with a code of the protocol.     *)
LEMMA RefuseInv ==
  ASSUME ProxyInv, ReadAndRefuse
  PROVE  ProxyInv'
<1> USE InvFacts
<1> DEFINE req == Head(pipe)
           d == Handle(req)
<1>1. /\ pc = "read" /\ pipe # <<>> /\ pipe' = Tail(pipe)
      /\ UNCHANGED <<closed, asked, pc, call>>
  BY Zenon DEF ReadAndRefuse
<1>2. /\ req = asked[Len(answers) + 1] /\ req \in Requests
      /\ Tail(pipe) \in Seq(Requests) /\ Len(Tail(pipe)) = Len(pipe) - 1
      /\ \A k \in DOMAIN Tail(pipe) : Tail(pipe)[k] = asked[Len(answers) + 1 + k]
  BY <1>1, HeadIsNext
<1> HIDE DEF req
<1>3. PICK code \in Codes : answers' = Append(answers, Err(d.id, code))
  <2>1. d.code \in Codes \cup {""}
    BY <1>2, HandleDecides DEF Decides
  <2>2. ASSUME FieldError(d.args) # "" PROVE ProtocolError(FieldError(d.args)) \in Codes
    BY <2>2 DEF FieldError, ProtocolError, Codes, Sentence
  <2>3. ProtocolError(Sentence) \in Codes
    BY DEF ProtocolError, Codes
  <2>4. \/ d.code # "" /\ answers' = Append(answers, Err(d.id, d.code))
        \/ /\ FieldError(d.args) # ""
           /\ answers' = Append(answers, Err(d.id, ProtocolError(FieldError(d.args))))
        \/ answers' = Append(answers, Err(d.id, ProtocolError(Sentence)))
    BY Zenon DEF ReadAndRefuse, req
  <2> QED
    BY <2>1, <2>2, <2>3, <2>4
<1>4. Fits(asked[Len(answers) + 1], Err(d.id, code))
  BY <1>2, ErrFits, Zenon
<1>5. /\ answers' \in Seq(Replies) /\ Len(answers') = Len(answers) + 1
      /\ \A k \in DOMAIN answers' : Fits(asked'[k], answers'[k])
  BY <1>1, <1>3, <1>4, Answered
<1>6. InDevice' = 0 /\ InDevice = 0
  BY <1>1 DEF InDevice
<1>7. Len(answers') + InDevice' + Len(pipe') = Len(asked')
  BY <1>1, <1>2, <1>5, <1>6
<1>8. PipeIsTheRest'
  <2>1. ASSUME NEW k \in DOMAIN pipe'
        PROVE  pipe'[k] = asked'[Len(answers') + InDevice' + k]
    <3>1. pipe'[k] = asked[Len(answers) + 1 + k] /\ k \in Nat
      BY <1>1, <1>2, LenProperties
    <3>2. Len(answers') + InDevice' + k = Len(answers) + 1 + k
      BY <1>5, <1>6, <3>1
    <3> QED
      BY <1>1, <3>1, <3>2
  <2> QED
    BY <2>1, Zenon DEF PipeIsTheRest
<1>9. CallIsNext'
  BY <1>1 DEF CallIsNext
<1> QED
  BY <1>1, <1>2, <1>5, <1>7, <1>8, <1>9, Zenon DEF ProxyInv, TypeOK, AnswersInOrder, Fits

(* An accepted line leaves stdin for the device; its answer is still due.  *)
LEMMA CallInv ==
  ASSUME ProxyInv, ReadAndCall
  PROVE  ProxyInv'
<1> USE InvFacts
<1>1. /\ pc = "read" /\ pipe # <<>> /\ pipe' = Tail(pipe) /\ pc' = "device"
      /\ UNCHANGED <<closed, asked, answers>>
      /\ call' = Handle(Head(pipe)) /\ call'.code = ""
      /\ call'.method = "ATT" => FieldError(call'.args) = ""
      /\ ~ TooLargeForDevice(call'.method, call'.args)
  BY Zenon DEF ReadAndCall
<1>2. /\ Head(pipe) = asked[Len(answers) + 1] /\ Head(pipe) \in Requests
      /\ Tail(pipe) \in Seq(Requests) /\ Len(Tail(pipe)) = Len(pipe) - 1
      /\ \A k \in DOMAIN Tail(pipe) : Tail(pipe)[k] = asked[Len(answers) + 1 + k]
  BY <1>1, HeadIsNext
<1>3. InDevice' = 1 /\ InDevice = 0
  BY <1>1 DEF InDevice
<1>4. Len(answers') + InDevice' + Len(pipe') = Len(asked')
  <2>1. Len(answers') = Len(answers) /\ Len(asked') = Len(asked) /\ Len(pipe') = Len(pipe) - 1
    BY <1>1, <1>2, Zenon
  <2>2. /\ Len(pipe) \in Nat /\ Len(asked) \in Nat /\ Len(answers) \in Nat
        /\ Len(answers) + InDevice + Len(pipe) = Len(asked)
    BY InvFacts, Zenon
  <2>3. \A m, n, k \in Nat : m + 0 + n = k => m + 1 + (n - 1) = k
    OBVIOUS
  <2>4. Len(answers) + 1 + (Len(pipe) - 1) = Len(asked)
    BY <1>3, <2>2, <2>3
  <2> QED
    BY <1>3, <2>1, <2>4, Zenon
<1>5. PipeIsTheRest'
  BY <1>1, <1>2, <1>3, Zenon DEF PipeIsTheRest
<1>6. CallIsNext'
  BY <1>1, <1>2, Zenon DEF CallIsNext
<1> QED
  BY <1>1, <1>2, <1>4, <1>5, <1>6, Zenon DEF ProxyInv, TypeOK, AnswersInOrder, Fits

(* The answer of the device: success carries what the method asks for.     *)
LEMMA DeviceInv ==
  ASSUME ProxyInv, DeviceAnswers
  PROVE  ProxyInv'
<1> USE InvFacts
<1> DEFINE req == asked[Len(answers) + 1]
<1>1. /\ pc = "device" /\ pc' = "read"
      /\ UNCHANGED <<pipe, closed, asked>>
  BY Zenon DEF DeviceAnswers
<1>2. InDevice = 1 /\ InDevice' = 0
  BY <1>1 DEF InDevice
<1>3. req \in Requests
  BY <1>2, ElementOfSeq
<1>4. call = Handle(req) /\ call.code = ""
  BY <1>1, Zenon DEF CallIsNext
<1>5. /\ req.form \in {"json", "legacy"} /\ ValidNsmID(req.id)
      /\ call.id = req.id /\ call.method = req.method /\ call.method \in {"ATT", "RND"}
  BY <1>3, <1>4, HandleDecides DEF Decides, Codes
<1> HIDE DEF req
<1>6. PICK a : Fits(req, a) /\ answers' = Append(answers, a)
  <2>1. PICK resp \in Responses :
          answers' = Append(answers,
             IF RightVariant(call.method, DecodeNsmResponse(resp)[1])
             THEN OK(call.id, DecodeNsmResponse(resp))
             ELSE Err(call.id, ProtocolError(Sentence)))
    BY Zenon DEF DeviceAnswers
  <2> DEFINE decoded == DecodeNsmResponse(resp)
  <2>2. CASE RightVariant(call.method, decoded[1])
    <3>1. decoded = NoResponse \/ \E key : decoded = <<key, "bytes">>
      BY Zenon DEF DecodeNsmResponse
    <3>2. decoded = <<IF req.method = "ATT" THEN "Attestation" ELSE "GetRandom", "bytes">>
      <4>1. decoded[1] = IF req.method = "ATT" THEN "Attestation" ELSE "GetRandom"
        BY <1>5, <2>2, Zenon DEF RightVariant
      <4> HIDE DEF decoded
      <4>2. decoded # NoResponse
        <5>1. NoResponse[1] = ""
          BY DEF NoResponse
        <5>2. decoded[1] # ""
          BY <4>1
        <5> QED
          BY <5>1, <5>2
      <4>3. PICK key : decoded = <<key, "bytes">>
        BY <3>1, <4>2
      <4>4. decoded[1] = key
        BY <4>3
      <4> QED
        BY <4>1, <4>3, <4>4, Zenon
    <3>3. Fits(req, OK(call.id, decoded))
      BY <1>3, <1>5, <3>2 DEF Fits, OK, Replies, Matches
    <3> QED
      BY <2>1, <2>2, <3>3
  <2>3. CASE ~ RightVariant(call.method, decoded[1])
    <3>1. ProtocolError(Sentence) \in Codes
      BY DEF ProtocolError, Codes
    <3>2. Fits(req, Err(call.id, ProtocolError(Sentence)))
      BY <1>3, <1>4, <3>1, ErrFits
    <3> QED
      BY <2>1, <2>3, <3>2
  <2> QED
    BY <2>2, <2>3
<1>7. /\ answers' \in Seq(Replies) /\ Len(answers') = Len(answers) + 1
      /\ \A k \in DOMAIN answers' : Fits(asked'[k], answers'[k])
  BY <1>1, <1>6, Answered DEF req
<1>8. Len(answers') + InDevice' = Len(answers) + InDevice
  BY <1>2, <1>7
<1>9. PipeIsTheRest' /\ CallIsNext' /\ Len(answers') + InDevice' + Len(pipe') = Len(asked')
  BY <1>1, <1>8, Zenon DEF PipeIsTheRest, CallIsNext
<1> QED
  BY <1>1, <1>7, <1>9, Zenon DEF ProxyInv, TypeOK, AnswersInOrder, Fits

(* The end of stdin, the end of the loop, and a stutter.                   *)
LEMMA OtherInv ==
  ASSUME ProxyInv, CloseStdin \/ Stop \/ UNCHANGED vars
  PROVE  ProxyInv'
<1>1. /\ UNCHANGED <<pipe, asked, call, answers>>
      /\ pc' = pc \/ (pc = "read" /\ pc' = "stopped")
  BY Zenon DEF CloseStdin, Stop, vars
<1>2. InDevice' = InDevice /\ (pc' = "device" => pc = "device")
      /\ pc' \in {"read", "device", "stopped"}
  BY <1>1 DEF InDevice, ProxyInv, TypeOK
<1> QED
  BY <1>1, <1>2, InvFacts, Zenon
     DEF ProxyInv, TypeOK, AnswersInOrder, PipeIsTheRest, CallIsNext

(* Whatever is asked, and whatever the device returns: the invariant holds *)
(* in every state.                                                         *)
THEOREM Invariance == Spec => []ProxyInv
<1>1. ProxyInv /\ [Next]_vars => ProxyInv'
  <2> SUFFICES ASSUME ProxyInv, [Next]_vars PROVE ProxyInv'
    OBVIOUS
  <2>1. ASSUME NEW req \in Requests, Ask(req) PROVE ProxyInv'
    BY <2>1, AskInv
  <2>2. CASE ReadAndRefuse
    BY <2>2, RefuseInv
  <2>3. CASE ReadAndCall
    BY <2>3, CallInv
  <2>4. CASE DeviceAnswers
    BY <2>4, DeviceInv
  <2>5. CASE CloseStdin \/ Stop \/ UNCHANGED vars
    BY <2>5, OtherInv
  <2> QED
    BY <2>1, <2>2, <2>3, <2>4, <2>5 DEF Next, Proxy
<1> QED
  BY InitInv, <1>1, PTL DEF Spec

(* The variables keep their types.                                         *)
THEOREM TypeCorrect == Spec => []TypeOK
<1>1. ProxyInv => TypeOK
  BY DEF ProxyInv
<1> QED
  BY Invariance, <1>1, PTL

(* No answer is lost, doubled or swapped: the k-th is to the k-th line, in *)
(* its id, its data and its code.                                          *)
THEOREM EachAnswerToItsLine == Spec => []AnswersInOrder
<1>1. ProxyInv => AnswersInOrder
  BY DEF ProxyInv
<1> QED
  BY Invariance, <1>1, PTL

(* Nothing over a limit, and no attestation without a key, gets to the     *)
(* device.                                                                 *)
THEOREM OnlyValidCalls == Spec => []DeviceSeesValid
<1>1. ProxyInv => DeviceSeesValid
  <2> SUFFICES ASSUME ProxyInv, pc = "device", call.method = "ATT"
               PROVE  /\ call.args[1].len \in 1 .. FieldMax
                      /\ \A k \in 2 .. 3 : call.args[k].len <= FieldMax
                      /\ RequestSize(call.args) <= RequestMax
    BY DEF DeviceSeesValid
  <2> DEFINE req == asked[Len(answers) + 1]
  <2>1. req \in Requests
    BY InvFacts, ElementOfSeq DEF InDevice
  <2>2. call = Handle(req) /\ call.code = "" /\ FieldError(call.args) = ""
        /\ ~ TooLargeForDevice(call.method, call.args)
    BY InvFacts, Zenon DEF CallIsNext
  <2>3. call.args \in [1 .. 3 -> Fields]
    BY <2>1, <2>2, HandleDecides DEF Decides, Codes
  <2> HIDE DEF req
  <2>4. \A k \in 1 .. 3 : call.args[k].len \in Nat
    BY <2>3 DEF Fields
  <2>5. /\ call.args[1].len # 0 /\ ~ (call.args[1].len > FieldMax)
        /\ ~ (call.args[2].len > FieldMax) /\ ~ (call.args[3].len > FieldMax)
    BY <2>2 DEF FieldError
  <2>6. RequestSize(call.args) \in Nat
    BY <2>4 DEF RequestSize, CborBytes
  <2>7. ~ (RequestSize(call.args) > RequestMax)
    BY <2>2, Zenon DEF TooLargeForDevice
  <2> QED
    BY <2>4, <2>5, <2>6, <2>7, NsmProxyAssumption
<1> QED
  BY Invariance, <1>1, PTL

(* A request that the JSON and the legacy protocol can both say is decided *)
(* the same way in both.                                                   *)
THEOREM EncodingsDecideAlike == Spec => []EncodingsAgree
<1>1. ProxyInv => EncodingsAgree
  <2>1. ASSUME ProxyInv, NEW k \in DOMAIN asked, SayableInBoth(asked[k])
        PROVE  Handle(asked[k]) = Handle(InJSON(asked[k]))
    <3>1. asked[k] \in Requests
      BY <2>1, InvFacts, ElementOfSeq
    <3> QED
      BY <2>1, <3>1, SameDecision
  <2> QED
    BY <2>1, Zenon DEF EncodingsAgree, SayableInBoth
<1> QED
  BY Invariance, <1>1, PTL

-----------------------------------------------------------------------------
(* Why a line is answered: what EveryLineAnswered rests on.                *)

(* The proxy's way of ending loses nothing: when it has stopped, stdin is  *)
(* closed and every line that was ever sent has its answer.                *)
THEOREM StopsWithNothingOwed ==
  Spec => [](pc = "stopped" => closed /\ Len(answers) = Len(asked))
<1> DEFINE Drained == pc = "stopped" => closed /\ pipe = <<>>
<1>1. Init => Drained
  BY DEF Init
<1>2. Drained /\ [Next]_vars => Drained'
  BY DEF Next, Ask, CloseStdin, Proxy, ReadAndRefuse, ReadAndCall, DeviceAnswers, Stop, vars
<1>3. ProxyInv /\ Drained => (pc = "stopped" => closed /\ Len(answers) = Len(asked))
  <2> SUFFICES ASSUME ProxyInv, pc = "stopped", pipe = <<>>
               PROVE  Len(answers) = Len(asked)
    OBVIOUS
  <2>1. InDevice = 0 /\ Len(pipe) = 0
    BY DEF InDevice
  <2>2. Len(answers) + InDevice + Len(pipe) = Len(asked) /\ Len(answers) \in Nat
    BY DEF ProxyInv, AnswersInOrder
  <2> QED
    BY <2>1, <2>2
<1> QED
  BY <1>1, <1>2, <1>3, Invariance, PTL DEF Spec

(* The steps the proxy still has to take: two for a line that waits, one   *)
(* for the call in the device, one to stop.                                *)
Owed == (2 * Len(pipe) + InDevice) + (IF pc = "stopped" THEN 0 ELSE 1)

(* Each of its steps is one of them, so that nothing but the client keeps  *)
(* it busy: no line is read twice and no answer starts another call.       *)
THEOREM NeverBusyForNothing == Spec => [](Owed \in Nat) /\ [][Proxy => Owed' < Owed]_vars
<1>1. ProxyInv => Owed \in Nat
  <2> SUFFICES ASSUME ProxyInv PROVE Owed \in Nat
    OBVIOUS
  <2>1. Len(pipe) \in Nat /\ InDevice \in Nat
    BY LenProperties DEF ProxyInv, TypeOK, InDevice
  <2> QED
    BY <2>1 DEF Owed
<1>2. ProxyInv /\ [Next]_vars => [Proxy => Owed' < Owed]_vars
  <2> SUFFICES ASSUME ProxyInv, Proxy PROVE Owed' < Owed
    OBVIOUS
  <2>1. pipe \in Seq(Requests) /\ Len(pipe) \in Nat
    BY LenProperties DEF ProxyInv, TypeOK
  <2>2. pipe # <<>> => Len(Tail(pipe)) = Len(pipe) - 1 /\ Len(pipe) > 0
    BY <2>1
  <2>3. CASE ReadAndRefuse
    <3>1. pc = "read" /\ pc' = "read" /\ pipe # <<>> /\ pipe' = Tail(pipe)
      BY <2>3 DEF ReadAndRefuse
    <3> QED
      BY <2>1, <2>2, <3>1 DEF Owed, InDevice
  <2>4. CASE ReadAndCall
    <3>1. pc = "read" /\ pc' = "device" /\ pipe # <<>> /\ pipe' = Tail(pipe)
      BY <2>4 DEF ReadAndCall
    <3> QED
      BY <2>1, <2>2, <3>1 DEF Owed, InDevice
  <2>5. CASE DeviceAnswers
    <3>1. pc = "device" /\ pc' = "read" /\ pipe' = pipe
      BY <2>5 DEF DeviceAnswers
    <3> QED
      BY <2>1, <3>1 DEF Owed, InDevice
  <2>6. CASE Stop
    <3>1. pc = "read" /\ pc' = "stopped" /\ pipe' = pipe
      BY <2>6 DEF Stop
    <3> QED
      BY <2>1, <3>1 DEF Owed, InDevice
  <2> QED
    BY <2>3, <2>4, <2>5, <2>6 DEF Proxy
<1> QED
  BY <1>1, <1>2, Invariance, PTL DEF Spec
=============================================================================
