--------------------------- MODULE CodexProtocol ---------------------------
(* How the Codex client reads and writes the app-server protocol: the decoders
   that generate-protocol-types emits for unions and for structs that hold unions,
   the requests of the Client methods (method.go) with the decoding of their
   results (client.go), and the notification decoders (notification.go).

   The state is one call and what it returned.  JSON is kept down to what the
   decoders look at: the texts, tags and keys they switch on, lists, and Num for
   any well-typed scalar content.                                            *)
EXTENDS Naturals, Sequences, SequencesExt, TLC

P == INSTANCE CodexMessages
M == INSTANCE CodexMethods

VARIABLES cxCall,  \* the call: its operation and arguments
          cxRet    \* what it returned

cxVars == <<cxCall, cxRet>>

-----------------------------------------------------------------------------
(* JSON values.                                                              *)
Null == [k |-> "null"]
Num == [k |-> "num"]
Text(s) == [k |-> "text", text |-> s]
List(s) == [k |-> "list", items |-> s]
Obj(f) == [k |-> "object", fields |-> f]
Empty == [x \in {} |-> Null]

(* Go values: nil, a string, a scalar, an opaque jsontext.Value, a Raw union
   wrapper, a slice, a struct, or the error of the decoder.                  *)
Nil == [v |-> "nil"]
Str(s) == [v |-> "string", text |-> s]
Scalar == [v |-> "scalar"]
Opaque(j) == [v |-> "opaque", json |-> j]
Raw(j) == [v |-> "raw", json |-> j]
Items(s) == [v |-> "slice", items |-> s]
Value(f) == [v |-> "struct", fields |-> f]
Fail == [v |-> "error"]

-----------------------------------------------------------------------------
(* Types by their Go names.                                                  *)
Stem(table, m) == CHOOSE s \in DOMAIN table : table[s] = m

\* ClientRequest switches on method; a case decodes the request of that method.
ClientRequest ==
  P!Envelopes([m \in {M!RequestMethod[s] : s \in M!decodeClientRequest} |->
                 M!RequestParams[Stem(M!RequestMethod, m)]])

\* The notifications whose case decodes the envelope as the params struct of the
\* same name.  No caller reaches that decoder; it is checked for the others.
Collided == M!decodeServerNotification \ DOMAIN M!NotificationParams

ServerNotification ==
  P!Envelopes([m \in {M!NotificationMethod[s] : s \in DOMAIN M!NotificationParams} |->
                 M!NotificationParams[Stem(M!NotificationMethod, m)]])

Unions == P!Unions @@ [ClientRequest |-> ClientRequest, ServerNotification |-> ServerNotification]

\* uniqueName gives the name of an envelope a suffix when its params have that name.
EnvelopeStems ==
  LET params == {M!NotificationParams[s] : s \in DOMAIN M!NotificationParams}
  IN  {s \in DOMAIN M!NotificationParams : s \o "Notification" \notin params}
EnvelopeOf(t) == {s \in EnvelopeStems : s \o "Notification" = t}

\* The envelope struct of a notification: its params behind two fields.
Envelope(params) == P!Only([method |-> P!One("text"), params |-> P!One(params)])

StructOf(t) ==
  IF t \in DOMAIN P!Messages THEN P!Messages[t]
  ELSE IF EnvelopeOf(t) # {}
  THEN Envelope(M!NotificationParams[CHOOSE s \in EnvelopeOf(t) : TRUE])
  ELSE P!Struct([x \in {} |-> P!One("text")])

-----------------------------------------------------------------------------
(* Decoding.                                                                 *)
RECURSIVE decodeGenerated(_, _)

\* One field: absent it is the zero value; a slice takes null for nil, and one
\* element's error is the field's.
DecodeField(f, name, json) ==
  IF name \notin DOMAIN json \/ (f.many /\ json[name] = Null) THEN Nil
  ELSE IF ~f.many THEN decodeGenerated(f.of, json[name])
  ELSE IF json[name].k # "list" THEN Fail
  ELSE LET got == [i \in DOMAIN json[name].items |-> decodeGenerated(f.of, json[name].items[i])]
       IN  IF \E i \in DOMAIN got : got[i] = Fail THEN Fail ELSE Items(got)

\* UnmarshalJSONFrom, and the json package for the other structs: null leaves the
\* zero value, unknown members are dropped, the first error ends the decoding.
DecodeStruct(s, json) ==
  LET names == DOMAIN s.fields \cup s.plain
      of(n) == IF n \in s.plain THEN P!One("scalar") ELSE s.fields[n]
      got == [n \in names |-> DecodeField(of(n), n, json.fields)]
  IN  IF json = Null THEN Value([n \in names |-> Nil])
      ELSE IF json.k # "object" THEN Fail
      ELSE IF \E n \in names : got[n] = Fail THEN Fail
      ELSE Value(got)

\* The struct of an object variant, read from the same raw value.
emitUnionObjectVariantReturn(s, known, json) ==
  LET got == DecodeStruct(s, json)
  IN  IF got = Fail THEN Fail ELSE Value(known @@ got.fields)

\* The string and array variants of a union: any string, then a list, whose items
\* are decoded as the union they are, or all at once if they are strings.
emitScalarUnionDecodeBranches(u, json) ==
  LET items == [i \in DOMAIN json.items |-> decodeGenerated(u.items, json.items[i])]
      bad == \E i \in DOMAIN items : items[i] = Fail
  IN  CASE json = Null -> Str("")
        [] json.k = "text" -> Str(json.text)
        [] json.k = "list" -> IF ~bad THEN Items(items)
                              ELSE IF u.items = "text" THEN Raw(json) ELSE Fail
        [] OTHER -> Raw(json)

\* The object variants of a union: by the value of the discriminator, or by the
\* first key that is present.
emitUnionObjectDecode(u, json) ==
  LET tag == IF u.tag \in DOMAIN json.fields /\ json.fields[u.tag].k = "text"
             THEN json.fields[u.tag].text ELSE ""
      known == (u.tag :> Str(tag))
      hits == SelectSeq(u.keys, LAMBDA x : x \in DOMAIN json.fields)
  IN  CASE tag \in u.bare -> Value(known)
        [] tag \in u.plain -> emitUnionObjectVariantReturn(StructOf("plain"), known, json)
        [] tag \in DOMAIN u.nest ->
             emitUnionObjectVariantReturn(StructOf(u.nest[tag]), known, json)
        [] tag \in DOMAIN u.params ->
             emitUnionObjectVariantReturn(P!Only([params |-> P!One(u.params[tag])]), known, json)
        [] hits # <<>> -> IF hits[1] \in DOMAIN u.nest THEN decodeGenerated(u.nest[hits[1]], json)
                          ELSE DecodeStruct([fields |-> Empty, plain |-> {hits[1]}], json)
        [] OTHER -> Raw(json)

\* Mutated: an unknown text is an error.
emitUnionDecodeClosed(u, json) ==
  CASE u.any -> emitScalarUnionDecodeBranches(u, json)
    [] ~u.any /\ json.k = "text" -> IF json.text \in u.texts THEN Str(json.text) ELSE Fail
    [] ~u.any /\ json.k = "object" -> emitUnionObjectDecode(u, json)
    [] OTHER -> Raw(json)

\* decodeGenerated<Union>: what no branch recognises is kept raw.
emitUnionDecodeHelper(u, json) ==
  CASE u.any -> emitScalarUnionDecodeBranches(u, json)
    [] ~u.any /\ json.k = "text" /\ json.text \in u.texts -> Str(json.text)
    [] ~u.any /\ json.k = "object" -> emitUnionObjectDecode(u, json)
    [] OTHER -> Raw(json)

decodeGenerated(t, json) ==
  CASE t = "any" -> Opaque(json)
    [] t = "text" -> IF json.k = "text" THEN Str(json.text) ELSE Fail
    [] t = "scalar" -> IF json = Num THEN Scalar ELSE IF json = Null THEN Nil ELSE Fail
    [] t \in DOMAIN Unions -> emitUnionDecodeHelper(Unions[t], json)
    [] OTHER -> DecodeStruct(StructOf(t), json)

-----------------------------------------------------------------------------
(* Encoding, and what a value holds.                                         *)
RECURSIVE Encode(_)
Encode(v) ==
  CASE v.v \in {"raw", "opaque"} -> v.json
    [] v.v = "string" -> Text(v.text)
    [] v.v = "scalar" -> Num
    [] v.v = "slice" -> List([i \in DOMAIN v.items |-> Encode(v.items[i])])
    [] v.v = "struct" -> Obj([n \in {m \in DOMAIN v.fields : v.fields[m] # Nil} |->
                                Encode(v.fields[n])])
    [] OTHER -> Null

RECURSIVE HasRaw(_)
HasRaw(v) ==
  CASE v.v = "raw" -> TRUE
    [] v.v = "slice" -> \E i \in DOMAIN v.items : HasRaw(v.items[i])
    [] v.v = "struct" -> \E n \in DOMAIN v.fields : HasRaw(v.fields[n])
    [] OTHER -> FALSE

-----------------------------------------------------------------------------
(* The JSON a peer can send for a type, with what was made of it: good is what
   this version's schema allows, future holds a variant it does not know, bad has
   content of the wrong type.  A struct varies one field at a time.          *)
Made(made, json) == [made |-> made, json |-> json]
Goods(vs) == {v \in vs : v.made = "good"}
OneOf(vs) == (CHOOSE v \in Goods(vs) : TRUE).json

RECURSIVE Vals(_)

FieldVals(f) ==
  LET vs == Vals(f.of)
  IN  IF ~f.many THEN vs
      ELSE {Made(v.made, List(<<v.json, OneOf(vs)>>)) : v \in vs}
             \cup {Made("good", List(<<>>)), Made("bad", Num)}

StructVals(s) ==
  LET names == DOMAIN s.fields
      full == [n \in s.plain |-> Num] @@ [n \in names |-> OneOf(FieldVals(s.fields[n]))]
      but(n) == [m \in DOMAIN full \ {n} |-> full[m]]
  IN  {Made("good", Obj(full))}
        \cup {Made("bad", Obj([full EXCEPT ![n] = Text("x")])) : n \in s.plain}
        \cup {Made("good", Obj(but(n))) : n \in {m \in names : s.fields[m].opt}}
        \cup UNION {{Made(v.made, Obj([full EXCEPT ![n] = v.json])) :
                      v \in FieldVals(s.fields[n])} : n \in names}

Tag(tag, text, v) == Made(v.made, Obj((tag :> Text(text)) @@ v.json.fields))

VariantVals(u) ==
  {Made("good", Obj(u.tag :> Text(b))) : b \in u.bare}
    \cup UNION {{Tag(u.tag, p, v) : v \in StructVals(StructOf("plain"))} : p \in u.plain}
    \cup (IF u.tag = "" THEN {} ELSE
           UNION {{Tag(u.tag, n, v) : v \in StructVals(StructOf(u.nest[n]))} : n \in DOMAIN u.nest})
    \cup UNION {{Tag(u.tag, m, Made(v.made, Obj([params |-> v.json]))) : v \in Vals(u.params[m])} :
                m \in DOMAIN u.params}

KeyVals(u) ==
  UNION {IF k \in DOMAIN u.nest THEN StructVals(StructOf(u.nest[k]))
         ELSE {Made("good", Obj(k :> Num)), Made("bad", Obj(k :> Text("x")))} : k \in ToSet(u.keys)}

UnknownVals(u) ==
  {Num, List(<<Num>>), Obj(Empty), Obj("future" :> Num)}
    \cup (IF u.any THEN {} ELSE {Null, Text("future")})
    \cup (IF u.tag = "" THEN {} ELSE {Obj(u.tag :> Text("future")), Obj(u.tag :> Num)})

\* One bad string makes a list of strings an unknown variant, not an error.
ListVals(u) ==
  {Made(IF u.items = "text" /\ v.made = "bad" THEN "future" ELSE v.made, List(<<v.json>>)) :
     v \in Vals(u.items)}

UnionVals(u) ==
  {Made("good", Text(s)) : s \in u.texts}
    \cup VariantVals(u) \cup KeyVals(u)
    \cup {Made("future", j) : j \in UnknownVals(u)}
    \cup (IF u.any THEN {Made("good", Text("any"))} \cup ListVals(u) ELSE {})

Vals(t) ==
  CASE t = "any" -> {Made("good", Num)}
    [] t = "text" -> {Made("good", Text("x")), Made("bad", Num)}
    [] t \in DOMAIN Unions -> UnionVals(Unions[t])
    [] OTHER -> StructVals(StructOf(t)) \cup {Made("bad", Num)}

-----------------------------------------------------------------------------
(* Requests.                                                                 *)
MethodOf(call) ==
  IF call.method \in DOMAIN M!RequestMethod THEN M!RequestMethod[call.method] ELSE call.method

\* What a method lays over its caller's params.
Base(call) ==
  ("threadId" :> Text("of the call"))
    @@ (IF call.method = "TurnStart" THEN "input" :> List(<<OneOf(Vals("UserInput"))>>) ELSE Empty)

\* Mutated: the caller's params win.
mergeParamsCallerWins(given, base) ==
  LET kept == IF given = Null THEN Empty
              ELSE [k \in {x \in DOMAIN given.fields : given.fields[x] # Null} |-> given.fields[k]]
  IN  Obj(kept @@ base)

mergeParamsBaseWins(given, base) ==
  LET kept == IF given = Null THEN Empty
              ELSE [k \in {x \in DOMAIN given.fields : given.fields[x] # Null} |-> given.fields[k]]
  IN  Obj(base @@ kept)

\* A nil pointer in an interface is not a nil interface: it is sent as null.
paramsOrEmpty(call, given) ==
  CASE call.how = "none" -> Obj(Empty)
    [] call.how = "merge" -> mergeParamsBaseWins(given, Base(call))
    [] OTHER -> given

\* The message requestRaw writes for a Client method.
requestRaw(call, given) ==
  Obj([id |-> Text("go-sdk-1"), method |-> Text(MethodOf(call)), params |-> paramsOrEmpty(call, given)])

\* json.Unmarshal cannot decode into a union, which is an interface.
jsonUnmarshal(t, json) == IF t \in DOMAIN Unions THEN Fail ELSE decodeGenerated(t, json)

decodeRequestResult(call, json) ==
  IF json = Null THEN Nil
  ELSE IF call.method = "AccountLoginStart" /\ call.result = "LoginAccountResponse"
  THEN decodeGenerated(call.result, json)
  ELSE jsonUnmarshal(call.result, json)

-----------------------------------------------------------------------------
(* Notifications.                                                            *)
DecodedNotification(got) ==
  IF got = Fail THEN [value |-> Nil, ok |-> FALSE, err |-> TRUE]
  ELSE [value |-> got, ok |-> TRUE, err |-> FALSE]

DecodeNotificationAs(notif, method, t) ==
  IF notif.method # method THEN [value |-> Nil, ok |-> FALSE, err |-> FALSE]
  ELSE DecodedNotification(decodeGenerated(t, notif.params))

registered(s) == M!NotificationMethod[s]

\* A known notification, with what its decoder made of it.
Known(notif, got) == [value |-> got.value, ok |-> TRUE, err |-> got.err, raw |-> notif]

DecodeNotification(notif) ==
  LET hit == {s \in DOMAIN M!notificationDecoders : registered(s) = notif.method}
      s == CHOOSE x \in hit : TRUE
  IN  IF hit = {} THEN [value |-> Nil, ok |-> FALSE, err |-> FALSE, raw |-> notif]
      ELSE Known(notif, DecodeNotificationAs(notif, registered(s), M!notificationDecoders[s]))

\* Notification.<name>(), through the Decode function it calls.
accessor(name, notif) ==
  LET s == M!NotificationAccessors[name]
  IN  DecodeNotificationAs(notif, registered(s), M!DecodeFunctions[s])

\* The params the server sends with a notification.
ParamsType(s) ==
  IF s \in Collided THEN s \o "Notification" ELSE M!NotificationParams[s]

-----------------------------------------------------------------------------
CxInit ==
  /\ cxCall = [op |-> "none"]
  /\ cxRet = Nil

CxDecode ==
  \E t \in DOMAIN Unions \cup DOMAIN P!Messages : \E v \in Vals(t) :
    /\ cxCall' = [op |-> "decode", type |-> t, made |-> v.made, json |-> v.json]
    /\ cxRet' = decodeGenerated(t, v.json)

\* A caller's params: nil, or one of the full structs, any of whose fields may be a nil union.
GivenOf(call, full) ==
  LET own == {Obj(("threadId" :> Text("of the caller")) @@ j.fields) : j \in full}
  IN  CASE call.how = "none" -> {Null}
        [] call.how = "made" -> full
        [] call.how = "merge" ->
             {Null} \cup own
               \cup UNION {{Obj([j.fields EXCEPT ![k] = Null]) : k \in DOMAIN j.fields} : j \in full}
        [] OTHER -> full \cup (IF call.params \in DOMAIN Unions \cup {"any"} THEN {} ELSE {Null})

Given(call) == GivenOf(call, {v.json : v \in Goods(Vals(call.params))})

\* The message that went out, and what the schema makes of it.
Sent(message) == [message |-> message, request |-> decodeGenerated("ClientRequest", message)]

CxSend ==
  \E n \in DOMAIN M!ClientCalls : \E given \in Given(M!ClientCalls[n]) :
    /\ cxCall' = [op |-> "send", name |-> n, given |-> given]
    /\ cxRet' = Sent(requestRaw(M!ClientCalls[n], given))

CxResult ==
  \E n \in DOMAIN M!ClientCalls : \E v \in Vals(M!ClientCalls[n].result) :
    /\ cxCall' = [op |-> "result", name |-> n, made |-> v.made, json |-> v.json]
    /\ cxRet' = decodeRequestResult(M!ClientCalls[n], v.json)

\* What the registry and each accessor make of a notification.
NotifiedBy(stem, known, read) ==
  [known |-> known,
   names |-> {n \in DOMAIN read : read[n].ok \/ read[n].err},
   one |-> LET ns == {n \in DOMAIN read : M!NotificationAccessors[n] = stem}
           IN  IF ns = {} THEN Nil ELSE read[CHOOSE n \in ns : TRUE].value]

Notified(stem, notif) ==
  NotifiedBy(stem, DecodeNotification(notif),
             [n \in DOMAIN M!NotificationAccessors |-> accessor(n, notif)])

\* A notification that the server sends: one of this version, or one that it does not know.
Arriving ==
  UNION {{[stem |-> s, made |-> v.made, notif |-> [method |-> M!NotificationMethod[s], params |-> v.json]] :
            v \in Vals(ParamsType(s))} : s \in DOMAIN M!NotificationMethod}
    \cup {[stem |-> "", made |-> "future", notif |-> [method |-> "future", params |-> Num]]}

CxNotify ==
  \E a \in Arriving :
    /\ cxCall' = [op |-> "notify", stem |-> a.stem, made |-> a.made, notif |-> a.notif]
    /\ cxRet' = Notified(a.stem, a.notif)

CxNext == cxCall.op = "none" /\ (CxDecode \/ CxSend \/ CxResult \/ CxNotify)

CxSpec == CxInit /\ [][CxNext]_cxVars

-----------------------------------------------------------------------------
(* Properties.                                                               *)

\* A variant this version does not know, at any depth of any message, fails no
\* decoder on the way: the rest of the message is decoded, and encoding the result
\* gives the bytes that came.
CxFutureProof ==
  cxCall.op = "decode" /\ cxCall.made = "future" =>
    cxRet # Fail /\ Encode(cxRet) = cxCall.json

\* What the schema allows is decoded into typed variants all the way down, and
\* encodes to what was sent.
CxTypedGood ==
  cxCall.op = "decode" /\ cxCall.made = "good" =>
    cxRet # Fail /\ ~HasRaw(cxRet) /\ Encode(cxRet) = cxCall.json

\* Content of the wrong type inside a known variant is reported by the outermost
\* decoder; it neither passes as a zero value nor hides in a raw variant.
CxMalformedReported ==
  cxCall.op = "decode" /\ cxCall.made = "bad" => cxRet = Fail

\* Every request a Client method of method.go sends is a request of the protocol
\* with params of that request's type.  A method with a thread argument sends that
\* thread and not one in the caller's params, and drops no other field they set.
CxCallsTyped ==
  cxCall.op = "send" =>
    LET call == M!ClientCalls[cxCall.name]
        params == cxRet.message.fields.params
    IN  /\ call.method \in DOMAIN M!RequestMethod =>
             cxRet.request.v = "struct" /\ ~HasRaw(cxRet.request)
        /\ call.how = "merge" => params.fields["threadId"] = Text("of the call")
        /\ call.how = "merge" /\ cxCall.given # Null =>
             \A k \in DOMAIN cxCall.given.fields \ DOMAIN Base(call) :
               cxCall.given.fields[k] # Null =>
                 k \in DOMAIN params.fields /\ params.fields[k] = cxCall.given.fields[k]
        /\ call.how = "pointer" => params = cxCall.given

\* A Client method decodes the result of its request by the result's type, a union
\* included: good and future results are kept whole, malformed ones are an error.
CxResultsDecoded ==
  cxCall.op = "result" =>
    /\ cxCall.made = "bad" => cxRet = Fail
    /\ cxCall.made # "bad" => cxRet # Fail /\ Encode(cxRet) = cxCall.json
    /\ cxCall.made = "good" => ~HasRaw(cxRet)

\* The three ways to read a notification agree: a method of the registry matches,
\* also when its params are malformed, and the one accessor of that notification
\* answers with the same value; any other notification matches nothing.  The raw
\* notification is kept in every case.
CxAccessorsAgree ==
  cxCall.op = "notify" =>
    /\ cxRet.known.raw = cxCall.notif
    /\ cxRet.known.ok <=> cxCall.stem \in DOMAIN M!notificationDecoders
    /\ cxRet.names = {n \in DOMAIN M!NotificationAccessors : M!NotificationAccessors[n] = cxCall.stem}
    /\ cxRet.known.ok => cxRet.names # {} /\ cxRet.known.value = cxRet.one

\* The registry decodes the params of a notification whole, and reports malformed
\* ones.  The decoders that name an envelope struct are the subject of CxParamsKept.
CxNotificationTyped ==
  /\ cxCall.op = "notify"
  /\ cxCall.stem \in DOMAIN M!notificationDecoders
  /\ EnvelopeOf(M!notificationDecoders[cxCall.stem]) = {}
  => /\ cxRet.known.err <=> cxCall.made = "bad"
     /\ ~cxRet.known.err => Encode(cxRet.known.value) = cxCall.notif.params

\* Whatever comes in, as a message, a result or a notification and by whichever accessor,
\* is decoded by its type: typed where it is known, kept where it is new, refused where it
\* is malformed.
CxDecoded ==
  /\ CxFutureProof
  /\ CxTypedGood
  /\ CxMalformedReported
  /\ CxResultsDecoded
  /\ CxAccessorsAgree
  /\ CxNotificationTyped

\* "DecodeNotificationAs decodes notification params when the method matches"
\* (notification.go): what a registered decoder returns without an error holds the
\* params it was given.
CxParamsKept ==
  cxCall.op = "notify" /\ cxRet.known.ok /\ ~cxRet.known.err =>
    Encode(cxRet.known.value) = cxCall.notif.params
=============================================================================
