------------------------------ MODULE ClaudeWire ------------------------------
(***************************************************************************)
(* The stream-JSON layer of pkg/llm/claude: how a line of the CLI becomes  *)
(* a typed message (message_parser.go), and how the typed messages, blocks *)
(* and hook objects are written back (raw_json.go, public_types.go).       *)
(*                                                                         *)
(* A JSON object is a function from its field names to values.  A value is *)
(* "null", "zero" (the empty string, 0, false, {} or []), "wrong" (a value *)
(* of a type the Go field cannot take) or any other string.                *)
(*                                                                         *)
(* A Go field has one of four kinds.  "plain" is a string, a number, a     *)
(* bool or a struct, whose zero is not written.  "json" is a raw value     *)
(* written unless it is null, "raw" a raw value written whenever it was    *)
(* there, and "ptr" a pointer, written unless it is nil.                   *)
(***************************************************************************)
EXTENDS Sequences, FiniteSets, FiniteSetsExt, Functions, TLC

CONSTANTS WireUnknown,     \* field names no Go type declares
          WireWidth        \* the fields an enumerated object has at most

VARIABLES wireCall, wireRet

wireVars == <<wireCall, wireRet>>

Fields(names, kind) == [f \in names |-> kind]

(* A codec lists a type's fields three times, as the code does: in the     *)
(* struct the object is decoded into, in the names rawObjectExcluding      *)
(* keeps out of Raw, and in the fields the encoder sets.                   *)
Codec(decoded, excluded, emitted) ==
  [decoded |-> decoded, excluded |-> excluded, emitted |-> emitted]

(* The codec of a struct whose Raw field is tagged inline. *)
Inline(fields) == Codec(fields, DOMAIN fields, fields)

SystemMessage == Codec(Fields({"subtype"}, "plain"), {"subtype"},
                       Fields({"subtype"}, "plain"))

ResultMessageJSON ==
  Fields({"subtype", "duration_ms", "duration_api_ms", "is_error", "num_turns", "session_id",
          "total_cost_usd", "stop_reason", "api_error_status", "uuid"}, "plain")
  @@ Fields({"usage", "result", "structured_output", "modelUsage", "permission_denials",
             "errors"}, "json")
  @@ Fields({"deferred_tool_use"}, "ptr")

ResultMessageExcluded ==
  {"subtype", "duration_ms", "duration_api_ms", "is_error", "num_turns", "session_id",
   "total_cost_usd", "usage", "deferred_tool_use", "stop_reason", "result",
   "structured_output", "modelUsage", "permission_denials", "errors", "api_error_status",
   "uuid"}

ResultMessageFields ==
  Fields({"subtype", "duration_ms", "duration_api_ms", "is_error", "num_turns", "session_id",
          "total_cost_usd", "stop_reason", "api_error_status", "uuid"}, "plain")
  @@ Fields({"usage", "result", "structured_output", "modelUsage", "permission_denials",
             "errors"}, "json")
  @@ Fields({"deferred_tool_use"}, "ptr")

ResultMessage == Codec(ResultMessageJSON, ResultMessageExcluded, ResultMessageFields)

TextBlock == Codec(Fields({"text"}, "plain"), {"text"}, Fields({"text"}, "plain"))

ToolUseBlockFields == Fields({"id", "name"}, "plain") @@ Fields({"input"}, "json")

ToolUseBlock == Codec(ToolUseBlockFields, {"id", "name", "input"}, ToolUseBlockFields)

ToolResultBlockFields == Fields({"tool_use_id", "content", "is_error"}, "plain")

ToolResultBlock == Codec(ToolResultBlockFields, {"tool_use_id", "content", "is_error"},
                         ToolResultBlockFields)

HookEventJSON ==
  Fields({"hook_event_name", "session_id", "tool_name", "prompt"}, "plain")
  @@ Fields({"tool_input", "tool_result"}, "json")

HookEvent ==
  Codec(HookEventJSON,
        {"hook_event_name", "session_id", "tool_name", "tool_input", "tool_result", "prompt"},
        Fields({"hook_event_name", "session_id", "tool_name", "prompt"}, "plain")
        @@ Fields({"tool_input", "tool_result"}, "json"))

HookDecisionFields ==
  Fields({"hookSpecificOutput", "systemMessage", "additionalContext"}, "plain")

HookDecision ==
  Codec(HookDecisionFields, {"hookSpecificOutput", "systemMessage", "additionalContext"},
        HookDecisionFields)

HookSpecificOutputFields ==
  Fields({"hookEventName", "permissionDecision", "permissionDecisionReason"}, "plain")

HookSpecificOutput ==
  Codec(HookSpecificOutputFields,
        {"hookEventName", "permissionDecision", "permissionDecisionReason"},
        HookSpecificOutputFields)

HookEventMessageFields == Fields({"subtype", "hook_event_name", "session_id", "uuid"}, "plain")

HookEventMessage ==
  Codec(HookEventMessageFields, {"subtype", "hook_event_name", "session_id", "uuid"},
        HookEventMessageFields)

TaskStartedMessage ==
  Inline(Fields({"subtype", "task_id", "description", "uuid", "session_id", "tool_use_id",
                 "task_type"}, "plain"))

TaskProgressMessage ==
  Inline(Fields({"subtype", "task_id", "description", "usage", "uuid", "session_id",
                 "tool_use_id", "last_tool_name"}, "plain"))

TaskNotificationMessage ==
  Inline(Fields({"subtype", "task_id", "status", "output_file", "summary", "uuid",
                 "session_id", "tool_use_id"}, "plain") @@ Fields({"usage"}, "ptr"))

StreamEvent ==
  Inline(Fields({"uuid", "session_id", "parent_tool_use_id"}, "plain")
         @@ Fields({"event"}, "raw"))

RateLimitInfo ==
  Inline(Fields({"status", "resetsAt", "rateLimitType", "utilization", "overageStatus",
                 "overageResetsAt", "overageDisabledReason"}, "plain"))

RateLimitEvent == Inline(Fields({"rate_limit_info", "uuid", "session_id"}, "plain"))

ThinkingBlock == Inline(Fields({"thinking", "signature"}, "plain"))

ServerToolUseBlock == Inline(Fields({"id", "name"}, "plain") @@ Fields({"input"}, "raw"))

ServerToolResultBlock ==
  Inline(Fields({"tool_use_id"}, "plain") @@ Fields({"content"}, "raw"))

CodecOf ==
  [SystemMessage |-> SystemMessage, ResultMessage |-> ResultMessage, TextBlock |-> TextBlock,
   ToolUseBlock |-> ToolUseBlock, ToolResultBlock |-> ToolResultBlock,
   HookEvent |-> HookEvent, HookDecision |-> HookDecision,
   HookSpecificOutput |-> HookSpecificOutput, HookEventMessage |-> HookEventMessage,
   TaskStartedMessage |-> TaskStartedMessage, TaskProgressMessage |-> TaskProgressMessage,
   TaskNotificationMessage |-> TaskNotificationMessage, StreamEvent |-> StreamEvent,
   RateLimitInfo |-> RateLimitInfo, RateLimitEvent |-> RateLimitEvent,
   ThinkingBlock |-> ThinkingBlock, ServerToolUseBlock |-> ServerToolUseBlock,
   ServerToolResultBlock |-> ServerToolResultBlock]
-----------------------------------------------------------------------------
(* What json.Unmarshal leaves in a field of the given kind. *)
Decoded(kind, o, f) ==
  CASE f \notin DOMAIN o -> IF kind = "plain" THEN "zero" ELSE "none"
    [] kind \in {"json", "raw"} -> o[f]
    [] kind = "ptr" -> IF o[f] = "null" THEN "none" ELSE o[f]
    [] OTHER -> IF o[f] = "null" THEN "zero" ELSE o[f]

(* json.Unmarshal fails on a value the field's Go type cannot take. *)
Decodable(c, o) ==
  \A f \in DOMAIN c.decoded \cap DOMAIN o :
     o[f] = "wrong" => c.decoded[f] \in {"json", "raw"}

rawObjectExcluding(o, names) == Restrict(o, DOMAIN o \ names)

Unmarshal(c, o) ==
  [typed |-> [f \in DOMAIN c.decoded |-> Decoded(c.decoded[f], o, f)],
   raw   |-> rawObjectExcluding(o, c.excluded)]

(* setStringJSONField and its siblings, setRawJSONField and omitzero. *)
Set(kind, v) ==
  CASE kind = "plain" -> v # "zero"
    [] kind = "json"  -> v \notin {"none", "null"}
    [] OTHER          -> v # "none"

mergeRawObject(raw, fields) == fields @@ raw

Marshal(c, m) ==
  LET set == {f \in DOMAIN c.emitted : Set(c.emitted[f], m.typed[f])}
  IN  mergeRawObject(m.raw, [f \in set |-> m.typed[f]])
-----------------------------------------------------------------------------
Message(kind, m) == [kind |-> kind, msg |-> m]

Refused(why) == [kind |-> why, msg |-> <<>>]

WireRefusals == {"skip", "CLIJSONDecodeError", "MessageParseError"}

Decode(kind, o) ==
  IF Decodable(CodecOf[kind], o) THEN Message(kind, Unmarshal(CodecOf[kind], o))
  ELSE Refused("CLIJSONDecodeError")

(* The loose shape a hook event is decoded into has three spellings of the *)
(* event's name, of which the first that is not empty counts.              *)
HookNames == {"hook_event", "hook_name", "hook_event_name"}

HookNameCurrent(read) == read["hook_event"]

HookName(read) ==
  CASE read["hook_event"] # "zero" -> read["hook_event"]
    [] read["hook_event"] = "zero" /\ read["hook_name"] # "zero" -> read["hook_name"]
    [] OTHER -> read["hook_event_name"]

HookEventOf(o) ==
  LET names == {"subtype", "session_id", "uuid"}
  IN  IF Decodable(Inline(Fields(names \cup HookNames, "plain")), o)
      THEN Message("HookEventMessage",
             [typed |-> [f \in names |-> Decoded("plain", o, f)]
                        @@ [f \in {"hook_event_name"} |->
                              HookName([g \in HookNames |-> Decoded("plain", o, g)])],
              raw   |-> rawObjectExcluding(o, names \cup HookNames)])
      ELSE Refused("CLIJSONDecodeError")

parseSystemMessage(o) ==
  CASE Decoded("plain", o, "subtype") = "wrong"             -> Refused("CLIJSONDecodeError")
    [] Decoded("plain", o, "subtype") = "task_started"      -> Decode("TaskStartedMessage", o)
    [] Decoded("plain", o, "subtype") = "task_progress"     -> Decode("TaskProgressMessage", o)
    [] Decoded("plain", o, "subtype") = "task_notification" ->
         Decode("TaskNotificationMessage", o)
    [] Decoded("plain", o, "subtype") \in {"hook_started", "hook_response"} -> HookEventOf(o)
    [] OTHER -> Decode("SystemMessage", o)

(* Assistant and user envelopes: the fields promoted out of the envelope,  *)
(* the nested message object, and the rest in Raw.                         *)
AssistantPromoted == {"message", "parent_tool_use_id", "error", "session_id", "uuid"}

UserPromoted == {"message", "parent_tool_use_id", "tool_use_result", "uuid"}

ParseEnvelope(kind, promoted, opaque, o) ==
  IF \E f \in (promoted \ opaque) \cap DOMAIN o : o[f] = "wrong"
  THEN Refused("CLIJSONDecodeError")
  ELSE Message(kind, [typed |-> [f \in promoted |->
                                   Decoded(IF f \in opaque THEN "json" ELSE "plain", o, f)],
                      raw   |-> rawObjectExcluding(o, promoted)])

parseAssistantMessage(o) == ParseEnvelope("AssistantMessage", AssistantPromoted, {"error"}, o)

parseUserMessage(o) == ParseEnvelope("UserMessage", UserPromoted, {"tool_use_result"}, o)

(* A line is blank, malformed or holds an object. *)
parseMessage(shape, line) ==
  CASE shape = "blank"     -> Refused("skip")
    [] shape = "malformed" -> Refused("CLIJSONDecodeError")
    [] OTHER ->
         LET type == Decoded("plain", line, "type")
         IN  CASE type = "wrong" \/ Decoded("plain", line, "id") = "wrong" ->
                    Refused("CLIJSONDecodeError")
               [] type = "zero"             -> Refused("MessageParseError")
               [] type = "assistant"        -> parseAssistantMessage(line)
               [] type = "user"             -> parseUserMessage(line)
               [] type = "system"           -> parseSystemMessage(line)
               [] type = "result"           -> Decode("ResultMessage", line)
               [] type = "stream_event"     -> Decode("StreamEvent", line)
               [] type = "rate_limit_event" -> Decode("RateLimitEvent", line)
               [] OTHER                     -> Message("rawMessage", [typed |-> <<>>,
                                                                      raw   |-> line])

(* The kind of Go block a content block's type selects. *)
BlockKind(type) ==
  CASE type = "text"            -> "TextBlock"
    [] type = "tool_use"        -> "ToolUseBlock"
    [] type = "tool_result"     -> "ToolResultBlock"
    [] type = "thinking"        -> "ThinkingBlock"
    [] type = "server_tool_use" -> "ServerToolUseBlock"
    [] type \in {"advisor_tool_result", "server_tool_result", "web_search_tool_result",
                 "web_fetch_tool_result", "bash_code_execution_tool_result",
                 "text_editor_code_execution_tool_result"} -> "ServerToolResultBlock"
    [] OTHER -> "rawContentBlock"

parseContentBlock(o) ==
  LET type == Decoded("plain", o, "type")
  IN  CASE type = "wrong" -> Refused("CLIJSONDecodeError")
        [] BlockKind(type) = "rawContentBlock" ->
             Message("rawContentBlock", [typed |-> <<>>, raw |-> o])
        [] OTHER -> Decode(BlockKind(type), o)

(* parseContentBlocks stops at the first block that cannot be decoded. *)
parseContentBlocks(os) ==
  IF \E i \in DOMAIN os : parseContentBlock(os[i]).kind = "CLIJSONDecodeError"
  THEN Refused("CLIJSONDecodeError")
  ELSE Message("blocks", [i \in DOMAIN os |-> parseContentBlock(os[i])])
-----------------------------------------------------------------------------
(* The objects with at most WireWidth of the given fields. *)
Objects(names, values) ==
  UNION {[fs -> values] : fs \in UNION {kSubset(k, names) : k \in 0..WireWidth}}

WireTypes == {"assistant", "user", "system", "result", "stream_event", "rate_limit_event",
              "future", "zero", "wrong"}

WireSubtypes == {"task_started", "task_progress", "task_notification", "hook_started",
                 "hook_response", "init", "zero"}

WireLines ==
  {t @@ o : t \in [{"type"} -> WireTypes \ {"system"}],
            o \in Objects({"id", "message", "error", "uuid", "usage", "rate_limit_info"}
                          \cup WireUnknown, {"a", "zero", "wrong"})} \cup
  {t @@ st @@ o : t \in [{"type"} -> {"system"}], st \in [{"subtype"} -> WireSubtypes],
                  o \in Objects(HookNames \cup {"uuid", "usage"} \cup WireUnknown,
                                {"a", "b", "zero", "null", "wrong"})}

WireBlockObjects ==
  {t @@ o : t \in [{"type"} -> {"text", "tool_use", "tool_result", "thinking",
                                "server_tool_use", "web_fetch_tool_result", "image"}],
            o \in UNION {[fs -> {"a", "wrong"}] :
                            fs \in UNION {kSubset(k, {"id", "content"}) : k \in 0..1}}}

WireInit == wireCall = [op |-> "none"] /\ wireRet = <<>>

(* A value read from the CLI is written back. *)
WireRecode ==
  \E kind \in DOMAIN CodecOf :
    \E o \in Objects(DOMAIN CodecOf[kind].decoded \cup WireUnknown, {"a", "zero", "null"}) :
      /\ wireCall' = [op |-> "recode", kind |-> kind, in |-> o]
      /\ wireRet' = Marshal(CodecOf[kind], Unmarshal(CodecOf[kind], o))

(* ReceiveResponse parses a line. *)
WireParse ==
  \E shape \in {"blank", "malformed", "object"}, line \in WireLines :
    /\ shape = "object" \/ DOMAIN line = {"type"}
    /\ wireCall' = [op |-> "parse", shape |-> shape, in |-> line]
    /\ wireRet' = parseMessage(shape, line)

(* An assistant or user message, or a tool result, carries blocks. *)
WireBlocks ==
  \E os \in UNION {[1..n -> WireBlockObjects] : n \in 0..2} :
    /\ wireCall' = [op |-> "blocks", in |-> os]
    /\ wireRet' = parseContentBlocks(os)

WireNext == wireCall.op = "none" /\ (WireRecode \/ WireParse \/ WireBlocks)

WireSpec == WireInit /\ [][WireNext]_wireVars
-----------------------------------------------------------------------------
(* What reading and writing back a typed object may drop: the fields that  *)
(* carry no value.                                                         *)
Significant(fields, o) ==
  {f \in DOMAIN o :
     f \in DOMAIN fields =>
       CASE fields[f] = "plain" -> o[f] \notin {"zero", "null"}
         [] fields[f] = "raw"   -> TRUE
         [] OTHER               -> o[f] # "null"}

(* Every typed message, block and hook object written back after it was    *)
(* read is the object that was read, unknown fields included, less the     *)
(* known fields without a value: the three field lists the code keeps per  *)
(* type (decoded, kept out of Raw, encoded) agree.                         *)
WireRoundTrip ==
  wireCall.op = "recode" =>
    wireRet = Restrict(wireCall.in,
                       Significant(CodecOf[wireCall.kind].decoded, wireCall.in))

(* A message written back and parsed again is the same message: the hook   *)
(* event's name survives whichever of its three spellings it came with.    *)
WireReparse ==
  (wireCall.op = "parse" /\ wireRet.kind \in DOMAIN CodecOf) =>
    parseMessage("object", Marshal(CodecOf[wireRet.kind], wireRet.msg)) = wireRet

Placed(kind, m, o) ==
  LET typed == DOMAIN m.typed \cup (IF kind = "HookEventMessage" THEN HookNames ELSE {})
  IN  /\ typed \cap DOMAIN m.raw = {}
      /\ DOMAIN o \subseteq typed \cup DOMAIN m.raw
      /\ \A f \in DOMAIN m.raw : f \in DOMAIN o /\ m.raw[f] = o[f]

(* Every field of an object ends in exactly one place, a typed field or    *)
(* Raw: what the SDK does not know yet is there for the caller to read,    *)
(* and what it does know is not there twice.                               *)
WireNothingLost ==
  /\ (wireCall.op = "parse" /\ wireRet.kind \notin WireRefusals) =>
       Placed(wireRet.kind, wireRet.msg, wireCall.in)
  /\ (wireCall.op = "blocks" /\ wireRet.kind = "blocks") =>
       /\ DOMAIN wireRet.msg = DOMAIN wireCall.in
       /\ \A i \in DOMAIN wireCall.in :
            Placed(wireRet.msg[i].kind, wireRet.msg[i].msg, wireCall.in[i])

\* The claude wire is faithful in both directions: what is read is in one place, what is
\* written back is what was read, and reading that again gives the same message.
WireFaithful == WireRoundTrip /\ WireReparse /\ WireNothingLost
=============================================================================
