--------------------------- MODULE ClaudeCallbacks ---------------------------
(***************************************************************************)
(* The callbacks a program registers with the claude SDK and what the SDK  *)
(* makes of their answers: hooks and the CanUseTool permission callback    *)
(* (hooks.go, control_protocol.go), permission updates                     *)
(* (permission_update.go) and in-process MCP servers (mcp.go).             *)
(*                                                                         *)
(* A state is one call and what it returned.  Wording is abstracted: the   *)
(* text of a hook is the hook's position in the registration order.        *)
(***************************************************************************)
EXTENDS Naturals, Sequences, SequencesExt, FiniteSets, Functions, TLC

CONSTANTS CbMaxHooks,    \* registrations in one enumerated configuration
          CbMaxServers   \* MCP servers in one enumerated configuration

VARIABLES cbCall, cbRet

cbVars == <<cbCall, cbRet>>

Ask == "ask"   \* the empty permission decision

(* A hook's answer: fails, or its verdict, whether it gives a reason and   *)
(* whether it adds a system message.                                       *)
HookAnswers == [fails : BOOLEAN, verdict : {Ask, "allow", "deny"}, reason : BOOLEAN,
                says : BOOLEAN]

NoDecision == [verdict |-> Ask, reason |-> 0, says |-> <<>>]

(* The event of the enumerated calls is a PreToolUse. *)
Skipped(reg) ==
  reg.kind # "PreToolUse" \/ reg.glob = "miss" \/ (reg.glob # "bad" /\ reg.fn = "nil")

(* The reason of an earlier verdict stays when the later one gives none. *)
mergeHookDecision(merged, i, answer) ==
  [verdict |-> IF answer.verdict # Ask THEN answer.verdict ELSE merged.verdict,
   reason  |-> IF answer.verdict # Ask /\ answer.reason THEN i ELSE merged.reason,
   says    |-> IF answer.says THEN Append(merged.says, i) ELSE merged.says]

(* The hooks are called one after another; calls lists the ones called. *)
dispatchHooks(regs) ==
  LET step(s, i) ==
        IF s.err # "none" \/ s.dec.verdict = "deny" \/ Skipped(regs[i]) THEN s
        ELSE IF regs[i].glob = "bad" THEN [s EXCEPT !.err = "glob", !.dec = NoDecision]
        ELSE LET called == [s EXCEPT !.calls = Append(@, i)]
             IN  IF regs[i].answer.fails
                 THEN [called EXCEPT !.err = "hook", !.dec = NoDecision]
                 ELSE [called EXCEPT !.dec = mergeHookDecision(@, i, regs[i].answer)]
  IN  FoldLeft(step, [dec |-> NoDecision, err |-> "none", calls |-> <<>>],
               [i \in DOMAIN regs |-> i])

(* CanUseTool: no callback, a failing one, no opinion, or a verdict; a     *)
(* denial may carry a message.  Its "position" is CbMaxHooks + 1.          *)
CanUseAnswers == {"nil", "fails", "no opinion", "allow", "deny", "deny with message"}

applyCanUseTool(can) ==
  [verdict |-> CASE can = "allow" -> "allow"
                 [] can \in {"deny", "deny with message"} -> "deny"
                 [] OTHER -> Ask,
   reason  |-> IF can = "deny with message" THEN CbMaxHooks + 1 ELSE 0]

applyPermissionsLast(regs, can) ==
  LET hooks == dispatchHooks(regs)
      mine  == applyCanUseTool(can)
  IN  [hooks EXCEPT !.dec.verdict = IF mine.verdict # Ask THEN mine.verdict ELSE @]

applyPermissions(regs, can) ==
  LET hooks == dispatchHooks(regs)
      mine  == applyCanUseTool(can)
  IN  CASE hooks.err # "none" \/ hooks.dec.verdict = "deny" -> hooks
        [] can = "fails" /\ hooks.err = "none" /\ hooks.dec.verdict # "deny" ->
             [hooks EXCEPT !.err = "canUseTool", !.dec = NoDecision]
        [] OTHER ->
             [hooks EXCEPT
                !.dec.verdict = IF mine.verdict # Ask THEN mine.verdict ELSE @,
                !.dec.reason  = IF mine.verdict = "deny" /\ mine.reason # 0
                                THEN mine.reason ELSE @]
-----------------------------------------------------------------------------
(* The initialize request: one matcher and one callback id per             *)
(* registration with a function, under the event it is for.                *)
NextCallbackID(id) == id + 1

hooksWire(regs) ==
  LET step(s, i) ==
        IF regs[i].fn = "nil" THEN s
        ELSE [next      |-> NextCallbackID(s.next),
              callbacks |-> (s.next :> i) @@ s.callbacks,
              matchers  |-> Append(s.matchers, [event |-> regs[i].kind,
                                                glob  |-> regs[i].glob, id |-> s.next])]
  IN  FoldLeft(step, [next |-> 0, callbacks |-> <<>>, matchers |-> <<>>],
               [i \in DOMAIN regs |-> i])

hookDecisionWire(answer) ==
  (IF answer.says THEN "systemMessage" :> "text" ELSE <<>>)
  @@ (IF answer.verdict # Ask THEN "permissionDecision" :> answer.verdict ELSE <<>>)
  @@ (IF answer.reason THEN "permissionDecisionReason" :> "text" ELSE <<>>)

(* A hook_callback request names the id of a matcher. *)
handleHookCallback(wire, regs, id) ==
  IF id \notin DOMAIN wire.callbacks THEN [hook |-> 0, out |-> "error"]
  ELSE LET i == wire.callbacks[id]
       IN  IF regs[i].answer.fails THEN [hook |-> i, out |-> "error"]
           ELSE [hook |-> i, out |-> "sent", sent |-> hookDecisionWire(regs[i].answer)]

(* A can_use_tool request: input "" is an absent input. *)
handleCanUseTool(can, input, updated, perms) ==
  LET original == IF input = "" THEN "{}" ELSE input
  IN  CASE can \in {"nil", "fails"} -> "behavior" :> "error"
        [] can = "no opinion"       -> [behavior |-> "allow", updatedInput |-> original]
        [] can = "allow" ->
             [behavior     |-> "allow",
              updatedInput |-> IF updated = "" THEN original ELSE updated]
             @@ (IF perms THEN "updatedPermissions" :> "list" ELSE <<>>)
        [] OTHER -> [behavior |-> "deny", message |-> can]
-----------------------------------------------------------------------------
RuleUpdates == {"addRules", "replaceRules", "removeRules"}

DirUpdates == {"addDirectories", "removeDirectories"}

(* The fields of an update: "" and "nil" are Go's zero values, and a rule  *)
(* list is empty, or of rules with or without content.                     *)
ToWire(u) ==
  LET field(name, on) == IF on THEN name :> u[name] ELSE <<>>
  IN  ("type" :> u.type)
      @@ field("destination", u.destination # "")
      @@ field("rules", u.type \in RuleUpdates /\ u.rules # "nil")
      @@ field("behavior", u.type \in RuleUpdates /\ u.behavior # "")
      @@ field("mode", u.type = "setMode" /\ u.mode # "")
      @@ field("directories", u.type \in DirUpdates /\ u.directories # "nil")

PermissionUpdateFromWire(w) ==
  LET read(name, zero) == IF name \in DOMAIN w THEN w[name] ELSE zero
  IN  [type |-> read("type", ""), destination |-> read("destination", ""),
       behavior |-> read("behavior", ""), mode |-> read("mode", ""),
       directories |-> read("directories", "nil"), rules |-> read("rules", "nil")]

Updates ==
  [type : RuleUpdates \cup DirUpdates \cup {"setMode"}, destination : {"", "session"},
   behavior : {"", "allow"}, mode : {"", "plan"}, directories : {"nil", "[]", "[d]"},
   rules : {"nil", "[]", "[r]"}]
-----------------------------------------------------------------------------
StdioConfig(srv) ==
  [type |-> "stdio", command |-> srv.id] @@ (IF srv.extra THEN "args" :> srv.id ELSE <<>>)

SSEConfig(srv) ==
  [type |-> "sse", url |-> srv.id] @@ (IF srv.extra THEN "headers" :> srv.id ELSE <<>>)

HTTPConfig(srv) ==
  [type |-> "http", url |-> srv.id] @@ (IF srv.extra THEN "headers" :> srv.id ELSE <<>>)

SDKConfig(srv) == [type |-> "sdk", name |-> srv.name]

configForCLI(srv) ==
  CASE srv.mode = "stdio" -> StdioConfig(srv)
    [] srv.mode = "sse"   -> SSEConfig(srv)
    [] srv.mode = "http"  -> HTTPConfig(srv)
    [] OTHER              -> SDKConfig(srv)

(* --mcp-config: the last server of a name counts. *)
mcpServersConfig(servers) ==
  FoldLeft(LAMBDA m, srv : (srv.name :> configForCLI(srv)) @@ m, <<>>, servers)

registerMCPServers(servers) ==
  FoldLeft(LAMBDA m, srv : IF srv.mode = "sdk" THEN (srv.name :> srv) @@ m ELSE m,
           <<>>, servers)

(* A tool's handler: its arguments decode or not, and the program's        *)
(* function fails, answers, or answers with an error; all in-band.         *)
ToolHandler(args, outcome) ==
  [kind |-> "content", isError |-> args = "bad" \/ outcome \in {"fails", "error result"}, ran |-> args # "bad"]

(* The first tool of the name is called. *)
callTool(srv, tool, args, outcome) ==
  IF tool \notin {srv.tools[i] : i \in DOMAIN srv.tools} THEN [ok |-> FALSE]
  ELSE [ok |-> TRUE, result |-> ToolHandler(args, outcome)]

listTools(srv) == [ok |-> srv.schema # "bad", result |-> [kind |-> "tools", tools |-> srv.tools]]

jsonrpcError(id, code) == [id |-> id, error |-> code]

Answered(id, r) == IF r.ok THEN [id |-> id, result |-> r.result] ELSE jsonrpcError(id, 32603)

handleMCPMessage(servers, req) ==
  IF req.server = "" THEN [out |-> "error"]
  ELSE IF req.server \notin DOMAIN registerMCPServers(servers)
  THEN [out |-> "mcp_response", rpc |-> jsonrpcError(req.id, 32601)]
  ELSE LET srv == registerMCPServers(servers)[req.server]
       IN  [out |-> "mcp_response", rpc |->
             CASE req.method = "initialize" -> [id |-> req.id, result |-> [kind |-> "serverInfo"]]
               [] req.method = "tools/list" -> Answered(req.id, listTools(srv))
               [] req.method = "tools/call" ->
                    Answered(req.id, callTool(srv, req.tool, req.args, req.outcome))
               [] req.method = "notifications/initialized" -> [result |-> [kind |-> "empty"]]
               [] OTHER -> jsonrpcError(req.id, 32601)]
-----------------------------------------------------------------------------
Reg(kind, glob, fn, answer) == [kind |-> kind, glob |-> glob, fn |-> fn, answer |-> answer]

Quiet == [fails |-> FALSE, verdict |-> "deny", reason |-> FALSE, says |-> TRUE]

Registrations ==
  {Reg("PreToolUse", "match", "f", a) :
     a \in {x \in HookAnswers : x.fails => x = [Quiet EXCEPT !.fails = TRUE]}}
  \cup {Reg("Stop", "none", "f", Quiet), Reg("PreToolUse", "miss", "f", Quiet),
        Reg("PreToolUse", "bad", "f", Quiet), Reg("PreToolUse", "none", "nil", Quiet)}

Configurations == UNION {[1..n -> Registrations] : n \in 0..CbMaxHooks}

Servers ==
  [mode : {"sdk", "stdio", "sse", "http"}, name : {"x", "y"}, id : {"s1", "s2"},
   extra : BOOLEAN, tools : {<<"t">>, <<>>}, schema : {"ok", "bad"}]

Plain(srv) == srv.mode # "sdk" => srv.tools = <<>> /\ srv.schema = "ok"

McpConfigurations ==
  UNION {[1..n -> {s \in Servers : Plain(s) /\ (s.mode = "sdk" => ~s.extra)}] :
           n \in 0..CbMaxServers}

McpRequests ==
  {r \in [server : {"", "x", "z"}, id : {"null", "1"}, tool : {"t", "u"},
          method : {"initialize", "tools/list", "tools/call", "notifications/initialized",
                    "resources/list"},
          args : {"ok", "bad"}, outcome : {"answers", "fails"}] :
     r.method # "tools/call" => r.tool = "t" /\ r.args = "ok" /\ r.outcome = "answers"}

CbInit == cbCall = [op |-> "none"] /\ cbRet = [out |-> "none"]

(* A tool call is judged locally. *)
CbPermissions ==
  \E regs \in Configurations, can \in CanUseAnswers :
    /\ cbCall' = [op |-> "permissions", regs |-> regs, can |-> can]
    /\ cbRet' = applyPermissions(regs, can)

(* The hooks are announced to the CLI. *)
CbAnnounce ==
  \E regs \in Configurations :
    /\ cbCall' = [op |-> "hooks", regs |-> regs]
    /\ cbRet' = hooksWire(regs)

(* The CLI asks about a tool call. *)
CbCanUse ==
  \E can \in CanUseAnswers, input \in {"", "i"}, updated \in {"", "u"}, perms \in BOOLEAN :
    /\ cbCall' = [op |-> "canUse", can |-> can, input |-> input, updated |-> updated,
                  perms |-> perms]
    /\ cbRet' = handleCanUseTool(can, input, updated, perms)

(* A permission update goes to the CLI and a suggestion comes back. *)
CbUpdate ==
  \E u \in Updates :
    /\ cbCall' = [op |-> "update", update |-> u]
    /\ cbRet' = ToWire(u)

(* The CLI calls an in-process MCP server. *)
CbMcp ==
  \E servers \in McpConfigurations, req \in McpRequests :
    /\ \A i \in DOMAIN servers : servers[i].id = "s1"
    /\ cbCall' = [op |-> "mcp", servers |-> servers, req |-> req]
    /\ cbRet' = handleMCPMessage(servers, req)

(* The MCP servers are advertised on the command line and registered. *)
CbServers ==
  \E servers \in McpConfigurations :
    /\ cbCall' = [op |-> "servers", servers |-> servers]
    /\ cbRet' = [config |-> mcpServersConfig(servers), routes |-> registerMCPServers(servers)]

CbNext ==
  /\ cbCall.op = "none"
  /\ CbPermissions \/ CbAnnounce \/ CbCanUse \/ CbUpdate \/ CbMcp \/ CbServers

CbSpec == CbInit /\ [][CbNext]_cbVars
-----------------------------------------------------------------------------
Denies(regs, i) == ~Skipped(regs[i]) /\ regs[i].answer.verdict = "deny"

(* A tool call is denied exactly when a hook or the CanUseTool callback    *)
(* that was asked denied it: no later answer lifts a denial, and no hook   *)
(* is called after the one that denied.  A failure yields no verdict.      *)
CbDenyWins ==
  cbCall.op = "permissions" =>
    LET regs  == cbCall.regs
        asked == {cbRet.calls[i] : i \in DOMAIN cbRet.calls}
        no    == {i \in asked : Denies(regs, i)}
    IN  IF cbRet.err # "none" THEN cbRet.dec = NoDecision
        ELSE /\ (cbRet.dec.verdict = "deny") =
                  (no # {} \/ cbCall.can \in {"deny", "deny with message"})
             /\ \A i \in no, j \in asked : j <= i
             /\ \A i \in DOMAIN regs :
                  i \in asked \/ Skipped(regs[i]) \/ \E j \in no : j < i

(* The CLI can call every hook it was told of: each matcher's id leads to  *)
(* the hook registered for the event it stands under, no two hooks share   *)
(* an id, and every hook with a function has one.                          *)
CbHooksReachable ==
  cbCall.op = "hooks" =>
    LET reached == [m \in DOMAIN cbRet.matchers |->
                      handleHookCallback(cbRet, cbCall.regs, cbRet.matchers[m].id).hook]
    IN  /\ \A m \in DOMAIN reached :
             cbCall.regs[reached[m]].kind = cbRet.matchers[m].event
        /\ IsInjective(reached)
        /\ Range(reached) = {i \in DOMAIN cbCall.regs : cbCall.regs[i].fn # "nil"}

(* What the tool runs with is the program's input if it gave one, and what *)
(* the model asked for otherwise; a denied call carries no input.          *)
CbInputKept ==
  (cbCall.op = "canUse" /\ cbRet.behavior # "error") =>
    IF cbCall.can \in {"deny", "deny with message"} THEN "updatedInput" \notin DOMAIN cbRet
    ELSE cbRet.updatedInput = (IF cbCall.can = "allow" /\ cbCall.updated # ""
                               THEN cbCall.updated
                               ELSE IF cbCall.input = "" THEN "{}" ELSE cbCall.input)

(* An update read back from the wire is the update that was sent, less the *)
(* fields its type does not carry, and it goes to the wire unchanged.      *)
CbUpdateSurvives ==
  cbCall.op = "update" =>
    LET back == PermissionUpdateFromWire(cbRet)
    IN  /\ ToWire(back) = cbRet
        /\ \A f \in DOMAIN back :
             back[f] = cbCall.update[f] \/ f \notin DOMAIN cbRet

(* Every JSON-RPC request that names a server is answered with its own id, *)
(* by a result or an error and never both; only the notification has none. *)
CbMcpAnswered ==
  (cbCall.op = "mcp" /\ cbRet.out = "mcp_response") =>
    LET rpc == cbRet.rpc
    IN  /\ ("result" \in DOMAIN rpc) # ("error" \in DOMAIN rpc)
        /\ IF "id" \in DOMAIN rpc THEN rpc.id = cbCall.req.id
           ELSE cbCall.req.method = "notifications/initialized"

(* A server the CLI is told to reach through the SDK is one the SDK routes *)
(* to, under that name, however many servers share the name.               *)
CbAdvertisedRoutable ==
  cbCall.op = "servers" =>
    \A name \in DOMAIN cbRet.config :
      cbRet.config[name].type = "sdk" =>
        /\ name \in DOMAIN cbRet.routes
        /\ \A i \in DOMAIN cbCall.servers :
             (cbCall.servers[i].name = name
              /\ \A j \in DOMAIN cbCall.servers : cbCall.servers[j].name = name => j <= i)
             => cbRet.routes[name] = cbCall.servers[i]

\* What the CLI asks reaches the program's function that it names, and the program's answer
\* reaches the CLI as it was given: hooks, permissions, their updates and MCP servers.
CbFaithful ==
  /\ CbDenyWins
  /\ CbHooksReachable
  /\ CbInputKept
  /\ CbUpdateSurvives
  /\ CbMcpAnswered
  /\ CbAdvertisedRoutable
=============================================================================
