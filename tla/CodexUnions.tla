---------------------------- MODULE CodexUnions ----------------------------
(* The tagged, textual and keyed unions of the Codex app-server protocol
   (pkg/llm/codex/protocol_gen.go), one definition per generated union.  A
   definition lists what the union's decodeGenerated function recognises: the
   texts of its string variants, the discriminator and its values, or the keys
   whose presence selects a variant, in the order the code tests them.

   Of a variant's payload only its shape is kept: bare variants hold nothing but
   the discriminator, plain ones hold fields of scalar type, and nested ones are
   structs with union fields of their own, defined in CodexMessages.          *)
EXTENDS Naturals, Sequences, TLC

NoNest == [x \in {} |-> ""]

\* What the generator knows of a union, and so what its decoder tests.
unionVariant(texts, any, items, tag, bare, plain, keys, nest, params) ==
  [kind |-> "union", texts |-> texts, any |-> any, items |-> items, tag |-> tag,
   bare |-> bare, plain |-> plain, keys |-> keys, nest |-> nest, params |-> params]

\* An object union switching on the field tag.
Tagged(tag, bare, plain, nest) ==
  unionVariant({}, FALSE, "", tag, bare, plain, <<>>, nest, NoNest)

\* A closed set of strings.
Texts(texts) == unionVariant(texts, FALSE, "", "", {}, {}, <<>>, NoNest, NoNest)

\* Known strings, or an object selected by the presence of a key.
Keyed(texts, keys, nest) ==
  unionVariant(texts, FALSE, "", "", {}, {}, keys, nest, NoNest)

\* Any string, or a list of items.
StringOr(items) == unionVariant({}, TRUE, items, "", {}, {}, <<>>, NoNest, NoNest)

\* A JSON-RPC envelope switching on method, whose params have the given types.
Envelopes(params) ==
  unionVariant({}, FALSE, "", "method", {}, {}, <<>>, NoNest, params)

-----------------------------------------------------------------------------
Account == Tagged("type", {"apiKey"}, {"chatgpt", "amazonBedrock"}, NoNest)
AgentMessageInputContent ==
  Tagged("type", {}, {"input_text", "encrypted_content"}, NoNest)
AskForApproval == Keyed({"never", "on-request", "untrusted"}, <<"granular">>, NoNest)
AuthMode ==
  Texts({"agentIdentity", "apikey", "bedrockApiKey", "chatgpt", "chatgptAuthTokens",
    "headers", "personalAccessToken"})
AutoCompactTokenLimitScope == Texts({"body_after_prefix", "total"})
CodexErrorInfo ==
  Keyed({"badRequest", "contextWindowExceeded", "cyberPolicy", "internalServerError",
    "other", "sandboxError", "serverOverloaded", "sessionBudgetExceeded",
    "threadRollbackFailed", "unauthorized", "usageLimitExceeded"},
    <<"httpConnectionFailed", "responseStreamConnectionFailed",
    "responseStreamDisconnected", "responseTooManyFailedAttempts",
    "activeTurnNotSteerable">>, NoNest)
CommandAction == Tagged("type", {}, {"read", "listFiles", "search", "unknown"}, NoNest)
CommandExecOutputStream == Texts({"stderr", "stdout"})
ConfigLayerSource ==
  Tagged("type", {"sessionFlags", "legacyManagedConfigTomlFromMdm"}, {"mdm", "system",
    "enterpriseManaged", "user", "project", "legacyManagedConfigTomlFromFile"},
    NoNest)
ConfiguredHookHandler == Tagged("type", {"prompt", "agent"}, {"command"}, NoNest)
ConsumeAccountRateLimitResetCreditOutcome ==
  Texts({"alreadyRedeemed", "noCredit", "nothingToReset", "reset"})
ContentItem ==
  Tagged("type", {}, {"input_text", "input_image", "input_audio", "output_text"},
    NoNest)
DynamicToolCallOutputContentItem ==
  Tagged("type", {}, {"inputText", "inputImage", "inputAudio"}, NoNest)
DynamicToolSpec == Tagged("type", {}, {"function", "namespace"}, NoNest)
EnvironmentStatusKind == Texts({"disconnected", "pending", "ready", "unknown"})
ExperimentalFeatureStage ==
  Texts({"beta", "deprecated", "removed", "stable", "underDevelopment"})
FileSystemPath ==
  Tagged("type", {}, {"path", "glob_pattern"}, [special |-> "SpecialFileSystemPath"])
FileSystemSpecialPath ==
  Tagged("kind", {"root", "minimal", "tmpdir", "slash_tmp"}, {"project_roots",
    "unknown"}, NoNest)
ForcedChatGPTWorkspaceIDs == StringOr("text")
FunctionCallOutputBody == StringOr("FunctionCallOutputContentItem")
FunctionCallOutputContentItem ==
  Tagged("type", {}, {"input_text", "input_image", "input_audio",
    "encrypted_content"}, NoNest)
GuardianApprovalReviewAction ==
  Tagged("type", {}, {"command", "execve", "applyPatch", "networkAccess",
    "mcpToolCall"},
    [requestPermissions |-> "RequestPermissionsGuardianApprovalReviewAction"])
InputModality == Texts({"audio", "image", "text"})
LoginAccountParams ==
  Tagged("type", {"chatgptDeviceCode"}, {"apiKey", "chatgpt", "chatgptAuthTokens",
    "amazonBedrock"}, NoNest)
LoginAccountResponse ==
  Tagged("type", {"apiKey", "chatgptAuthTokens", "amazonBedrock"}, {"chatgpt",
    "chatgptDeviceCode"}, NoNest)
MessagePhase == Texts({"commentary", "final_answer"})
MultiAgentMode == Keyed({"explicitRequestOnly", "proactive"}, <<"custom">>, NoNest)
PatchChangeKind == Tagged("type", {"add", "delete"}, {"update"}, NoNest)
PluginAvailability == Texts({"AVAILABLE", "DISABLED_BY_ADMIN"})
PluginSource == Tagged("type", {"remote"}, {"local", "git", "npm"}, NoNest)
ProcessOutputStream == Texts({"stderr", "stdout"})
ReasoningItemContent == Tagged("type", {}, {"reasoning_text", "text"}, NoNest)
ReasoningSummary == Texts({"auto", "concise", "detailed", "none"})
ResourceContent == Keyed({}, <<"text", "blob">>, NoNest)
ResponseItem ==
  Tagged("type", {"compaction_trigger", "other"}, {"local_shell_call",
    "function_call", "tool_search_call", "custom_tool_call", "tool_search_output",
    "image_generation_call", "compaction", "context_compaction"},
    [message |-> "MessageResponseItem", agent_message |-> "AgentMessageResponseItem",
    reasoning |-> "ReasoningResponseItem",
    function_call_output |-> "FunctionCallOutputResponseItem",
    custom_tool_call_output |-> "CustomToolCallOutputResponseItem",
    web_search_call |-> "WebSearchCallResponseItem"])
ResponsesAPIWebSearchAction ==
  Tagged("type", {"other"}, {"search", "open_page", "find_in_page"}, NoNest)
ReviewTarget ==
  Tagged("type", {"uncommittedChanges"}, {"baseBranch", "commit", "custom"}, NoNest)
SandboxPolicy ==
  Tagged("type", {"dangerFullAccess"}, {"readOnly", "externalSandbox",
    "workspaceWrite"}, NoNest)
ScheduledTaskSchedule ==
  Tagged("type", {}, {"hourly", "daily", "weekdays", "weekly"}, NoNest)
SessionSource ==
  Keyed({"appServer", "cli", "exec", "unknown", "vscode"}, <<"custom", "subAgent">>,
    [subAgent |-> "SubAgentSessionSource"])
SubAgentSource ==
  Keyed({"compact", "memory_consolidation", "review"}, <<"thread_spawn", "other">>,
    NoNest)
ThreadItem ==
  Tagged("type", {}, {"hookPrompt", "plan", "reasoning", "mcpToolCall",
    "collabAgentToolCall", "subAgentActivity", "imageView", "sleep",
    "imageGeneration", "enteredReviewMode", "exitedReviewMode", "contextCompaction"},
    [userMessage |-> "UserMessageThreadItem",
    agentMessage |-> "AgentMessageThreadItem",
    commandExecution |-> "CommandExecutionThreadItem",
    fileChange |-> "FileChangeThreadItem",
    dynamicToolCall |-> "DynamicToolCallThreadItem",
    webSearch |-> "WebSearchThreadItem"])
ThreadListCwdFilter == StringOr("text")
ThreadRealtimeStartTransport == Tagged("type", {"websocket"}, {"webrtc"}, NoNest)
ThreadStatus == Tagged("type", {"notLoaded", "idle", "systemError"}, {"active"}, NoNest)
TurnItemsView == Texts({"full", "notLoaded", "summary"})
UserInput ==
  Tagged("type", {}, {"text", "image", "localImage", "audio", "localAudio", "skill",
    "mention"}, NoNest)
WebSearchAction ==
  Tagged("type", {"other"}, {"search", "openPage", "findInPage"}, NoNest)

Unions ==
  [Account |-> Account, AgentMessageInputContent |-> AgentMessageInputContent,
   AskForApproval |-> AskForApproval, AuthMode |-> AuthMode,
   AutoCompactTokenLimitScope |-> AutoCompactTokenLimitScope,
   CodexErrorInfo |-> CodexErrorInfo, CommandAction |-> CommandAction,
   CommandExecOutputStream |-> CommandExecOutputStream,
   ConfigLayerSource |-> ConfigLayerSource,
   ConfiguredHookHandler |-> ConfiguredHookHandler,
   ConsumeAccountRateLimitResetCreditOutcome |-> ConsumeAccountRateLimitResetCreditOutcome,
   ContentItem |-> ContentItem,
   DynamicToolCallOutputContentItem |-> DynamicToolCallOutputContentItem,
   DynamicToolSpec |-> DynamicToolSpec,
   EnvironmentStatusKind |-> EnvironmentStatusKind,
   ExperimentalFeatureStage |-> ExperimentalFeatureStage,
   FileSystemPath |-> FileSystemPath,
   FileSystemSpecialPath |-> FileSystemSpecialPath,
   ForcedChatGPTWorkspaceIDs |-> ForcedChatGPTWorkspaceIDs,
   FunctionCallOutputBody |-> FunctionCallOutputBody,
   FunctionCallOutputContentItem |-> FunctionCallOutputContentItem,
   GuardianApprovalReviewAction |-> GuardianApprovalReviewAction,
   InputModality |-> InputModality, LoginAccountParams |-> LoginAccountParams,
   LoginAccountResponse |-> LoginAccountResponse, MessagePhase |-> MessagePhase,
   MultiAgentMode |-> MultiAgentMode, PatchChangeKind |-> PatchChangeKind,
   PluginAvailability |-> PluginAvailability, PluginSource |-> PluginSource,
   ProcessOutputStream |-> ProcessOutputStream,
   ReasoningItemContent |-> ReasoningItemContent,
   ReasoningSummary |-> ReasoningSummary, ResourceContent |-> ResourceContent,
   ResponseItem |-> ResponseItem,
   ResponsesAPIWebSearchAction |-> ResponsesAPIWebSearchAction,
   ReviewTarget |-> ReviewTarget, SandboxPolicy |-> SandboxPolicy,
   ScheduledTaskSchedule |-> ScheduledTaskSchedule, SessionSource |-> SessionSource,
   SubAgentSource |-> SubAgentSource, ThreadItem |-> ThreadItem,
   ThreadListCwdFilter |-> ThreadListCwdFilter,
   ThreadRealtimeStartTransport |-> ThreadRealtimeStartTransport,
   ThreadStatus |-> ThreadStatus, TurnItemsView |-> TurnItemsView,
   UserInput |-> UserInput, WebSearchAction |-> WebSearchAction]
=============================================================================
