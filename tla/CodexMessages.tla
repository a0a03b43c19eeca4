--------------------------- MODULE CodexMessages ---------------------------
(* The structs of the Codex app-server protocol that hold unions
   (pkg/llm/codex/protocol_gen.go), directly or through another struct.  A struct
   with union fields has an UnmarshalJSONFrom of its own, which reads them raw and
   passes each to its decodeGenerated function; the others are left to the json
   package.  A definition names the fields that hold unions or such structs; the
   scalar fields are one field, rest.  A map is the list of its values.       *)
EXTENDS CodexUnions

fieldOf(opt, many, of) == [opt |-> opt, many |-> many, of |-> of]
One(of) == fieldOf(FALSE, FALSE, of)
OptOne(of) == fieldOf(TRUE, FALSE, of)
Many(of) == fieldOf(FALSE, TRUE, of)
OptMany(of) == fieldOf(TRUE, TRUE, of)
Map(of) == Many(of)

\* A struct with the given fields and scalar ones besides, or with these only.
Struct(fields) == [kind |-> "struct", fields |-> fields, plain |-> {"rest"}]
Only(fields) == [kind |-> "struct", fields |-> fields, plain |-> {}]

-----------------------------------------------------------------------------
AccountUpdatedNotification == Struct([authMode |-> OptOne("AuthMode")])
AdditionalFileSystemPermissions ==
  Struct([entries |-> OptMany("FileSystemSandboxEntry")])
CommandExecOutputDeltaNotification ==
  Struct([stream |-> One("CommandExecOutputStream")])
CommandExecParams == Struct([sandboxPolicy |-> OptOne("SandboxPolicy")])
ConfigPayload ==
  Struct([approval_policy |-> OptOne("AskForApproval"),
    forced_chatgpt_workspace_id |-> OptOne("ForcedChatGPTWorkspaceIDs"),
    model_auto_compact_token_limit_scope |-> OptOne("AutoCompactTokenLimitScope"),
    model_reasoning_summary |-> OptOne("ReasoningSummary")])
ConfigLayer == Struct([name |-> One("ConfigLayerSource")])
ConfigLayerMetadata == Struct([name |-> One("ConfigLayerSource")])
ConfigReadResponse ==
  Only([config |-> One("ConfigPayload"), layers |-> OptMany("ConfigLayer"),
    origins |-> Map("ConfigLayerMetadata")])
ConfigRequirements ==
  Struct([allowedApprovalPolicies |-> OptMany("AskForApproval"),
    hooks |-> OptOne("ManagedHooksRequirements")])
ConfigRequirementsReadResponse == Only([requirements |-> OptOne("ConfigRequirements")])
ConfigWriteResponse == Struct([overriddenMetadata |-> OptOne("OverriddenMetadata")])
ConfiguredHookMatcherGroup == Struct([hooks |-> Many("ConfiguredHookHandler")])
ConsumeAccountRateLimitResetCreditResponse ==
  Only([outcome |-> One("ConsumeAccountRateLimitResetCreditOutcome")])
EnvironmentStatusResponse == Struct([status |-> One("EnvironmentStatusKind")])
ErrorNotification == Struct([error |-> One("TurnError")])
ExperimentalFeature == Struct([stage |-> One("ExperimentalFeatureStage")])
ExperimentalFeatureListResponse == Struct([data |-> Many("ExperimentalFeature")])
FileChangePatchUpdatedNotification == Struct([changes |-> Many("FileUpdateChange")])
SpecialFileSystemPath == Only([value |-> One("FileSystemSpecialPath")])
FileSystemSandboxEntry == Struct([path |-> One("FileSystemPath")])
FileUpdateChange == Struct([kind |-> One("PatchChangeKind")])
GetAccountResponse == Struct([account |-> OptOne("Account")])
RequestPermissionsGuardianApprovalReviewAction ==
  Struct([permissions |-> One("RequestPermissionProfile")])
ItemCompletedNotification == Struct([item |-> One("ThreadItem")])
ItemGuardianApprovalReviewCompletedNotification ==
  Struct([action |-> One("GuardianApprovalReviewAction")])
ItemGuardianApprovalReviewStartedNotification ==
  Struct([action |-> One("GuardianApprovalReviewAction")])
ItemStartedNotification == Struct([item |-> One("ThreadItem")])
ManagedHooksRequirements ==
  Struct([PermissionRequest |-> Many("ConfiguredHookMatcherGroup"),
    PostCompact |-> Many("ConfiguredHookMatcherGroup"),
    PostToolUse |-> Many("ConfiguredHookMatcherGroup"),
    PreCompact |-> Many("ConfiguredHookMatcherGroup"),
    PreToolUse |-> Many("ConfiguredHookMatcherGroup"),
    SessionEnd |-> OptMany("ConfiguredHookMatcherGroup"),
    SessionStart |-> Many("ConfiguredHookMatcherGroup"),
    Stop |-> Many("ConfiguredHookMatcherGroup"),
    SubagentStart |-> Many("ConfiguredHookMatcherGroup"),
    SubagentStop |-> Many("ConfiguredHookMatcherGroup"),
    UserPromptSubmit |-> Many("ConfiguredHookMatcherGroup")])
MCPResourceReadResponse == Only([contents |-> Many("ResourceContent")])
Model == Struct([inputModalities |-> OptMany("InputModality")])
ModelListResponse == Struct([data |-> Many("Model")])
OverriddenMetadata == Struct([overridingLayer |-> One("ConfigLayerMetadata")])
PluginDetail ==
  Struct([scheduledTasks |-> OptMany("ScheduledTaskSummary"),
    summary |-> One("PluginSummary")])
PluginInstalledResponse == Struct([marketplaces |-> Many("PluginMarketplaceEntry")])
PluginListResponse == Struct([marketplaces |-> Many("PluginMarketplaceEntry")])
PluginMarketplaceEntry == Struct([plugins |-> Many("PluginSummary")])
PluginReadResponse == Only([plugin |-> One("PluginDetail")])
PluginShareListItem == Struct([plugin |-> One("PluginSummary")])
PluginShareListResponse == Only([data |-> Many("PluginShareListItem")])
PluginSummary ==
  Struct([availability |-> OptOne("PluginAvailability"),
    source |-> One("PluginSource")])
ProcessOutputDeltaNotification == Struct([stream |-> One("ProcessOutputStream")])
RawResponseItemCompletedNotification == Struct([item |-> One("ResponseItem")])
RequestPermissionProfile ==
  Struct([fileSystem |-> OptOne("AdditionalFileSystemPermissions")])
MessageResponseItem ==
  Struct([content |-> Many("ContentItem"), phase |-> OptOne("MessagePhase")])
AgentMessageResponseItem == Struct([content |-> Many("AgentMessageInputContent")])
ReasoningResponseItem == Struct([content |-> OptMany("ReasoningItemContent")])
FunctionCallOutputResponseItem == Struct([output |-> One("FunctionCallOutputBody")])
CustomToolCallOutputResponseItem == Struct([output |-> One("FunctionCallOutputBody")])
WebSearchCallResponseItem == Struct([action |-> OptOne("ResponsesAPIWebSearchAction")])
ReviewStartParams == Struct([target |-> One("ReviewTarget")])
ReviewStartResponse == Struct([turn |-> One("Turn")])
ScheduledTaskSummary == Struct([schedule |-> One("ScheduledTaskSchedule")])
SubAgentSessionSource == Only([subAgent |-> One("SubAgentSource")])
ThreadPayload ==
  Struct([source |-> One("SessionSource"), status |-> One("ThreadStatus"),
    turns |-> Many("Turn")])
ThreadForkParams == Struct([approvalPolicy |-> OptOne("AskForApproval")])
ThreadForkResponse ==
  Struct([approvalPolicy |-> One("AskForApproval"),
    multiAgentMode |-> OptOne("MultiAgentMode"), sandbox |-> One("SandboxPolicy"),
    thread |-> One("ThreadPayload")])
UserMessageThreadItem == Struct([content |-> Many("UserInput")])
AgentMessageThreadItem == Struct([phase |-> OptOne("MessagePhase")])
CommandExecutionThreadItem == Struct([commandActions |-> Many("CommandAction")])
FileChangeThreadItem == Struct([changes |-> Many("FileUpdateChange")])
DynamicToolCallThreadItem ==
  Struct([contentItems |-> OptMany("DynamicToolCallOutputContentItem")])
WebSearchThreadItem == Struct([action |-> OptOne("WebSearchAction")])
ThreadItemEntry == Struct([item |-> One("ThreadItem")])
ThreadItemsListResponse == Struct([data |-> Many("ThreadItemEntry")])
ThreadListParams == Struct([cwd |-> OptOne("ThreadListCwdFilter")])
ThreadListResponse == Struct([data |-> Many("ThreadPayload")])
ThreadMetadataUpdateResponse == Only([thread |-> One("ThreadPayload")])
ThreadReadResponse == Only([thread |-> One("ThreadPayload")])
ThreadRealtimeStartParams ==
  Struct([transport |-> OptOne("ThreadRealtimeStartTransport")])
ThreadResumeInitialTurnsPageParams == Struct([itemsView |-> OptOne("TurnItemsView")])
ThreadResumeParams ==
  Struct([approvalPolicy |-> OptOne("AskForApproval"),
    history |-> OptMany("ResponseItem"),
    initialTurnsPage |-> OptOne("ThreadResumeInitialTurnsPageParams")])
ThreadResumeResponse ==
  Struct([approvalPolicy |-> One("AskForApproval"),
    initialTurnsPage |-> OptOne("TurnsPage"),
    multiAgentMode |-> OptOne("MultiAgentMode"), sandbox |-> One("SandboxPolicy"),
    thread |-> One("ThreadPayload")])
ThreadRollbackResponse == Only([thread |-> One("ThreadPayload")])
ThreadSearchResponse == Struct([data |-> Many("ThreadSearchResult")])
ThreadSearchResult == Struct([thread |-> One("ThreadPayload")])
ThreadSettings ==
  Struct([approvalPolicy |-> One("AskForApproval"),
    multiAgentMode |-> OptOne("MultiAgentMode"),
    sandboxPolicy |-> One("SandboxPolicy"), summary |-> OptOne("ReasoningSummary")])
ThreadSettingsUpdateParams ==
  Struct([approvalPolicy |-> OptOne("AskForApproval"),
    multiAgentMode |-> OptOne("MultiAgentMode"),
    sandboxPolicy |-> OptOne("SandboxPolicy"),
    summary |-> OptOne("ReasoningSummary")])
ThreadSettingsUpdatedNotification == Struct([threadSettings |-> One("ThreadSettings")])
ThreadStartParams ==
  Struct([approvalPolicy |-> OptOne("AskForApproval"),
    dynamicTools |-> OptMany("DynamicToolSpec"),
    multiAgentMode |-> OptOne("MultiAgentMode")])
ThreadStartResponse ==
  Struct([approvalPolicy |-> One("AskForApproval"),
    multiAgentMode |-> OptOne("MultiAgentMode"), sandbox |-> One("SandboxPolicy"),
    thread |-> One("ThreadPayload")])
ThreadStartedNotification == Only([thread |-> One("ThreadPayload")])
ThreadStatusChangedNotification == Struct([status |-> One("ThreadStatus")])
ThreadTurnsListParams == Struct([itemsView |-> OptOne("TurnItemsView")])
ThreadTurnsListResponse == Struct([data |-> Many("Turn")])
ThreadUnarchiveResponse == Only([thread |-> One("ThreadPayload")])
Turn ==
  Struct([error |-> OptOne("TurnError"), items |-> Many("ThreadItem"),
    itemsView |-> OptOne("TurnItemsView")])
TurnCompletedNotification == Struct([turn |-> One("Turn")])
TurnError == Struct([codexErrorInfo |-> OptOne("CodexErrorInfo")])
TurnStartParams ==
  Struct([approvalPolicy |-> OptOne("AskForApproval"), input |-> Many("UserInput"),
    multiAgentMode |-> OptOne("MultiAgentMode"),
    sandboxPolicy |-> OptOne("SandboxPolicy"),
    summary |-> OptOne("ReasoningSummary")])
TurnStartResponse == Only([turn |-> One("Turn")])
TurnStartedNotification == Struct([turn |-> One("Turn")])
TurnSteerParams == Struct([input |-> Many("UserInput")])
TurnsPage == Struct([data |-> Many("Turn")])

Messages ==
  [AccountUpdatedNotification |-> AccountUpdatedNotification,
   AdditionalFileSystemPermissions |-> AdditionalFileSystemPermissions,
   CommandExecOutputDeltaNotification |-> CommandExecOutputDeltaNotification,
   CommandExecParams |-> CommandExecParams, ConfigPayload |-> ConfigPayload,
   ConfigLayer |-> ConfigLayer, ConfigLayerMetadata |-> ConfigLayerMetadata,
   ConfigReadResponse |-> ConfigReadResponse,
   ConfigRequirements |-> ConfigRequirements,
   ConfigRequirementsReadResponse |-> ConfigRequirementsReadResponse,
   ConfigWriteResponse |-> ConfigWriteResponse,
   ConfiguredHookMatcherGroup |-> ConfiguredHookMatcherGroup,
   ConsumeAccountRateLimitResetCreditResponse |-> ConsumeAccountRateLimitResetCreditResponse,
   EnvironmentStatusResponse |-> EnvironmentStatusResponse,
   ErrorNotification |-> ErrorNotification,
   ExperimentalFeature |-> ExperimentalFeature,
   ExperimentalFeatureListResponse |-> ExperimentalFeatureListResponse,
   FileChangePatchUpdatedNotification |-> FileChangePatchUpdatedNotification,
   SpecialFileSystemPath |-> SpecialFileSystemPath,
   FileSystemSandboxEntry |-> FileSystemSandboxEntry,
   FileUpdateChange |-> FileUpdateChange, GetAccountResponse |-> GetAccountResponse,
   RequestPermissionsGuardianApprovalReviewAction |-> RequestPermissionsGuardianApprovalReviewAction,
   ItemCompletedNotification |-> ItemCompletedNotification,
   ItemGuardianApprovalReviewCompletedNotification |-> ItemGuardianApprovalReviewCompletedNotification,
   ItemGuardianApprovalReviewStartedNotification |-> ItemGuardianApprovalReviewStartedNotification,
   ItemStartedNotification |-> ItemStartedNotification,
   ManagedHooksRequirements |-> ManagedHooksRequirements,
   MCPResourceReadResponse |-> MCPResourceReadResponse, Model |-> Model,
   ModelListResponse |-> ModelListResponse,
   OverriddenMetadata |-> OverriddenMetadata, PluginDetail |-> PluginDetail,
   PluginInstalledResponse |-> PluginInstalledResponse,
   PluginListResponse |-> PluginListResponse,
   PluginMarketplaceEntry |-> PluginMarketplaceEntry,
   PluginReadResponse |-> PluginReadResponse,
   PluginShareListItem |-> PluginShareListItem,
   PluginShareListResponse |-> PluginShareListResponse,
   PluginSummary |-> PluginSummary,
   ProcessOutputDeltaNotification |-> ProcessOutputDeltaNotification,
   RawResponseItemCompletedNotification |-> RawResponseItemCompletedNotification,
   RequestPermissionProfile |-> RequestPermissionProfile,
   MessageResponseItem |-> MessageResponseItem,
   AgentMessageResponseItem |-> AgentMessageResponseItem,
   ReasoningResponseItem |-> ReasoningResponseItem,
   FunctionCallOutputResponseItem |-> FunctionCallOutputResponseItem,
   CustomToolCallOutputResponseItem |-> CustomToolCallOutputResponseItem,
   WebSearchCallResponseItem |-> WebSearchCallResponseItem,
   ReviewStartParams |-> ReviewStartParams,
   ReviewStartResponse |-> ReviewStartResponse,
   ScheduledTaskSummary |-> ScheduledTaskSummary,
   SubAgentSessionSource |-> SubAgentSessionSource, ThreadPayload |-> ThreadPayload,
   ThreadForkParams |-> ThreadForkParams, ThreadForkResponse |-> ThreadForkResponse,
   UserMessageThreadItem |-> UserMessageThreadItem,
   AgentMessageThreadItem |-> AgentMessageThreadItem,
   CommandExecutionThreadItem |-> CommandExecutionThreadItem,
   FileChangeThreadItem |-> FileChangeThreadItem,
   DynamicToolCallThreadItem |-> DynamicToolCallThreadItem,
   WebSearchThreadItem |-> WebSearchThreadItem, ThreadItemEntry |-> ThreadItemEntry,
   ThreadItemsListResponse |-> ThreadItemsListResponse,
   ThreadListParams |-> ThreadListParams, ThreadListResponse |-> ThreadListResponse,
   ThreadMetadataUpdateResponse |-> ThreadMetadataUpdateResponse,
   ThreadReadResponse |-> ThreadReadResponse,
   ThreadRealtimeStartParams |-> ThreadRealtimeStartParams,
   ThreadResumeInitialTurnsPageParams |-> ThreadResumeInitialTurnsPageParams,
   ThreadResumeParams |-> ThreadResumeParams,
   ThreadResumeResponse |-> ThreadResumeResponse,
   ThreadRollbackResponse |-> ThreadRollbackResponse,
   ThreadSearchResponse |-> ThreadSearchResponse,
   ThreadSearchResult |-> ThreadSearchResult, ThreadSettings |-> ThreadSettings,
   ThreadSettingsUpdateParams |-> ThreadSettingsUpdateParams,
   ThreadSettingsUpdatedNotification |-> ThreadSettingsUpdatedNotification,
   ThreadStartParams |-> ThreadStartParams,
   ThreadStartResponse |-> ThreadStartResponse,
   ThreadStartedNotification |-> ThreadStartedNotification,
   ThreadStatusChangedNotification |-> ThreadStatusChangedNotification,
   ThreadTurnsListParams |-> ThreadTurnsListParams,
   ThreadTurnsListResponse |-> ThreadTurnsListResponse,
   ThreadUnarchiveResponse |-> ThreadUnarchiveResponse, Turn |-> Turn,
   TurnCompletedNotification |-> TurnCompletedNotification, TurnError |-> TurnError,
   TurnStartParams |-> TurnStartParams, TurnStartResponse |-> TurnStartResponse,
   TurnStartedNotification |-> TurnStartedNotification,
   TurnSteerParams |-> TurnSteerParams, TurnsPage |-> TurnsPage]
=============================================================================
