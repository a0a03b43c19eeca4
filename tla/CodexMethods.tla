---------------------------- MODULE CodexMethods ----------------------------
(* The method tables of the Codex app-server protocol: the request and
   notification methods of pkg/llm/codex/protocol_gen.go, the notification registry
   of notification.go and the request methods of Client in method.go.  A table is
   keyed by the part of the Go names that the tables share: ThreadStart stands for
   RequestMethodThreadStart, ThreadStartRequest and their case.              *)
EXTENDS Sequences, TLC

Call(method, how, params, result) ==
  [method |-> method, how |-> how, params |-> params, result |-> result]
Ptr(method, params, result) == Call(method, "pointer", params, result)
Merge(method, params, result) == Call(method, "merge", params, result)
Made(method, params, result) == Call(method, "made", params, result)
None(method, result) == Call(method, "none", "none", result)

-----------------------------------------------------------------------------
(* RequestMethod constants: the method string of every request.             *)
RequestMethod1 ==
  [Initialize |-> "initialize", ThreadStart |-> "thread/start",
    ThreadResume |-> "thread/resume", ThreadFork |-> "thread/fork",
    ThreadArchive |-> "thread/archive", ThreadDelete |-> "thread/delete",
    ThreadUnsubscribe |-> "thread/unsubscribe",
    ThreadIncrementElicitation |-> "thread/increment_elicitation",
    ThreadDecrementElicitation |-> "thread/decrement_elicitation",
    ThreadNameSet |-> "thread/name/set", ThreadGoalSet |-> "thread/goal/set",
    ThreadGoalGet |-> "thread/goal/get", ThreadGoalClear |-> "thread/goal/clear",
    ThreadMetadataUpdate |-> "thread/metadata/update",
    ThreadSettingsUpdate |-> "thread/settings/update",
    ThreadMemoryModeSet |-> "thread/memoryMode/set", MemoryReset |-> "memory/reset",
    ThreadUnarchive |-> "thread/unarchive",
    ThreadCompactStart |-> "thread/compact/start",
    ThreadShellCommand |-> "thread/shellCommand",
    ThreadApproveGuardianDeniedAction |-> "thread/approveGuardianDeniedAction",
    ThreadBackgroundTerminalsClean |-> "thread/backgroundTerminals/clean",
    ThreadBackgroundTerminalsList |-> "thread/backgroundTerminals/list",
    ThreadBackgroundTerminalsTerminate |-> "thread/backgroundTerminals/terminate",
    ThreadRollback |-> "thread/rollback", ThreadList |-> "thread/list",
    ThreadSearch |-> "thread/search",
    ThreadSearchOccurrences |-> "thread/searchOccurrences",
    ThreadLoadedList |-> "thread/loaded/list", ThreadRead |-> "thread/read",
    ThreadTurnsList |-> "thread/turns/list", ThreadItemsList |-> "thread/items/list",
    ThreadInjectItems |-> "thread/inject_items", SkillsList |-> "skills/list",
    SkillsExtraRootsSet |-> "skills/extraRoots/set", HooksList |-> "hooks/list",
    MarketplaceAdd |-> "marketplace/add", MarketplaceRemove |-> "marketplace/remove",
    MarketplaceUpgrade |-> "marketplace/upgrade", PluginList |-> "plugin/list",
    PluginInstalled |-> "plugin/installed", PluginRead |-> "plugin/read",
    PluginSkillRead |-> "plugin/skill/read", PluginShareSave |-> "plugin/share/save",
    PluginShareUpdateTargets |-> "plugin/share/updateTargets",
    PluginShareList |-> "plugin/share/list",
    PluginShareCheckout |-> "plugin/share/checkout",
    PluginShareDelete |-> "plugin/share/delete", AppRead |-> "app/read",
    AppList |-> "app/list", AppInstalled |-> "app/installed",
    FSReadFile |-> "fs/readFile", FSWriteFile |-> "fs/writeFile",
    FSCreateDirectory |-> "fs/createDirectory", FSGetMetadata |-> "fs/getMetadata",
    FSReadDirectory |-> "fs/readDirectory", FSRemove |-> "fs/remove",
    FSCopy |-> "fs/copy", FSWatch |-> "fs/watch", FSUnwatch |-> "fs/unwatch",
    SkillsConfigWrite |-> "skills/config/write", PluginInstall |-> "plugin/install",
    PluginUninstall |-> "plugin/uninstall", TurnStart |-> "turn/start",
    TurnSteer |-> "turn/steer", TurnInterrupt |-> "turn/interrupt",
    ThreadRealtimeStart |-> "thread/realtime/start",
    ThreadRealtimeAppendAudio |-> "thread/realtime/appendAudio",
    ThreadRealtimeAppendText |-> "thread/realtime/appendText",
    ThreadRealtimeAppendSpeech |-> "thread/realtime/appendSpeech",
    ThreadRealtimeStop |-> "thread/realtime/stop",
    ThreadRealtimeListVoices |-> "thread/realtime/listVoices",
    ReviewStart |-> "review/start", ModelList |-> "model/list",
    ModelProviderCapabilitiesRead |-> "modelProvider/capabilities/read"]
RequestMethod2 ==
  [ExperimentalFeatureList |-> "experimentalFeature/list",
    PermissionProfileList |-> "permissionProfile/list",
    ExperimentalFeatureEnablementSet |-> "experimentalFeature/enablement/set",
    RemoteControlEnable |-> "remoteControl/enable",
    RemoteControlDisable |-> "remoteControl/disable",
    RemoteControlStatusRead |-> "remoteControl/status/read",
    RemoteControlPairingStart |-> "remoteControl/pairing/start",
    RemoteControlPairingStatus |-> "remoteControl/pairing/status",
    RemoteControlClientList |-> "remoteControl/client/list",
    RemoteControlClientRevoke |-> "remoteControl/client/revoke",
    CollaborationModeList |-> "collaborationMode/list",
    MockExperimentalMethod |-> "mock/experimentalMethod",
    EnvironmentAdd |-> "environment/add", EnvironmentInfo |-> "environment/info",
    EnvironmentStatus |-> "environment/status",
    MCPServerOAuthLogin |-> "mcpServer/oauth/login",
    ConfigMCPServerReload |-> "config/mcpServer/reload",
    MCPServerStatusList |-> "mcpServerStatus/list",
    MCPServerResourceRead |-> "mcpServer/resource/read",
    MCPServerToolCall |-> "mcpServer/tool/call",
    WindowsSandboxSetupStart |-> "windowsSandbox/setupStart",
    WindowsSandboxReadiness |-> "windowsSandbox/readiness",
    AccountLoginStart |-> "account/login/start",
    AccountLoginCancel |-> "account/login/cancel", AccountLogout |-> "account/logout",
    AccountRateLimitsRead |-> "account/rateLimits/read",
    AccountRateLimitResetCreditConsume |-> "account/rateLimitResetCredit/consume",
    AccountUsageRead |-> "account/usage/read",
    AccountWorkspaceMessagesRead |-> "account/workspaceMessages/read",
    AccountSendAddCreditsNudgeEmail |-> "account/sendAddCreditsNudgeEmail",
    FeedbackUpload |-> "feedback/upload", CommandExec |-> "command/exec",
    CommandExecWrite |-> "command/exec/write",
    CommandExecTerminate |-> "command/exec/terminate",
    CommandExecResize |-> "command/exec/resize", ProcessSpawn |-> "process/spawn",
    ProcessWriteStdin |-> "process/writeStdin", ProcessKill |-> "process/kill",
    ProcessResizePty |-> "process/resizePty", ConfigRead |-> "config/read",
    ExternalAgentConfigDetect |-> "externalAgentConfig/detect",
    ExternalAgentConfigImport |-> "externalAgentConfig/import",
    ExternalAgentConfigImportReadHistories |-> "externalAgentConfig/import/readHistories",
    ConfigValueWrite |-> "config/value/write",
    ConfigBatchWrite |-> "config/batchWrite",
    ConfigRequirementsRead |-> "configRequirements/read",
    AccountRead |-> "account/read", FuzzyFileSearch |-> "fuzzyFileSearch",
    FuzzyFileSearchSessionStart |-> "fuzzyFileSearch/sessionStart",
    FuzzyFileSearchSessionUpdate |-> "fuzzyFileSearch/sessionUpdate",
    FuzzyFileSearchSessionStop |-> "fuzzyFileSearch/sessionStop"]

-----------------------------------------------------------------------------
(* The params type of every request struct of ClientRequest.               *)
RequestParams1 ==
  [Initialize |-> "InitializeParams", ThreadStart |-> "ThreadStartParams",
    ThreadResume |-> "ThreadResumeParams", ThreadFork |-> "ThreadForkParams",
    ThreadArchive |-> "ThreadArchiveParams", ThreadDelete |-> "ThreadDeleteParams",
    ThreadUnsubscribe |-> "ThreadUnsubscribeParams",
    ThreadIncrementElicitation |-> "ThreadIncrementElicitationParams",
    ThreadDecrementElicitation |-> "ThreadDecrementElicitationParams",
    ThreadNameSet |-> "ThreadSetNameParams", ThreadGoalSet |-> "ThreadGoalSetParams",
    ThreadGoalGet |-> "ThreadGoalGetParams",
    ThreadGoalClear |-> "ThreadGoalClearParams",
    ThreadMetadataUpdate |-> "ThreadMetadataUpdateParams",
    ThreadSettingsUpdate |-> "ThreadSettingsUpdateParams",
    ThreadMemoryModeSet |-> "ThreadMemoryModeSetParams"]
RequestParams2 ==
  [MemoryReset |-> "any", ThreadUnarchive |-> "ThreadUnarchiveParams",
    ThreadCompactStart |-> "ThreadCompactStartParams",
    ThreadShellCommand |-> "ThreadShellCommandParams",
    ThreadApproveGuardianDeniedAction |-> "ThreadApproveGuardianDeniedActionParams",
    ThreadBackgroundTerminalsClean |-> "ThreadBackgroundTerminalsCleanParams",
    ThreadBackgroundTerminalsList |-> "ThreadBackgroundTerminalsListParams",
    ThreadBackgroundTerminalsTerminate |-> "ThreadBackgroundTerminalsTerminateParams",
    ThreadRollback |-> "ThreadRollbackParams", ThreadList |-> "ThreadListParams",
    ThreadSearch |-> "ThreadSearchParams",
    ThreadSearchOccurrences |-> "ThreadSearchOccurrencesParams",
    ThreadLoadedList |-> "ThreadLoadedListParams", ThreadRead |-> "ThreadReadParams",
    ThreadTurnsList |-> "ThreadTurnsListParams",
    ThreadItemsList |-> "ThreadItemsListParams"]
RequestParams3 ==
  [ThreadInjectItems |-> "ThreadInjectItemsParams", SkillsList |-> "SkillsListParams",
    SkillsExtraRootsSet |-> "SkillsExtraRootsSetParams",
    HooksList |-> "HooksListParams", MarketplaceAdd |-> "MarketplaceAddParams",
    MarketplaceRemove |-> "MarketplaceRemoveParams",
    MarketplaceUpgrade |-> "MarketplaceUpgradeParams",
    PluginList |-> "PluginListParams", PluginInstalled |-> "PluginInstalledParams",
    PluginRead |-> "PluginReadParams", PluginSkillRead |-> "PluginSkillReadParams",
    PluginShareSave |-> "PluginShareSaveParams",
    PluginShareUpdateTargets |-> "PluginShareUpdateTargetsParams",
    PluginShareList |-> "PluginShareListParams",
    PluginShareCheckout |-> "PluginShareCheckoutParams",
    PluginShareDelete |-> "PluginShareDeleteParams"]
RequestParams4 ==
  [AppRead |-> "AppsReadParams", AppList |-> "AppsListParams",
    AppInstalled |-> "AppsInstalledParams", FSReadFile |-> "FSReadFileParams",
    FSWriteFile |-> "FSWriteFileParams",
    FSCreateDirectory |-> "FSCreateDirectoryParams",
    FSGetMetadata |-> "FSGetMetadataParams",
    FSReadDirectory |-> "FSReadDirectoryParams", FSRemove |-> "FSRemoveParams",
    FSCopy |-> "FSCopyParams", FSWatch |-> "FSWatchParams",
    FSUnwatch |-> "FSUnwatchParams", SkillsConfigWrite |-> "SkillsConfigWriteParams",
    PluginInstall |-> "PluginInstallParams",
    PluginUninstall |-> "PluginUninstallParams", TurnStart |-> "TurnStartParams"]
RequestParams5 ==
  [TurnSteer |-> "TurnSteerParams", TurnInterrupt |-> "TurnInterruptParams",
    ThreadRealtimeStart |-> "ThreadRealtimeStartParams",
    ThreadRealtimeAppendAudio |-> "ThreadRealtimeAppendAudioParams",
    ThreadRealtimeAppendText |-> "ThreadRealtimeAppendTextParams",
    ThreadRealtimeAppendSpeech |-> "ThreadRealtimeAppendSpeechParams",
    ThreadRealtimeStop |-> "ThreadRealtimeStopParams",
    ThreadRealtimeListVoices |-> "ThreadRealtimeListVoicesParams",
    ReviewStart |-> "ReviewStartParams", ModelList |-> "ModelListParams",
    ModelProviderCapabilitiesRead |-> "ModelProviderCapabilitiesReadParams",
    ExperimentalFeatureList |-> "ExperimentalFeatureListParams",
    PermissionProfileList |-> "PermissionProfileListParams",
    ExperimentalFeatureEnablementSet |-> "ExperimentalFeatureEnablementSetParams",
    RemoteControlEnable |-> "RemoteControlEnableParams",
    RemoteControlDisable |-> "RemoteControlDisableParams"]
RequestParams6 ==
  [RemoteControlStatusRead |-> "any",
    RemoteControlPairingStart |-> "RemoteControlPairingStartParams",
    RemoteControlPairingStatus |-> "RemoteControlPairingStatusParams",
    RemoteControlClientList |-> "RemoteControlClientsListParams",
    RemoteControlClientRevoke |-> "RemoteControlClientsRevokeParams",
    CollaborationModeList |-> "CollaborationModeListParams",
    MockExperimentalMethod |-> "MockExperimentalMethodParams",
    EnvironmentAdd |-> "EnvironmentAddParams",
    EnvironmentInfo |-> "EnvironmentInfoParams",
    EnvironmentStatus |-> "EnvironmentStatusParams",
    MCPServerOAuthLogin |-> "MCPServerOAuthLoginParams",
    ConfigMCPServerReload |-> "any",
    MCPServerStatusList |-> "ListMCPServerStatusParams",
    MCPServerResourceRead |-> "MCPResourceReadParams",
    MCPServerToolCall |-> "MCPServerToolCallParams",
    WindowsSandboxSetupStart |-> "WindowsSandboxSetupStartParams"]
RequestParams7 ==
  [WindowsSandboxReadiness |-> "any", AccountLoginStart |-> "LoginAccountParams",
    AccountLoginCancel |-> "CancelLoginAccountParams", AccountLogout |-> "any",
    AccountRateLimitsRead |-> "any",
    AccountRateLimitResetCreditConsume |-> "ConsumeAccountRateLimitResetCreditParams",
    AccountUsageRead |-> "any", AccountWorkspaceMessagesRead |-> "any",
    AccountSendAddCreditsNudgeEmail |-> "SendAddCreditsNudgeEmailParams",
    FeedbackUpload |-> "FeedbackUploadParams", CommandExec |-> "CommandExecParams",
    CommandExecWrite |-> "CommandExecWriteParams",
    CommandExecTerminate |-> "CommandExecTerminateParams",
    CommandExecResize |-> "CommandExecResizeParams"]
RequestParams8 ==
  [ProcessSpawn |-> "ProcessSpawnParams",
    ProcessWriteStdin |-> "ProcessWriteStdinParams",
    ProcessKill |-> "ProcessKillParams",
    ProcessResizePty |-> "ProcessResizePtyParams", ConfigRead |-> "ConfigReadParams",
    ExternalAgentConfigDetect |-> "ExternalAgentConfigDetectParams",
    ExternalAgentConfigImport |-> "ExternalAgentConfigImportParams",
    ExternalAgentConfigImportReadHistories |-> "any",
    ConfigValueWrite |-> "ConfigValueWriteParams",
    ConfigBatchWrite |-> "ConfigBatchWriteParams", ConfigRequirementsRead |-> "any",
    AccountRead |-> "GetAccountParams", FuzzyFileSearch |-> "FuzzyFileSearchParams",
    FuzzyFileSearchSessionStart |-> "FuzzyFileSearchSessionStartParams",
    FuzzyFileSearchSessionUpdate |-> "FuzzyFileSearchSessionUpdateParams",
    FuzzyFileSearchSessionStop |-> "FuzzyFileSearchSessionStopParams"]

-----------------------------------------------------------------------------
(* The cases of decodeGeneratedClientRequest.                              *)
decodeClientRequest1 ==
  {"Initialize", "ThreadStart", "ThreadResume", "ThreadFork", "ThreadArchive",
    "ThreadDelete", "ThreadUnsubscribe", "ThreadIncrementElicitation",
    "ThreadDecrementElicitation", "ThreadNameSet", "ThreadGoalSet", "ThreadGoalGet",
    "ThreadGoalClear", "ThreadMetadataUpdate", "ThreadSettingsUpdate",
    "ThreadMemoryModeSet", "MemoryReset", "ThreadUnarchive", "ThreadCompactStart",
    "ThreadShellCommand", "ThreadApproveGuardianDeniedAction",
    "ThreadBackgroundTerminalsClean", "ThreadBackgroundTerminalsList",
    "ThreadBackgroundTerminalsTerminate", "ThreadRollback"}
decodeClientRequest2 ==
  {"ThreadList", "ThreadSearch", "ThreadSearchOccurrences", "ThreadLoadedList",
    "ThreadRead", "ThreadTurnsList", "ThreadItemsList", "ThreadInjectItems",
    "SkillsList", "SkillsExtraRootsSet", "HooksList", "MarketplaceAdd",
    "MarketplaceRemove", "MarketplaceUpgrade", "PluginList", "PluginInstalled",
    "PluginRead", "PluginSkillRead", "PluginShareSave", "PluginShareUpdateTargets",
    "PluginShareList", "PluginShareCheckout", "PluginShareDelete", "AppRead",
    "AppList"}
decodeClientRequest3 ==
  {"AppInstalled", "FSReadFile", "FSWriteFile", "FSCreateDirectory", "FSGetMetadata",
    "FSReadDirectory", "FSRemove", "FSCopy", "FSWatch", "FSUnwatch",
    "SkillsConfigWrite", "PluginInstall", "PluginUninstall", "TurnStart", "TurnSteer",
    "TurnInterrupt", "ThreadRealtimeStart", "ThreadRealtimeAppendAudio",
    "ThreadRealtimeAppendText", "ThreadRealtimeAppendSpeech", "ThreadRealtimeStop",
    "ThreadRealtimeListVoices", "ReviewStart", "ModelList",
    "ModelProviderCapabilitiesRead"}
decodeClientRequest4 ==
  {"ExperimentalFeatureList", "PermissionProfileList",
    "ExperimentalFeatureEnablementSet", "RemoteControlEnable", "RemoteControlDisable",
    "RemoteControlStatusRead", "RemoteControlPairingStart",
    "RemoteControlPairingStatus", "RemoteControlClientList",
    "RemoteControlClientRevoke", "CollaborationModeList", "MockExperimentalMethod",
    "EnvironmentAdd", "EnvironmentInfo", "EnvironmentStatus", "MCPServerOAuthLogin",
    "ConfigMCPServerReload", "MCPServerStatusList", "MCPServerResourceRead",
    "MCPServerToolCall", "WindowsSandboxSetupStart", "WindowsSandboxReadiness",
    "AccountLoginStart", "AccountLoginCancel", "AccountLogout"}
decodeClientRequest5 ==
  {"AccountRateLimitsRead", "AccountRateLimitResetCreditConsume", "AccountUsageRead",
    "AccountWorkspaceMessagesRead", "AccountSendAddCreditsNudgeEmail",
    "FeedbackUpload", "CommandExec", "CommandExecWrite", "CommandExecTerminate",
    "CommandExecResize", "ProcessSpawn", "ProcessWriteStdin", "ProcessKill",
    "ProcessResizePty", "ConfigRead", "ExternalAgentConfigDetect",
    "ExternalAgentConfigImport", "ExternalAgentConfigImportReadHistories",
    "ConfigValueWrite", "ConfigBatchWrite", "ConfigRequirementsRead", "AccountRead",
    "FuzzyFileSearch", "FuzzyFileSearchSessionStart", "FuzzyFileSearchSessionUpdate"}
decodeClientRequest6 == {"FuzzyFileSearchSessionStop"}

-----------------------------------------------------------------------------
(* NotificationMethod constants: the method string of every notification.  *)
NotificationMethod ==
  [Error |-> "error", ThreadStarted |-> "thread/started",
    ThreadStatusChanged |-> "thread/status/changed",
    ThreadArchived |-> "thread/archived", ThreadDeleted |-> "thread/deleted",
    ThreadUnarchived |-> "thread/unarchived", ThreadClosed |-> "thread/closed",
    SkillsChanged |-> "skills/changed", ThreadNameUpdated |-> "thread/name/updated",
    ThreadGoalUpdated |-> "thread/goal/updated",
    ThreadGoalCleared |-> "thread/goal/cleared",
    ThreadEnvironmentConnected |-> "thread/environment/connected",
    ThreadEnvironmentDisconnected |-> "thread/environment/disconnected",
    ThreadSettingsUpdated |-> "thread/settings/updated",
    ThreadTokenUsageUpdated |-> "thread/tokenUsage/updated",
    TurnStarted |-> "turn/started", HookStarted |-> "hook/started",
    TurnCompleted |-> "turn/completed", HookCompleted |-> "hook/completed",
    TurnDiffUpdated |-> "turn/diff/updated", TurnPlanUpdated |-> "turn/plan/updated",
    ItemStarted |-> "item/started",
    ItemAutoApprovalReviewStarted |-> "item/autoApprovalReview/started",
    ItemAutoApprovalReviewCompleted |-> "item/autoApprovalReview/completed",
    ItemCompleted |-> "item/completed",
    ItemAgentMessageDelta |-> "item/agentMessage/delta",
    ItemPlanDelta |-> "item/plan/delta",
    CommandExecOutputDelta |-> "command/exec/outputDelta",
    ProcessOutputDelta |-> "process/outputDelta", ProcessExited |-> "process/exited",
    ItemCommandExecutionOutputDelta |-> "item/commandExecution/outputDelta",
    ItemCommandExecutionTerminalInteraction |-> "item/commandExecution/terminalInteraction",
    ItemFileChangeOutputDelta |-> "item/fileChange/outputDelta",
    ItemFileChangePatchUpdated |-> "item/fileChange/patchUpdated",
    ServerRequestResolved |-> "serverRequest/resolved",
    ItemMCPToolCallProgress |-> "item/mcpToolCall/progress",
    MCPServerOAuthLoginCompleted |-> "mcpServer/oauthLogin/completed",
    MCPServerStartupStatusUpdated |-> "mcpServer/startupStatus/updated",
    AccountUpdated |-> "account/updated",
    AccountRateLimitsUpdated |-> "account/rateLimits/updated",
    AppListUpdated |-> "app/list/updated",
    RemoteControlStatusChanged |-> "remoteControl/status/changed",
    ExternalAgentConfigImportProgress |-> "externalAgentConfig/import/progress",
    ExternalAgentConfigImportCompleted |-> "externalAgentConfig/import/completed",
    FSChanged |-> "fs/changed",
    ItemReasoningSummaryTextDelta |-> "item/reasoning/summaryTextDelta",
    ItemReasoningSummaryPartAdded |-> "item/reasoning/summaryPartAdded",
    ItemReasoningTextDelta |-> "item/reasoning/textDelta",
    ThreadCompacted |-> "thread/compacted", ModelRerouted |-> "model/rerouted",
    ModelVerification |-> "model/verification",
    TurnModerationMetadata |-> "turn/moderationMetadata",
    ModelSafetyBufferingUpdated |-> "model/safetyBuffering/updated",
    Warning |-> "warning", GuardianWarning |-> "guardianWarning",
    DeprecationNotice |-> "deprecationNotice", ConfigWarning |-> "configWarning",
    FuzzyFileSearchSessionUpdated |-> "fuzzyFileSearch/sessionUpdated",
    FuzzyFileSearchSessionCompleted |-> "fuzzyFileSearch/sessionCompleted",
    ThreadRealtimeStarted |-> "thread/realtime/started",
    ThreadRealtimeItemAdded |-> "thread/realtime/itemAdded",
    ThreadRealtimeTranscriptDelta |-> "thread/realtime/transcript/delta",
    ThreadRealtimeTranscriptDone |-> "thread/realtime/transcript/done",
    ThreadRealtimeOutputAudioDelta |-> "thread/realtime/outputAudio/delta",
    ThreadRealtimeSDP |-> "thread/realtime/sdp",
    ThreadRealtimeError |-> "thread/realtime/error",
    ThreadRealtimeClosed |-> "thread/realtime/closed",
    WindowsWorldWritableWarning |-> "windows/worldWritableWarning",
    WindowsSandboxSetupCompleted |-> "windowsSandbox/setupCompleted",
    AccountLoginCompleted |-> "account/login/completed"]

-----------------------------------------------------------------------------
(* The params type of every envelope struct of ServerNotification.  The five
   notifications without one are decoded as their own params: the generator found
   a definition of the envelope's title, which is the params struct.         *)
NotificationParams1 ==
  [ThreadStarted |-> "ThreadStartedNotification",
    ThreadStatusChanged |-> "ThreadStatusChangedNotification",
    ThreadArchived |-> "ThreadArchivedNotification",
    ThreadDeleted |-> "ThreadDeletedNotification",
    ThreadUnarchived |-> "ThreadUnarchivedNotification",
    ThreadClosed |-> "ThreadClosedNotification",
    SkillsChanged |-> "SkillsChangedNotification",
    ThreadNameUpdated |-> "ThreadNameUpdatedNotification",
    ThreadGoalUpdated |-> "ThreadGoalUpdatedNotification",
    ThreadGoalCleared |-> "ThreadGoalClearedNotification",
    ThreadEnvironmentConnected |-> "EnvironmentConnectionNotification",
    ThreadEnvironmentDisconnected |-> "EnvironmentConnectionNotification",
    ThreadSettingsUpdated |-> "ThreadSettingsUpdatedNotification",
    ThreadTokenUsageUpdated |-> "ThreadTokenUsageUpdatedNotification",
    TurnStarted |-> "TurnStartedNotification",
    HookStarted |-> "HookStartedNotification",
    TurnCompleted |-> "TurnCompletedNotification",
    HookCompleted |-> "HookCompletedNotification"]
NotificationParams2 ==
  [TurnDiffUpdated |-> "TurnDiffUpdatedNotification",
    TurnPlanUpdated |-> "TurnPlanUpdatedNotification",
    ItemStarted |-> "ItemStartedNotification",
    ItemAutoApprovalReviewStarted |-> "ItemGuardianApprovalReviewStartedNotification",
    ItemAutoApprovalReviewCompleted |-> "ItemGuardianApprovalReviewCompletedNotification",
    ItemCompleted |-> "ItemCompletedNotification",
    ItemAgentMessageDelta |-> "AgentMessageDeltaNotification",
    ItemPlanDelta |-> "PlanDeltaNotification",
    CommandExecOutputDelta |-> "CommandExecOutputDeltaNotification",
    ProcessOutputDelta |-> "ProcessOutputDeltaNotification",
    ProcessExited |-> "ProcessExitedNotification",
    ItemCommandExecutionOutputDelta |-> "CommandExecutionOutputDeltaNotification",
    ItemCommandExecutionTerminalInteraction |-> "TerminalInteractionNotification",
    ItemFileChangeOutputDelta |-> "FileChangeOutputDeltaNotification",
    ItemFileChangePatchUpdated |-> "FileChangePatchUpdatedNotification",
    ServerRequestResolved |-> "ServerRequestResolvedNotification",
    ItemMCPToolCallProgress |-> "MCPToolCallProgressNotification",
    MCPServerOAuthLoginCompleted |-> "MCPServerOAuthLoginCompletedNotification"]
NotificationParams3 ==
  [MCPServerStartupStatusUpdated |-> "MCPServerStatusUpdatedNotification",
    AccountUpdated |-> "AccountUpdatedNotification",
    AccountRateLimitsUpdated |-> "AccountRateLimitsUpdatedNotification",
    AppListUpdated |-> "AppListUpdatedNotification",
    RemoteControlStatusChanged |-> "RemoteControlStatusChangedNotification",
    ExternalAgentConfigImportProgress |-> "ExternalAgentConfigImportProgressNotification",
    ExternalAgentConfigImportCompleted |-> "ExternalAgentConfigImportCompletedNotification",
    FSChanged |-> "FSChangedNotification",
    ItemReasoningSummaryTextDelta |-> "ReasoningSummaryTextDeltaNotification",
    ItemReasoningSummaryPartAdded |-> "ReasoningSummaryPartAddedNotification",
    ItemReasoningTextDelta |-> "ReasoningTextDeltaNotification",
    ThreadCompacted |-> "ContextCompactedNotification",
    ModelRerouted |-> "ModelReroutedNotification",
    ModelVerification |-> "ModelVerificationNotification",
    TurnModerationMetadata |-> "TurnModerationMetadataNotification",
    ModelSafetyBufferingUpdated |-> "ModelSafetyBufferingUpdatedNotification",
    FuzzyFileSearchSessionUpdated |-> "FuzzyFileSearchSessionUpdatedNotification",
    FuzzyFileSearchSessionCompleted |-> "FuzzyFileSearchSessionCompletedNotification"]
NotificationParams4 ==
  [ThreadRealtimeStarted |-> "ThreadRealtimeStartedNotification",
    ThreadRealtimeItemAdded |-> "ThreadRealtimeItemAddedNotification",
    ThreadRealtimeTranscriptDelta |-> "ThreadRealtimeTranscriptDeltaNotification",
    ThreadRealtimeTranscriptDone |-> "ThreadRealtimeTranscriptDoneNotification",
    ThreadRealtimeOutputAudioDelta |-> "ThreadRealtimeOutputAudioDeltaNotification",
    ThreadRealtimeSDP |-> "ThreadRealtimeSDPNotification",
    ThreadRealtimeError |-> "ThreadRealtimeErrorNotification",
    ThreadRealtimeClosed |-> "ThreadRealtimeClosedNotification",
    WindowsWorldWritableWarning |-> "WindowsWorldWritableWarningNotification",
    WindowsSandboxSetupCompleted |-> "WindowsSandboxSetupCompletedNotification",
    AccountLoginCompleted |-> "AccountLoginCompletedNotification"]

-----------------------------------------------------------------------------
(* The cases of decodeGeneratedServerNotification.                         *)
decodeServerNotification1 ==
  {"Error", "ThreadStarted", "ThreadStatusChanged", "ThreadArchived", "ThreadDeleted",
    "ThreadUnarchived", "ThreadClosed", "SkillsChanged", "ThreadNameUpdated",
    "ThreadGoalUpdated", "ThreadGoalCleared", "ThreadEnvironmentConnected",
    "ThreadEnvironmentDisconnected", "ThreadSettingsUpdated",
    "ThreadTokenUsageUpdated", "TurnStarted", "HookStarted", "TurnCompleted",
    "HookCompleted", "TurnDiffUpdated", "TurnPlanUpdated", "ItemStarted",
    "ItemAutoApprovalReviewStarted", "ItemAutoApprovalReviewCompleted",
    "ItemCompleted"}
decodeServerNotification2 ==
  {"ItemAgentMessageDelta", "ItemPlanDelta", "CommandExecOutputDelta",
    "ProcessOutputDelta", "ProcessExited", "ItemCommandExecutionOutputDelta",
    "ItemCommandExecutionTerminalInteraction", "ItemFileChangeOutputDelta",
    "ItemFileChangePatchUpdated", "ServerRequestResolved", "ItemMCPToolCallProgress",
    "MCPServerOAuthLoginCompleted", "MCPServerStartupStatusUpdated", "AccountUpdated",
    "AccountRateLimitsUpdated", "AppListUpdated", "RemoteControlStatusChanged",
    "ExternalAgentConfigImportProgress", "ExternalAgentConfigImportCompleted",
    "FSChanged", "ItemReasoningSummaryTextDelta", "ItemReasoningSummaryPartAdded",
    "ItemReasoningTextDelta", "ThreadCompacted", "ModelRerouted"}
decodeServerNotification3 ==
  {"ModelVerification", "TurnModerationMetadata", "ModelSafetyBufferingUpdated",
    "Warning", "GuardianWarning", "DeprecationNotice", "ConfigWarning",
    "FuzzyFileSearchSessionUpdated", "FuzzyFileSearchSessionCompleted",
    "ThreadRealtimeStarted", "ThreadRealtimeItemAdded",
    "ThreadRealtimeTranscriptDelta", "ThreadRealtimeTranscriptDone",
    "ThreadRealtimeOutputAudioDelta", "ThreadRealtimeSDP", "ThreadRealtimeError",
    "ThreadRealtimeClosed", "WindowsWorldWritableWarning",
    "WindowsSandboxSetupCompleted", "AccountLoginCompleted"}

-----------------------------------------------------------------------------
(* notification.go: the type each decoder of the registry decodes params into,
   the notification and type of each Decode function, and the Decode function
   behind each method of Notification.                                       *)
notificationDecoders1 ==
  [AccountLoginCompleted |-> "AccountLoginCompletedNotification",
    AccountRateLimitsUpdated |-> "AccountRateLimitsUpdatedNotification",
    AccountUpdated |-> "AccountUpdatedNotification",
    AppListUpdated |-> "AppListUpdatedNotification",
    CommandExecOutputDelta |-> "CommandExecOutputDeltaNotification",
    ConfigWarning |-> "ConfigWarningNotification",
    DeprecationNotice |-> "DeprecationNoticeNotification",
    ItemAgentMessageDelta |-> "AgentMessageDeltaNotification",
    Error |-> "ErrorNotification",
    ExternalAgentConfigImportCompleted |-> "ExternalAgentConfigImportCompletedNotification",
    FSChanged |-> "FSChangedNotification",
    FuzzyFileSearchSessionCompleted |-> "FuzzyFileSearchSessionCompletedNotification",
    FuzzyFileSearchSessionUpdated |-> "FuzzyFileSearchSessionUpdatedNotification",
    GuardianWarning |-> "GuardianWarningNotification",
    HookCompleted |-> "HookCompletedNotification",
    HookStarted |-> "HookStartedNotification",
    ItemAutoApprovalReviewCompleted |-> "ItemGuardianApprovalReviewCompletedNotification",
    ItemAutoApprovalReviewStarted |-> "ItemGuardianApprovalReviewStartedNotification",
    ItemCommandExecutionOutputDelta |-> "ItemCommandExecutionOutputDeltaNotification",
    ItemCommandExecutionTerminalInteraction |-> "ItemCommandExecutionTerminalInteractionNotification",
    ItemCompleted |-> "ItemCompletedNotification",
    ItemFileChangeOutputDelta |-> "ItemFileChangeOutputDeltaNotification",
    ItemFileChangePatchUpdated |-> "ItemFileChangePatchUpdatedNotification",
    ItemMCPToolCallProgress |-> "MCPToolCallProgressNotification",
    ItemPlanDelta |-> "PlanDeltaNotification",
    ItemReasoningSummaryPartAdded |-> "ReasoningSummaryPartAddedNotification",
    ItemReasoningSummaryTextDelta |-> "ReasoningSummaryTextDeltaNotification",
    ItemReasoningTextDelta |-> "ReasoningTextDeltaNotification",
    ItemStarted |-> "ItemStartedNotification",
    MCPServerOAuthLoginCompleted |-> "MCPServerOAuthLoginCompletedNotification",
    MCPServerStartupStatusUpdated |-> "MCPServerStartupStatusUpdatedNotification",
    ModelRerouted |-> "ModelReroutedNotification",
    ModelVerification |-> "ModelVerificationNotification",
    TurnModerationMetadata |-> "TurnModerationMetadataNotification",
    ProcessExited |-> "ProcessExitedNotification",
    ProcessOutputDelta |-> "ProcessOutputDeltaNotification",
    RemoteControlStatusChanged |-> "RemoteControlStatusChangedNotification",
    ServerRequestResolved |-> "ServerRequestResolvedNotification",
    SkillsChanged |-> "SkillsChangedNotification",
    ThreadArchived |-> "ThreadArchivedNotification",
    ThreadDeleted |-> "ThreadDeletedNotification",
    ThreadClosed |-> "ThreadClosedNotification",
    ThreadCompacted |-> "ContextCompactedNotification",
    ThreadGoalCleared |-> "ThreadGoalClearedNotification",
    ThreadGoalUpdated |-> "ThreadGoalUpdatedNotification",
    ThreadSettingsUpdated |-> "ThreadSettingsUpdatedNotification",
    ThreadNameUpdated |-> "ThreadNameUpdatedNotification",
    ThreadRealtimeClosed |-> "ThreadRealtimeClosedNotification",
    ThreadRealtimeError |-> "ThreadRealtimeErrorNotification",
    ThreadRealtimeItemAdded |-> "ThreadRealtimeItemAddedNotification"]
notificationDecoders2 ==
  [ThreadRealtimeOutputAudioDelta |-> "ThreadRealtimeOutputAudioDeltaNotification",
    ThreadRealtimeSDP |-> "ThreadRealtimeSDPNotification",
    ThreadRealtimeStarted |-> "ThreadRealtimeStartedNotification",
    ThreadRealtimeTranscriptDelta |-> "ThreadRealtimeTranscriptDeltaNotification",
    ThreadRealtimeTranscriptDone |-> "ThreadRealtimeTranscriptDoneNotification",
    ThreadStarted |-> "ThreadStartedNotification",
    ThreadStatusChanged |-> "ThreadStatusChangedNotification",
    ThreadTokenUsageUpdated |-> "ThreadTokenUsageUpdatedNotification",
    ThreadUnarchived |-> "ThreadUnarchivedNotification",
    TurnCompleted |-> "TurnCompletedNotification",
    TurnDiffUpdated |-> "TurnDiffUpdatedNotification",
    TurnPlanUpdated |-> "TurnPlanUpdatedNotification",
    TurnStarted |-> "TurnStartedNotification", Warning |-> "WarningNotification",
    WindowsWorldWritableWarning |-> "WindowsWorldWritableWarningNotification",
    WindowsSandboxSetupCompleted |-> "WindowsSandboxSetupCompletedNotification"]
DecodeFunctions1 ==
  [AccountLoginCompleted |-> "AccountLoginCompletedNotification",
    AccountRateLimitsUpdated |-> "AccountRateLimitsUpdatedNotification",
    AccountUpdated |-> "AccountUpdatedNotification",
    AppListUpdated |-> "AppListUpdatedNotification",
    CommandExecOutputDelta |-> "CommandExecOutputDeltaNotification",
    ConfigWarning |-> "ConfigWarningNotification",
    DeprecationNotice |-> "DeprecationNoticeNotification",
    Error |-> "ErrorNotification",
    ExternalAgentConfigImportCompleted |-> "ExternalAgentConfigImportCompletedNotification",
    FSChanged |-> "FSChangedNotification",
    FuzzyFileSearchSessionCompleted |-> "FuzzyFileSearchSessionCompletedNotification",
    FuzzyFileSearchSessionUpdated |-> "FuzzyFileSearchSessionUpdatedNotification",
    GuardianWarning |-> "GuardianWarningNotification",
    HookCompleted |-> "HookCompletedNotification",
    HookStarted |-> "HookStartedNotification",
    ItemAgentMessageDelta |-> "AgentMessageDeltaNotification",
    ItemAutoApprovalReviewCompleted |-> "ItemGuardianApprovalReviewCompletedNotification",
    ItemAutoApprovalReviewStarted |-> "ItemGuardianApprovalReviewStartedNotification",
    ItemCommandExecutionOutputDelta |-> "ItemCommandExecutionOutputDeltaNotification",
    ItemCommandExecutionTerminalInteraction |-> "ItemCommandExecutionTerminalInteractionNotification",
    ItemCompleted |-> "ItemCompletedNotification",
    ItemFileChangeOutputDelta |-> "ItemFileChangeOutputDeltaNotification",
    ItemFileChangePatchUpdated |-> "ItemFileChangePatchUpdatedNotification",
    ItemMCPToolCallProgress |-> "MCPToolCallProgressNotification",
    ItemPlanDelta |-> "PlanDeltaNotification",
    ItemReasoningSummaryPartAdded |-> "ReasoningSummaryPartAddedNotification",
    ItemReasoningSummaryTextDelta |-> "ReasoningSummaryTextDeltaNotification",
    ItemReasoningTextDelta |-> "ReasoningTextDeltaNotification",
    ItemStarted |-> "ItemStartedNotification",
    MCPServerOAuthLoginCompleted |-> "MCPServerOAuthLoginCompletedNotification"]
DecodeFunctions2 ==
  [MCPServerStartupStatusUpdated |-> "MCPServerStartupStatusUpdatedNotification",
    ModelRerouted |-> "ModelReroutedNotification",
    ModelVerification |-> "ModelVerificationNotification",
    ProcessExited |-> "ProcessExitedNotification",
    ProcessOutputDelta |-> "ProcessOutputDeltaNotification",
    RemoteControlStatusChanged |-> "RemoteControlStatusChangedNotification",
    ServerRequestResolved |-> "ServerRequestResolvedNotification",
    SkillsChanged |-> "SkillsChangedNotification",
    ThreadArchived |-> "ThreadArchivedNotification",
    ThreadDeleted |-> "ThreadDeletedNotification",
    ThreadClosed |-> "ThreadClosedNotification",
    ThreadCompacted |-> "ContextCompactedNotification",
    ThreadGoalCleared |-> "ThreadGoalClearedNotification",
    ThreadGoalUpdated |-> "ThreadGoalUpdatedNotification",
    ThreadSettingsUpdated |-> "ThreadSettingsUpdatedNotification",
    ThreadNameUpdated |-> "ThreadNameUpdatedNotification",
    ThreadRealtimeClosed |-> "ThreadRealtimeClosedNotification",
    ThreadRealtimeError |-> "ThreadRealtimeErrorNotification",
    ThreadRealtimeItemAdded |-> "ThreadRealtimeItemAddedNotification",
    ThreadRealtimeOutputAudioDelta |-> "ThreadRealtimeOutputAudioDeltaNotification",
    ThreadRealtimeSDP |-> "ThreadRealtimeSDPNotification",
    ThreadRealtimeStarted |-> "ThreadRealtimeStartedNotification",
    ThreadRealtimeTranscriptDelta |-> "ThreadRealtimeTranscriptDeltaNotification",
    ThreadRealtimeTranscriptDone |-> "ThreadRealtimeTranscriptDoneNotification",
    ThreadStarted |-> "ThreadStartedNotification",
    ThreadStatusChanged |-> "ThreadStatusChangedNotification",
    ThreadTokenUsageUpdated |-> "ThreadTokenUsageUpdatedNotification",
    ThreadUnarchived |-> "ThreadUnarchivedNotification",
    TurnCompleted |-> "TurnCompletedNotification",
    TurnDiffUpdated |-> "TurnDiffUpdatedNotification"]
DecodeFunctions3 ==
  [TurnPlanUpdated |-> "TurnPlanUpdatedNotification",
    TurnModerationMetadata |-> "TurnModerationMetadataNotification",
    TurnStarted |-> "TurnStartedNotification", Warning |-> "WarningNotification",
    WindowsWorldWritableWarning |-> "WindowsWorldWritableWarningNotification",
    WindowsSandboxSetupCompleted |-> "WindowsSandboxSetupCompletedNotification"]
NotificationAccessors1 ==
  [AccountLoginCompleted |-> "AccountLoginCompleted",
    AccountRateLimitsUpdated |-> "AccountRateLimitsUpdated",
    AccountUpdated |-> "AccountUpdated", AppListUpdated |-> "AppListUpdated",
    CommandExecOutputDelta |-> "CommandExecOutputDelta",
    ConfigWarning |-> "ConfigWarning", DeprecationNotice |-> "DeprecationNotice",
    ErrorNotification |-> "Error",
    ExternalAgentConfigImportCompleted |-> "ExternalAgentConfigImportCompleted",
    FSChanged |-> "FSChanged",
    FuzzyFileSearchSessionCompleted |-> "FuzzyFileSearchSessionCompleted",
    FuzzyFileSearchSessionUpdated |-> "FuzzyFileSearchSessionUpdated",
    GuardianWarning |-> "GuardianWarning", HookCompleted |-> "HookCompleted",
    HookStarted |-> "HookStarted", ItemAgentMessageDelta |-> "ItemAgentMessageDelta",
    ItemAutoApprovalReviewCompleted |-> "ItemAutoApprovalReviewCompleted",
    ItemAutoApprovalReviewStarted |-> "ItemAutoApprovalReviewStarted",
    ItemCommandExecutionOutputDelta |-> "ItemCommandExecutionOutputDelta",
    ItemCommandExecutionTerminalInteraction |-> "ItemCommandExecutionTerminalInteraction",
    ItemCompleted |-> "ItemCompleted",
    ItemFileChangeOutputDelta |-> "ItemFileChangeOutputDelta",
    ItemFileChangePatchUpdated |-> "ItemFileChangePatchUpdated",
    ItemMCPToolCallProgress |-> "ItemMCPToolCallProgress",
    ItemPlanDelta |-> "ItemPlanDelta",
    ItemReasoningSummaryPartAdded |-> "ItemReasoningSummaryPartAdded",
    ItemReasoningSummaryTextDelta |-> "ItemReasoningSummaryTextDelta",
    ItemReasoningTextDelta |-> "ItemReasoningTextDelta",
    ItemStarted |-> "ItemStarted",
    MCPServerOAuthLoginCompleted |-> "MCPServerOAuthLoginCompleted"]
NotificationAccessors2 ==
  [MCPServerStartupStatusUpdated |-> "MCPServerStartupStatusUpdated",
    ModelRerouted |-> "ModelRerouted", ModelVerification |-> "ModelVerification",
    ProcessExited |-> "ProcessExited", ProcessOutputDelta |-> "ProcessOutputDelta",
    RemoteControlStatusChanged |-> "RemoteControlStatusChanged",
    ServerRequestResolved |-> "ServerRequestResolved",
    SkillsChanged |-> "SkillsChanged", ThreadArchived |-> "ThreadArchived",
    ThreadDeleted |-> "ThreadDeleted", ThreadClosed |-> "ThreadClosed",
    ThreadCompacted |-> "ThreadCompacted", ThreadGoalCleared |-> "ThreadGoalCleared",
    ThreadGoalUpdated |-> "ThreadGoalUpdated",
    ThreadSettingsUpdated |-> "ThreadSettingsUpdated",
    ThreadNameUpdated |-> "ThreadNameUpdated",
    ThreadRealtimeClosed |-> "ThreadRealtimeClosed",
    ThreadRealtimeError |-> "ThreadRealtimeError",
    ThreadRealtimeItemAdded |-> "ThreadRealtimeItemAdded",
    ThreadRealtimeOutputAudioDelta |-> "ThreadRealtimeOutputAudioDelta",
    ThreadRealtimeSDP |-> "ThreadRealtimeSDP",
    ThreadRealtimeStarted |-> "ThreadRealtimeStarted",
    ThreadRealtimeTranscriptDelta |-> "ThreadRealtimeTranscriptDelta",
    ThreadRealtimeTranscriptDone |-> "ThreadRealtimeTranscriptDone",
    ThreadStarted |-> "ThreadStarted", ThreadStatusChanged |-> "ThreadStatusChanged",
    ThreadTokenUsageUpdated |-> "ThreadTokenUsageUpdated",
    ThreadUnarchived |-> "ThreadUnarchived", TurnCompleted |-> "TurnCompleted",
    TurnDiffUpdated |-> "TurnDiffUpdated"]
NotificationAccessors3 ==
  [TurnPlanUpdated |-> "TurnPlanUpdated",
    TurnModerationMetadata |-> "TurnModerationMetadata",
    TurnStarted |-> "TurnStarted", Warning |-> "Warning",
    WindowsWorldWritableWarning |-> "WindowsWorldWritableWarning",
    WindowsSandboxSetupCompleted |-> "WindowsSandboxSetupCompleted"]

-----------------------------------------------------------------------------
(* method.go: the request each Client method sends, and the types of its params and
   result.
   Ptr passes the caller's pointer on, Merge lays the thread of the call over the
   caller's params, Made is a params value of the method's own, None sends none. *)
ClientCalls1 ==
  [ThreadStart |-> Ptr("ThreadStart", "ThreadStartParams", "ThreadStartResponse"),
    ThreadResume |-> Merge("ThreadResume", "ThreadResumeParams", "ThreadResumeResponse"),
    ThreadFork |-> Merge("ThreadFork", "ThreadForkParams", "ThreadForkResponse"),
    ThreadList |-> Ptr("ThreadList", "ThreadListParams", "ThreadListResponse"),
    ThreadRead |-> Merge("ThreadRead", "ThreadReadParams", "ThreadReadResponse"),
    ThreadArchive |-> Made("ThreadArchive", "ThreadArchiveParams", "ThreadArchiveResponse"),
    ThreadDelete |-> Made("ThreadDelete", "ThreadDeleteParams", "ThreadDeleteResponse"),
    ThreadUnsubscribe |-> Merge("ThreadUnsubscribe", "ThreadUnsubscribeParams", "ThreadUnsubscribeResponse"),
    ThreadMetadataUpdate |-> Merge("ThreadMetadataUpdate", "ThreadMetadataUpdateParams", "ThreadMetadataUpdateResponse"),
    ThreadUnarchive |-> Made("ThreadUnarchive", "ThreadUnarchiveParams", "ThreadUnarchiveResponse"),
    ThreadSetName |-> Made("ThreadNameSet", "ThreadSetNameParams", "ThreadSetNameResponse"),
    ThreadGoalSet |-> Merge("ThreadGoalSet", "ThreadGoalSetParams", "ThreadGoalSetResponse"),
    ThreadGoalGet |-> Made("ThreadGoalGet", "ThreadGoalGetParams", "ThreadGoalGetResponse"),
    ThreadGoalClear |-> Made("ThreadGoalClear", "ThreadGoalClearParams", "ThreadGoalClearResponse"),
    ThreadCompact |-> Made("ThreadCompactStart", "ThreadCompactStartParams", "ThreadCompactStartResponse"),
    ThreadShellCommand |-> Merge("ThreadShellCommand", "ThreadShellCommandParams", "ThreadShellCommandResponse"),
    ThreadApproveGuardianDeniedAction |-> Merge("ThreadApproveGuardianDeniedAction", "ThreadApproveGuardianDeniedActionParams", "ThreadApproveGuardianDeniedActionResponse"),
    ThreadRollback |-> Merge("ThreadRollback", "ThreadRollbackParams", "ThreadRollbackResponse"),
    ThreadLoadedList |-> Ptr("ThreadLoadedList", "ThreadLoadedListParams", "ThreadLoadedListResponse"),
    ThreadInjectItems |-> Merge("ThreadInjectItems", "ThreadInjectItemsParams", "ThreadInjectItemsResponse"),
    SkillsList |-> Ptr("SkillsList", "SkillsListParams", "SkillsListResponse"),
    SkillsExtraRootsSet |-> Ptr("SkillsExtraRootsSet", "SkillsExtraRootsSetParams", "SkillsExtraRootsSetResponse")]
ClientCalls2 ==
  [HooksList |-> Ptr("HooksList", "HooksListParams", "HooksListResponse"),
    MarketplaceAdd |-> Ptr("MarketplaceAdd", "MarketplaceAddParams", "MarketplaceAddResponse"),
    MarketplaceRemove |-> Ptr("MarketplaceRemove", "MarketplaceRemoveParams", "MarketplaceRemoveResponse"),
    MarketplaceUpgrade |-> Ptr("MarketplaceUpgrade", "MarketplaceUpgradeParams", "MarketplaceUpgradeResponse"),
    PluginList |-> Ptr("PluginList", "PluginListParams", "PluginListResponse"),
    PluginRead |-> Ptr("PluginRead", "PluginReadParams", "PluginReadResponse"),
    PluginSkillRead |-> Ptr("PluginSkillRead", "PluginSkillReadParams", "PluginSkillReadResponse"),
    PluginShareSave |-> Ptr("PluginShareSave", "PluginShareSaveParams", "PluginShareSaveResponse"),
    PluginShareUpdateTargets |-> Ptr("PluginShareUpdateTargets", "PluginShareUpdateTargetsParams", "PluginShareUpdateTargetsResponse"),
    PluginShareList |-> Ptr("PluginShareList", "PluginShareListParams", "PluginShareListResponse"),
    PluginShareCheckout |-> Ptr("PluginShareCheckout", "PluginShareCheckoutParams", "PluginShareCheckoutResponse"),
    PluginShareDelete |-> Ptr("PluginShareDelete", "PluginShareDeleteParams", "PluginShareDeleteResponse"),
    AppList |-> Ptr("AppList", "AppsListParams", "AppsListResponse"),
    FSReadFile |-> Ptr("FSReadFile", "FSReadFileParams", "FSReadFileResponse"),
    FSRead |-> Ptr("fs/read", "FSReadFileParams", "FSReadFileResponse"),
    FSWriteFile |-> Ptr("FSWriteFile", "FSWriteFileParams", "FSWriteFileResponse"),
    FSWrite |-> Ptr("fs/write", "FSWriteFileParams", "FSWriteFileResponse"),
    FSCreateDirectory |-> Ptr("FSCreateDirectory", "FSCreateDirectoryParams", "FSCreateDirectoryResponse"),
    FSGetMetadata |-> Ptr("FSGetMetadata", "FSGetMetadataParams", "FSGetMetadataResponse"),
    FSStat |-> Ptr("fs/stat", "FSGetMetadataParams", "FSGetMetadataResponse"),
    FSReadDirectory |-> Ptr("FSReadDirectory", "FSReadDirectoryParams", "FSReadDirectoryResponse"),
    FSList |-> Ptr("fs/list", "FSReadDirectoryParams", "FSReadDirectoryResponse"),
    FSRemove |-> Ptr("FSRemove", "FSRemoveParams", "FSRemoveResponse"),
    FSCopy |-> Ptr("FSCopy", "FSCopyParams", "FSCopyResponse"),
    FSWatch |-> Ptr("FSWatch", "FSWatchParams", "FSWatchResponse"),
    FSUnwatch |-> Ptr("FSUnwatch", "FSUnwatchParams", "FSUnwatchResponse"),
    SkillsConfigWrite |-> Ptr("SkillsConfigWrite", "SkillsConfigWriteParams", "SkillsConfigWriteResponse"),
    PluginInstall |-> Ptr("PluginInstall", "PluginInstallParams", "PluginInstallResponse"),
    PluginUninstall |-> Ptr("PluginUninstall", "PluginUninstallParams", "PluginUninstallResponse")]
ClientCalls3 ==
  [TurnStart |-> Merge("TurnStart", "TurnStartParams", "TurnStartResponse"),
    TurnInterrupt |-> Made("TurnInterrupt", "TurnInterruptParams", "TurnInterruptResponse"),
    TurnSteer |-> Made("TurnSteer", "TurnSteerParams", "TurnSteerResponse"),
    ReviewStart |-> Ptr("ReviewStart", "ReviewStartParams", "ReviewStartResponse"),
    ModelList |-> Ptr("ModelList", "ModelListParams", "ModelListResponse"),
    ModelProviderCapabilitiesRead |-> Ptr("ModelProviderCapabilitiesRead", "ModelProviderCapabilitiesReadParams", "ModelProviderCapabilitiesReadResponse"),
    ExperimentalFeatureList |-> Ptr("ExperimentalFeatureList", "ExperimentalFeatureListParams", "ExperimentalFeatureListResponse"),
    PermissionProfileList |-> Ptr("PermissionProfileList", "PermissionProfileListParams", "PermissionProfileListResponse"),
    ExperimentalFeatureEnablementSet |-> Ptr("ExperimentalFeatureEnablementSet", "ExperimentalFeatureEnablementSetParams", "ExperimentalFeatureEnablementSetResponse"),
    RemoteControlEnable |-> None("RemoteControlEnable", "RemoteControlEnableResponse"),
    RemoteControlDisable |-> None("RemoteControlDisable", "RemoteControlDisableResponse"),
    RemoteControlStatusRead |-> None("RemoteControlStatusRead", "RemoteControlStatusReadResponse"),
    RemoteControlPairingStart |-> Ptr("RemoteControlPairingStart", "RemoteControlPairingStartParams", "RemoteControlPairingStartResponse"),
    RemoteControlPairingStatus |-> Ptr("RemoteControlPairingStatus", "RemoteControlPairingStatusParams", "RemoteControlPairingStatusResponse"),
    RemoteControlClientList |-> Ptr("RemoteControlClientList", "RemoteControlClientsListParams", "RemoteControlClientsListResponse"),
    RemoteControlClientRevoke |-> Ptr("RemoteControlClientRevoke", "RemoteControlClientsRevokeParams", "RemoteControlClientsRevokeResponse"),
    EnvironmentAdd |-> Ptr("EnvironmentAdd", "EnvironmentAddParams", "EnvironmentAddResponse"),
    MCPServerOAuthLogin |-> Ptr("MCPServerOAuthLogin", "MCPServerOAuthLoginParams", "MCPServerOAuthLoginResponse"),
    ConfigMCPServerReload |-> None("ConfigMCPServerReload", "MCPServerRefreshResponse"),
    MCPServerStatusList |-> Ptr("MCPServerStatusList", "ListMCPServerStatusParams", "ListMCPServerStatusResponse"),
    MCPServerResourceRead |-> Ptr("MCPServerResourceRead", "MCPResourceReadParams", "MCPResourceReadResponse"),
    MCPServerToolCall |-> Ptr("MCPServerToolCall", "MCPServerToolCallParams", "MCPServerToolCallResponse"),
    WindowsSandboxSetupStart |-> Ptr("WindowsSandboxSetupStart", "WindowsSandboxSetupStartParams", "WindowsSandboxSetupStartResponse"),
    WindowsSandboxReadiness |-> None("WindowsSandboxReadiness", "WindowsSandboxReadinessResponse"),
    AccountLoginStart |-> Ptr("AccountLoginStart", "LoginAccountParams", "LoginAccountResponse")]
ClientCalls4 ==
  [AccountLoginCancel |-> Ptr("AccountLoginCancel", "CancelLoginAccountParams", "CancelLoginAccountResponse"),
    AccountLogout |-> None("AccountLogout", "LogoutAccountResponse"),
    AccountRateLimitsRead |-> None("AccountRateLimitsRead", "GetAccountRateLimitsResponse"),
    AccountUsageRead |-> None("AccountUsageRead", "GetAccountTokenUsageResponse"),
    AccountSendAddCreditsNudgeEmail |-> Ptr("AccountSendAddCreditsNudgeEmail", "SendAddCreditsNudgeEmailParams", "SendAddCreditsNudgeEmailResponse"),
    FeedbackUpload |-> Ptr("FeedbackUpload", "FeedbackUploadParams", "FeedbackUploadResponse"),
    CommandExec |-> Ptr("CommandExec", "CommandExecParams", "CommandExecResponse"),
    CommandExecWrite |-> Ptr("CommandExecWrite", "CommandExecWriteParams", "CommandExecWriteResponse"),
    CommandExecTerminate |-> Ptr("CommandExecTerminate", "CommandExecTerminateParams", "CommandExecTerminateResponse"),
    HTTPRequest |-> Ptr("http/request", "any", "any"),
    HTTPRequestBodyDelta |-> Ptr("http/request/bodyDelta", "any", "any"),
    CommandExecResize |-> Ptr("CommandExecResize", "CommandExecResizeParams", "CommandExecResizeResponse"),
    ProcessSpawn |-> Ptr("ProcessSpawn", "ProcessSpawnParams", "ProcessSpawnResponse"),
    ProcessWriteStdin |-> Ptr("ProcessWriteStdin", "ProcessWriteStdinParams", "ProcessWriteStdinResponse"),
    ProcessKill |-> Ptr("ProcessKill", "ProcessKillParams", "ProcessKillResponse"),
    ProcessResizePty |-> Ptr("ProcessResizePty", "ProcessResizePtyParams", "ProcessResizePtyResponse"),
    ConfigRead |-> Ptr("ConfigRead", "ConfigReadParams", "ConfigReadResponse"),
    ExternalAgentConfigDetect |-> Ptr("ExternalAgentConfigDetect", "ExternalAgentConfigDetectParams", "ExternalAgentConfigDetectResponse"),
    ExternalAgentConfigImport |-> Ptr("ExternalAgentConfigImport", "ExternalAgentConfigImportParams", "ExternalAgentConfigImportResponse"),
    ConfigValueWrite |-> Ptr("ConfigValueWrite", "ConfigValueWriteParams", "ConfigWriteResponse"),
    ConfigBatchWrite |-> Ptr("ConfigBatchWrite", "ConfigBatchWriteParams", "ConfigWriteResponse"),
    ConfigRequirementsRead |-> None("ConfigRequirementsRead", "ConfigRequirementsReadResponse"),
    AccountRead |-> Ptr("AccountRead", "GetAccountParams", "GetAccountResponse"),
    FuzzyFileSearch |-> Ptr("FuzzyFileSearch", "FuzzyFileSearchParams", "any")]

-----------------------------------------------------------------------------
RequestMethod == RequestMethod1 @@ RequestMethod2
RequestParams ==
  RequestParams1 @@ RequestParams2 @@ RequestParams3 @@ RequestParams4 @@
    RequestParams5 @@ RequestParams6 @@ RequestParams7 @@ RequestParams8
decodeClientRequest ==
  decodeClientRequest1 \cup decodeClientRequest2 \cup decodeClientRequest3 \cup
    decodeClientRequest4 \cup decodeClientRequest5 \cup decodeClientRequest6
NotificationParams ==
  NotificationParams1 @@ NotificationParams2 @@ NotificationParams3 @@
    NotificationParams4
decodeServerNotification ==
  decodeServerNotification1 \cup decodeServerNotification2 \cup
    decodeServerNotification3
notificationDecoders == notificationDecoders1 @@ notificationDecoders2
DecodeFunctions == DecodeFunctions1 @@ DecodeFunctions2 @@ DecodeFunctions3
NotificationAccessors ==
  NotificationAccessors1 @@ NotificationAccessors2 @@ NotificationAccessors3
ClientCalls == ClientCalls1 @@ ClientCalls2 @@ ClientCalls3 @@ ClientCalls4
=============================================================================
