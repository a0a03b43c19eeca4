----------------------------- MODULE ClaudeLaunch -----------------------------
(***************************************************************************)
(* How pkg/llm/claude starts the CLI: the argument vector built from       *)
(* Options (client_launch_args.go, sandbox.go), the environment            *)
(* (client_env.go), the search for the binary (cli_discovery.go), the copy *)
(* of the options a fork gets (options.go) and the agent definitions sent  *)
(* at initialize (control_protocol.go).                                    *)
(*                                                                         *)
(* The arguments are a sequence of <<flag>> and <<flag, value>> tuples.    *)
(* An option is "" when it is unset; the values the enumeration gives each *)
(* option are in OptionValues.                                             *)
(***************************************************************************)
EXTENDS Naturals, Sequences, SequencesExt, FiniteSets, FiniteSetsExt, Functions, TLC

CONSTANTS LaWidth        \* the options an enumerated configuration sets at most

VARIABLES laCall, laRet

laVars == <<laCall, laRet>>

(* Options passed as they are, with the flag of each. *)
Scalars ==
  {"OutputFormat", "InputFormat", "JSONSchema", "Model", "MaxTurns", "PermissionMode",
   "APIKeyHelper", "MaxBudgetUSD", "FallbackModel", "Betas", "PermissionPromptToolName",
   "SessionID", "DisallowedTools", "MaxThinkingTokens", "Effort", "Resume", "ToolsPreset",
   "MCPServers"}

Switches ==
  {"IncludePartialMessages", "ContinueConversation", "IncludeHookEvents", "ForkSession",
   "StrictMCPConfig", "Verbose"}

(* Options the CLI learns another way: at initialize, as the environment,  *)
(* or not at all.                                                          *)
NotFlags == {"Cwd", "CLIPath", "Env", "Hooks", "CanUseTool", "Agents", "SessionStore"}

OptionValues ==
  [f \in Scalars |-> {"", "v", "w"}] @@ [f \in Switches |-> {"", "on"}]
  @@ [f \in NotFlags |-> {"", "v"}]
  @@ [SystemPrompt   |-> {"", "text", "empty text", "file", "preset"},
      AllowedTools   |-> {"", "x", "Skill"},
      Tools          |-> {"", "[]", "[x]"},
      Skills         |-> {"", "all", "a"},
      SettingSources |-> {"", "local", "blank"},
      Settings       |-> {"", "json", "bad json", "file", "missing file", "bad file"},
      Sandbox        |-> {"", "s"},
      TaskBudget     |-> {"", "0", "1"},
      AddDirs        |-> {"", "d"},
      Plugins        |-> {"", "p", "no path"},
      ExtraArgs      |-> {"", "bare", "valued"},
      Thinking       |-> {"", "adaptive", "adaptive shown", "enabled", "enabled shown",
                          "disabled"}]

Unset == [f \in DOMAIN OptionValues |-> ""]

Flag(on, arg) == IF on THEN <<arg>> ELSE <<>>

Opt(o, f, flag) == Flag(o[f] # "", <<flag, o[f]>>)

(* effectiveToolsAndSources: what Skills adds to the tools and sources. *)
EffectiveTools(o) ==
  LET tools == Flag(o["AllowedTools"] # "", o["AllowedTools"])
      skill == IF o["Skills"] = "all" THEN "Skill" ELSE "Skill(a)"
  IN  IF o["Skills"] = "" \/ Contains(tools, skill) THEN tools ELSE Append(tools, skill)

EffectiveSources(o) ==
  CASE o["SettingSources"] # ""                      -> <<o["SettingSources"]>>
    [] o["SettingSources"] = "" /\ o["Skills"] # ""  -> <<"user", "project">>
    [] OTHER                                         -> <<>>

buildFormatArgs(o) ==
  <<<<"--output-format", IF o["OutputFormat"] = "" THEN "stream-json" ELSE o["OutputFormat"]>>>>
  \o Opt(o, "JSONSchema", "--json-schema")
  \o <<<<"--input-format", IF o["InputFormat"] = "" THEN "stream-json" ELSE o["InputFormat"]>>,
       <<"--verbose">>>>
  \o Flag(o["IncludePartialMessages"] # "", <<"--include-partial-messages">>)
  \o Opt(o, "Model", "--model")

buildSystemPromptArgs(o) ==
  CASE o["SystemPrompt"] \in {"", "empty text"} -> <<<<"--system-prompt", "">>>>
    [] o["SystemPrompt"] = "text"               -> <<<<"--system-prompt", "text">>>>
    [] o["SystemPrompt"] = "file"               -> <<<<"--system-prompt-file", "file">>>>
    [] OTHER                                    -> <<<<"--append-system-prompt", "preset">>>>

buildToolArgs(o) ==
  Flag(EffectiveTools(o) # <<>>, <<"--allowedTools", EffectiveTools(o)>>)
  \o IF o["ToolsPreset"] # "" THEN Opt(o, "ToolsPreset", "--tools")
     ELSE Opt(o, "Tools", "--tools")

buildLimitArgs(o) ==
  Opt(o, "MaxTurns", "--max-turns") \o Opt(o, "PermissionMode", "--permission-mode")
  \o Opt(o, "APIKeyHelper", "--api-key-helper") \o Opt(o, "MaxBudgetUSD", "--max-budget-usd")
  \o Opt(o, "DisallowedTools", "--disallowedTools") \o Opt(o, "TaskBudget", "--task-budget")
  \o Opt(o, "FallbackModel", "--fallback-model") \o Opt(o, "Betas", "--betas")
  \o Opt(o, "PermissionPromptToolName", "--permission-prompt-tool")
  \o Flag(o["ContinueConversation"] # "", <<"--continue">>)
  \o Opt(o, "SessionID", "--session-id")

(* parseSettingsBase: the settings the sandbox is merged into. *)
parseSettingsBase(settings) ==
  CASE settings \in {"bad json", "bad file"} -> "error"
    [] settings \in {"", "missing file"}     -> "{}"
    [] OTHER                                 -> settings

buildSettingsValueDropping(o) ==
  IF o["Sandbox"] = "" THEN <<o["Settings"]>> ELSE <<"{}", o["Sandbox"]>>

(* <<s>> is the settings option passed through, <<base, sandbox>> the      *)
(* merged object.                                                          *)
buildSettingsValue(o) ==
  CASE o["Sandbox"] = ""                                   -> <<o["Settings"]>>
    [] o["Sandbox"] # "" /\ parseSettingsBase(o["Settings"]) = "error" -> <<"error">>
    [] OTHER -> <<parseSettingsBase(o["Settings"]), o["Sandbox"]>>

buildSettingsArgs(o) ==
  Flag(buildSettingsValue(o) # <<"">>, <<"--settings", buildSettingsValue(o)>>)

buildSessionScopeArgs(o) ==
  Opt(o, "AddDirs", "--add-dir")
  \o Flag(o["IncludeHookEvents"] # "", <<"--include-hook-events">>)
  \o Flag(o["ForkSession"] # "", <<"--fork-session">>)

buildThinkingArgs(o) ==
  (CASE o["Thinking"] = ""                            ->
          Opt(o, "MaxThinkingTokens", "--max-thinking-tokens")
     [] o["Thinking"] \in {"adaptive", "adaptive shown"} -> <<<<"--thinking", "adaptive">>>>
     [] o["Thinking"] \in {"enabled", "enabled shown"}   ->
          <<<<"--max-thinking-tokens", "budget">>>>
     [] OTHER                                         -> <<<<"--thinking", "disabled">>>>)
  \o Flag(o["Thinking"] \in {"adaptive shown", "enabled shown"},
          <<"--thinking-display", "shown">>)
  \o Opt(o, "Effort", "--effort")

buildMCPArgs(o) ==
  Opt(o, "MCPServers", "--mcp-config")
  \o Flag(o["StrictMCPConfig"] # "", <<"--strict-mcp-config">>)

buildPluginArgs(o) == Flag(o["Plugins"] = "p", <<"--plugin-dir", "p">>)

(* Blank sources are left out, and the flag with them. *)
buildSettingSourcesArgs(o) ==
  LET parts == SelectSeq(EffectiveSources(o), LAMBDA s : s # "blank")
  IN  Flag(parts # <<>>, <<"--setting-sources=", parts>>)

buildExtraArgs(o) ==
  Flag(o["ExtraArgs"] # "", IF o["ExtraArgs"] = "bare" THEN <<"--extra">>
                            ELSE <<"--extra", "v">>)

buildResumeArgs(o, forked) ==
  IF forked # "" THEN <<<<"--resume", forked>>>> ELSE Opt(o, "Resume", "--resume")

buildLaunchArgs(o, forked) ==
  IF buildSettingsValue(o) = <<"error">> THEN <<<<"error">>>>
  ELSE buildFormatArgs(o) \o buildSystemPromptArgs(o) \o buildToolArgs(o) \o buildLimitArgs(o)
       \o buildSettingsArgs(o) \o buildSessionScopeArgs(o) \o buildThinkingArgs(o)
       \o buildMCPArgs(o) \o buildPluginArgs(o) \o buildSettingSourcesArgs(o)
       \o buildExtraArgs(o) \o buildResumeArgs(o, forked)
-----------------------------------------------------------------------------
(* The environment: a list of <<key, value>> pairs, <<key>> for an entry   *)
(* without "=".  A key keeps the place of its first value.                 *)
EnvSet(env, k, v) ==
  IF \E i \in DOMAIN env : env[i][1] = k
  THEN [i \in DOMAIN env |-> IF env[i][1] = k THEN <<k, v>> ELSE env[i]]
  ELSE Append(env, <<k, v>>)

(* explicit is Options.Env, a map. *)
buildSubprocessEnv(inherited, explicit, cwd) ==
  LET kept  == SelectSeq(inherited, LAMBDA kv : Len(kv) = 2 /\ kv[1] # "CLAUDECODE")
      base  == FoldLeft(LAMBDA e, kv : EnvSet(e, kv[1], kv[2]), <<>>, kept)
      named == EnvSet(EnvSet(base, "CLAUDE_CODE_ENTRYPOINT", "sdk-go"),
                      "CLAUDE_AGENT_SDK_VERSION", "version")
      here  == IF cwd = "" THEN named ELSE EnvSet(named, "PWD", cwd)
  IN  FoldLeft(LAMBDA e, k : EnvSet(e, k, explicit[k]), here, SetToSeq(DOMAIN explicit))

wellKnownCLIPaths == <<"~/.claude/local", "/opt/homebrew/bin", "/usr/local/bin">>

(* exists is the set of places that have the binary. *)
discoverCLI(explicit, exists) ==
  LET found == SelectSeq(<<"PATH">> \o wellKnownCLIPaths, LAMBDA p : p \in exists)
  IN  CASE explicit # "" -> IF explicit \in exists THEN explicit ELSE "CLINotFoundError"
        [] explicit = "" /\ found # <<>> -> Head(found)
        [] OTHER -> "CLINotFoundError"
-----------------------------------------------------------------------------
(* The slices and maps an Options value refers to, those of its sandbox    *)
(* settings and its task budget included.                                  *)
OptionContainers ==
  {"AllowedTools", "Tools", "MCPServers", "Hooks", "Agents", "Plugins", "SettingSources", "Env",
   "DisallowedTools", "Betas", "AddDirs", "ExtraArgs", "Skills", "TaskBudget"}

SandboxContainers ==
  {"ExcludedCommands", "Network.AllowedDomains", "Network.DeniedDomains",
   "Network.AllowUnixSockets", "Network.AllowMachLookup", "IgnoreViolations.File",
   "IgnoreViolations.Network"}

cloneSandbox ==
  {"ExcludedCommands", "Network.AllowedDomains", "Network.DeniedDomains",
   "Network.AllowUnixSockets", "Network.AllowMachLookup", "IgnoreViolations.File",
   "IgnoreViolations.Network"}

cloneOptions ==
  {"AllowedTools", "Tools", "MCPServers", "Hooks", "Agents", "Plugins", "SettingSources",
   "DisallowedTools", "Betas", "AddDirs", "Skills", "Env", "ExtraArgs", "TaskBudget"}

(* The containers of the options that are not nil are heap cells of their  *)
(* owner's; the child's copy refers to its own cell, or to the parent's.   *)
clone(containers) ==
  [c \in containers |-> IF c \in cloneOptions \cup cloneSandbox THEN <<"child", c>>
                        ELSE <<"parent", c>>]
-----------------------------------------------------------------------------
(* The fields of an AgentDefinition, Raw and the key Name left out, and    *)
(* the wire name each is sent under.                                       *)
AgentFields ==
  {"Description", "SystemPrompt", "AllowedTools", "DisallowedTools", "Model", "Skills",
   "MCPServers", "MCPServerConfigs", "InitialPrompt", "MaxTurns", "Background", "Memory",
   "PermissionMode", "Effort"}

AgentWireNames ==
  [Description |-> "description", SystemPrompt |-> "prompt", AllowedTools |-> "tools",
   DisallowedTools |-> "disallowedTools", Model |-> "model", Skills |-> "skills",
   Memory |-> "memory", MCPServers |-> "mcpServers", MCPServerConfigs |-> "mcpServers",
   InitialPrompt |-> "initialPrompt", MaxTurns |-> "maxTurns", Background |-> "background",
   Effort |-> "effort", PermissionMode |-> "permissionMode"]

agentDefWire(set) == {AgentWireNames[f] : f \in set}
-----------------------------------------------------------------------------
LaInit == laCall = [op |-> "none"] /\ laRet = <<>>

(* The caller launches with the defaults, or with one more option set. *)
LaArgs ==
  \E forked \in {"", "fork"} :
    /\ laCall.op = "none"
    /\ laCall' = [op |-> "args", opts |-> Unset, forked |-> forked]
    /\ laRet' = buildLaunchArgs(Unset, forked)

LaSet ==
  /\ laCall.op = "args"
  /\ Cardinality({f \in DOMAIN Unset : laCall.opts[f] # ""}) < LaWidth
  /\ \E f \in {g \in DOMAIN Unset : laCall.opts[g] = ""} : \E v \in OptionValues[f] \ {""} :
       LET o == [laCall.opts EXCEPT ![f] = v]
       IN  /\ laCall' = [laCall EXCEPT !.opts = o]
           /\ laRet' = buildLaunchArgs(o, laCall.forked)

LaEnv ==
  \E inherited \in UNION {[1..n -> {<<"A", "1">>, <<"A", "2">>, <<"PWD", "old">>, <<"A">>,
                                    <<"CLAUDECODE", "1">>}] : n \in 0..3},
     keys \in SUBSET {"A", "PWD", "CLAUDECODE", "CLAUDE_CODE_ENTRYPOINT"}, cwd \in {"", "dir"} :
    /\ laCall' = [op |-> "env", inherited |-> inherited, explicit |-> [k \in keys |-> "mine"],
                  cwd |-> cwd]
    /\ laRet' = buildSubprocessEnv(inherited, [k \in keys |-> "mine"], cwd)

LaDiscover ==
  \E explicit \in {"", "/bin/claude"},
     exists \in SUBSET ({"/bin/claude", "PATH"} \cup Range(wellKnownCLIPaths)) :
    /\ laCall' = [op |-> "discover", explicit |-> explicit, exists |-> exists]
    /\ laRet' = <<discoverCLI(explicit, exists)>>

LaFork ==
  \E unset \in {{}} \cup {{c} : c \in OptionContainers \cup SandboxContainers} :
    /\ laCall' = [op |-> "fork", opts |-> (OptionContainers \cup SandboxContainers) \ unset]
    /\ laRet' = clone((OptionContainers \cup SandboxContainers) \ unset)

LaAgent ==
  \E set \in UNION {kSubset(k, AgentFields) : k \in 0..2} :
    /\ laCall' = [op |-> "agent", set |-> set]
    /\ laRet' = agentDefWire(set)

LaNext ==
  \/ LaArgs \/ LaSet
  \/ laCall.op = "none" /\ (LaEnv \/ LaDiscover \/ LaFork \/ LaAgent)

LaSpec == LaInit /\ [][LaNext]_laVars
-----------------------------------------------------------------------------
(* What an option may leave without a trace in the arguments: it is not    *)
(* for the command line, a documented precedence shadows it, or the two    *)
(* values mean the same.                                                   *)
Shadowed(o, forked, f, v) ==
  \/ f \in NotFlags \cup {"Verbose"}
  \/ f = "MaxThinkingTokens" /\ o["Thinking"] # ""
  \/ f = "Tools" /\ o["ToolsPreset"] # ""
  \/ f = "Resume" /\ forked # ""
  \/ {o[f], v} \in {{"", "empty text"}, {"", "no path"}}
  \/ f = "SettingSources" /\ o["Skills"] = "" /\ {o[f], v} = {"", "blank"}
  \/ f = "Settings" /\ o["Sandbox"] # "" /\ {o[f], v} = {"", "missing file"}
  \/ f = "Skills" /\ o["SettingSources"] # "" /\ o["AllowedTools"] = "Skill"
     /\ {o[f], v} = {"", "all"}
  \/ f = "AllowedTools" /\ o["Skills"] = "all" /\ {o[f], v} = {"", "Skill"}

(* Every option the caller sets reaches the CLI: changing one option       *)
(* changes the arguments, unless a documented precedence shadows it, or    *)
(* the launch is refused with both values.                                 *)
LaOptionHeard ==
  laCall.op = "args" =>
    \A f \in DOMAIN OptionValues : \A v \in OptionValues[f] \ {laCall.opts[f]} :
      \/ Shadowed(laCall.opts, laCall.forked, f, v)
      \/ laRet # buildLaunchArgs([laCall.opts EXCEPT ![f] = v], laCall.forked)
      \/ laRet = <<<<"error">>>>

(* A flag that takes one value is passed at most once, and a fork resumes  *)
(* the session it was forked into whatever the options say.                *)
LaFlagsOnce ==
  laCall.op = "args" =>
    /\ \A i, j \in DOMAIN laRet : laRet[i][1] = laRet[j][1] => i = j
    /\ (laCall.forked # "" /\ laRet # <<<<"error">>>>) =>
         Contains(laRet, <<"--resume", laCall.forked>>)

(* Each variable is passed once, with the caller's value if Options.Env    *)
(* has one, else the SDK's, else the last one inherited; the CLI never     *)
(* inherits CLAUDECODE.                                                    *)
LaEnvResolved ==
  laCall.op = "env" =>
    LET sdk     == [CLAUDE_CODE_ENTRYPOINT |-> "sdk-go", CLAUDE_AGENT_SDK_VERSION |-> "version"]
                   @@ (IF laCall.cwd = "" THEN <<>> ELSE "PWD" :> laCall.cwd)
        from(k) == {i \in DOMAIN laCall.inherited :
                      Len(laCall.inherited[i]) = 2 /\ laCall.inherited[i][1] = k}
        keys    == DOMAIN laCall.explicit \cup DOMAIN sdk
                   \cup {k \in {"A", "PWD"} : from(k) # {}}
    IN  /\ {laRet[i][1] : i \in DOMAIN laRet} = keys
        /\ Len(laRet) = Cardinality(keys)
        /\ \A i \in DOMAIN laRet :
             LET k == laRet[i][1]
             IN  laRet[i][2] = (IF k \in DOMAIN laCall.explicit THEN laCall.explicit[k]
                                ELSE IF k \in DOMAIN sdk THEN sdk[k]
                                ELSE laCall.inherited[Max(from(k))][2])

(* The binary launched exists, and an explicit CLIPath is never replaced   *)
(* by a binary found elsewhere; without one the search fails only when     *)
(* there is no binary at any of its places.                                *)
LaDiscovered ==
  laCall.op = "discover" =>
    LET places == IF laCall.explicit = "" THEN {"PATH"} \cup Range(wellKnownCLIPaths) ELSE {laCall.explicit}
    IN  IF places \cap laCall.exists = {} THEN laRet = <<"CLINotFoundError">>
        ELSE laRet[1] \in places \cap laCall.exists

(* A fork's options are its own: nothing the child appends to or sets in   *)
(* one of its slices and maps is seen by the parent.                       *)
LaForkIndependent ==
  laCall.op = "fork" =>
    \A c \in laCall.opts : laRet[c] \notin {<<"parent", p>> : p \in laCall.opts}

(* Every field of an agent definition is sent, and two fields share a wire *)
(* name only where the wire merges them.                                   *)
LaAgentSent ==
  laCall.op = "agent" =>
    \A f \in laCall.set :
      /\ AgentWireNames[f] \in laRet
      /\ \A g \in laCall.set : AgentWireNames[g] = AgentWireNames[f] =>
           g = f \/ {f, g} = {"MCPServers", "MCPServerConfigs"}

\* The CLI that is launched is the one the caller's options describe, and nobody else's:
\* binary, arguments, agents and environment.
LaFaithful ==
  /\ LaOptionHeard
  /\ LaFlagsOnce
  /\ LaEnvResolved
  /\ LaDiscovered
  /\ LaForkIndependent
  /\ LaAgentSent
=============================================================================
