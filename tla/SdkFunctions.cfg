SPECIFICATION MCSpec
CHECK_DEADLOCK FALSE
CONSTANTS
  WireUnknown = {"future"}
  WireWidth = 2
  CbMaxHooks = 2
  CbMaxServers = 2
  LaWidth = 2
  RtWidth = 5
  RtDelays <- MCRtDelays
  RtAttempts <- MCRtAttempts
  RtHalves <- MCRtHalves
  TkMaxNested = 3
  TkMaxFrames = 5
  TtHeaders <- MCTtHeaders
  TtKeys <- MCTtKeys
  TtValues <- MCTtValues
  TtMaxLines = 5
  TmKeys <- MCTmKeys
  TmTrees <- MCTmTrees
  TdTexts <- MCTdTexts
  TdPaths <- MCTdPaths
  TdValues = {"v", "w", "bad"}
  TdBad = {"bad"}
  TdMaxEdits = 3
  NmAlphabet = {"0", "1", "6", "_", "+", "-", ".", "e", "x"}
  NmLength = 5
  NmWidth = 5
  SrAlphabet = {"n", "x", "1", "b", "quote", "backslash", "newline", "tab", "bell", "escape", "wide"}
  SrLength = 4
  SrRests <- MCSrRests
INVARIANTS
       RtSchedule
   TtTablesSound TmRoundTrip   
