SPECIFICATION MCSpec
CHECK_DEADLOCK FALSE
CONSTANTS
  CpSenders = {s1}
  CpRequests = {r1}
  ClQueries = {q1, q2}
  ClClosers = {k1}
  ClReceivers = {v1}
  ClMaxSessions = 2
  ClMaxLines = 2
  StCalls = {c1, c2, c3}
  StIds = {i1, i2}
  StFirst = i1
  StMessages = {"m1", "m2"}
  StHistory <- MCHistory
INVARIANTS
   ClSilentEndComplete StIsolated
PROPERTIES
  CpCloseReleases 
