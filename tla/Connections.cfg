SPECIFICATION MCSpec
CHECK_DEADLOCK FALSE
CONSTANTS
  BusWaiters = {w1, w2}
  MCWaiter = w1
  BusConsumers = {k1}
  BusSessions = {s1}
  BusEvents <- MCBusEvents
  BusCapacity = 2
  BusMaxAttempts = 2
  BusMaxEvents = 2
  BusMaxStreams = 2
  OcStarters = {a1}
  OcClosers = {c1}
  OcUsers = {u1, u2}
  OcSessions = {s1}
  OcMaxBuses = 2
  TnConsumers = {t1, t2}
  TnMaxEvents = 2
  WsWrites = {w1}
  WsReads = {r1}
  ExLast = 2
  ExMaxAgain = 1
  RlKids = {k1, k2}
  RlMaxDials = 2
INVARIANTS
  BusGapMarksLoss OcNothingLeft TnOutcomeTrue WsStreamsIntact ExDelivery RlNothingLeft
