SPECIFICATION MCSpec
CHECK_DEADLOCK FALSE
CONSTANTS
  Senders = {s1, s2}
  Consumers = {c1, c2}
  Capacity = 2
  CompactAt = 1
  MaxPush = 4
  BusWaiters = {w1}
  MCWaiter = w1
  BusConsumers = {k1}
  BusSessions = {s1}
  BusEvents <- MCBusEvents
  BusCapacity = 2
  BusMaxAttempts = 2
  BusMaxEvents = 1
  BusMaxStreams = 2
  OcStarters = {a1}
  OcClosers = {c1}
  OcUsers = {u1}
  OcSessions = {s1}
  OcMaxBuses = 2
  TnConsumers = {t1, t2}
  TnMaxEvents = 1
PROPERTIES
  ImplementsFifo ConsumersWoken BusEverybodyReturns OcEverybodyReturns TnConsumerReturns
