SPECIFICATION MCSpec
CHECK_DEADLOCK FALSE
CONSTANTS
  RingCap = 3
  MaxArrivals = 8
  WsWrites = {w1}
  WsReads = {r1}
  ExLast = 2
  ExMaxAgain = 0
  RlKids = {k1, k2}
  RlMaxDials = 2
PROPERTIES
  ImplementsDropOldest WsEverybodyReturns ExEverybodyReturns RlEverybodyReturns
