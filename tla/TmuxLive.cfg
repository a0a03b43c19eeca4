CONSTANTS
  Execs = {x1}
  Iterators = {g1}
  EventBuffer = 1
  StdinCap = 2
  StdoutCap = 1
  MaxEvents = 1
  Payloads <- LookalikePayloads
SPECIFICATION FairSpec
CHECK_DEADLOCK FALSE
PROPERTY CloseEndsAll
