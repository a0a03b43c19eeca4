CONSTANTS
  Turns = {t1}
  Logins = {}
  Procs = {p1}
  Sessions = {c1, c2}
  Readers = {g1}
  Cap = 2
  MaxRouted = 3
  MaxGlobal = 3
  MaxQueues = 2
CHECK_DEADLOCK FALSE
SYMMETRY Symmetry
SPECIFICATION Spec
INVARIANTS
  ScopeAccounting GlobalKeepsNewest
