SPECIFICATION Spec
CONSTANTS
  Clients = {c1}
  Responders = {r1}
  Policies = {"pend"}
  MaxTurns = 2
  MaxAsks = 1
  RareEvents = {}
  MaxRare = 0
INVARIANTS IdleWithoutTurn
CHECK_DEADLOCK FALSE
