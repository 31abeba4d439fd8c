SPECIFICATION FairSpec
CONSTANTS
  Clients = {c1}
  Responders = {}
  Policies = {"auto"}
  MaxTurns = 2
  MaxAsks = 1
  RareEvents = {"unconfirmed", "callerLeaves", "agentExits", "tabCloses", "wrongStatus"}
  MaxRare = 1
PROPERTIES TurnSettles
CHECK_DEADLOCK FALSE
