SPECIFICATION FairSpec
CONSTANTS
  r1 = r1
  None = None
  Requests = {r1}
  Settled = {}
  DeferredCapacity = 1
  RareEvents = {"phoneDrop", "macDrop", "agentRestart", "agentExits", "tabGone", "userDiscards"}
  MaxRare = 1
  MaxFetches = 1
INVARIANT SendingIsOnTheWire
PROPERTIES WaitingIsShown
CHECK_DEADLOCK FALSE
