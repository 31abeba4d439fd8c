SPECIFICATION FairSpec
CONSTANTS
  None = None
  Phones = {p1}
  InitiallyPaired = {p1}
  Nonces = {1, 2, 3, 4, 5, 6}
  MaxCodes = 2
  MaxPairFailures = 2
  MaxAttempts = 2
  RepairFallbackAttempt = 1
  MaxReconnectAttempts = 2
  MaxInFlight = 2
  DecryptFailureThreshold = 2
  MaxEpochResets = 2
  WindowSlides = TRUE
  FaultKinds = {"macDrop", "phoneDrop", "agentRestart", "earlyTimeout"}
  MaxFaults = 2
PROPERTIES SessionRecovers
CHECK_DEADLOCK FALSE
