SPECIFICATION FairSpec
CONSTANTS
  None = None
  Phones = {p1}
  InitiallyPaired = {}
  Nonces = {1, 2, 3, 4, 5, 6}
  MaxCodes = 1
  MaxPairFailures = 2
  MaxAttempts = 3
  RepairFallbackAttempt = 1
  MaxReconnectAttempts = 2
  MaxInFlight = 2
  DecryptFailureThreshold = 2
  MaxEpochResets = 2
  WindowSlides = TRUE
  FaultKinds = {"phoneDrop"}
  MaxFaults = 1
PROPERTIES AcceptedPairingCompletes
CHECK_DEADLOCK FALSE
