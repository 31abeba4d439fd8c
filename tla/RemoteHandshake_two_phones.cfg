SPECIFICATION Spec
CONSTANTS
  None = None
  Phones = {p1, p2}
  InitiallyPaired = {p1}
  Nonces = {1, 2, 3, 4, 5, 6}
  MaxCodes = 2
  MaxPairFailures = 1
  MaxAttempts = 1
  RepairFallbackAttempt = 1
  MaxReconnectAttempts = 0
  MaxInFlight = 1
  DecryptFailureThreshold = 2
  MaxEpochResets = 2
  WindowSlides = TRUE
  FaultKinds = {"agentRestart", "claimExpires", "saveFails", "revoke"}
  MaxFaults = 1
INVARIANTS TypeOK ConnectedPhoneHasKey KeyMatchesPeer ReadyPeerIsTrusted HandshakeInv
PROPERTIES OnlyProvenTrusted KeepsPairingTrust
CHECK_DEADLOCK FALSE
