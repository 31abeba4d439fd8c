SPECIFICATION Spec
CONSTANTS
  None = None
  DecryptFailureThreshold = 2
  MaxEpochResets = 1
  WindowSlides = FALSE
  MaxNonce = 2
  MaxSendSeq = 8
  MaxPhoneSeq = 6
  MaxInFlight = 2
  FaultKinds = {"macDrop", "agentRestart", "phoneDrop"}
  MaxFaults = 1
INVARIANTS SealedInOrder PhoneDropsNoAuthenticFrame MacDropsNoAuthenticFrame NonceUsedOnce InputAfterConfirmation SealedInv
CHECK_DEADLOCK FALSE
