SPECIFICATION FairSpec
CONSTANTS
  Panes = {p1}
  MaxText = 2
  Budget = 3
  ArchiveKeep = 2
  MaxCaptures = 1
  MaxCloses = 0
  MaxQuits = 1
  MaxFailures = 1
  MaxLaunches = 0
  MaxResets = 1
INVARIANTS StoreInv FinalCaptureWins FinalInv CaptureInv
PROPERTY QuitDrains
CHECK_DEADLOCK FALSE
