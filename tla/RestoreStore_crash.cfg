SPECIFICATION Spec
CONSTANTS
  Panes = {p1, p2}
  MaxText = 2
  Budget = 2
  ArchiveKeep = 1
  MaxCaptures = 2
  MaxCloses = 1
  MaxQuits = 0
  MaxFailures = 1
  MaxLaunches = 1
  MaxResets = 0
SYMMETRY Symmetry
INVARIANTS ManifestsDecode BundleNeverBehind CommittedSurvives PersistedTextOnDisk SaveFindsTexts ReopenShowsCaptured LedgerWithinBudget
CHECK_DEADLOCK FALSE
