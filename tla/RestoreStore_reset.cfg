SPECIFICATION Spec
CONSTANTS
  Panes = {p1, p2}
  MaxText = 2
  Budget = 3
  ArchiveKeep = 2
  MaxCaptures = 2
  MaxCloses = 0
  MaxQuits = 0
  MaxFailures = 0
  MaxLaunches = 0
  MaxResets = 1
INVARIANT PersistedTextOnDisk
CHECK_DEADLOCK FALSE
