SPECIFICATION Spec
CONSTANTS
  r1 = r1 r2 = r2
  None = None
  Requests = {r1, r2}
  Settled = {r2}
  DeferredCapacity = 1
  RareEvents = {"fetch", "postFails", "answersAhead", "macAnswers", "expires"}
  MaxRare = 1
  MaxFetches = 2
INVARIANTS TypeOK DeferredAreUnknown QueuedAnswerKeepsCard PendingInv
PROPERTIES SnapshotMerges
CHECK_DEADLOCK FALSE
