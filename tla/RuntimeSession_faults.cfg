SPECIFICATION Spec
CONSTANTS
  Clients = {c1}
  Responders = {r1}
  Policies = {"pend"}
  MaxTurns = 2
  MaxAsks = 1
  RareEvents = {"unconfirmed", "callerLeaves", "stop", "agentExits", "tabCloses", "wrongStatus",
                "userPrompts", "userAnswers"}
  MaxRare = 1
INVARIANTS SessionInv DialogInv EachTurnEndsOnce ApprovalIsAwaited TypedAfterLaunch KeyAnswersItsDialog
CHECK_DEADLOCK FALSE
