SPECIFICATION Spec
CONSTANTS
  MaxAnnounces = 2
  MaxRequests = 2
  MaxChanges = 2
CHECK_DEADLOCK FALSE
INVARIANT TypeOK
INVARIANT AnswersMatchRequests
INVARIANT ManagerKnowsTheProgram
INVARIANT NothingGoesAstray
