SPECIFICATION FairSpec
CONSTANTS
  a = a
  b = b
  Requests = {r1, r2}
  Sentences <- MCSentences
  Texts <- MCTexts
  MaxSegments = 2
  Hard <- MCHard
  Worded <- MCNoneWorded
  Prompts = {p1}
  Chat = FALSE
  HasFast = FALSE
  BackendFails = TRUE
  Capacity = 1
INVARIANT FailsOnlyEmpty
PROPERTY EveryRequestEnds
CHECK_DEADLOCK FALSE
