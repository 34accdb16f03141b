SPECIFICATION Spec
CONSTANTS
  a = a
  b = b
  Requests = {r1, r2}
  Sentences <- MCSentences
  Texts <- MCTwoTexts
  MaxSegments = 2
  Hard <- MCHard
  Worded <- MCWorded
  Prompts = {p1, p2}
  Chat = TRUE
  HasFast = TRUE
  BackendFails = FALSE
  Capacity = 1
SYMMETRY RequestSymmetry
INVARIANTS TypeOK ShiftedOnce OwnSentences DictionaryRespected OneComputationPerKey
CHECK_DEADLOCK FALSE
