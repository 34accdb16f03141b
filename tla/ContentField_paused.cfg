SPECIFICATION Spec
CONSTANTS
  Fields = {f}
  Drafts = {a, b}
  None = None
  MaxStates = 1
  MaxSteps = 2
  MaxMoves = 2
PROPERTY PausedAsksNothing
CHECK_DEADLOCK FALSE
