SPECIFICATION Spec
CONSTANTS
  MaxReactions = 2
  Cap = 2
  MaxQueues = 2
  Slots = {s1, s2}
  None = None
INVARIANT UnloadFlushes
CHECK_DEADLOCK FALSE
