SPECIFICATION FairSpec
CONSTANTS
  MaxReactions = 3
  Cap = 2
  MaxQueues = 2
  Slots = {s1, s2}
  None = None
INVARIANTS TypeOK NothingVanishes HeldOnce NobodyWaitsForNothing
PROPERTY QueueDrains
CHECK_DEADLOCK FALSE
