SPECIFICATION FairSpec
CONSTANTS
  Callers = {c1, c2}
  FailureThreshold = 2
  Cooldown = 2
  MaxRetries = 1
  MaxN = 2
INVARIANTS TypeOK BreakerAgrees HalfOpenHasProbe ShedsLoad BadUrlNeverTrips
PROPERTIES WindowsEnd BackendRecovers
