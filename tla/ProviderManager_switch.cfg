SPECIFICATION FairSpec
CONSTANTS
  Attempts = {c1, c2}
  None = none
  Capacity = 1
  MaxRefs = 2
INVARIANT OneOpenSession
INVARIANT ActiveIsGranted
PROPERTY FailedSwitchKeepsActive
PROPERTY CancelledAttemptEnds
PROPERTY EveryAttemptEnds
