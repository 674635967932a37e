CONSTANTS
  Caller = {c1, c2}
  Threshold = 2
  Window = 3
  Cooldown = 4
  ProbeTTL = 1
  CallTime = 2
  MaxRetries = 1
  MaxAborts = 1
SPECIFICATION FairSpec
INVARIANTS TypeOK OpenHasFailureTime CountIsLeased
PROPERTIES StatesInOrder CircuitRecovers HalfOpenGetsProbed
