CONSTANTS
  Caller = {c1, c2}
  Threshold = 2
  Window = 3
  Cooldown = 4
  ProbeTTL = 1
  CallTime = 2
  MaxRetries = 0
  MaxAborts = 0
SPECIFICATION Spec
INVARIANTS OneProbe
