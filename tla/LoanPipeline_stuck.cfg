CONSTANTS
  App = {a1}
  Worker = {w1, w2}
  Source = {s1}
  Result = {"ok", "degraded"}
  Verdict <- MCVerdict
  OutboxLimit = 1
  FaultKinds = {"crash", "poolKill", "earlyRedelivery"}
  MaxFaults = 2
  NoApp = NoApp
  NoResult = NoResult
SPECIFICATION FairSpec
PROPERTIES StuckIsRecovered
