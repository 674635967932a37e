CONSTANTS
  App = {a1, a2}
  Worker = {w1, w2}
  Source = {s1}
  Result = {"ok", "degraded"}
  Verdict <- MCVerdict
  OutboxLimit = 1
  FaultKinds = {"send", "rollback", "crash", "poolKill", "earlyRedelivery", "claim", "timeout", "commitUnheard", "mark"}
  MaxFaults = 2
  NoApp = NoApp
  NoResult = NoResult
SPECIFICATION FairSpec
INVARIANTS OneWorkerPerApplication
PROPERTIES EveryApplicationConcludes
