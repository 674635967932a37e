CONSTANTS
  App = {a1}
  Worker = {w1, w2}
  Source = {s1, s2, s3}
  Result = {"ok", "degraded"}
  Verdict <- MCVerdict
  OutboxLimit = 1
  FaultKinds = {"send", "rollback", "crash", "poolKill", "earlyRedelivery", "claim", "slowWorker", "fetch", "timeout", "store", "commitUnheard", "mark"}
  MaxFaults = 4
  NoApp = NoApp
  NoResult = NoResult
SPECIFICATION Spec
SYMMETRY Interchangeable
INVARIANTS TypeOK DecisionMatchesEvidence OneFetchPerSource EveryOutcomeIsAudited NoApplicationForgotten
PROPERTIES FollowsLifecycle
