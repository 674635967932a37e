CONSTANTS
  App = {a1}
  Worker = {w1, w2}
  Source = {s1, s2}
  Result = {"ok", "degraded"}
  Clean = {"ok"}
  Verdict <- MCVerdict
  OutboxLimit = 1
  FaultKinds = {"rollback", "crash", "poolKill", "claim", "slowWorker", "fetch", "timeout", "store", "commitUnheard", "mark"}
  MaxFaults = 3
  NoApp = NoApp
  NoResult = NoResult
SPECIFICATION ReadSpec
SYMMETRY Interchangeable
INVARIANTS ReadTypeOK DecisionAnswersAgree ExplanationsFitDecision
PROPERTIES NoAnswerIsTakenBack
