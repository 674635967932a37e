CONSTANTS
  App = {a1}
  Worker = {w1, w2}
  Source = {s1}
  Result = {"ok", "degraded"}
  Verdict <- MCVerdict
  OutboxLimit = 1
  FaultKinds = {"rollback", "claim"}
  MaxFaults = 2
  NoApp = NoApp
  NoResult = NoResult
SPECIFICATION Spec
PROPERTIES TerminalStatesAreFinal
