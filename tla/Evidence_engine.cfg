CONSTANTS
  Score <- Scores
  Stability <- Stabilities
  Ratio <- Ratios
  Threshold = 60
  CallSeconds = 30
  MaxRetries = 3
  BackoffSeconds = 15
  TaskSeconds = 60
  MaxCrashes = 1
SPECIFICATION Spec
INVARIANTS TypeOK RecoveredDecisionAgrees GstGate MeltdownIsReviewed DefaultsNeverApprove BetterCreditNeverHurts EveryReviewIsOverridden ExplanationNamesEveryFailure
