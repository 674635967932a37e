--------------------------- MODULE MCLoanPipeline ---------------------------
(* LoanPipeline on small sets.  A source answers "ok" or "degraded", and   *)
(* the verdict tells the three kinds of evidence apart, so that a decision *)
(* computed from the wrong answers is a different decision.                *)
EXTENDS LoanPipeline, TLC

MCVerdict == [f \in [Source -> Result] |->
                CASE \A s \in Source : f[s] = "ok"       -> "APPROVE"
                  [] \A s \in Source : f[s] = "degraded" -> "NEEDS_REVIEW"
                  [] OTHER                               -> "DECLINE"]

Interchangeable == Permutations(App) \cup Permutations(Worker) \cup Permutations(Source)
=============================================================================
