-------------------------- MODULE ExplanationBuilder --------------------------
(***************************************************************************)
(* engine/explanation_builder.py: what the audit log of an application is  *)
(* summarised to.  An entry is abstracted to its step, its error type and  *)
(* whether a fallback was used; "NONE" is the absence of an error.  The    *)
(* log is a set: the summary names each cause, whatever their order.       *)
(***************************************************************************)

Entry(step, error, fallback) == [step |-> step, error |-> error, fallback |-> fallback]

(* Mutant: an entry counts as degraded only when a fallback was used.      *)
DegradedByFallback(log) == {e \in log : e.fallback}

Degraded(log) == {e \in log : e.error # "NONE" \/ e.fallback}

(* _degradation_sentence: the steps named, each with its error or, without *)
(* one, as a fallback.                                                     *)
Causes(log) ==
  {[step |-> e.step, status |-> IF e.error # "NONE" THEN e.error ELSE "fallback"]
     : e \in Degraded(log)}

(* _summary.  overridden: the factors of the decision name the threshold.  *)
Summary(decision, overridden, log) ==
  [kind |-> CASE decision = "NEEDS_REVIEW" /\ overridden -> "insufficient"
              [] Degraded(log) # {}                      -> "degraded"
              [] OTHER                                   -> "verified",
   causes |-> Causes(log)]
=============================================================================
