--------------------------- MODULE DecisionEngine ---------------------------
(***************************************************************************)
(* The pure decision engine: risk score, rules, reliability, confidence.   *)
(*                                                                         *)
(* Numbers are integers: scores, confidences, stabilities and ratios in    *)
(* hundredths.  The components of the score are fractions of 900, which    *)
(* never fall half-way between two hundredths, so rounding them is exact.  *)
(* A missing value, None, is Unknown.                                      *)
(***************************************************************************)
EXTENDS Integers

Unknown == -1

(* FailureType; "NONE" is the absence of one. *)
Failure == {"TIMEOUT", "SERVICE_DOWN", "STALE_DATA", "PARTIAL_DATA", "FORMAT_ERROR",
            "PAN_MISMATCH", "NO_RECORD"}
Outage == {"TIMEOUT", "SERVICE_DOWN"}

AtMost(x, y) == IF x < y THEN x ELSE y
AtLeast(x, y) == IF x > y THEN x ELSE y
Clamp(x, low, high) == AtMost(AtLeast(x, low), high)

(* RULE_SET_V1. *)
RuleSetV1 == [credit |-> 40, stability |-> 20, dti |-> 25, gst |-> 15,
              penalty |-> 5, maxPenalty |-> 15,
              approveHigh |-> 7000, approveModerate |-> 5500, decline |-> 3500,
              moderateMaxDti |-> 50, declineDti |-> 60]

(* What the decision is computed from: credit score, income stability, GST *)
(* compliance (1, 0 or Unknown), debt-to-income ratio, and of each source  *)
(* the failure, "NONE" when there is none.  fallback: the credit score is  *)
(* the default because the bureau could not be reached.                    *)
FailureCount(f) == LET one(x) == IF x = "NONE" THEN 0 ELSE 1
                   IN  one(f.creditFailure) + one(f.bankFailure) + one(f.gstFailure)

(* Mutant: the penalty may take the score below zero. *)
RiskScoreUnclamped(f, rules) ==
  (f.credit * rules.credit + 9 * f.stability * rules.stability
     + 9 * AtLeast(0, 100 - f.dti) * rules.dti
     - 900 * AtMost(FailureCount(f) * rules.penalty, rules.maxPenalty)) \div 9

(* compute_risk_score. *)
RiskScore(f, rules) ==
  LET credit == Clamp(IF f.credit = Unknown THEN 600 ELSE f.credit, 0, 900)
      stability == Clamp(IF f.stability = Unknown THEN 50 ELSE f.stability, 0, 100)
      penalty == AtMost(FailureCount(f) * rules.penalty, rules.maxPenalty)
      score == credit * rules.credit + 9 * stability * rules.stability
                 + 9 * AtLeast(0, 100 - f.dti) * rules.dti
                 + 900 * ((IF f.gst = 1 THEN rules.gst ELSE 0) - penalty)
  IN  (2 * Clamp(score, 0, 90000) + 9) \div 18

(* Mutant: no GST gate. *)
EffectiveScoreUngated(risk, f, rules) == risk

(* evaluate: the GST gate caps the score one point below approval, and the *)
(* first matching rule wins.                                               *)
EffectiveScore(risk, f, rules) ==
  IF f.gst = 0 THEN AtMost(risk, rules.approveModerate - 100) ELSE risk

Evaluate(risk, f, rules) ==
  LET score == EffectiveScore(risk, f, rules)
      approve == \/ score >= rules.approveHigh /\ FailureCount(f) = 0
                 \/ score >= rules.approveModerate /\ f.dti < rules.moderateMaxDti
      decline == score < rules.decline \/ f.dti > rules.declineDti
  IN  IF approve THEN "APPROVE" ELSE IF decline THEN "DECLINE" ELSE "NEEDS_REVIEW"

(* Mutant: an outage weighs no more than a defect of the data. *)
ReliabilityPenaltyUniform(failure) == IF failure = "NONE" THEN 0 ELSE 20

(* compute_data_reliability. *)
ReliabilityPenalty(failure) ==
  CASE failure \in {"TIMEOUT", "SERVICE_DOWN", "FORMAT_ERROR"}        -> 30
    [] failure \in {"STALE_DATA", "PARTIAL_DATA", "PAN_MISMATCH"}     -> 20
    [] failure = "NO_RECORD"                                          -> 10
    [] OTHER                                                          -> 0

DataReliability(f) ==
  Clamp(100 - ReliabilityPenalty(f.creditFailure) - ReliabilityPenalty(f.bankFailure)
            - ReliabilityPenalty(f.gstFailure) - (IF f.fallback THEN 10 ELSE 0), 0, 100)

(* Mutant: the factors of an approval are in the wrong order. *)
BoundaryFactorReversed(risk, decision) ==
  CASE decision = "APPROVE" -> IF risk >= 8000 THEN 60 ELSE IF risk >= 7000 THEN 70
                               ELSE IF risk >= 5500 THEN 90 ELSE 100
    [] decision = "DECLINE" -> IF risk <= 2000 THEN 100 ELSE IF risk <= 3400 THEN 85 ELSE 75
    [] OTHER                -> 50

(* Mutant: a review is as certain as any other decision. *)
BoundaryFactorOfCertainReview(risk, decision) ==
  CASE decision = "APPROVE" -> IF risk >= 8000 THEN 100 ELSE IF risk >= 7000 THEN 90
                               ELSE IF risk >= 5500 THEN 70 ELSE 60
    [] decision = "DECLINE" -> IF risk <= 2000 THEN 100 ELSE IF risk <= 3400 THEN 85 ELSE 75
    [] OTHER                -> 100

(* _boundary_distance_factor. *)
BoundaryFactor(risk, decision) ==
  CASE decision = "APPROVE" -> IF risk >= 8000 THEN 100 ELSE IF risk >= 7000 THEN 90
                               ELSE IF risk >= 5500 THEN 70 ELSE 60
    [] decision = "DECLINE" -> IF risk <= 2000 THEN 100 ELSE IF risk <= 3400 THEN 85 ELSE 75
    [] OTHER                -> 50

(* round(x, 2) of the double nearest to product / 10000: a product that is *)
(* half-way in decimal lies below in binary for four reliabilities.        *)
RoundedDown == {2250, 4250, 5250, 5950}

Confidence(reliability, factor) ==
  LET product == reliability * factor
  IN  IF product \in RoundedDown THEN product \div 100 ELSE (product + 50) \div 100

(* compute_decision. *)
ComputeDecision(f, threshold, rules) ==
  LET risk == RiskScore(f, rules)
      decision == Evaluate(risk, f, rules)
      confidence == Confidence(DataReliability(f), BoundaryFactor(risk, decision))
      review == confidence < threshold
  IN  [decision |-> IF review THEN "NEEDS_REVIEW" ELSE decision,
       confidence |-> confidence,
       risk |-> risk,
       requiresManualReview |-> review]
=============================================================================
