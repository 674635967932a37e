------------------------ MODULE DecisionEngineProofs ------------------------
(* The decision engine, for every applicant, rule set and threshold.       *)
EXTENDS DecisionEngine, TLAPS

(* Applicants whose features are numbers, and rule sets that give points,  *)
(* never take them, for a better feature.                                  *)
Applicants == [credit : Int, stability : Int, gst : {Unknown, 0, 1}, dti : Int,
               creditFailure : Failure \cup {"NONE"}, bankFailure : Failure \cup {"NONE"},
               gstFailure : Failure \cup {"NONE"}, fallback : BOOLEAN]
RuleSets == [credit : Nat, stability : Nat, dti : Nat, gst : Nat,
             penalty : Nat, maxPenalty : Nat,
             approveHigh : Int, approveModerate : Int, decline : Int,
             moderateMaxDti : Int, declineDti : Int]

ImputedCredit(f) == Clamp(IF f.credit = Unknown THEN 600 ELSE f.credit, 0, 900)
ImputedStability(f) == Clamp(IF f.stability = Unknown THEN 50 ELSE f.stability, 0, 100)

(* The points of an applicant before they are clamped and rounded. *)
Points(f, rules) ==
  ImputedCredit(f) * rules.credit + 9 * ImputedStability(f) * rules.stability
    + 9 * AtLeast(0, 100 - f.dti) * rules.dti
    + 900 * ((IF f.gst = 1 THEN rules.gst ELSE 0)
               - AtMost(FailureCount(f) * rules.penalty, rules.maxPenalty))

(* The same sources failed in the same way; and g is at least as good as f *)
(* in every feature, where an unknown GST is better than non-compliance.   *)
SameFailures(f, g) ==
  /\ f.creditFailure = g.creditFailure /\ f.bankFailure = g.bankFailure
  /\ f.gstFailure = g.gstFailure /\ f.fallback = g.fallback
AsGood(f, g) ==
  /\ ImputedCredit(f) <= ImputedCredit(g) /\ ImputedStability(f) <= ImputedStability(g)
  /\ g.dti <= f.dti
  /\ (f.gst = 1 => g.gst = 1) /\ (g.gst = 0 => f.gst = 0)

-----------------------------------------------------------------------------
(* Ranges. *)

LEMMA ImputedBounds ==
  ASSUME NEW f \in Applicants
  PROVE  ImputedCredit(f) \in 0..900 /\ ImputedStability(f) \in 0..100
BY DEF Applicants, ImputedCredit, ImputedStability, Clamp, AtMost, AtLeast

LEMMA FailureCountBounds ==
  ASSUME NEW f
  PROVE  FailureCount(f) \in 0..3
BY DEF FailureCount

LEMMA RiskOfPoints ==
  ASSUME NEW f, NEW rules
  PROVE  RiskScore(f, rules) = (2 * Clamp(Points(f, rules), 0, 90000) + 9) \div 18
BY DEF RiskScore, Points, ImputedCredit, ImputedStability

LEMMA RoundingBounds ==
  ASSUME NEW p \in Int
  PROVE  /\ (2 * Clamp(p, 0, 90000) + 9) \div 18 \in Int
         /\ 0 <= (2 * Clamp(p, 0, 90000) + 9) \div 18
         /\ (2 * Clamp(p, 0, 90000) + 9) \div 18 <= 10000
<1> DEFINE clamped == Clamp(p, 0, 90000)
<1>1. clamped \in Int /\ 0 <= clamped /\ clamped <= 90000
  BY DEF Clamp, AtMost, AtLeast
<1> HIDE DEF clamped
<1>2. /\ (2 * clamped + 9) \div 18 \in Int
      /\ 0 <= (2 * clamped + 9) \div 18 /\ (2 * clamped + 9) \div 18 <= 10000
  BY <1>1
<1> QED
  BY <1>2 DEF clamped

LEMMA RoundingMonotone ==
  ASSUME NEW p \in Int, NEW q \in Int, p <= q
  PROVE  (2 * Clamp(p, 0, 90000) + 9) \div 18 <= (2 * Clamp(q, 0, 90000) + 9) \div 18
<1> DEFINE c == Clamp(p, 0, 90000)
           d == Clamp(q, 0, 90000)
<1>1. c \in Int /\ d \in Int /\ c <= d
  BY DEF Clamp, AtMost, AtLeast
<1> HIDE DEF c, d
<1>2. (2 * c + 9) \div 18 <= (2 * d + 9) \div 18
  BY <1>1
<1> QED
  BY <1>2 DEF c, d

LEMMA PointsAreInt ==
  ASSUME NEW f \in Applicants, NEW rules \in RuleSets
  PROVE  Points(f, rules) \in Int
<1> DEFINE penalty == AtMost(FailureCount(f) * rules.penalty, rules.maxPenalty)
           ratio == AtLeast(0, 100 - f.dti)
           gst == IF f.gst = 1 THEN rules.gst ELSE 0
<1>1. /\ rules.credit \in Int /\ rules.stability \in Int /\ rules.dti \in Int
      /\ rules.gst \in Int /\ rules.penalty \in Int /\ rules.maxPenalty \in Int
  BY DEF RuleSets
<1>2. ImputedCredit(f) \in Int /\ ImputedStability(f) \in Int /\ FailureCount(f) \in Int
  BY ImputedBounds, FailureCountBounds
<1>3. penalty \in Int /\ ratio \in Int /\ gst \in Int
  BY <1>1, <1>2 DEF AtMost, AtLeast, Applicants
<1> HIDE DEF penalty, ratio, gst
<1>4. ImputedCredit(f) * rules.credit + 9 * ImputedStability(f) * rules.stability
        + 9 * ratio * rules.dti + 900 * (gst - penalty) \in Int
  BY <1>1, <1>2, <1>3
<1> QED
  BY <1>4 DEF Points, penalty, ratio, gst

LEMMA RiskBounds ==
  ASSUME NEW f \in Applicants, NEW rules \in RuleSets
  PROVE  /\ RiskScore(f, rules) \in Int
         /\ 0 <= RiskScore(f, rules) /\ RiskScore(f, rules) <= 10000
BY PointsAreInt, RiskOfPoints, RoundingBounds

LEMMA ReliabilityBounds ==
  ASSUME NEW f
  PROVE  DataReliability(f) \in 0..100
<1>1. \A x : ReliabilityPenalty(x) \in 0..30
  BY DEF ReliabilityPenalty
<1> QED
  BY <1>1 DEF DataReliability, Clamp, AtMost, AtLeast

LEMMA FactorBounds ==
  ASSUME NEW risk \in Int, NEW decision
  PROVE  BoundaryFactor(risk, decision) \in 0..100
BY DEF BoundaryFactor

(* A confidence is at most the reliability, and at most the factor. *)
LEMMA ConfidenceBounds ==
  ASSUME NEW reliability \in 0..100, NEW factor \in 0..100
  PROVE  /\ Confidence(reliability, factor) \in 0..100
         /\ Confidence(reliability, factor) <= reliability
         /\ Confidence(reliability, factor) <= factor
<1> DEFINE product == reliability * factor
<1>1. product \in Nat
  OBVIOUS
<1>2. product <= 100 * reliability /\ product <= 100 * factor
  OBVIOUS
<1> HIDE DEF product
<1>3. product \div 100 \in 0..100 /\ product \div 100 <= reliability /\ product \div 100 <= factor
  BY <1>1, <1>2
<1>4. /\ (product + 50) \div 100 \in 0..100
      /\ (product + 50) \div 100 <= reliability
      /\ (product + 50) \div 100 <= factor
  BY <1>1, <1>2
<1> QED
  BY <1>3, <1>4 DEF Confidence, product

(* evaluate: whatever the risk score, and under every rule set whose high  *)
(* approval threshold is not below its moderate one, explicit GST          *)
(* non-compliance is not approved.                                         *)
THEOREM GateHolds ==
  ASSUME NEW rules, NEW risk \in Int, NEW f, f.gst = 0,
         rules.approveModerate \in Int, rules.approveHigh \in Int,
         rules.approveHigh >= rules.approveModerate
  PROVE  Evaluate(risk, f, rules) # "APPROVE"
BY DEF Evaluate, EffectiveScore, AtMost

-----------------------------------------------------------------------------
(* Monotonicity. *)

LEMMA ProductMonotone ==
  ASSUME NEW a \in Int, NEW b \in Int, a <= b, NEW w \in Nat
  PROVE  a * w <= b * w
<1>1. (b - a) * w >= 0
  OBVIOUS
<1>2. (b - a) * w = b * w - a * w
  OBVIOUS
<1> QED
  BY <1>1, <1>2

LEMMA PointsMonotone ==
  ASSUME NEW f \in Applicants, NEW g \in Applicants, NEW rules \in RuleSets,
         SameFailures(f, g), AsGood(f, g)
  PROVE  Points(f, rules) <= Points(g, rules)
<1> DEFINE penalty == AtMost(FailureCount(f) * rules.penalty, rules.maxPenalty)
           fr == AtLeast(0, 100 - f.dti)
           gr == AtLeast(0, 100 - g.dti)
           fg == IF f.gst = 1 THEN rules.gst ELSE 0
           gg == IF g.gst = 1 THEN rules.gst ELSE 0
           fc == ImputedCredit(f)
           gc == ImputedCredit(g)
           fs == ImputedStability(f)
           gs == ImputedStability(g)
<1>1. /\ rules.credit \in Nat /\ rules.stability \in Nat /\ rules.dti \in Nat
      /\ rules.gst \in Nat /\ rules.penalty \in Nat /\ rules.maxPenalty \in Nat
  BY DEF RuleSets
<1>2. fr \in Int /\ gr \in Int /\ fr <= gr
  BY DEF AsGood, Applicants, AtLeast
<1>3. fg \in Int /\ gg \in Int /\ fg <= gg
  BY <1>1 DEF AsGood
<1>4. fc \in Int /\ gc \in Int /\ fs \in Int /\ gs \in Int /\ fc <= gc /\ fs <= gs
  BY ImputedBounds DEF AsGood
<1>5. penalty \in Int
  BY <1>1, FailureCountBounds DEF AtMost
<1>6. FailureCount(g) = FailureCount(f)
  BY DEF FailureCount, SameFailures
<1>7. /\ Points(f, rules) = fc * rules.credit + 9 * fs * rules.stability + 9 * fr * rules.dti
                              + 900 * (fg - penalty)
      /\ Points(g, rules) = gc * rules.credit + 9 * gs * rules.stability + 9 * gr * rules.dti
                              + 900 * (gg - penalty)
  BY <1>6 DEF Points
<1> HIDE DEF penalty, fr, gr, fg, gg, fc, gc, fs, gs
<1>8. /\ fc * rules.credit <= gc * rules.credit
      /\ fs * rules.stability <= gs * rules.stability
      /\ fr * rules.dti <= gr * rules.dti
  BY <1>1, <1>2, <1>4, ProductMonotone
<1>9. /\ fc * rules.credit \in Int /\ gc * rules.credit \in Int
      /\ fs * rules.stability \in Int /\ gs * rules.stability \in Int
      /\ fr * rules.dti \in Int /\ gr * rules.dti \in Int
      /\ 9 * fs * rules.stability = 9 * (fs * rules.stability)
      /\ 9 * gs * rules.stability = 9 * (gs * rules.stability)
      /\ 9 * fr * rules.dti = 9 * (fr * rules.dti)
      /\ 9 * gr * rules.dti = 9 * (gr * rules.dti)
  BY <1>1, <1>2, <1>4
<1> QED
  BY <1>3, <1>5, <1>7, <1>8, <1>9

(* compute_risk_score: under every rule set whose weights are not negative *)
(* the score does not fall when a feature gets better.                     *)
THEOREM RiskMonotone ==
  ASSUME NEW f \in Applicants, NEW g \in Applicants, NEW rules \in RuleSets,
         SameFailures(f, g), AsGood(f, g)
  PROVE  RiskScore(f, rules) <= RiskScore(g, rules)
<1>1. Points(f, rules) \in Int /\ Points(g, rules) \in Int /\ Points(f, rules) <= Points(g, rules)
  BY PointsAreInt, PointsMonotone
<1> QED
  BY <1>1, RiskOfPoints, RoundingMonotone

LEMMA EffectiveMonotone ==
  ASSUME NEW f \in Applicants, NEW g \in Applicants, NEW rules \in RuleSets,
         NEW p \in Int, NEW q \in Int, p <= q, AsGood(f, g)
  PROVE  /\ EffectiveScore(p, f, rules) \in Int /\ EffectiveScore(q, g, rules) \in Int
         /\ EffectiveScore(p, f, rules) <= EffectiveScore(q, g, rules)
<1>1. rules.approveModerate \in Int
  BY DEF RuleSets
<1> QED
  BY <1>1 DEF EffectiveScore, AtMost, AsGood

(* The rules alone, before the confidence: an applicant as good as one who *)
(* is approved is approved, and one who is declined is no better.          *)
LEMMA EvaluateMonotone ==
  ASSUME NEW f \in Applicants, NEW g \in Applicants, NEW rules \in RuleSets,
         NEW p \in Int, NEW q \in Int, p <= q, SameFailures(f, g), AsGood(f, g)
  PROVE  /\ Evaluate(p, f, rules) = "APPROVE" => Evaluate(q, g, rules) = "APPROVE"
         /\ Evaluate(q, g, rules) = "DECLINE" => Evaluate(p, f, rules) = "DECLINE"
<1> DEFINE s == EffectiveScore(p, f, rules)
           t == EffectiveScore(q, g, rules)
           fApproved == \/ s >= rules.approveHigh /\ FailureCount(f) = 0
                        \/ s >= rules.approveModerate /\ f.dti < rules.moderateMaxDti
           gApproved == \/ t >= rules.approveHigh /\ FailureCount(g) = 0
                        \/ t >= rules.approveModerate /\ g.dti < rules.moderateMaxDti
           fDeclined == s < rules.decline \/ f.dti > rules.declineDti
           gDeclined == t < rules.decline \/ g.dti > rules.declineDti
<1>1. /\ Evaluate(p, f, rules) = IF fApproved THEN "APPROVE"
                                 ELSE IF fDeclined THEN "DECLINE" ELSE "NEEDS_REVIEW"
      /\ Evaluate(q, g, rules) = IF gApproved THEN "APPROVE"
                                 ELSE IF gDeclined THEN "DECLINE" ELSE "NEEDS_REVIEW"
  BY DEF Evaluate
<1>2. s \in Int /\ t \in Int /\ s <= t
  BY EffectiveMonotone
<1>3. FailureCount(g) = FailureCount(f)
  BY DEF FailureCount, SameFailures
<1>4. g.dti \in Int /\ f.dti \in Int /\ g.dti <= f.dti
  BY DEF Applicants, AsGood
<1>5. /\ rules.approveHigh \in Int /\ rules.approveModerate \in Int /\ rules.decline \in Int
      /\ rules.moderateMaxDti \in Int /\ rules.declineDti \in Int
  BY DEF RuleSets
<1> HIDE DEF s, t
<1>6. fApproved => gApproved
  BY <1>2, <1>3, <1>4, <1>5
<1>7. gDeclined => fDeclined
  BY <1>2, <1>4, <1>5
<1> HIDE DEF fApproved, gApproved, fDeclined, gDeclined
<1> QED
  BY <1>1, <1>6, <1>7

(* _boundary_distance_factor: the further from the border, the surer.      *)
LEMMA FactorMonotone ==
  ASSUME NEW p \in Int, NEW q \in Int, p <= q
  PROVE  /\ BoundaryFactor(p, "APPROVE") <= BoundaryFactor(q, "APPROVE")
         /\ BoundaryFactor(q, "DECLINE") <= BoundaryFactor(p, "DECLINE")
<1>1. BoundaryFactor(p, "APPROVE") <= BoundaryFactor(q, "APPROVE")
  BY DEF BoundaryFactor
<1>2. BoundaryFactor(q, "DECLINE") <= BoundaryFactor(p, "DECLINE")
  BY DEF BoundaryFactor
<1> QED
  BY <1>1, <1>2

(* Two products in order are rounded in order, the half-way ones that fall *)
(* below in binary included.                                               *)
LEMMA ConfidenceMonotone ==
  ASSUME NEW r \in 0..100, NEW a \in 0..100, NEW b \in 0..100, a <= b
  PROVE  Confidence(r, a) <= Confidence(r, b)
<1> DEFINE x == r * a
           y == r * b
<1>1. x \in Nat /\ y \in Nat
  OBVIOUS
<1>2. x <= y
  <2>1. a * r <= b * r
    BY ProductMonotone
  <2> QED
    BY <2>1
<1> HIDE DEF x, y
<1> DEFINE X == IF x \in RoundedDown THEN x \div 100 ELSE (x + 50) \div 100
           Y == IF y \in RoundedDown THEN y \div 100 ELSE (y + 50) \div 100
<1>3. X <= Y
  BY <1>1, <1>2 DEF RoundedDown
<1> QED
  BY <1>3 DEF Confidence, x, y

(* compute_decision: under every rule set whose weights are not negative,  *)
(* for every threshold, and with the same sources missing, who is at least *)
(* as good as an approved applicant is approved, and who is not better     *)
(* than a declined one is declined.  The confidence, which changes with    *)
(* the score and turns decisions into reviews, does not upset the order.   *)
THEOREM BetterApplicantsFareNoWorse ==
  ASSUME NEW f \in Applicants, NEW g \in Applicants, NEW rules \in RuleSets,
         NEW threshold \in Int, SameFailures(f, g), AsGood(f, g)
  PROVE  /\ ComputeDecision(f, threshold, rules).decision = "APPROVE" =>
              ComputeDecision(g, threshold, rules).decision = "APPROVE"
         /\ ComputeDecision(g, threshold, rules).decision = "DECLINE" =>
              ComputeDecision(f, threshold, rules).decision = "DECLINE"
<1> DEFINE p == RiskScore(f, rules)
           q == RiskScore(g, rules)
           r == DataReliability(f)
           fConfidence == Confidence(r, BoundaryFactor(p, Evaluate(p, f, rules)))
           gConfidence == Confidence(r, BoundaryFactor(q, Evaluate(q, g, rules)))
<1>1. p \in Int /\ q \in Int /\ p <= q
  BY RiskBounds, RiskMonotone
<1>2. r \in 0..100 /\ DataReliability(g) = r
  BY ReliabilityBounds DEF DataReliability, SameFailures
<1>3. /\ ComputeDecision(f, threshold, rules).decision =
           IF fConfidence < threshold THEN "NEEDS_REVIEW" ELSE Evaluate(p, f, rules)
      /\ ComputeDecision(g, threshold, rules).decision =
           IF gConfidence < threshold THEN "NEEDS_REVIEW" ELSE Evaluate(q, g, rules)
  BY <1>2 DEF ComputeDecision
<1> HIDE DEF p, q, r
<1>4. ASSUME NEW risk \in Int, NEW decision
      PROVE  Confidence(r, BoundaryFactor(risk, decision)) \in Int
  <2>1. BoundaryFactor(risk, decision) \in 0..100
    BY FactorBounds
  <2>2. Confidence(r, BoundaryFactor(risk, decision)) \in 0..100
    BY <1>2, <2>1, ConfidenceBounds, Zenon
  <2> QED
    BY <2>2
<1>5. fConfidence \in Int /\ gConfidence \in Int
  BY <1>1, <1>4
<1>6. ASSUME Evaluate(p, f, rules) = "APPROVE", ~(fConfidence < threshold)
      PROVE  Evaluate(q, g, rules) = "APPROVE" /\ ~(gConfidence < threshold)
  <2>1. Evaluate(q, g, rules) = "APPROVE"
    BY <1>1, <1>6, EvaluateMonotone
  <2>2. BoundaryFactor(p, "APPROVE") <= BoundaryFactor(q, "APPROVE")
    BY <1>1, FactorMonotone
  <2>3. fConfidence <= gConfidence
    BY <1>1, <1>2, <1>6, <2>1, <2>2, FactorBounds, ConfidenceMonotone, ZenonT(60)
  <2> HIDE DEF fConfidence, gConfidence
  <2> QED
    BY <1>5, <1>6, <2>1, <2>3
<1>7. ASSUME Evaluate(q, g, rules) = "DECLINE", ~(gConfidence < threshold)
      PROVE  Evaluate(p, f, rules) = "DECLINE" /\ ~(fConfidence < threshold)
  <2>1. Evaluate(p, f, rules) = "DECLINE"
    BY <1>1, <1>7, EvaluateMonotone
  <2>2. BoundaryFactor(q, "DECLINE") <= BoundaryFactor(p, "DECLINE")
    BY <1>1, FactorMonotone
  <2>3. gConfidence <= fConfidence
    BY <1>1, <1>2, <1>7, <2>1, <2>2, FactorBounds, ConfidenceMonotone, ZenonT(60)
  <2> HIDE DEF fConfidence, gConfidence
  <2> QED
    BY <1>5, <1>7, <2>1, <2>3
<1> HIDE DEF fConfidence, gConfidence
<1> QED
  BY <1>3, <1>6, <1>7

-----------------------------------------------------------------------------
(* RULE_SET_V1: what an approval on defaults implies. *)

LEMMA VersionOne == RuleSetV1 \in RuleSets
BY DEF RuleSetV1, RuleSets

LEMMA PointsOfVersionOne ==
  ASSUME NEW f \in Applicants
  PROVE  Points(f, RuleSetV1) =
           40 * ImputedCredit(f) + 180 * ImputedStability(f) + 225 * AtLeast(0, 100 - f.dti)
             + (IF f.gst = 1 THEN 13500 ELSE 0) - 4500 * FailureCount(f)
<1>1. /\ ImputedCredit(f) \in Int /\ ImputedStability(f) \in Int
      /\ FailureCount(f) \in 0..3
  BY ImputedBounds, FailureCountBounds
<1>2. AtLeast(0, 100 - f.dti) \in Int
  BY DEF AtLeast, Applicants
<1>3. AtMost(FailureCount(f) * 5, 15) = 5 * FailureCount(f)
  BY <1>1 DEF AtMost
<1> QED
  BY <1>1, <1>2, <1>3 DEF Points, RuleSetV1

Rounded(p) == (2 * Clamp(p, 0, 90000) + 9) \div 18

LEMMA RoundedThresholds ==
  ASSUME NEW p \in Int
  PROVE  /\ Rounded(p) >= 8000 => p >= 71996
         /\ Rounded(p) >= 7000 => p >= 62996
         /\ p >= 62996 => Rounded(p) >= 7000
         /\ p >= 49496 => Rounded(p) >= 5500
<1> DEFINE c == Clamp(p, 0, 90000)
<1>1. /\ c \in Int /\ 0 <= c
      /\ c >= 71996 => p >= 71996
      /\ c >= 62996 => p >= 62996
      /\ p >= 62996 => c >= 62996
      /\ p >= 49496 => c >= 49496
  BY DEF Clamp, AtMost, AtLeast
<1> HIDE DEF c
<1> DEFINE r == (2 * c + 9) \div 18
<1>2. /\ r >= 8000 => c >= 71996
      /\ r >= 7000 => c >= 62996
      /\ c >= 62996 => r >= 7000
      /\ c >= 49496 => r >= 5500
  BY <1>1
<1>3. r = Rounded(p)
  BY DEF Rounded, c
<1> QED
  BY <1>1, <1>2, <1>3

(* Reliabilities and factors are tenths, whose products need no rounding.  *)
LEMMA ConfidenceOfTenths ==
  ASSUME NEW i \in 0..10, NEW j \in 0..10
  PROVE  Confidence(10 * i, 10 * j) = i * j
<1>1. (10 * i) * (10 * j) = 100 * (i * j) /\ i * j \in Nat
  OBVIOUS
<1> DEFINE n == i * j
<1> HIDE DEF n
<1>2. n \in Nat
  BY <1>1 DEF n
<1>3. 100 * n \notin RoundedDown /\ (100 * n + 50) \div 100 = n
  BY <1>2 DEF RoundedDown
<1> QED
  BY <1>1, <1>3 DEF Confidence, n

ApprovalFactor(risk) == BoundaryFactor(risk, "APPROVE")

(* An approval by the rules of version 1 with a threshold of at least 0.57 *)
(* needs a score of 70 when a fifth of the reliability is gone, one of 80  *)
(* when two fifths are; and a ratio below 0.50 when any source failed.     *)
LEMMA ApprovalNeeds ==
  ASSUME NEW f \in Applicants, NEW threshold \in 57..70, NEW i \in 0..10,
         DataReliability(f) = 10 * i,
         ComputeDecision(f, threshold, RuleSetV1).decision = "APPROVE"
  PROVE  LET risk == RiskScore(f, RuleSetV1)
         IN  /\ f.gst # 0
             /\ i >= 6
             /\ i <= 8 => risk >= 7000
             /\ i <= 6 => risk >= 8000
             /\ FailureCount(f) >= 1 => f.dti < 50
             /\ risk < 8000 => 9 * i >= threshold
<1> DEFINE risk == RiskScore(f, RuleSetV1)
           decision == Evaluate(risk, f, RuleSetV1)
           confidence == Confidence(10 * i, BoundaryFactor(risk, decision))
<1>1. risk \in Int
  BY VersionOne, RiskBounds
<1>2. ComputeDecision(f, threshold, RuleSetV1).decision =
        IF confidence < threshold THEN "NEEDS_REVIEW" ELSE decision
  BY DEF ComputeDecision
<1>3. decision = "APPROVE" /\ ~(confidence < threshold)
  <2> HIDE DEF decision, confidence
  <2> QED
    BY <1>2
<1>4. f.gst # 0
  BY <1>1, <1>3, GateHolds DEF RuleSetV1
<1>5. confidence = Confidence(10 * i, ApprovalFactor(risk))
  BY <1>3 DEF ApprovalFactor
<1> HIDE DEF confidence
<1>6. FailureCount(f) >= 1 => f.dti < 50
  BY <1>3, FailureCountBounds DEF Evaluate, RuleSetV1
<1> HIDE DEF risk, decision
<1>7. PICK j \in {6, 7, 9, 10} : /\ ApprovalFactor(risk) = 10 * j
                                 /\ j = 10 <=> risk >= 8000
                                 /\ j >= 9 => risk >= 7000
  BY <1>1 DEF ApprovalFactor, BoundaryFactor
<1>8. j \in 0..10
  OBVIOUS
<1>9. confidence = i * j
  BY <1>5, <1>7, <1>8, ConfidenceOfTenths
<1>10. i * j >= threshold
  BY <1>3, <1>8, <1>9
<1>11. i >= 6
  <2>1. i * j <= 10 * i
    BY <1>8
  <2> QED
    BY <1>10, <2>1
<1>12. ASSUME i <= 8 PROVE j >= 9
  <2>1. j = 7 => 7 * i >= 57
    BY <1>10
  <2>2. j = 6 => 6 * i >= 57
    BY <1>10
  <2> QED
    BY <1>12, <2>1, <2>2
<1>13. ASSUME i <= 6 PROVE j = 10
  <2>1. j = 9 => 9 * i >= 57
    BY <1>10
  <2> QED
    BY <1>12, <1>13, <2>1
<1>14. ASSUME j # 10 PROVE 9 * i >= threshold
  <2>1. i * j <= 9 * i
    BY <1>14
  <2> QED
    BY <1>10, <2>1
<1>15. /\ i <= 8 => risk >= 7000
       /\ i <= 6 => risk >= 8000
       /\ risk < 8000 => 9 * i >= threshold
  BY <1>1, <1>7, <1>12, <1>13, <1>14
<1> QED
  BY <1>4, <1>6, <1>11, <1>15 DEF risk

LEMMA ApprovalReached ==
  ASSUME NEW h \in Applicants, NEW threshold \in 57..70, NEW k \in 0..10,
         DataReliability(h) = 10 * k, h.gst # 0, h.dti < 50,
         RiskScore(h, RuleSetV1) >= 5500,
         \/ 7 * k >= threshold
         \/ RiskScore(h, RuleSetV1) >= 7000 /\ 9 * k >= threshold
  PROVE  ComputeDecision(h, threshold, RuleSetV1).decision = "APPROVE"
<1> DEFINE risk == RiskScore(h, RuleSetV1)
           decision == Evaluate(risk, h, RuleSetV1)
           confidence == Confidence(10 * k, BoundaryFactor(risk, decision))
<1>1. risk \in Int
  BY VersionOne, RiskBounds
<1>2. ComputeDecision(h, threshold, RuleSetV1).decision =
        IF confidence < threshold THEN "NEEDS_REVIEW" ELSE decision
  BY DEF ComputeDecision
<1>3. risk >= 5500 /\ (7 * k >= threshold \/ (risk >= 7000 /\ 9 * k >= threshold))
  OBVIOUS
<1> HIDE DEF risk
<1>4. decision = "APPROVE"
  BY <1>3 DEF Evaluate, EffectiveScore, RuleSetV1
<1>5. confidence = Confidence(10 * k, ApprovalFactor(risk))
  BY <1>4 DEF ApprovalFactor
<1> HIDE DEF decision, confidence
<1>6. PICK j \in {7, 9, 10} : ApprovalFactor(risk) = 10 * j /\ (risk >= 7000 => j >= 9)
  BY <1>1, <1>3 DEF ApprovalFactor, BoundaryFactor
<1>7. j \in 0..10
  OBVIOUS
<1>8. confidence = k * j
  BY <1>5, <1>6, <1>7, ConfidenceOfTenths
<1>9. k * j >= 7 * k /\ (j >= 9 => k * j >= 9 * k)
  OBVIOUS
<1>10. k * j >= threshold
  BY <1>3, <1>6, <1>9
<1> QED
  BY <1>2, <1>4, <1>8, <1>10

(* What is left of f when the credit bureau and the bank analyzer answer:  *)
(* h has the values that f lacks, and fails where f does, except there.    *)
BureauMissing(f) == f.creditFailure \in Outage /\ f.credit = Unknown /\ f.fallback
BureauKnown(f, h) == /\ f.creditFailure \in {"NONE", "STALE_DATA"}
                     /\ f.credit = h.credit /\ ~f.fallback
BankMissing(f) == /\ f.bankFailure \in Outage \cup {"FORMAT_ERROR", "PARTIAL_DATA"}
                  /\ f.stability = Unknown
BankKnown(f, h) == f.bankFailure = "NONE" /\ f.stability = h.stability

CompletedBy(f, h) ==
  /\ BureauMissing(f) \/ BureauKnown(f, h)
  /\ BankMissing(f) \/ BankKnown(f, h)
  /\ h.gst = f.gst /\ h.gstFailure = f.gstFailure /\ h.dti = f.dti
  /\ h.creditFailure = "NONE" /\ h.bankFailure = "NONE" /\ ~h.fallback

LEMMA GstTenths ==
  ASSUME NEW f \in Applicants
  PROVE  \E g \in 0..3 : /\ ReliabilityPenalty(f.gstFailure) = 10 * g
                         /\ f.gstFailure = "NONE" <=> g = 0
BY DEF ReliabilityPenalty, Applicants, Failure

LEMMA CompletedReliability ==
  ASSUME NEW f \in Applicants, NEW h \in Applicants, CompletedBy(f, h),
         NEW g \in 0..3, ReliabilityPenalty(f.gstFailure) = 10 * g
  PROVE  DataReliability(h) = 10 * (10 - g)
<1>1. ReliabilityPenalty("NONE") = 0
  BY DEF ReliabilityPenalty
<1>2. /\ h.creditFailure = "NONE" /\ h.bankFailure = "NONE" /\ ~h.fallback
      /\ h.gstFailure = f.gstFailure
  BY DEF CompletedBy
<1> QED
  BY <1>1, <1>2 DEF DataReliability, Clamp, AtMost, AtLeast

LEMMA FailuresOfCompleted ==
  ASSUME NEW f \in Applicants, NEW h \in Applicants, CompletedBy(f, h)
  PROVE  FailureCount(f) = FailureCount(h) + (IF f.creditFailure = "NONE" THEN 0 ELSE 1)
                                           + (IF f.bankFailure = "NONE" THEN 0 ELSE 1)
BY FailureCountBounds DEF FailureCount, CompletedBy

(* With a bureau out of reach: everything else is in order, the ratio is   *)
(* next to nothing and the score stays above 55 even for a credit score 0. *)
LEMMA BureauOutageApproval ==
  ASSUME NEW f \in Applicants, NEW h \in Applicants, NEW threshold \in 57..70,
         CompletedBy(f, h), BureauMissing(f),
         ComputeDecision(f, threshold, RuleSetV1).decision = "APPROVE"
  PROVE  ComputeDecision(h, threshold, RuleSetV1).decision = "APPROVE"
<1> DEFINE bank == ReliabilityPenalty(f.bankFailure)
<1>1. PICK g \in 0..3 : /\ ReliabilityPenalty(f.gstFailure) = 10 * g
                        /\ f.gstFailure = "NONE" <=> g = 0
  BY GstTenths
<1>2. PICK b \in 0..3 : bank = 10 * b /\ (f.bankFailure = "NONE" <=> b = 0)
  BY DEF ReliabilityPenalty, CompletedBy, BankMissing, BankKnown, Outage
<1>3. ReliabilityPenalty(f.creditFailure) = 30
  BY DEF BureauMissing, ReliabilityPenalty, Outage
<1>4. DataReliability(f) = 10 * (IF 6 - b - g >= 0 THEN 6 - b - g ELSE 0)
  BY <1>1, <1>2, <1>3 DEF DataReliability, Clamp, AtMost, AtLeast, BureauMissing
<1> DEFINE i == IF 6 - b - g >= 0 THEN 6 - b - g ELSE 0
<1>5. i \in 0..10
  OBVIOUS
<1> HIDE DEF i, bank
<1>6. /\ f.gst # 0 /\ i >= 6
      /\ RiskScore(f, RuleSetV1) >= 8000
  BY <1>4, <1>5, ApprovalNeeds DEF i
<1>7. b = 0 /\ g = 0
  BY <1>6 DEF i
<1>8. f.bankFailure = "NONE" /\ f.gstFailure = "NONE" /\ f.stability = h.stability
  BY <1>1, <1>2, <1>7 DEF CompletedBy, BankMissing, BankKnown, Outage
<1>9. FailureCount(f) = 1 /\ FailureCount(h) = 0
  BY <1>8, FailureCountBounds DEF FailureCount, BureauMissing, CompletedBy, Outage
<1> DEFINE p == Points(f, RuleSetV1)
           q == Points(h, RuleSetV1)
           room == AtLeast(0, 100 - f.dti)
<1>10. /\ p \in Int /\ q \in Int
       /\ RiskScore(f, RuleSetV1) = Rounded(p) /\ RiskScore(h, RuleSetV1) = Rounded(q)
  BY PointsAreInt, VersionOne, RiskOfPoints DEF Rounded
<1>11. ImputedCredit(f) = 600 /\ ImputedStability(f) = ImputedStability(h)
  BY <1>8 DEF ImputedCredit, ImputedStability, BureauMissing, Clamp, AtMost, AtLeast
<1>12. ImputedCredit(h) \in 0..900 /\ ImputedStability(h) \in 0..100
  BY ImputedBounds
<1>13. /\ p = 40 * ImputedCredit(f) + 180 * ImputedStability(f) + 225 * room
                + (IF f.gst = 1 THEN 13500 ELSE 0) - 4500 * FailureCount(f)
       /\ q = 40 * ImputedCredit(h) + 180 * ImputedStability(h) + 225 * room
                + (IF f.gst = 1 THEN 13500 ELSE 0) - 4500 * FailureCount(h)
  BY PointsOfVersionOne DEF CompletedBy
<1>14. room \in Int
  BY DEF AtLeast, Applicants
<1> DEFINE gst == IF f.gst = 1 THEN 13500 ELSE 0
           credit == ImputedCredit(h)
           stability == ImputedStability(h)
<1> HIDE DEF p, q, room
<1>15. p >= 71996
  BY <1>6, <1>10, RoundedThresholds
<1>16. q >= 49496 /\ room > 50
  <2>1. credit \in Int /\ 0 <= credit /\ stability \in Int /\ stability <= 100
    BY <1>12
  <2>2. gst \in Int /\ gst <= 13500
    OBVIOUS
  <2>3. /\ p = 24000 + 180 * stability + 225 * room + gst - 4500
        /\ q = 40 * credit + 180 * stability + 225 * room + gst
    BY <1>9, <1>11, <1>13
  <2> HIDE DEF credit, stability, gst
  <2> QED
    BY <1>10, <1>14, <1>15, <2>1, <2>2, <2>3
<1>17. RiskScore(h, RuleSetV1) >= 5500
  BY <1>10, <1>16, RoundedThresholds
<1>18. h.dti < 50 /\ h.gst # 0
  BY <1>6, <1>16 DEF room, AtLeast, Applicants, CompletedBy
<1>19. DataReliability(h) = 10 * 10
  BY <1>1, <1>7, CompletedReliability
<1>20. 10 \in 0..10 /\ 7 * 10 >= threshold
  OBVIOUS
<1> QED
  BY <1>17, <1>18, <1>19, <1>20, ApprovalReached

(* With a defect of the bureau's report or without the bank's analysis:    *)
(* what the default of the stability may have given, 10 points, the        *)
(* penalty of the failure takes back by half, and the rest is made up for  *)
(* by the reliability that the full data restores.                         *)
LEMMA DefectApproval ==
  ASSUME NEW f \in Applicants, NEW h \in Applicants, NEW threshold \in 57..70,
         CompletedBy(f, h), BureauKnown(f, h),
         f.creditFailure # "NONE" \/ f.bankFailure # "NONE",
         ComputeDecision(f, threshold, RuleSetV1).decision = "APPROVE"
  PROVE  ComputeDecision(h, threshold, RuleSetV1).decision = "APPROVE"
<1>1. PICK g \in 0..3 : /\ ReliabilityPenalty(f.gstFailure) = 10 * g
                        /\ f.gstFailure = "NONE" <=> g = 0
  BY GstTenths
<1>2. PICK b \in {0, 2, 3} : /\ ReliabilityPenalty(f.bankFailure) = 10 * b
                             /\ f.bankFailure = "NONE" <=> b = 0
  BY DEF ReliabilityPenalty, CompletedBy, BankMissing, BankKnown, Outage
<1>3. PICK c \in {0, 2} : /\ ReliabilityPenalty(f.creditFailure) = 10 * c
                          /\ f.creditFailure = "NONE" <=> c = 0
  BY DEF BureauKnown, ReliabilityPenalty
<1>4. /\ DataReliability(f) = 10 * (10 - c - b - g)
      /\ 10 - c - b - g \in 0..10
  BY <1>1, <1>2, <1>3 DEF DataReliability, Clamp, AtMost, AtLeast, BureauKnown
<1>5. DataReliability(h) = 10 * (10 - g) /\ 10 - g \in 0..10
  BY <1>1, CompletedReliability
<1>6. FailureCount(f) >= 1
  BY FailuresOfCompleted, FailureCountBounds
<1> DEFINE i == 10 - c - b - g
           risk == RiskScore(f, RuleSetV1)
<1>7. /\ f.gst # 0 /\ i >= 6 /\ f.dti < 50
      /\ i <= 8 => risk >= 7000
      /\ i <= 6 => risk >= 8000
      /\ risk < 8000 => 9 * i >= threshold
  BY <1>4, <1>6, ApprovalNeeds
<1>8. i <= 8
  BY <1>2, <1>3
<1> DEFINE p == Points(f, RuleSetV1)
           q == Points(h, RuleSetV1)
           room == AtLeast(0, 100 - f.dti)
           gst == IF f.gst = 1 THEN 13500 ELSE 0
           credit == ImputedCredit(f)
           known == ImputedStability(h)
           imputed == ImputedStability(f)
           bank == IF f.bankFailure = "NONE" THEN 0 ELSE 1
           report == IF f.creditFailure = "NONE" THEN 0 ELSE 1
           failures == FailureCount(h)
<1>9. /\ p \in Int /\ q \in Int
      /\ risk = Rounded(p) /\ RiskScore(h, RuleSetV1) = Rounded(q)
  BY PointsAreInt, VersionOne, RiskOfPoints DEF Rounded
<1>10. ImputedCredit(h) = credit
  BY DEF ImputedCredit, BureauKnown
<1>11. (bank = 0 /\ imputed = known) \/ (bank = 1 /\ imputed = 50)
  <2>1. CASE BankMissing(f)
    <3>1. imputed = 50
      BY <2>1 DEF BankMissing, ImputedStability, Clamp, AtMost, AtLeast
    <3>2. bank = 1
      BY <2>1 DEF BankMissing, Outage
    <3> QED
      BY <3>1, <3>2
  <2>2. CASE BankKnown(f, h)
    BY <2>2 DEF BankKnown, ImputedStability
  <2> QED
    BY <2>1, <2>2 DEF CompletedBy
<1>12. /\ p = 40 * credit + 180 * imputed + 225 * room + gst - 4500 * FailureCount(f)
       /\ q = 40 * credit + 180 * known + 225 * room + gst - 4500 * failures
  BY <1>10, PointsOfVersionOne DEF CompletedBy
<1>13. /\ room \in Int /\ gst \in Int /\ credit \in Int /\ imputed \in 0..100 /\ known \in 0..100
       /\ failures \in Int /\ report \in {0, 1}
  BY ImputedBounds, FailureCountBounds DEF AtLeast, Applicants
<1>14. FailureCount(f) = failures + report + bank
  BY FailuresOfCompleted
<1> HIDE DEF p, q, room, gst, credit, known, imputed, bank, report, failures, risk, i
<1>15. q >= p - 4500
  BY <1>9, <1>11, <1>12, <1>13, <1>14
<1>16. Rounded(q) >= 5500 /\ (risk >= 8000 => Rounded(q) >= 7000)
  BY <1>7, <1>8, <1>9, <1>15, RoundedThresholds
<1>17. h.dti < 50 /\ h.gst # 0
  BY <1>7 DEF CompletedBy
<1>18. i \in Int /\ i <= 8 - g /\ i >= 6 /\ (risk < 8000 => i >= 7)
  BY <1>2, <1>3, <1>7, <1>8 DEF i
<1>19. 7 * (10 - g) >= threshold \/ (Rounded(q) >= 7000 /\ 9 * (10 - g) >= threshold)
  <2>1. CASE risk >= 8000
    BY <1>16, <1>18, <2>1
  <2>2. CASE ~(risk >= 8000)
    <3>1. risk < 8000 /\ 9 * i >= threshold
      BY <1>7, <1>9, <2>2, VersionOne, RiskBounds DEF risk
    <3>2. CASE g = 0
      BY <3>2
    <3>3. CASE g = 1
      BY <1>18, <3>1, <3>3
    <3> QED
      BY <1>18, <3>1, <3>2, <3>3
  <2> QED
    BY <2>1, <2>2
<1> QED
  BY <1>5, <1>9, <1>16, <1>17, <1>19, ApprovalReached

(* compute_decision with RULE_SET_V1: for every threshold from 0.57 to     *)
(* 0.70 the defaults for a missing credit score and income stability are   *)
(* conservative.  Who is approved on them is approved by the full data,    *)
(* whatever it turns out to be; below and above that range it is not so.   *)
THEOREM DefaultsAreConservative ==
  ASSUME NEW f \in Applicants, NEW h \in Applicants, NEW threshold \in 57..70,
         CompletedBy(f, h),
         ComputeDecision(f, threshold, RuleSetV1).decision = "APPROVE"
  PROVE  ComputeDecision(h, threshold, RuleSetV1).decision = "APPROVE"
<1>1. CASE BureauMissing(f)
  BY <1>1, BureauOutageApproval
<1>2. CASE BureauKnown(f, h) /\ (f.creditFailure # "NONE" \/ f.bankFailure # "NONE")
  BY <1>2, DefectApproval
<1>3. CASE BureauKnown(f, h) /\ f.creditFailure = "NONE" /\ f.bankFailure = "NONE"
  <2>1. f.stability = h.stability
    BY <1>3 DEF CompletedBy, BankMissing, BankKnown, Outage
  <2>2. f.fallback = h.fallback
    BY <1>3 DEF CompletedBy, BureauKnown, Applicants
  <2>3. SameFailures(f, h)
    BY <1>3, <2>2 DEF SameFailures, CompletedBy
  <2>4. ImputedCredit(f) = ImputedCredit(h) /\ ImputedStability(f) = ImputedStability(h)
    BY <1>3, <2>1 DEF ImputedCredit, ImputedStability, BureauKnown
  <2>5. h.dti = f.dti /\ h.gst = f.gst
    BY DEF CompletedBy
  <2>6. AsGood(f, h)
    BY <2>4, <2>5, ImputedBounds DEF AsGood, Applicants
  <2> QED
    BY <2>3, <2>6, VersionOne, BetterApplicantsFareNoWorse
<1> QED
  BY <1>1, <1>2, <1>3 DEF CompletedBy
=============================================================================
