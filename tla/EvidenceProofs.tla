--------------------------- MODULE EvidenceProofs ---------------------------
(* Recovery and the GST gate, for every score, stability, ratio, threshold *)
(* and number of crashes.                                                  *)
EXTENDS Evidence, DecisionEngineProofs, FiniteSetTheorems, TLAPS

(* What a stored row must keep for the decision to come out the same.      *)
SameCredit(r, q) == /\ r.failure = q.failure /\ CreditOf(r) = CreditOf(q)
                    /\ (r.fallback /\ r.failure \in Outage) =
                         (q.fallback /\ q.failure \in Outage)
SameStability(r, q) == r.failure = q.failure /\ StabilityOf(r) = StabilityOf(q)
SameGst(r, q) == r.failure = q.failure /\ GstOf(r) = GstOf(q)

Recovered(s, a) == Reconstructed(StoredRow(Fetched(s, a)))

LEMMA OutageSurvives ==
  ASSUME NEW a, Classify(a.status) \in Outage
  PROVE  SameCredit(Recovered("credit", a), Fetched("credit", a))
<1> DEFINE L == Fetched("credit", a)
           R == Recovered("credit", a)
<1>1. L = [Called(a) EXCEPT !.data = Known(600), !.fallback = TRUE]
  BY DEF Fetched, FetchCredit, Called, Outage
<1>2. L.failure = Classify(a.status) /\ L.fallback = TRUE
  BY <1>1, ZenonT(60) DEF Called
<1>3. R.failure = L.failure /\ R.fallback = TRUE
  BY <1>2 DEF Recovered, Reconstructed, StoredRow
<1> QED
  BY <1>2, <1>3 DEF SameCredit, CreditOf

LEMMA ReportSurvives ==
  ASSUME NEW a, a.status = 200, a.body.present
  PROVE  SameCredit(Recovered("credit", a), Fetched("credit", a))
<1> DEFINE L == Fetched("credit", a)
           R == Recovered("credit", a)
<1>1. /\ Called(a).failure = "NONE" /\ Called(a).raw = a.body /\ Called(a).data = a.body
  BY DEF Called, Classify
<1>2. L.failure \in {"NONE", "STALE_DATA"} /\ L.data = a.body /\ L.raw = a.body
  BY <1>1 DEF Fetched, FetchCredit, Outage, Called, Classify
<1>3. R.failure = L.failure /\ R.data = a.body
  BY <1>2 DEF Recovered, Reconstructed, StoredRow
<1> QED
  BY <1>2, <1>3 DEF SameCredit, CreditOf, Outage

LEMMA CreditSurvives ==
  ASSUME NEW a \in Errors({408}) \cup {Ok(Known(v)) : v \in Score}
                     \cup {Ok([Known(v) EXCEPT !.bad = TRUE]) : v \in Score}
  PROVE  SameCredit(Recovered("credit", a), Fetched("credit", a))
<1>1. CASE a \in Errors({408})
  <2>1. Classify(a.status) \in Outage
    BY <1>1 DEF Errors, Classify, Outage
  <2> QED
    BY <2>1, OutageSurvives
<1>2. CASE a \in {Ok(Known(v)) : v \in Score}
  BY <1>2, ReportSurvives DEF Ok, Known
<1>3. CASE a \in {Ok([Known(v) EXCEPT !.bad = TRUE]) : v \in Score}
  BY <1>3, ReportSurvives DEF Ok, Known
<1> QED
  BY <1>1, <1>2, <1>3

LEMMA StabilitySurvives ==
  ASSUME NEW a \in Errors({400}) \cup {Ok(Known(v)) : v \in Stability} \cup {Ok(Bare)}
  PROVE  SameStability(Recovered("bank", a), Fetched("bank", a))
<1>1. CASE a \in Errors({400})
  BY <1>1 DEF SameStability, Recovered, Fetched, Reconstructed, StoredRow, Analyze, Called,
               Classify, Outage, StabilityOf, Known, Bare, NoBody, Ok, Errors
<1>2. CASE a \in {Ok(Known(v)) : v \in Stability}
  BY <1>2 DEF SameStability, Recovered, Fetched, Reconstructed, StoredRow, Analyze, Called,
               Classify, Outage, StabilityOf, Known, Bare, NoBody, Ok, Errors
<1>3. CASE a \in {Ok(Bare)}
  BY <1>3 DEF SameStability, Recovered, Fetched, Reconstructed, StoredRow, Analyze, Called,
               Classify, Outage, StabilityOf, Known, Bare, NoBody, Ok, Errors
<1> QED
  BY <1>1, <1>2, <1>3

LEMMA GstSurvives ==
  ASSUME NEW a \in Errors({404}) \cup {Ok(Known(v)) : v \in {0, 1}}
                     \cup {Ok([Bare EXCEPT !.bad = TRUE])}
  PROVE  SameGst(Recovered("gst", a), Fetched("gst", a))
<1>1. CASE a \in Errors({404})
  BY <1>1, SMTT(30) DEF SameGst, Recovered, Fetched, Reconstructed, StoredRow, Verify, Called,
               Classify, Outage, GstOf, Known, Bare, NoBody, Ok, Errors
<1>2. CASE a \in {Ok(Known(v)) : v \in {0, 1}}
  BY <1>2, SMTT(30) DEF SameGst, Recovered, Fetched, Reconstructed, StoredRow, Verify, Called,
               Classify, Outage, GstOf, Known, Bare, NoBody, Ok, Errors
<1>3. CASE a \in {Ok([Bare EXCEPT !.bad = TRUE])}
  BY <1>3, SMTT(30) DEF SameGst, Recovered, Fetched, Reconstructed, StoredRow, Verify, Called,
               Classify, Outage, GstOf, Known, Bare, NoBody, Ok, Errors
<1> QED
  BY <1>1, <1>2, <1>3

(* A worker holds live or reconstructed results, and nothing else.         *)
HoldsEvidence ==
  /\ answer \in Answer /\ ratio \in Ratio
  /\ DOMAIN result = Source /\ DOMAIN row = Source
  /\ \A s \in Source : row[s] \in {Nothing, StoredRow(Fetched(s, answer[s]))}
  /\ \A s \in Source : result[s] \in {Nothing, Fetched(s, answer[s]), Recovered(s, answer[s])}

EvidenceInv == HoldsEvidence /\ RecoveredDecisionAgrees

LEMMA SameFeatures ==
  ASSUME HoldsEvidence, \A s \in Source : result[s] # Nothing
  PROVE  Features(result, ratio) = Features(Live, ratio)
<1>1. \A s \in Source : result[s] = Fetched(s, answer[s]) \/ result[s] = Recovered(s, answer[s])
  BY DEF HoldsEvidence
<1>2. \A s \in Source : Live[s] = Fetched(s, answer[s])
  BY DEF Live
<1>3. SameCredit(result["credit"], Live["credit"])
  BY <1>1, <1>2, CreditSurvives DEF Source, HoldsEvidence, Answer, SameCredit
<1>4. SameStability(result["bank"], Live["bank"])
  BY <1>1, <1>2, StabilitySurvives DEF Source, HoldsEvidence, Answer, SameStability
<1>5. SameGst(result["gst"], Live["gst"])
  BY <1>1, <1>2, GstSurvives, ZenonT(60) DEF Source, HoldsEvidence, Answer, SameGst
<1> QED
  BY <1>3, <1>4, <1>5 DEF Features, SameCredit, SameStability, SameGst

LEMMA EvidenceInit == Init => EvidenceInv
BY DEF Init, EvidenceInv, HoldsEvidence, RecoveredDecisionAgrees

LEMMA EvidenceStep ==
  ASSUME EvidenceInv, [Next]_vars
  PROVE  EvidenceInv'
<1> USE DEF EvidenceInv
<1>1. ASSUME NEW s \in Source, NEW retries, FetchAndStore(s, retries) PROVE EvidenceInv'
  <2>1. HoldsEvidence'
    BY <1>1 DEF FetchAndStore, HoldsEvidence
  <2> QED
    BY <1>1, <2>1 DEF FetchAndStore, RecoveredDecisionAgrees, Running
<1>2. ASSUME NEW s \in Source, Reuse(s) PROVE EvidenceInv'
  <2>1. Reconstructed(row[s]) = Recovered(s, answer[s])
    BY <1>2 DEF Reuse, HoldsEvidence, Recovered
  <2>2. HoldsEvidence'
    BY <1>2, <2>1 DEF Reuse, HoldsEvidence
  <2> QED
    BY <1>2, <2>2 DEF Reuse, RecoveredDecisionAgrees, Running
<1>3. CASE Decide
  <2>1. HoldsEvidence' /\ UNCHANGED <<answer, ratio>>
    BY <1>3 DEF Decide, HoldsEvidence
  <2>2. output' = Assess(Live, ratio)
    BY <1>3, SameFeatures DEF Decide, Assess
  <2>3. RecoveredDecisionAgrees'
    BY <2>1, <2>2 DEF RecoveredDecisionAgrees, Live
  <2> QED
    BY <2>1, <2>3
<1>4. CASE WorkerDies
  BY <1>4 DEF WorkerDies, HoldsEvidence, RecoveredDecisionAgrees, Running
<1>5. CASE TaskTimesOut
  BY <1>5 DEF TaskTimesOut, HoldsEvidence, RecoveredDecisionAgrees, Running
<1>6. CASE UNCHANGED vars
  BY <1>6 DEF vars, HoldsEvidence, RecoveredDecisionAgrees, Live
<1> QED
  BY <1>1, <1>2, <1>3, <1>4, <1>5, <1>6 DEF Next, Finished

(* _load_external_result and compute_decision: a decision made from stored *)
(* rows after any number of crashes is the decision the live answers give. *)
THEOREM RecoveryKeepsDecision == Spec => []RecoveredDecisionAgrees
<1>1. EvidenceInv => RecoveredDecisionAgrees
  BY DEF EvidenceInv
<1> QED
  BY <1>1, EvidenceInit, EvidenceStep, PTL DEF Spec

(* What the engine reads of each answer. *)
LEMMA BureauOutage ==
  ASSUME NEW a, Classify(a.status) \in Outage
  PROVE  /\ FetchCredit(a).failure \in Outage /\ FetchCredit(a).fallback
         /\ CreditOf(FetchCredit(a)) = Unknown
<1>1. FetchCredit(a) = [Called(a) EXCEPT !.data = Known(600), !.fallback = TRUE]
  BY DEF FetchCredit, Called, Outage
<1>2. FetchCredit(a).failure \in Outage /\ FetchCredit(a).fallback
  BY <1>1, ZenonT(60) DEF Called
<1> QED
  BY <1>2 DEF CreditOf

LEMMA BureauReport ==
  ASSUME NEW a, a.status = 200, a.body.present, a.body.known
  PROVE  /\ FetchCredit(a).failure = IF a.body.bad THEN "STALE_DATA" ELSE "NONE"
         /\ ~FetchCredit(a).fallback
         /\ FetchCredit(a).data = a.body
         /\ CreditOf(FetchCredit(a)) = a.body.value
<1>1. /\ Called(a).failure = "NONE" /\ Called(a).raw = a.body
      /\ Called(a).data = a.body /\ ~Called(a).fallback
  <2>1. Called(a).failure = "NONE" /\ Called(a).raw = a.body /\ Called(a).data = a.body
    BY DEF Called, Classify
  <2>2. Called(a).fallback <=> Classify(a.status) \in Outage
    BY DEF Called
  <2>3. Classify(a.status) = "NONE"
    BY DEF Classify
  <2> QED
    BY <2>1, <2>2, <2>3 DEF Outage
<1>2. /\ FetchCredit(a).failure = IF a.body.bad THEN "STALE_DATA" ELSE "NONE"
      /\ FetchCredit(a).data = a.body
  BY <1>1 DEF FetchCredit, Called, Classify, Outage
<1>3. ~FetchCredit(a).fallback
  BY <1>1 DEF FetchCredit, Called, Classify, Outage
<1> QED
  BY <1>2, <1>3 DEF CreditOf

(* The bureau is out of reach, or reports a score.                         *)
LEMMA BureauAnswers ==
  ASSUME answer \in Answer
  PROVE  \/ Classify(answer["credit"].status) \in Outage /\ answer["credit"].status # 200
         \/ /\ answer["credit"].status = 200 /\ answer["credit"].body.value \in Nat
            /\ answer["credit"].body.present /\ answer["credit"].body.known
<1> DEFINE a == answer["credit"]
<1>1. a \in Errors({408}) \cup {Ok(Known(v)) : v \in Score}
              \cup {Ok([Known(v) EXCEPT !.bad = TRUE]) : v \in Score}
  BY DEF Answer
<1>2. CASE a \in Errors({408})
  BY <1>2 DEF Errors, Classify, Outage
<1>3. CASE \E v \in Score : a = Ok(Known(v)) \/ a = Ok([Known(v) EXCEPT !.bad = TRUE])
  <2>1. PICK v \in Score : a = Ok(Known(v)) \/ a = Ok([Known(v) EXCEPT !.bad = TRUE])
    BY <1>3
  <2>2. v \in Nat
    BY InputsAssumption
  <2>3. ASSUME a = Ok(Known(v))
        PROVE  a.status = 200 /\ a.body.value = v /\ a.body.present /\ a.body.known
    BY <2>3 DEF Ok, Known
  <2>4. ASSUME a = Ok([Known(v) EXCEPT !.bad = TRUE])
        PROVE  a.status = 200 /\ a.body.value = v /\ a.body.present /\ a.body.known
    BY <2>4 DEF Ok, Known
  <2> QED
    BY <2>1, <2>2, <2>3, <2>4
<1> QED
  BY <1>1, <1>2, <1>3

(* The bank analyzer reports a stability, or fails and none is known.      *)
LEMMA BankAnswers ==
  ASSUME answer \in Answer
  PROVE  \/ /\ Analyze(answer["bank"]).failure = "NONE"
            /\ Analyze(answer["bank"]).data.known = TRUE
            /\ StabilityOf(Analyze(answer["bank"])) = Analyze(answer["bank"]).data.value
            /\ StabilityOf(Analyze(answer["bank"])) \in Nat
         \/ /\ Analyze(answer["bank"]).failure \in Outage \cup {"FORMAT_ERROR", "PARTIAL_DATA"}
            /\ StabilityOf(Analyze(answer["bank"])) = Unknown
<1> DEFINE a == answer["bank"]
<1>1. a \in Errors({400}) \cup {Ok(Known(v)) : v \in Stability} \cup {Ok(Bare)}
  BY DEF Answer
<1>2. CASE a \in Errors({400})
  BY <1>2 DEF Errors, Analyze, Called, Classify, Outage, StabilityOf, NoBody, Bare
<1>3. CASE \E v \in Stability : a = Ok(Known(v))
  <2>1. PICK v \in Stability : a = Ok(Known(v))
    BY <1>3
  <2>2. v \in Nat
    BY InputsAssumption
  <2> QED
    BY <2>1, <2>2 DEF Ok, Known, Analyze, Called, Classify, Outage, StabilityOf
<1>4. CASE a = Ok(Bare)
  BY <1>4 DEF Ok, Bare, Analyze, Called, Classify, Outage, StabilityOf
<1> QED
  BY <1>1, <1>2, <1>3, <1>4

LEMMA GstAnswers ==
  ASSUME answer \in Answer
  PROVE  /\ GstOf(Verify(answer["gst"])) \in {Unknown, 0, 1}
         /\ Verify(answer["gst"]).failure \in Failure \cup {"NONE"}
<1> DEFINE a == answer["gst"]
<1>1. a \in Errors({404}) \cup {Ok(Known(v)) : v \in {0, 1}} \cup {Ok([Bare EXCEPT !.bad = TRUE])}
  BY DEF Answer
<1>2. CASE a \in Errors({404})
  BY <1>2 DEF Errors, Verify, Called, Classify, Outage, GstOf, NoBody, Bare, Known, Failure
<1>3. CASE \E v \in {0, 1} : a = Ok(Known(v))
  BY <1>3 DEF Ok, Known, Verify, Called, Classify, Outage, GstOf, Failure
<1>4. CASE a = Ok([Bare EXCEPT !.bad = TRUE])
  BY <1>4 DEF Ok, Bare, Known, Verify, Called, Classify, Outage, GstOf, Failure
<1> QED
  BY <1>1, <1>2, <1>3, <1>4

(* The engine is only ever given applicants.                               *)
LEMMA LiveIsApplicant ==
  ASSUME HoldsEvidence
  PROVE  Features(Live, ratio) \in Applicants
<1> DEFINE a == answer["credit"]
           credit == FetchCredit(a)
           bank == Analyze(answer["bank"])
           gst == Verify(answer["gst"])
<1>1. answer \in Answer /\ ratio \in Int
  BY InputsAssumption DEF HoldsEvidence
<1>2. Live["credit"] = credit /\ Live["bank"] = bank /\ Live["gst"] = gst
  BY DEF Live, Fetched, Source
<1>3. CreditOf(credit) \in Int /\ credit.failure \in Failure \cup {"NONE"}
  <2>1. CASE Classify(a.status) \in Outage
    <3>1. credit.failure \in Outage /\ CreditOf(credit) = Unknown
      BY <2>1, BureauOutage
    <3> HIDE DEF credit
    <3> QED
      BY <3>1 DEF Outage, Failure, Unknown
  <2>2. CASE a.status = 200 /\ a.body.value \in Nat /\ a.body.present /\ a.body.known
    <3>1. /\ credit.failure = IF a.body.bad THEN "STALE_DATA" ELSE "NONE"
          /\ CreditOf(credit) = a.body.value
      BY <2>2, BureauReport
    <3> HIDE DEF credit
    <3> QED
      BY <2>2, <3>1 DEF Failure
  <2> QED
    BY <1>1, <2>1, <2>2, BureauAnswers
<1>4. StabilityOf(bank) \in Int /\ bank.failure \in Failure \cup {"NONE"}
  <2>1. \/ bank.failure = "NONE" /\ StabilityOf(bank) \in Nat
        \/ /\ bank.failure \in Outage \cup {"FORMAT_ERROR", "PARTIAL_DATA"}
           /\ StabilityOf(bank) = Unknown
    BY <1>1, BankAnswers
  <2> HIDE DEF bank
  <2> QED
    BY <2>1 DEF Outage, Failure, Unknown
<1>5. GstOf(gst) \in {Unknown, 0, 1} /\ gst.failure \in Failure \cup {"NONE"}
  BY <1>1, GstAnswers
<1> HIDE DEF credit, bank, gst
<1>6. (credit.fallback /\ credit.failure \in Outage) \in BOOLEAN
  OBVIOUS
<1> QED
  BY <1>1, <1>2, <1>3, <1>4, <1>5, <1>6 DEF Features, Applicants

(* GstVerifierService.verify and evaluate: an explicit mismatch, a missing *)
(* GST record or non-compliance is never approved, whatever the scores and *)
(* however often a worker died on the way.                                 *)
THEOREM GstGateHolds == Spec => []GstGate
<1> DEFINE g == answer["gst"]
           f == Features(Live, ratio)
<1>1. ASSUME EvidenceInv, output # Nothing,
             g.body.bad \/ g.status = 404 \/ g.body = Known(0)
      PROVE  output.decision # "APPROVE"
  <2>1. f \in Applicants
    BY <1>1, LiveIsApplicant DEF EvidenceInv
  <2>3. GstOf(Fetched("gst", g)) = 0
    <3>1. g \in Errors({404}) \cup {Ok(Known(v)) : v \in {0, 1}}
                \cup {Ok([Bare EXCEPT !.bad = TRUE])}
      BY <1>1 DEF EvidenceInv, HoldsEvidence, Answer
    <3>2. CASE g \in Errors({404})
      <4>1. g.status = 404
        BY <1>1, <3>2 DEF Errors, Bare, NoBody, Known
      <4>2. Called(g).failure = "NO_RECORD"
        BY <4>1 DEF Called, Classify
      <4>3. Fetched("gst", g) = [Called(g) EXCEPT !.data = Known(0), !.fallback = TRUE]
        BY <4>2 DEF Fetched, Verify
      <4>4. Fetched("gst", g).data = Known(0)
        BY <4>3 DEF Called
      <4> QED
        BY <4>4 DEF GstOf, Known
    <3>3. CASE g = Ok(Known(0)) \/ g = Ok([Bare EXCEPT !.bad = TRUE])
      BY <3>3 DEF GstOf, Fetched, Verify, Called, Classify, Known, Bare, Ok, Outage
    <3>4. g # Ok(Known(1))
      BY <1>1 DEF Ok, Known
    <3> QED
      BY <3>1, <3>2, <3>3, <3>4
  <2>4. f.gst = 0
    BY <2>3 DEF Features, Live, Source
  <2>5. RiskScore(f, RuleSetV1) \in Int
    BY <2>1, VersionOne, RiskBounds
  <2> HIDE DEF f
  <2>6. Evaluate(RiskScore(f, RuleSetV1), f, RuleSetV1) # "APPROVE"
    BY <2>4, <2>5, GateHolds DEF RuleSetV1
  <2>7. output = ComputeDecision(f, Threshold, RuleSetV1)
    BY <1>1 DEF EvidenceInv, RecoveredDecisionAgrees, Assess, f
  <2> QED
    BY <2>6, <2>7 DEF ComputeDecision
<1>2. EvidenceInv => GstGate
  BY <1>1 DEF GstGate
<1> QED
  BY <1>2, EvidenceInit, EvidenceStep, PTL DEF Spec

-----------------------------------------------------------------------------
(* Confidence and reliability. *)

LEMMA LiveIsInt ==
  ASSUME HoldsEvidence
  PROVE  LET risk == RiskScore(Features(Live, ratio), RuleSetV1)
         IN  risk \in Int /\ 0 <= risk /\ risk <= 10000
BY LiveIsApplicant, VersionOne, RiskBounds

LEMMA DecidedOnLive ==
  ASSUME EvidenceInv, output # Nothing
  PROVE  output = ComputeDecision(Features(Live, ratio), Threshold, RuleSetV1)
BY DEF EvidenceInv, RecoveredDecisionAgrees, Assess

(* compute_decision: above a threshold of 0.50 no review is a mere routing *)
(* by the rules, it is an override for its confidence as well.             *)
LEMMA ReviewIsOverride ==
  ASSUME EvidenceInv, output # Nothing, output.decision = "NEEDS_REVIEW", Threshold > 50
  PROVE  output.requiresManualReview
<1> DEFINE f == Features(Live, ratio)
           risk == RiskScore(f, RuleSetV1)
           decision == Evaluate(risk, f, RuleSetV1)
           confidence == Confidence(DataReliability(f), BoundaryFactor(risk, decision))
<1>1. /\ output.decision = IF confidence < Threshold THEN "NEEDS_REVIEW" ELSE decision
      /\ output.requiresManualReview = (confidence < Threshold)
  BY DecidedOnLive DEF ComputeDecision
<1>2. risk \in Int
  BY LiveIsInt DEF EvidenceInv
<1>3. DataReliability(f) \in 0..100
  BY ReliabilityBounds
<1>4. CASE confidence < Threshold
  BY <1>1, <1>4
<1>5. CASE ~(confidence < Threshold)
  <2>1. decision = "NEEDS_REVIEW"
    BY <1>1, <1>5
  <2>2. BoundaryFactor(risk, decision) = 50
    BY <2>1 DEF BoundaryFactor
  <2>3. confidence = Confidence(DataReliability(f), 50)
    BY <2>2
  <2>4. 50 \in 0..100
    OBVIOUS
  <2>5. confidence \in 0..100 /\ confidence <= 50
    BY <1>3, <2>3, <2>4, ConfidenceBounds, Zenon
  <2> HIDE DEF confidence
  <2> QED
    BY <1>5, <2>5, InputsAssumption
<1> QED
  BY <1>4, <1>5

(* _store_processing_results: with a threshold above 0.50 a review is      *)
(* always entered in the log as an override, whatever the evidence.        *)
THEOREM ReviewsAreOverrides == Spec => []EveryReviewIsOverridden
<1>1. EvidenceInv => EveryReviewIsOverridden
  BY ReviewIsOverride DEF EveryReviewIsOverridden
<1> QED
  BY <1>1, EvidenceInit, EvidenceStep, PTL DEF Spec

(* Two sources out of three. *)
LEMMA TwoOfThree ==
  ASSUME NEW S \in SUBSET Source, Cardinality(S) >= 2
  PROVE  \/ "credit" \in S /\ "bank" \in S
         \/ "credit" \in S /\ "gst" \in S
         \/ "bank" \in S /\ "gst" \in S
<1> SUFFICES ASSUME NEW x \in Source, S \subseteq {x}
             PROVE  FALSE
  BY DEF Source
<1>1. IsFiniteSet({x}) /\ Cardinality({x}) = 1
  BY FS_Singleton
<1>2. Cardinality(S) <= 1
  BY <1>1, FS_Subset
<1>3. Cardinality(S) \in Nat
  BY <1>1, FS_Subset, FS_CardinalityType
<1> QED
  BY <1>2, <1>3

LEMMA TwoOutages ==
  ASSUME NEW f, NEW S \in SUBSET Source, Cardinality(S) >= 2,
         "credit" \in S => f.creditFailure \in Outage \cup {"FORMAT_ERROR"},
         "bank" \in S => f.bankFailure \in Outage \cup {"FORMAT_ERROR"},
         "gst" \in S => f.gstFailure \in Outage \cup {"FORMAT_ERROR"}
  PROVE  DataReliability(f) <= 40
<1> DEFINE credit == ReliabilityPenalty(f.creditFailure)
           bank == ReliabilityPenalty(f.bankFailure)
           gst == ReliabilityPenalty(f.gstFailure)
<1>1. credit \in 0..30 /\ bank \in 0..30 /\ gst \in 0..30
  BY DEF ReliabilityPenalty
<1>2. /\ "credit" \in S => credit = 30
      /\ "bank" \in S => bank = 30
      /\ "gst" \in S => gst = 30
  BY DEF ReliabilityPenalty, Outage
<1> HIDE DEF credit, bank, gst
<1>3. credit + bank + gst >= 60
  BY <1>1, <1>2, TwoOfThree
<1> QED
  BY <1>1, <1>3 DEF DataReliability, Clamp, AtMost, AtLeast, credit, bank, gst

(* compute_data_reliability: with two services out of reach a human        *)
(* decides, for every score, ratio and threshold above 0.40.               *)
THEOREM MeltdownAlwaysReviewed ==
  ASSUME Threshold > 40
  PROVE  Spec => []MeltdownIsReviewed
<1> DEFINE f == Features(Live, ratio)
           S == {s \in Source : Live[s].failure \in Outage \cup {"FORMAT_ERROR"}}
<1>1. ASSUME EvidenceInv, output # Nothing, Cardinality(S) >= 2
      PROVE  output.decision = "NEEDS_REVIEW"
  <2>1. /\ f.creditFailure = Live["credit"].failure
        /\ f.bankFailure = Live["bank"].failure
        /\ f.gstFailure = Live["gst"].failure
    BY DEF Features
  <2>2. DataReliability(f) <= 40
    BY <1>1, <2>1, TwoOutages DEF Source
  <2>3. DataReliability(f) \in 0..100
    BY ReliabilityBounds
  <2> DEFINE risk == RiskScore(f, RuleSetV1)
             factor == BoundaryFactor(risk, Evaluate(risk, f, RuleSetV1))
  <2>4. factor \in 0..100
    BY <1>1, LiveIsInt, FactorBounds DEF EvidenceInv
  <2> HIDE DEF f, factor
  <2>5. /\ Confidence(DataReliability(f), factor) \in 0..100
        /\ Confidence(DataReliability(f), factor) <= DataReliability(f)
    BY <2>3, <2>4, ConfidenceBounds, Zenon
  <2>6. Confidence(DataReliability(f), factor) < Threshold
    BY <2>2, <2>3, <2>5, InputsAssumption
  <2>7. output = ComputeDecision(f, Threshold, RuleSetV1)
    BY <1>1, DecidedOnLive DEF f
  <2> QED
    BY <2>6, <2>7 DEF ComputeDecision, factor
<1>2. EvidenceInv => MeltdownIsReviewed
  BY <1>1 DEF MeltdownIsReviewed
<1> QED
  BY <1>2, EvidenceInit, EvidenceStep, PTL DEF Spec

-----------------------------------------------------------------------------
(* Types. *)

LEMMA AnswersAreBodies ==
  ASSUME answer \in Answer, NEW s \in Source
  PROVE  answer[s].body \in Body
<1>1. NoBody \in Body /\ Bare \in Body /\ [Bare EXCEPT !.bad = TRUE] \in Body
  BY DEF NoBody, Bare, Body
<1>2. \A v \in Nat : Known(v) \in Body /\ [Known(v) EXCEPT !.bad = TRUE] \in Body
  BY DEF Known, Body
<1>3. \A S : \A a \in Errors(S) : a.body \in Body
  BY <1>1 DEF Errors
<1>4. \A b : Ok(b).body = b
  BY DEF Ok
<1>5. Score \subseteq Nat /\ Stability \subseteq Nat /\ {0, 1} \subseteq Nat
  BY InputsAssumption
<1>6. \A v \in Nat : Ok(Known(v)).body \in Body /\ Ok([Known(v) EXCEPT !.bad = TRUE]).body \in Body
  BY <1>2, <1>4
<1>7. CASE s = "credit"
  <2>1. answer[s] \in Errors({408}) \cup {Ok(Known(v)) : v \in Score}
                       \cup {Ok([Known(v) EXCEPT !.bad = TRUE]) : v \in Score}
    BY <1>7 DEF Answer
  <2>2. CASE answer[s] \in Errors({408})
    BY <2>2, <1>3
  <2>3. CASE \E v \in Score : answer[s] = Ok(Known(v))
    BY <2>3, <1>5, <1>6
  <2>4. CASE \E v \in Score : answer[s] = Ok([Known(v) EXCEPT !.bad = TRUE])
    <3>1. PICK v \in Score : answer[s] = Ok([Known(v) EXCEPT !.bad = TRUE])
      BY <2>4
    <3>2. v \in Nat
      BY <1>5
    <3> QED
      BY <3>1, <3>2, <1>6
  <2> QED
    BY <2>1, <2>2, <2>3, <2>4
<1>8. CASE s = "bank"
  <2>1. answer[s] \in Errors({400}) \cup {Ok(Known(v)) : v \in Stability} \cup {Ok(Bare)}
    BY <1>8 DEF Answer
  <2>2. CASE answer[s] \in Errors({400})
    BY <2>2, <1>3
  <2>3. CASE \E v \in Stability : answer[s] = Ok(Known(v))
    BY <2>3, <1>5, <1>6
  <2>4. CASE answer[s] = Ok(Bare)
    BY <2>4, <1>1, <1>4
  <2> QED
    BY <2>1, <2>2, <2>3, <2>4
<1>9. CASE s = "gst"
  <2>1. answer[s] \in Errors({404}) \cup {Ok(Known(v)) : v \in {0, 1}}
                       \cup {Ok([Bare EXCEPT !.bad = TRUE])}
    BY <1>9 DEF Answer
  <2>2. CASE answer[s] \in Errors({404})
    BY <2>2, <1>3
  <2>3. CASE \E v \in {0, 1} : answer[s] = Ok(Known(v))
    BY <2>3, <1>5, <1>6
  <2>4. CASE answer[s] = Ok([Bare EXCEPT !.bad = TRUE])
    BY <2>4, <1>1, <1>4
  <2> QED
    BY <2>1, <2>2, <2>3, <2>4
<1> QED
  BY <1>7, <1>8, <1>9 DEF Source

LEMMA CalledTyped ==
  ASSUME NEW a, a.body \in Body
  PROVE  Called(a) \in ServiceResult
<1>1. Classify(a.status) \in Failure \cup {"NONE"}
  BY DEF Classify, Failure
<1>2. NoBody \in Body
  BY DEF NoBody, Body
<1>3. (Classify(a.status) \in Outage) \in BOOLEAN
  OBVIOUS
<1> QED
  BY <1>1, <1>2, <1>3 DEF Called, ServiceResult

LEMMA FetchedTyped ==
  ASSUME NEW a, a.body \in Body, NEW s \in Source
  PROVE  Fetched(s, a) \in ServiceResult
<1> DEFINE r == Called(a)
<1>1. r \in ServiceResult
  BY CalledTyped
<1>2. NoBody \in Body /\ Known(600) \in Body /\ Known(0) \in Body
  BY DEF NoBody, Known, Body
<1> HIDE DEF r
<1>3. /\ [r EXCEPT !.failure = "STALE_DATA", !.data = r.raw] \in ServiceResult
      /\ \A b \in Body : [r EXCEPT !.data = b, !.fallback = TRUE] \in ServiceResult
  BY <1>1 DEF ServiceResult, Failure
<1>4. /\ [r EXCEPT !.failure = "PARTIAL_DATA", !.data = r.raw, !.fallback = FALSE] \in ServiceResult
      /\ [r EXCEPT !.data = NoBody, !.fallback = TRUE] \in ServiceResult
  BY <1>1, <1>2 DEF ServiceResult, Failure
<1>5. /\ [r EXCEPT !.failure = "PAN_MISMATCH", !.data = Known(0), !.fallback = TRUE] \in ServiceResult
      /\ [r EXCEPT !.data = Known(0), !.fallback = TRUE] \in ServiceResult
  BY <1>1, <1>2 DEF ServiceResult, Failure
<1>6. FetchCredit(a) \in ServiceResult
  BY <1>1, <1>2, <1>3, ZenonT(60) DEF FetchCredit, r
<1>7. Analyze(a) \in ServiceResult
  BY <1>1, <1>4 DEF Analyze, r
<1>8. Verify(a) \in ServiceResult
  BY <1>1, <1>5 DEF Verify, r
<1> QED
  BY <1>6, <1>7, <1>8 DEF Fetched, Source

LEMMA RecoveredTyped ==
  ASSUME NEW a, a.body \in Body, NEW s \in Source
  PROVE  Recovered(s, a) \in ServiceResult
<1> DEFINE r == Fetched(s, a)
<1>1. r \in ServiceResult
  BY FetchedTyped
<1> HIDE DEF r
<1>2. StoredRow(r).failure \in Failure \cup {"NONE"} /\ StoredRow(r).response \in Body
  BY <1>1 DEF StoredRow, ServiceResult
<1>3. ASSUME NEW q, q.failure \in Failure \cup {"NONE"}, q.response \in Body
      PROVE  Reconstructed(q) \in ServiceResult
  BY <1>3 DEF Reconstructed, ServiceResult
<1> QED
  BY <1>2, <1>3 DEF Recovered, r

LogTyped ==
  log \subseteq [step : Source \cup Step, error : Failure \cup {"NONE", "PIPELINE_TIMEOUT"},
                 fallback : BOOLEAN]

ResultTyped == result \in [Source -> ServiceResult \cup {Nothing}]

TypeInv == EvidenceInv /\ LogTyped /\ ResultTyped /\ crashes \in 0..MaxCrashes

LEMMA OutputTyped ==
  ASSUME EvidenceInv, output # Nothing
  PROVE  /\ output.decision \in {"APPROVE", "DECLINE", "NEEDS_REVIEW"}
         /\ output.confidence \in 0..100
         /\ output.risk \in RiskPoints
<1> DEFINE f == Features(Live, ratio)
           risk == RiskScore(f, RuleSetV1)
           factor == BoundaryFactor(risk, Evaluate(risk, f, RuleSetV1))
<1>1. risk \in Int /\ 0 <= risk /\ risk <= 10000
  BY LiveIsInt DEF EvidenceInv
<1>2. factor \in 0..100
  BY <1>1, FactorBounds
<1>3. DataReliability(f) \in 0..100
  BY ReliabilityBounds
<1>4. Evaluate(risk, f, RuleSetV1) \in {"APPROVE", "DECLINE", "NEEDS_REVIEW"}
  BY DEF Evaluate
<1>5. output = ComputeDecision(f, Threshold, RuleSetV1)
  BY DecidedOnLive
<1> HIDE DEF f, factor
<1>6. Confidence(DataReliability(f), factor) \in 0..100
  BY <1>2, <1>3, ConfidenceBounds, Zenon
<1>7. /\ output.risk = risk
      /\ output.confidence = Confidence(DataReliability(f), factor)
      /\ output.decision \in {"NEEDS_REVIEW", Evaluate(risk, f, RuleSetV1)}
  BY <1>5 DEF ComputeDecision, factor
<1> HIDE DEF risk
<1>8. output.risk \in RiskPoints
  BY <1>1, <1>7, SMTT(30) DEF RiskPoints
<1> QED
  BY <1>4, <1>6, <1>7, <1>8

LEMMA EntriesTyped ==
  ASSUME NEW r \in ServiceResult, NEW s \in Source
  PROVE  FetchEntry(s, r) \in [step : Source \cup Step, error : Failure \cup {"NONE", "PIPELINE_TIMEOUT"},
                                fallback : BOOLEAN]
BY DEF FetchEntry, Entry, ServiceResult

LEMMA TypeStep ==
  ASSUME TypeInv, [Next]_vars
  PROVE  TypeInv'
<1> USE DEF TypeInv
<1>1. EvidenceInv'
  BY EvidenceStep
<1>2. \A s \in Source : Fetched(s, answer[s]) \in ServiceResult /\ Recovered(s, answer[s]) \in ServiceResult
  BY AnswersAreBodies, FetchedTyped, RecoveredTyped DEF EvidenceInv, HoldsEvidence
<1>3. ASSUME NEW s \in Source, NEW retries, FetchAndStore(s, retries)
      PROVE  LogTyped' /\ ResultTyped' /\ crashes' = crashes
  <2>1. /\ log' = log \cup {FetchEntry(s, Fetched(s, answer[s]))} /\ crashes' = crashes
        /\ result' = [result EXCEPT ![s] = Fetched(s, answer[s])]
    BY <1>3 DEF FetchAndStore
  <2>2. LogTyped'
    BY <1>2, <2>1, EntriesTyped DEF LogTyped
  <2>3. ResultTyped'
    BY <1>2, <2>1 DEF ResultTyped
  <2> QED
    BY <2>1, <2>2, <2>3
<1>4. ASSUME NEW s \in Source, Reuse(s)
      PROVE  LogTyped' /\ ResultTyped' /\ crashes' = crashes
  <2>1. Reconstructed(row[s]) = Recovered(s, answer[s])
    BY <1>4 DEF Reuse, EvidenceInv, HoldsEvidence, Recovered
  <2>2. result' = [result EXCEPT ![s] = Recovered(s, answer[s])]
    BY <1>4, <2>1 DEF Reuse
  <2>3. ResultTyped'
    BY <1>2, <2>2 DEF ResultTyped
  <2> QED
    BY <1>4, <2>3 DEF Reuse, LogTyped
<1>5. CASE Decide
  <2>1. /\ log' = log \cup DecisionEntries(Assess(result, ratio))
        /\ crashes' = crashes /\ result' = result
    BY <1>5 DEF Decide
  <2>2. Assess(result, ratio).requiresManualReview \in BOOLEAN
    BY DEF Assess, ComputeDecision
  <2>3. ASSUME NEW o, o.requiresManualReview \in BOOLEAN, NEW e \in DecisionEntries(o)
        PROVE  e \in [step : Source \cup Step, error : Failure \cup {"NONE", "PIPELINE_TIMEOUT"},
                      fallback : BOOLEAN]
    <3>1. CASE e = Entry("DECISION_CALCULATION", "NONE", FALSE)
      BY <3>1 DEF Entry, Step
    <3>2. CASE e = Entry("MANUAL_REVIEW_OVERRIDE", "NONE", TRUE)
      BY <3>2 DEF Entry, Step
    <3>3. CASE e = Entry("MANUAL_REVIEW_ROUTING", "NONE", FALSE)
      BY <3>3 DEF Entry, Step
    <3> QED
      BY <2>3, <3>1, <3>2, <3>3, Zenon DEF DecisionEntries
  <2>4. LogTyped'
    BY <2>1, <2>2, <2>3 DEF LogTyped
  <2> QED
    BY <1>1, <2>1, <2>4 DEF ResultTyped
<1>6. CASE TaskTimesOut
  <2>1. TimeoutEntry \in [step : Source \cup Step, error : Failure \cup {"NONE", "PIPELINE_TIMEOUT"},
                          fallback : BOOLEAN]
    BY DEF TimeoutEntry, Entry, Step
  <2>2. log' = log \cup {TimeoutEntry} /\ crashes' = crashes /\ result' = result
    BY <1>6 DEF TaskTimesOut
  <2>3. LogTyped'
    BY <2>1, <2>2 DEF LogTyped
  <2> QED
    BY <1>1, <2>2, <2>3 DEF ResultTyped
<1>7. CASE WorkerDies
  <2>1. crashes' \in 0..MaxCrashes
    BY <1>7, InputsAssumption DEF WorkerDies
  <2>2. LogTyped' /\ ResultTyped'
    BY <1>7 DEF WorkerDies, LogTyped, ResultTyped
  <2> QED
    BY <1>1, <2>1, <2>2
<1>8. CASE UNCHANGED vars
  BY <1>8, <1>1 DEF vars, LogTyped, ResultTyped
<1> QED
  BY <1>1, <1>3, <1>4, <1>5, <1>6, <1>7, <1>8 DEF Next, Finished

(* compute_decision, audit log and services: whatever the services answer, *)
(* every result, entry, confidence and risk score stays in its range.      *)
THEOREM EvidenceTypes == Spec => []TypeOK
<1>1. Init => TypeInv
  BY EvidenceInit, InputsAssumption DEF Init, TypeInv, LogTyped, ResultTyped
<1>2. ASSUME TypeInv PROVE TypeOK
  <2>1. output # Nothing => /\ output.decision \in {"APPROVE", "DECLINE", "NEEDS_REVIEW"}
                            /\ output.confidence \in 0..100
                            /\ output.risk \in RiskPoints
    BY <1>2, OutputTyped, Zenon DEF TypeInv
  <2> QED
    BY <1>2, <2>1, Zenon DEF TypeInv, TypeOK, LogTyped, ResultTyped
<1> QED
  BY <1>1, <1>2, TypeStep, PTL DEF Spec

-----------------------------------------------------------------------------
(* The explanation. *)

LEMMA SuccessIsNoFallback ==
  ASSUME NEW a, a.body \in Body, NEW s \in Source, Fetched(s, a).failure = "NONE"
  PROVE  ~Fetched(s, a).fallback
<1> DEFINE r == Called(a)
<1>1. r.failure = Classify(a.status) /\ (r.fallback <=> Classify(a.status) \in Outage)
  BY DEF Called
<1>2. r \in ServiceResult
  BY CalledTyped
<1>3. r.failure = "NONE" => ~r.fallback
  BY <1>1 DEF Outage
<1> HIDE DEF r
<1>4. r.failure \in Outage => r.failure # "NONE"
  BY DEF Outage
<1>5. /\ [r EXCEPT !.failure = "STALE_DATA", !.data = r.raw].failure # "NONE"
      /\ [r EXCEPT !.data = Known(600), !.fallback = TRUE].failure = r.failure
  BY <1>2 DEF ServiceResult
<1>6. CASE s = "credit"
  <2>1. Fetched(s, a) = FetchCredit(a)
    BY <1>6 DEF Fetched
  <2>2. Fetched(s, a) = r
    BY <1>4, <1>5, <2>1 DEF FetchCredit, r
  <2> QED
    BY <1>3, <2>2
<1>7. CASE s = "bank"
  BY <1>2, <1>3, <1>7 DEF Fetched, Analyze, ServiceResult, r
<1>8. CASE s = "gst"
  BY <1>2, <1>3, <1>8 DEF Fetched, Verify, ServiceResult, r
<1> QED
  BY <1>6, <1>7, <1>8 DEF Source

(* The log has one entry for each stored row, written by whoever fetched   *)
(* it, and a decision has all the rows.                                    *)
LogMatchesRows ==
  /\ \A e \in log : e.step \in Source =>
       row[e.step] # Nothing /\ e = FetchEntry(e.step, Live[e.step])
  /\ \A s \in Source : row[s] # Nothing => FetchEntry(s, Live[s]) \in log
  /\ \A s \in Source : result[s] # Nothing => row[s] # Nothing
  /\ output # Nothing => ~TimedOut /\ \A s \in Source : row[s] # Nothing

LogInv == EvidenceInv /\ LogMatchesRows

LEMMA LogStep ==
  ASSUME LogInv, [Next]_vars
  PROVE  LogInv'
<1> USE DEF LogInv
<1>1. EvidenceInv'
  BY EvidenceStep
<1>2. answer' = answer /\ Live' = Live
  BY DEF Next, vars, FetchAndStore, Reuse, Decide, TaskTimesOut, WorkerDies, Finished, Live
<1>3. /\ \A s \in Source : Nothing # StoredRow(Fetched(s, answer[s]))
      /\ \A s \in Source : Live[s] = Fetched(s, answer[s])
  BY DEF Nothing, StoredRow, Live
<1>4. ASSUME NEW s \in Source, NEW retries, FetchAndStore(s, retries)
      PROVE  LogMatchesRows'
  <2> DEFINE entry == FetchEntry(s, Live[s])
  <2>1. /\ row' = [row EXCEPT ![s] = StoredRow(Fetched(s, answer[s]))]
        /\ result' = [result EXCEPT ![s] = Fetched(s, answer[s])]
        /\ log' = log \cup {entry}
        /\ output' = Nothing
    BY <1>3, <1>4 DEF FetchAndStore, Running
  <2>2. DOMAIN row = Source /\ DOMAIN result = Source
    BY DEF EvidenceInv, HoldsEvidence
  <2>3. entry.step = s
    BY DEF FetchEntry, Entry
  <2>4. \A t \in Source : row'[t] # Nothing <=> row[t] # Nothing \/ t = s
    BY <1>3, <2>1, <2>2
  <2>5. \A t \in Source : result'[t] # Nothing => result[t] # Nothing \/ t = s
    BY <2>1, <2>2
  <2> HIDE DEF entry
  <2>6. \A e \in log' : e.step \in Source =>
          row'[e.step] # Nothing /\ e = FetchEntry(e.step, Live[e.step])
    BY <2>1, <2>3, <2>4 DEF LogMatchesRows, entry
  <2>7. \A t \in Source : row'[t] # Nothing => FetchEntry(t, Live[t]) \in log'
    BY <2>1, <2>4 DEF LogMatchesRows, entry
  <2>8. \A t \in Source : result'[t] # Nothing => row'[t] # Nothing
    BY <2>4, <2>5 DEF LogMatchesRows
  <2> QED
    BY <1>2, <2>1, <2>6, <2>7, <2>8 DEF LogMatchesRows
<1>5. ASSUME NEW s \in Source, Reuse(s)
      PROVE  LogMatchesRows'
  <2>1. /\ row' = row /\ log' = log /\ output' = Nothing
        /\ result' = [result EXCEPT ![s] = Reconstructed(row[s])]
        /\ row[s] # Nothing
    BY <1>5 DEF Reuse, Running
  <2>2. \A t \in Source : result'[t] # Nothing => row'[t] # Nothing
    BY <2>1 DEF LogMatchesRows, EvidenceInv, HoldsEvidence
  <2> QED
    BY <1>2, <2>1, <2>2 DEF LogMatchesRows
<1>6. CASE Decide
  <2> DEFINE new == DecisionEntries(Assess(result, ratio))
  <2>1. /\ row' = row /\ result' = result /\ log' = log \cup new
        /\ ~TimedOut /\ \A s \in Source : result[s] # Nothing
    BY <1>6 DEF Decide, Running
  <2>2. \A e \in new : e.step \notin Source /\ e # TimeoutEntry
    BY DEF DecisionEntries, Entry, TimeoutEntry, Source
  <2> HIDE DEF new
  <2>3. ~TimedOut'
    BY <2>1, <2>2 DEF TimedOut
  <2>4. \A e \in log' : e.step \in Source =>
          row'[e.step] # Nothing /\ e = FetchEntry(e.step, Live[e.step])
    BY <2>1, <2>2 DEF LogMatchesRows
  <2>5. \A s \in Source : row'[s] # Nothing => FetchEntry(s, Live[s]) \in log'
    BY <2>1 DEF LogMatchesRows
  <2>6. \A s \in Source : (result'[s] # Nothing => row'[s] # Nothing) /\ row'[s] # Nothing
    BY <2>1 DEF LogMatchesRows
  <2>7. LogMatchesRows'
    BY <1>2, <2>3, <2>4, <2>5, <2>6 DEF LogMatchesRows
  <2> QED
    BY <1>1, <2>7
<1>7. CASE TaskTimesOut
  <2>1. /\ row' = row /\ result' = result /\ output' = Nothing
        /\ log' = log \cup {TimeoutEntry}
    BY <1>7 DEF TaskTimesOut, Running
  <2>2. TimeoutEntry.step \notin Source
    BY DEF TimeoutEntry, Entry, Source
  <2>3. \A e \in log' : e.step \in Source =>
          row'[e.step] # Nothing /\ e = FetchEntry(e.step, Live[e.step])
    BY <2>1, <2>2 DEF LogMatchesRows
  <2>4. \A s \in Source : row'[s] # Nothing => FetchEntry(s, Live[s]) \in log'
    BY <2>1 DEF LogMatchesRows
  <2>5. LogMatchesRows'
    BY <1>2, <2>1, <2>3, <2>4 DEF LogMatchesRows
  <2> QED
    BY <1>1, <2>5
<1>8. CASE WorkerDies
  <2>1. /\ row' = row /\ log' = log /\ output' = Nothing
        /\ \A s \in Source : result'[s] = Nothing
    BY <1>8 DEF WorkerDies, Running
  <2> QED
    BY <1>1, <1>2, <2>1 DEF LogMatchesRows
<1>9. CASE UNCHANGED vars
  BY <1>1, <1>2, <1>9 DEF vars, LogMatchesRows, TimedOut
<1> QED
  BY <1>1, <1>4, <1>5, <1>6, <1>7, <1>8, <1>9 DEF Next, Finished

LEMMA CausesOfSources ==
  ASSUME LogInv
  PROVE  {c \in Causes(log) : c.step \in Source} =
           {[step |-> s, status |-> Live[s].failure] :
              s \in {t \in Source : row[t] # Nothing /\ Live[t].failure # "NONE"}}
<1>1. \A s \in Source : Live[s].failure = "NONE" => ~Live[s].fallback
  BY AnswersAreBodies, SuccessIsNoFallback DEF Live, LogInv, EvidenceInv, HoldsEvidence
<1>2. \A s \in Source : /\ FetchEntry(s, Live[s]).step = s
                        /\ FetchEntry(s, Live[s]).error = Live[s].failure
                        /\ FetchEntry(s, Live[s]).fallback = Live[s].fallback
  BY DEF FetchEntry, Entry
<1>3. ASSUME NEW c \in Causes(log), c.step \in Source
      PROVE  \E s \in Source : /\ row[s] # Nothing /\ Live[s].failure # "NONE"
                              /\ c = [step |-> s, status |-> Live[s].failure]
  <2>1. PICK e \in Degraded(log) :
          c = [step |-> e.step, status |-> IF e.error # "NONE" THEN e.error ELSE "fallback"]
    BY <1>3 DEF Causes
  <2>2. e \in log /\ (e.error # "NONE" \/ e.fallback) /\ e.step \in Source
    BY <1>3, <2>1 DEF Degraded
  <2>3. row[e.step] # Nothing /\ e = FetchEntry(e.step, Live[e.step])
    BY <2>2 DEF LogInv, LogMatchesRows
  <2>4. e.error = Live[e.step].failure /\ e.fallback = Live[e.step].fallback
    BY <1>2, <2>2, <2>3
  <2>5. Live[e.step].failure # "NONE"
    BY <1>1, <2>2, <2>4
  <2> QED
    BY <2>1, <2>2, <2>3, <2>4, <2>5
<1>4. ASSUME NEW s \in Source, row[s] # Nothing, Live[s].failure # "NONE"
      PROVE  [step |-> s, status |-> Live[s].failure] \in Causes(log)
  <2> DEFINE e == FetchEntry(s, Live[s])
  <2>1. e \in log /\ e.step = s /\ e.error = Live[s].failure
    BY <1>2, <1>4 DEF LogInv, LogMatchesRows
  <2>2. e \in Degraded(log)
    BY <1>4, <2>1 DEF Degraded
  <2> HIDE DEF e
  <2>3. [step |-> e.step, status |-> IF e.error # "NONE" THEN e.error ELSE "fallback"] \in Causes(log)
    BY <2>2 DEF Causes
  <2> QED
    BY <1>4, <2>1, <2>3
<1>5. \A s : [step |-> s, status |-> Live[s].failure].step = s
  OBVIOUS
<1> QED
  BY <1>3, <1>4, <1>5

LEMMA VerifiedIsVerified ==
  ASSUME LogInv, ~Running, Threshold > 50, Explained.kind = "verified"
  PROVE  ~TimedOut /\ output.decision # "NEEDS_REVIEW" /\ \A s \in Source : Live[s].failure = "NONE"
<1>1. Degraded(log) = {}
  BY DEF Explained, Summary
<1>2. ~TimedOut
  BY <1>1 DEF TimedOut, TimeoutEntry, Entry, Degraded
<1>3. output # Nothing
  BY <1>2 DEF Running
<1>4. ~(output.decision = "NEEDS_REVIEW" /\ output.requiresManualReview)
  BY <1>2 DEF Explained, Summary
<1>5. output.decision # "NEEDS_REVIEW"
  BY <1>3, <1>4, ReviewIsOverride DEF LogInv
<1>6. ASSUME NEW s \in Source PROVE Live[s].failure = "NONE"
  <2>1. FetchEntry(s, Live[s]) \in log
    BY <1>3 DEF LogInv, LogMatchesRows
  <2>2. FetchEntry(s, Live[s]).error = "NONE"
    BY <1>1, <2>1 DEF Degraded
  <2> QED
    BY <2>2 DEF FetchEntry, Entry
<1> QED
  BY <1>2, <1>5, <1>6

(* build_explanation: with a threshold above 0.50, and whatever fails, the *)
(* explanation names the sources that failed and those only, and calls the *)
(* evidence verified only when it is.                                      *)
THEOREM ExplanationIsHonest ==
  ASSUME Threshold > 50
  PROVE  Spec => []ExplanationNamesEveryFailure
<1>1. Init => LogInv
  BY EvidenceInit DEF Init, LogInv, LogMatchesRows
<1>2. ASSUME LogInv PROVE ExplanationNamesEveryFailure
  <2>1. Explained.causes = Causes(log)
    BY DEF Explained, Summary
  <2> QED
    BY <1>2, <2>1, CausesOfSources, VerifiedIsVerified DEF ExplanationNamesEveryFailure
<1> QED
  BY <1>1, <1>2, LogStep, PTL DEF Spec

-----------------------------------------------------------------------------
(* What more, or better, data would have changed. *)

LEMMA BankReport ==
  ASSUME NEW b
  PROVE  Analyze(Ok(Known(b))).failure = "NONE" /\ StabilityOf(Analyze(Ok(Known(b)))) = b
BY DEF Analyze, Ok, Known, Called, Classify, Outage, StabilityOf

LEMMA BureauReportOf ==
  ASSUME NEW c
  PROVE  /\ FetchCredit(Ok(Known(c))).failure = "NONE"
         /\ ~FetchCredit(Ok(Known(c))).fallback
         /\ CreditOf(FetchCredit(Ok(Known(c)))) = c
<1>1. /\ Ok(Known(c)).status = 200 /\ Ok(Known(c)).body.present /\ Ok(Known(c)).body.known
      /\ ~Ok(Known(c)).body.bad /\ Ok(Known(c)).body.value = c
  BY DEF Ok, Known
<1> QED
  BY <1>1, BureauReport

LEMMA FullDataCompletes ==
  ASSUME HoldsEvidence, NEW c \in Score, NEW b \in Stability,
         Agrees("credit", c), Agrees("bank", b)
  PROVE  /\ Features(WithFullData(c, b), ratio) \in Applicants
         /\ CompletedBy(Features(Live, ratio), Features(WithFullData(c, b), ratio))
<1> DEFINE a == answer["credit"]
           f == Features(Live, ratio)
           h == Features(WithFullData(c, b), ratio)
<1>1. answer \in Answer /\ f \in Applicants
  BY LiveIsApplicant DEF HoldsEvidence
<1>2. /\ Live["credit"] = FetchCredit(a) /\ Live["bank"] = Analyze(answer["bank"])
      /\ DOMAIN Live = Source
  BY DEF Live, Fetched, Source
<1>3. /\ WithFullData(c, b)["credit"] = FetchCredit(Ok(Known(c)))
      /\ WithFullData(c, b)["bank"] = Analyze(Ok(Known(b)))
      /\ WithFullData(c, b)["gst"] = Live["gst"]
  BY <1>2 DEF WithFullData, Source
<1>4. /\ h.credit = c /\ h.stability = b /\ h.gst = f.gst /\ h.dti = f.dti
      /\ h.creditFailure = "NONE" /\ h.bankFailure = "NONE" /\ h.gstFailure = f.gstFailure
      /\ h.fallback = FALSE
  BY <1>3, BankReport, BureauReportOf DEF Features
<1>5. h = [credit |-> c, stability |-> b, gst |-> f.gst, dti |-> f.dti,
           creditFailure |-> "NONE", bankFailure |-> "NONE", gstFailure |-> f.gstFailure,
           fallback |-> FALSE]
  BY <1>4 DEF Features
<1>6. /\ f.creditFailure = Live["credit"].failure /\ f.credit = CreditOf(Live["credit"])
      /\ f.fallback <=> Live["credit"].fallback /\ Live["credit"].failure \in Outage
      /\ f.bankFailure = Live["bank"].failure /\ f.stability = StabilityOf(Live["bank"])
  BY DEF Features
<1> HIDE DEF f, h
<1>7. h \in Applicants
  <2>1. c \in Int /\ b \in Int
    BY InputsAssumption
  <2>2. f.gst \in {Unknown, 0, 1} /\ f.dti \in Int /\ f.gstFailure \in Failure \cup {"NONE"}
    BY <1>1 DEF Applicants
  <2> QED
    BY <1>5, <2>1, <2>2 DEF Applicants
<1>8. BureauMissing(f) \/ BureauKnown(f, h)
  <2>1. CASE Classify(a.status) \in Outage
    <3>1. BureauMissing(f)
      BY <1>2, <1>6, <2>1, BureauOutage DEF BureauMissing
    <3> QED
      BY <3>1
  <2>2. CASE a.status = 200 /\ a.body.present /\ a.body.known
    <3>1. /\ Live["credit"].failure \in {"NONE", "STALE_DATA"} /\ ~Live["credit"].fallback
          /\ Live["credit"].data = a.body /\ CreditOf(Live["credit"]) = a.body.value
      BY <1>2, <2>2, BureauReport
    <3>2. a.body.value = c
      BY <2>2, <3>1 DEF Agrees, Outage
    <3>3. BureauKnown(f, h)
      BY <1>4, <1>6, <3>1, <3>2 DEF BureauKnown
    <3> QED
      BY <3>3
  <2> QED
    BY <1>1, <2>1, <2>2, BureauAnswers
<1>9. BankMissing(f) \/ BankKnown(f, h)
  <2>1. CASE /\ Live["bank"].failure = "NONE" /\ Live["bank"].data.known = TRUE
             /\ StabilityOf(Live["bank"]) = Live["bank"].data.value
    <3>1. Live["bank"].data.value = b
      BY <2>1 DEF Agrees, Outage
    <3>2. BankKnown(f, h)
      BY <1>4, <1>6, <2>1, <3>1 DEF BankKnown
    <3> QED
      BY <3>2
  <2>2. CASE /\ Live["bank"].failure \in Outage \cup {"FORMAT_ERROR", "PARTIAL_DATA"}
             /\ StabilityOf(Live["bank"]) = Unknown
    BY <1>6, <2>2 DEF BankMissing
  <2> QED
    BY <1>1, <1>2, <2>1, <2>2, BankAnswers
<1>10. CompletedBy(f, h)
  BY <1>4, <1>8, <1>9 DEF CompletedBy
<1> QED
  BY <1>7, <1>10 DEF f, h

(* The extractors and compute_decision: for every threshold from 0.57 to   *)
(* 0.70, the default 0.60 among them, whatever fails and whichever worker  *)
(* decides, no one is approved on the defaults for missing credit and bank *)
(* data whom the full data would not approve.                              *)
THEOREM DefaultsHold ==
  ASSUME Threshold \in 57..70
  PROVE  Spec => []DefaultsNeverApprove
<1>1. ASSUME EvidenceInv, output # Nothing, output.decision = "APPROVE",
             NEW c \in Score, NEW b \in Stability, Agrees("credit", c), Agrees("bank", b)
      PROVE  Assess(WithFullData(c, b), ratio).decision = "APPROVE"
  <2> DEFINE f == Features(Live, ratio)
             h == Features(WithFullData(c, b), ratio)
  <2>1. f \in Applicants /\ h \in Applicants /\ CompletedBy(f, h)
    BY <1>1, LiveIsApplicant, FullDataCompletes DEF EvidenceInv
  <2>2. ComputeDecision(f, Threshold, RuleSetV1).decision = "APPROVE"
    BY <1>1, DecidedOnLive
  <2>3. Assess(WithFullData(c, b), ratio) = ComputeDecision(h, Threshold, RuleSetV1)
    BY DEF Assess
  <2> HIDE DEF f, h
  <2> QED
    BY <2>1, <2>2, <2>3, DefaultsAreConservative
<1>2. EvidenceInv => DefaultsNeverApprove
  BY <1>1 DEF DefaultsNeverApprove
<1> QED
  BY <1>2, EvidenceInit, EvidenceStep, PTL DEF Spec

LEMMA RaisedCredit ==
  ASSUME HoldsEvidence, answer["credit"].status = 200,
         NEW c \in Score, c > answer["credit"].body.value
  PROVE  LET raised == [Live EXCEPT !["credit"] =
                          FetchCredit([answer["credit"] EXCEPT !.body.value = c])]
         IN  /\ Features(raised, ratio) \in Applicants
             /\ SameFailures(Features(Live, ratio), Features(raised, ratio))
             /\ AsGood(Features(Live, ratio), Features(raised, ratio))
<1> DEFINE a == answer["credit"]
           a2 == [a EXCEPT !.body.value = c]
           raised == [Live EXCEPT !["credit"] = FetchCredit(a2)]
           f == Features(Live, ratio)
           g == Features(raised, ratio)
<1>1. answer \in Answer /\ f \in Applicants
  BY LiveIsApplicant DEF HoldsEvidence
<1>2. PICK v \in Score : a = Ok(Known(v)) \/ a = Ok([Known(v) EXCEPT !.bad = TRUE])
  <2>1. a \in Errors({408}) \cup {Ok(Known(v)) : v \in Score}
                \cup {Ok([Known(v) EXCEPT !.bad = TRUE]) : v \in Score}
    BY <1>1 DEF Answer
  <2>2. a \notin Errors({408})
    BY DEF Errors
  <2> QED
    BY <2>1, <2>2
<1>3. PICK b, bad : /\ a = [status |-> 200, body |-> b]
                    /\ b = [present |-> TRUE, known |-> TRUE, value |-> v, bad |-> bad]
  <2>1. CASE a = Ok(Known(v))
    BY <2>1 DEF Ok, Known
  <2>2. CASE a = Ok([Known(v) EXCEPT !.bad = TRUE])
    BY <2>2 DEF Ok, Known
  <2> QED
    BY <1>2, <2>1, <2>2
<1>4. a2.status = 200 /\ a2.body = [b EXCEPT !.value = c]
  BY <1>3
<1>5. /\ a.body.present /\ a.body.known /\ a.body.value = v /\ a.body.bad = bad
      /\ a2.status = 200 /\ a2.body.present /\ a2.body.known
      /\ a2.body.value = c /\ a2.body.bad = bad
  BY <1>3, <1>4
<1>6. c \in Nat /\ v \in Nat /\ v < c
  BY <1>5, InputsAssumption
<1> HIDE DEF a, a2
<1>7. /\ FetchCredit(a).failure = FetchCredit(a2).failure
      /\ ~FetchCredit(a).fallback /\ ~FetchCredit(a2).fallback
      /\ CreditOf(FetchCredit(a)) = v /\ CreditOf(FetchCredit(a2)) = c
  BY <1>5, BureauReport DEF a
<1>8. /\ Live["credit"] = FetchCredit(a) /\ raised["credit"] = FetchCredit(a2)
      /\ raised["bank"] = Live["bank"] /\ raised["gst"] = Live["gst"]
  BY DEF Live, Fetched, Source, a
<1> HIDE DEF raised
<1>9. /\ f.credit = v /\ g.credit = c /\ g.stability = f.stability /\ g.gst = f.gst
      /\ g.dti = f.dti /\ g.creditFailure = f.creditFailure
      /\ g.bankFailure = f.bankFailure /\ g.gstFailure = f.gstFailure
      /\ f.fallback = FALSE /\ g.fallback = FALSE
  BY <1>7, <1>8 DEF Features
<1>10. g = [credit |-> c, stability |-> f.stability, gst |-> f.gst, dti |-> f.dti,
            creditFailure |-> f.creditFailure, bankFailure |-> f.bankFailure,
            gstFailure |-> f.gstFailure, fallback |-> FALSE]
  BY <1>9 DEF Features
<1> HIDE DEF f, g
<1>11. g \in Applicants
  BY <1>1, <1>6, <1>10 DEF Applicants
<1>12. SameFailures(f, g)
  BY <1>9 DEF SameFailures
<1>13. ImputedCredit(f) <= ImputedCredit(g) /\ ImputedStability(f) = ImputedStability(g)
  BY <1>6, <1>9 DEF ImputedCredit, ImputedStability, Clamp, AtMost, AtLeast, Unknown
<1>14. f.dti \in Int /\ ImputedStability(f) \in Int
  BY <1>1, ImputedBounds DEF Applicants
<1>15. AsGood(f, g)
  BY <1>9, <1>13, <1>14 DEF AsGood
<1> QED
  BY <1>11, <1>12, <1>15 DEF f, g, raised, a2, a

(* compute_decision: for every threshold, whatever the other sources say,  *)
(* a higher reported credit score never leads to a worse decision.         *)
THEOREM BetterCreditHolds == Spec => []BetterCreditNeverHurts
<1>1. ASSUME EvidenceInv, output # Nothing, answer["credit"].status = 200,
             NEW c \in Score, c > answer["credit"].body.value
      PROVE  Rank(Assess([Live EXCEPT !["credit"] =
                            FetchCredit([answer["credit"] EXCEPT !.body.value = c])], ratio).decision)
               >= Rank(output.decision)
  <2> DEFINE raised == [Live EXCEPT !["credit"] =
                          FetchCredit([answer["credit"] EXCEPT !.body.value = c])]
             f == Features(Live, ratio)
             g == Features(raised, ratio)
             before == ComputeDecision(f, Threshold, RuleSetV1).decision
             after == ComputeDecision(g, Threshold, RuleSetV1).decision
  <2>1. output.decision = before /\ Assess(raised, ratio).decision = after
    BY <1>1, DecidedOnLive DEF Assess
  <2>2. f \in Applicants
    BY <1>1, LiveIsApplicant DEF EvidenceInv
  <2>3. g \in Applicants /\ SameFailures(f, g) /\ AsGood(f, g)
    BY <1>1, RaisedCredit DEF EvidenceInv
  <2> HIDE DEF f, g, raised
  <2>4. before \in {"APPROVE", "DECLINE", "NEEDS_REVIEW"}
        /\ after \in {"APPROVE", "DECLINE", "NEEDS_REVIEW"}
    BY DEF ComputeDecision, Evaluate
  <2>5. Threshold \in Int
    BY InputsAssumption
  <2>6. (before = "APPROVE" => after = "APPROVE") /\ (after = "DECLINE" => before = "DECLINE")
    BY <2>2, <2>3, <2>5, VersionOne, BetterApplicantsFareNoWorse
  <2> HIDE DEF before, after
  <2>7. Rank(after) >= Rank(before)
    BY <2>4, <2>6 DEF Rank
  <2> QED
    BY <2>1, <2>7 DEF raised
<1>2. EvidenceInv => BetterCreditNeverHurts
  BY <1>1 DEF BetterCreditNeverHurts
<1> QED
  BY <1>2, EvidenceInit, EvidenceStep, PTL DEF Spec

-----------------------------------------------------------------------------
(* The deadline. *)

LEMMA EveryCallInTime ==
  ASSUME (MaxRetries + 1) * CallSeconds + BackoffSeconds <= TaskSeconds, NEW s \in Source
  PROVE  InTime(s, MaxRetries)
<1> DEFINE waiting == (MaxRetries + 1) * CallSeconds
           wait == IF answer[s].status = 0 THEN waiting ELSE 0
           backoff == IF Classify(answer[s].status) \in Outage /\ MaxRetries > 0
                        THEN BackoffSeconds ELSE 0
<1>1. waiting \in Nat /\ BackoffSeconds \in Nat /\ TaskSeconds \in Nat
  BY InputsAssumption
<1>2. Duration(answer[s], MaxRetries) = wait + backoff
  BY DEF Duration
<1> HIDE DEF waiting
<1>3. wait \in Nat /\ wait <= waiting /\ backoff \in Nat /\ backoff <= BackoffSeconds
  BY <1>1
<1> HIDE DEF wait, backoff
<1>4. waiting + BackoffSeconds <= TaskSeconds
  BY DEF waiting
<1> QED
  BY <1>1, <1>2, <1>3, <1>4 DEF InTime

(* The README's scenario "Credit Bureau Timeout", which does not hold with *)
(* the durations of docker-compose.yml, holds with all those whose task    *)
(* timeout has room for every attempt of one call and the delays between.  *)
THEOREM RoomForRetriesSuffices ==
  ASSUME (MaxRetries + 1) * CallSeconds + BackoffSeconds <= TaskSeconds
  PROVE  Spec => []TimeoutFallsBack
<1>1. Init => ~TimedOut
  BY DEF Init, TimedOut
<1>2. ASSUME ~TimedOut, [Next]_vars PROVE ~TimedOut'
  <2>1. ~TaskTimesOut
    BY EveryCallInTime DEF TaskTimesOut
  <2>2. ASSUME NEW s \in Source, NEW retries, FetchAndStore(s, retries) PROVE ~TimedOut'
    <3>1. FetchEntry(s, Fetched(s, answer[s])) # TimeoutEntry
      BY DEF FetchEntry, TimeoutEntry, Entry, Source
    <3> QED
      BY <1>2, <2>2, <3>1 DEF FetchAndStore, TimedOut, TimeoutEntry, Entry
  <2>3. CASE Decide
    <3>1. TimeoutEntry \notin DecisionEntries(Assess(result, ratio))
      BY DEF DecisionEntries, TimeoutEntry, Entry
    <3> QED
      BY <1>2, <2>3, <3>1 DEF Decide, TimedOut, TimeoutEntry, Entry
  <2>4. ASSUME log' = log PROVE ~TimedOut'
    BY <1>2, <2>4 DEF TimedOut, TimeoutEntry, Entry
  <2>5. ASSUME NEW s \in Source, Reuse(s) PROVE ~TimedOut'
    BY <2>4, <2>5 DEF Reuse
  <2> QED
    BY <1>2, <2>1, <2>2, <2>3, <2>4, <2>5 DEF Next, WorkerDies, Finished, vars
<1>3. ~TimedOut => TimeoutFallsBack
  BY DEF TimeoutFallsBack
<1> QED
  BY <1>1, <1>2, <1>3, PTL DEF Spec
=============================================================================
