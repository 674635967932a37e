------------------------------ MODULE Evidence ------------------------------
(***************************************************************************)
(* From the answers of the external services to a decision: how an answer  *)
(* is classified, what a service makes of it, what external_data keeps of  *)
(* it, how a later attempt reconstructs it, and what is decided.           *)
(*                                                                         *)
(* One application is followed.  A worker fetches the three sources in any *)
(* order; it may die, and its successor uses the stored rows; or the task  *)
(* runs out of time.  What a transaction writes to the audit log is what   *)
(* the explanation is made of.  The errors of a service are those its mock *)
(* gives, the values any the engine reads.                                 *)
(***************************************************************************)
EXTENDS DecisionEngine, ExplanationBuilder, FiniteSets

CONSTANTS Score,             \* credit scores the bureau may report
          Stability,         \* income stabilities, in hundredths
          Ratio,             \* debt-to-income ratios, in hundredths
          Threshold,         \* CONFIDENCE_THRESHOLD
          CallSeconds,       \* EXTERNAL_API_TIMEOUT_SECONDS
          MaxRetries,        \* MAX_RETRIES
          BackoffSeconds,    \* the delays between all the attempts of a call
          TaskSeconds,       \* TASK_TIMEOUT_SECONDS
          MaxCrashes         \* bound: workers that die

ASSUME InputsAssumption ==
  /\ Score \subseteq Nat /\ Stability \subseteq 0..100 /\ Ratio \subseteq Nat
  /\ Threshold \in 0..100 /\ MaxCrashes \in Nat
  /\ CallSeconds \in Nat /\ MaxRetries \in Nat /\ BackoffSeconds \in Nat
  /\ TaskSeconds \in Nat

Source == {"credit", "bank", "gst"}

(* A response body, by what the code reads of it: the field it needs, and  *)
(* whether the body disqualifies itself (a stale date, match = false).     *)
Body == [present : BOOLEAN, known : BOOLEAN, value : Nat, bad : BOOLEAN]
NoBody == [present |-> FALSE, known |-> FALSE, value |-> 0, bad |-> FALSE]
Known(v) == [present |-> TRUE, known |-> TRUE, value |-> v, bad |-> FALSE]
Bare == [present |-> TRUE, known |-> FALSE, value |-> 0, bad |-> FALSE]

(* HTTP status 0: no response before the client's timeout; 1: no           *)
(* connection.  An error carries a body without the field.  A service's    *)
(* own errors are those of its mock: 408 and 503 of the credit bureau, 400 *)
(* of the bank analyzer, 404 of the GST verifier; any of them may be down. *)
Errors(statuses) == {[status |-> s, body |-> NoBody] : s \in {0, 1}}
                      \cup {[status |-> s, body |-> Bare] : s \in statuses \cup {503}}
Ok(body) == [status |-> 200, body |-> body]

Answer == [credit : Errors({408}) \cup {Ok(Known(v)) : v \in Score}
                      \cup {Ok([Known(v) EXCEPT !.bad = TRUE]) : v \in Score},
           bank : Errors({400}) \cup {Ok(Known(v)) : v \in Stability} \cup {Ok(Bare)},
           gst : Errors({404}) \cup {Ok(Known(v)) : v \in {0, 1}}
                   \cup {Ok([Bare EXCEPT !.bad = TRUE])}]

VARIABLES
  answer,            \* what each service answers for this application
  ratio,             \* existing EMIs over monthly income
  result,            \* the ServiceResults the worker holds
  row,               \* external_data, by source
  output,            \* DecisionOutput
  log,               \* audit_logs, by what an explanation reads of it
  crashes

vars == <<answer, ratio, result, row, output, log, crashes>>

Nothing == [missing |-> TRUE]

-----------------------------------------------------------------------------
(* _attempt_call and classify_response. *)
Classify(status) ==
  CASE status \in {0, 408} -> "TIMEOUT"
    [] status = 404        -> "NO_RECORD"
    [] status = 400        -> "FORMAT_ERROR"
    [] status = 200        -> "NONE"
    [] OTHER               -> "SERVICE_DOWN"

(* The ServiceResult of call once its retries are used up. *)
Called(a) ==
  LET failure == Classify(a.status)
  IN  [failure |-> failure, raw |-> a.body,
       data |-> IF failure = "NONE" THEN a.body ELSE NoBody,
       fallback |-> failure \in Outage]

(* CreditBureauService.fetch *)
FetchCredit(a) ==
  LET r == Called(a)
  IN  IF r.failure = "NONE" /\ r.data.present /\ r.data.bad
        THEN [r EXCEPT !.failure = "STALE_DATA", !.data = r.raw]
      ELSE IF r.failure \in Outage
        THEN [r EXCEPT !.data = Known(600), !.fallback = TRUE]
      ELSE r

(* BankAnalyzerService.analyze *)
Analyze(a) ==
  LET r == Called(a)
  IN  IF r.failure = "NONE" /\ r.data.present /\ ~r.data.known
        THEN [r EXCEPT !.failure = "PARTIAL_DATA", !.data = r.raw, !.fallback = FALSE]
      ELSE IF r.failure = "FORMAT_ERROR"
        THEN [r EXCEPT !.data = NoBody, !.fallback = TRUE]
      ELSE r

(* GstVerifierService.verify *)
Verify(a) ==
  LET r == Called(a)
  IN  IF r.failure = "NONE" /\ r.data.present /\ r.data.bad
        THEN [r EXCEPT !.failure = "PAN_MISMATCH", !.data = Known(0), !.fallback = TRUE]
      ELSE IF r.failure = "NO_RECORD"
        THEN [r EXCEPT !.data = Known(0), !.fallback = TRUE]
      ELSE r

Fetched(s, a) == CASE s = "credit" -> FetchCredit(a)
                   [] s = "bank"   -> Analyze(a)
                   [] s = "gst"    -> Verify(a)

(* _store_external_result keeps the raw response, or the fallback data     *)
(* when there is none; redaction blanks no field the engine reads.         *)
StoredRow(r) == [failure |-> r.failure, response |-> IF r.raw.present THEN r.raw ELSE r.data]

(* Mutant: the reconstructed result never counts as a fallback. *)
ReconstructedAsGenuine(stored) ==
  [failure |-> stored.failure, raw |-> stored.response, data |-> stored.response,
   fallback |-> FALSE]

(* _service_result_from_external_data *)
Reconstructed(stored) ==
  [failure |-> stored.failure, raw |-> stored.response, data |-> stored.response,
   fallback |-> stored.failure \in Outage \cup {"FORMAT_ERROR", "PAN_MISMATCH", "NO_RECORD"}]

(* Mutant: a bureau that is out of reach counts as a perfect score. *)
CreditOfOptimistic(r) == IF r.fallback /\ r.failure \in Outage THEN 900
                         ELSE IF r.data.known THEN r.data.value ELSE Unknown

(* The extractors of engine/decision.py, and used_fallback_credit. *)
CreditOf(r) == IF r.fallback /\ r.failure \in Outage THEN Unknown
               ELSE IF r.data.known THEN r.data.value ELSE Unknown
StabilityOf(r) == IF r.data.known THEN r.data.value ELSE Unknown
GstOf(r) == IF r.data.known THEN r.data.value
            ELSE IF r.failure \in {"PAN_MISMATCH", "NO_RECORD"} THEN 0 ELSE Unknown

Features(results, dti) ==
  [credit |-> CreditOf(results["credit"]),
   stability |-> StabilityOf(results["bank"]),
   gst |-> GstOf(results["gst"]),
   dti |-> dti,
   creditFailure |-> results["credit"].failure,
   bankFailure |-> results["bank"].failure,
   gstFailure |-> results["gst"].failure,
   fallback |-> results["credit"].fallback /\ results["credit"].failure \in Outage]

Assess(results, dti) == ComputeDecision(Features(results, dti), Threshold, RuleSetV1)

-----------------------------------------------------------------------------
(* How long a call keeps the task: an attempt that is not answered lasts   *)
(* until the client gives up; the other answers come at once.  A probe of  *)
(* a half-open circuit is not retried.                                     *)
Duration(a, retries) ==
  (IF a.status = 0 THEN (retries + 1) * CallSeconds ELSE 0)
    + (IF Classify(a.status) \in Outage /\ retries > 0 THEN BackoffSeconds ELSE 0)

InTime(s, retries) == Duration(answer[s], retries) <= TaskSeconds

(* Audit entries, by the transaction that writes them. *)
FetchEntry(s, r) == Entry(s, r.failure, r.fallback)
TimeoutEntry == Entry("PIPELINE_TIMEOUT", "PIPELINE_TIMEOUT", TRUE)
DecisionEntries(o) ==
  {Entry("DECISION_CALCULATION", "NONE", FALSE)}
    \cup (IF o.decision # "NEEDS_REVIEW" THEN {}
          ELSE {Entry(IF o.requiresManualReview THEN "MANUAL_REVIEW_OVERRIDE"
                      ELSE "MANUAL_REVIEW_ROUTING", "NONE", o.requiresManualReview)})

TimedOut == TimeoutEntry \in log
Running == output = Nothing /\ ~TimedOut

Init == /\ answer \in Answer
        /\ ratio \in Ratio
        /\ result = [s \in Source |-> Nothing]
        /\ row = [s \in Source |-> Nothing]
        /\ output = Nothing
        /\ log = {}
        /\ crashes = 0

(* _fetch_or_reuse_external_data: the stored row wins over another call. *)
FetchAndStore(s, retries) ==
  /\ Running /\ result[s] = Nothing /\ row[s] = Nothing
  /\ InTime(s, retries)
  /\ result' = [result EXCEPT ![s] = Fetched(s, answer[s])]
  /\ row' = [row EXCEPT ![s] = StoredRow(Fetched(s, answer[s]))]
  /\ log' = log \cup {FetchEntry(s, Fetched(s, answer[s]))}
  /\ UNCHANGED <<answer, ratio, output, crashes>>

Reuse(s) ==
  /\ Running /\ result[s] = Nothing /\ row[s] # Nothing
  /\ result' = [result EXCEPT ![s] = Reconstructed(row[s])]
  /\ UNCHANGED <<answer, ratio, row, output, log, crashes>>

Decide ==
  /\ Running
  /\ \A s \in Source : result[s] # Nothing
  /\ output' = Assess(result, ratio)
  /\ log' = log \cup DecisionEntries(Assess(result, ratio))
  /\ UNCHANGED <<answer, ratio, result, row, crashes>>

(* The deadline comes while a call still waits or backs off; the calls     *)
(* that are shorter, and run beside it, have their results by then.  The   *)
(* error handler sends the application to a human.                         *)
TaskTimesOut ==
  /\ Running
  /\ \E s \in Source : result[s] = Nothing /\ row[s] = Nothing /\ ~InTime(s, MaxRetries)
  /\ \A s \in Source : InTime(s, MaxRetries) => result[s] # Nothing
  /\ log' = log \cup {TimeoutEntry}
  /\ UNCHANGED <<answer, ratio, result, row, output, crashes>>

(* The worker dies with what it holds; the rows stay for its successor. *)
WorkerDies ==
  /\ Running /\ crashes < MaxCrashes
  /\ \E s \in Source : result[s] # Nothing
  /\ result' = [s \in Source |-> Nothing]
  /\ crashes' = crashes + 1
  /\ UNCHANGED <<answer, ratio, row, output, log>>

Finished == ~Running /\ UNCHANGED vars

Next == \/ \E s \in Source : \/ \E retries \in {0, MaxRetries} : FetchAndStore(s, retries)
                            \/ Reuse(s)
        \/ Decide \/ TaskTimesOut \/ WorkerDies \/ Finished

Spec == Init /\ [][Next]_vars

-----------------------------------------------------------------------------
(* Properties. *)

ServiceResult == [failure : Failure \cup {"NONE"}, raw : Body, data : Body, fallback : BOOLEAN]

RiskPoints == 0..10000

Step == {"DECISION_CALCULATION", "MANUAL_REVIEW_OVERRIDE", "MANUAL_REVIEW_ROUTING",
         "PIPELINE_TIMEOUT"}

TypeOK ==
  /\ result \in [Source -> ServiceResult \cup {Nothing}]
  /\ output # Nothing =>
       /\ output.decision \in {"APPROVE", "DECLINE", "NEEDS_REVIEW"}
       /\ output.confidence \in 0..100
       /\ output.risk \in RiskPoints
  /\ log \subseteq [step : Source \cup Step, error : Failure \cup {"NONE", "PIPELINE_TIMEOUT"},
                    fallback : BOOLEAN]
  /\ crashes \in 0..MaxCrashes

Live == [s \in Source |-> Fetched(s, answer[s])]

(* A decision made from rows that an earlier, dead attempt stored is the   *)
(* one that attempt would have made: score, confidence and all.            *)
RecoveredDecisionAgrees == output # Nothing => output = Assess(Live, ratio)

(* An explicit GST mismatch, or non-compliance, is never approved.         *)
GstGate ==
  output # Nothing /\ (answer["gst"].body.bad \/ answer["gst"].status = 404
                        \/ answer["gst"].body = Known(0)) =>
    output.decision # "APPROVE"

(* With two services out of reach nothing is decided automatically.        *)
MeltdownIsReviewed ==
  output # Nothing
    /\ Cardinality({s \in Source : Live[s].failure \in Outage \cup {"FORMAT_ERROR"}}) >= 2 =>
    output.decision = "NEEDS_REVIEW"

(* The applicant as the credit bureau and the bank analyzer would show     *)
(* them if they answered.                                                  *)
WithFullData(c, b) == [Live EXCEPT !["credit"] = FetchCredit(Ok(Known(c))),
                                   !["bank"] = Analyze(Ok(Known(b)))]
Agrees(s, v) == Live[s].data.known /\ Live[s].failure \notin Outage => Live[s].data.value = v

(* The defaults that stand in for missing credit and bank data are         *)
(* conservative: whatever the missing values really are, no one is         *)
(* approved on defaults whom the full data would not approve.              *)
DefaultsNeverApprove ==
  output # Nothing /\ output.decision = "APPROVE" =>
    \A c \in Score, b \in Stability :
      Agrees("credit", c) /\ Agrees("bank", b) =>
        Assess(WithFullData(c, b), ratio).decision = "APPROVE"

(* With a threshold above 0.50 every review is an override for its low     *)
(* confidence, so that its explanation names the threshold; and it is one  *)
(* with perfect data too, which the explanation then calls insufficient.   *)
EveryReviewIsOverridden ==
  output # Nothing /\ output.decision = "NEEDS_REVIEW" /\ Threshold > 50 =>
    output.requiresManualReview

(* What GET /explanation says of the application: the decision and factors *)
(* of its DECISION_CALCULATION entry, none after a timeout.                *)
Explained ==
  IF TimedOut THEN Summary("NONE", FALSE, log)
  ELSE Summary(output.decision, output.requiresManualReview, log)

(* The explanation names the sources that failed, each with its failure,   *)
(* and no other, whichever worker fetched them and whichever decided; and  *)
(* it claims verified sources only for an automated decision on answers    *)
(* that were all in order.                                                 *)
ExplanationNamesEveryFailure ==
  ~Running =>
    /\ {c \in Explained.causes : c.step \in Source} =
         {[step |-> s, status |-> Live[s].failure] :
            s \in {t \in Source : row[t] # Nothing /\ Live[t].failure # "NONE"}}
    /\ Explained.kind = "verified" =>
         ~TimedOut /\ output.decision # "NEEDS_REVIEW" /\ \A s \in Source : Live[s].failure = "NONE"

(* The README's scenario "Credit Bureau Timeout": "Credit provider retries *)
(* and falls back to conservative credit score 600".  Four attempts of 30  *)
(* seconds do not fit into a task of 60, so this does not hold.            *)
TimeoutFallsBack ==
  answer["credit"].status = 0 /\ answer["bank"].status = 200 /\ answer["gst"].status = 200 =>
    ~TimedOut

Rank(decision) == CASE decision = "DECLINE" -> 0 [] decision = "NEEDS_REVIEW" -> 1
                    [] decision = "APPROVE" -> 2

(* A better credit score never leads to a worse decision, in spite of the  *)
(* confidence that changes with the distance to the thresholds.            *)
BetterCreditNeverHurts ==
  output # Nothing /\ answer["credit"].status = 200 =>
    \A c \in Score : c > answer["credit"].body.value =>
      Rank(Assess([Live EXCEPT !["credit"] =
                     FetchCredit([answer["credit"] EXCEPT !.body.value = c])], ratio).decision)
        >= Rank(output.decision)
=============================================================================
