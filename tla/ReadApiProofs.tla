---------------------------- MODULE ReadApiProofs ----------------------------
(* What the read endpoints say, for every set of applications, workers,    *)
(* sources and results, every verdict and every fault budget.              *)
EXTENDS ReadApi, LoanPipelineProofs

-----------------------------------------------------------------------------
(* The pipeline under the reader. *)

(* A human's decision is NEEDS_REVIEW. *)
ReviewInv == \A a \in App : status[a] = "MANUAL_REVIEW" => decision[a] = "NEEDS_REVIEW"

LEMMA ReviewStep ==
  ASSUME TypeOK, LifecycleInv, ReviewInv, [Next]_vars
  PROVE  ReviewInv'
<1>1. RowStep \/ UNCHANGED <<status, decision>>
  BY LifecycleStep
<1>2. ASSUME NEW a \in App, Lifecycle!Submit(a) \/ Lifecycle!Start(a) \/ Lifecycle!Escalate(a)
      PROVE  ReviewInv'
  BY <1>2 DEF Lifecycle!Submit, Lifecycle!Start, Lifecycle!Escalate, ReviewInv, TypeOK, RowTypeOK
<1>3. ASSUME NEW a \in App, NEW d \in Decision, Lifecycle!Conclude(a, d)
      PROVE  ReviewInv'
  BY <1>3, Constants DEF Lifecycle!Conclude, ReviewInv, TypeOK, RowTypeOK
<1>4. CASE UNCHANGED <<status, decision>>
  BY <1>4 DEF ReviewInv
<1> QED
  BY <1>1, <1>2, <1>3, <1>4 DEF RowStep

(* A row that is decided stays decided, with its decision or a review. *)
LEMMA TerminalRow ==
  ASSUME TypeOK, LifecycleInv, [Next]_vars, NEW a \in App, status[a] \in Terminal
  PROVE  status'[a] \in Terminal /\ decision'[a] \in {decision[a], "NEEDS_REVIEW"}
<1>1. RowStep \/ UNCHANGED <<status, decision>>
  BY LifecycleStep
<1>2. ASSUME NEW b \in App, Lifecycle!Submit(b) \/ Lifecycle!Start(b) \/ Lifecycle!Escalate(b)
      PROVE  status'[a] \in Terminal /\ decision'[a] \in {decision[a], "NEEDS_REVIEW"}
  BY <1>2, Constants
     DEF Lifecycle!Submit, Lifecycle!Start, Lifecycle!Escalate, TypeOK, RowTypeOK
<1>3. ASSUME NEW b \in App, NEW d \in Decision, Lifecycle!Conclude(b, d)
      PROVE  status'[a] \in Terminal /\ decision'[a] \in {decision[a], "NEEDS_REVIEW"}
  BY <1>3, Constants DEF Lifecycle!Conclude, TypeOK, RowTypeOK
<1>4. CASE UNCHANGED <<status, decision>>
  BY <1>4
<1> QED
  BY <1>1, <1>2, <1>3, <1>4 DEF RowStep

(* A row that exists goes on existing. *)
LEMMA ExistingRow ==
  ASSUME TypeOK, LifecycleInv, [Next]_vars, NEW a \in App, status[a] # "ABSENT"
  PROVE  status'[a] # "ABSENT"
<1>1. RowStep \/ UNCHANGED <<status, decision>>
  BY LifecycleStep
<1>2. ASSUME NEW b \in App, Lifecycle!Submit(b) \/ Lifecycle!Start(b) \/ Lifecycle!Escalate(b)
      PROVE  status'[a] # "ABSENT"
  BY <1>2 DEF Lifecycle!Submit, Lifecycle!Start, Lifecycle!Escalate, TypeOK, RowTypeOK
<1>3. ASSUME NEW b \in App, NEW d \in Decision, Lifecycle!Conclude(b, d)
      PROVE  status'[a] # "ABSENT"
  BY <1>3, Constants DEF Lifecycle!Conclude, TypeOK, RowTypeOK
<1> QED
  BY <1>1, <1>2, <1>3 DEF RowStep

(* Its record is closed, and errors in the log stay. *)
LEMMA TerminalLog ==
  ASSUME TypeOK, [Next]_vars, NEW a \in App, status[a] \in Terminal
  PROVE  /\ recorded'[a] = recorded[a]
         /\ audit[a]["SYSTEM_ERROR"] > 0 => audit'[a]["SYSTEM_ERROR"] > 0
<1> DEFINE Goal == /\ recorded'[a] = recorded[a]
                   /\ audit[a]["SYSTEM_ERROR"] > 0 => audit'[a]["SYSTEM_ERROR"] > 0
<1> USE DEF TypeOK
<1>1. CASE UNCHANGED <<audit, recorded>>
  BY <1>1
<1>2. ASSUME NEW w \in Worker, ClaimApplication(w) PROVE Goal
  BY <1>2 DEF ClaimApplication, AuditTypeOK, Step
<1>3. ASSUME NEW w \in Worker, Fetched(w), StoreProcessingResults(w) PROVE Goal
  <2>1. job[w] \in App
    BY <1>3, BusyWorker DEF Fetched
  <2>2. CASE AlreadyDecided(job[w])
    BY <1>3, <2>2 DEF StoreProcessingResults
  <2>3. CASE ~AlreadyDecided(job[w])
    <3>1. job[w] # a
      BY <2>3 DEF AlreadyDecided
    <3> QED
      BY <1>3, <2>1, <2>3, <3>1 DEF StoreProcessingResults, AuditTypeOK
  <2> QED
    BY <2>2, <2>3
<1>4. ASSUME NEW w \in Worker, MarkManualReview(w) PROVE Goal
  <2>1. recorded' = recorded /\ audit' = [audit EXCEPT ![job[w]]["SYSTEM_ERROR"] = @ + 1]
    BY <1>4 DEF MarkManualReview
  <2>2. audit[a]["SYSTEM_ERROR"] \in Nat
    BY DEF AuditTypeOK, Step
  <2> QED
    BY <2>1, <2>2 DEF AuditTypeOK, Step
<1>5. \/ UNCHANGED <<audit, recorded>>
      \/ \E w \in Worker : \/ ClaimApplication(w) \/ MarkManualReview(w)
                           \/ Fetched(w) /\ StoreProcessingResults(w)
  <2>1. CASE RelayStep
    BY <2>1 DEF RelayStep, PollBegin, PollSend, PollSendFails, PollCommit, PollRollback, auditVars
  <2>2. CASE BrokerStep
    BY <2>2 DEF BrokerStep, Redeliver, RedeliverEarly, LockExpires, LockExpiresEarly, Receive,
       auditVars
  <2>3. ASSUME NEW w \in Worker, FetchStep(w) PROVE UNCHANGED <<audit, recorded>>
    BY <2>3 DEF FetchStep, ReuseExternal, CallService, ServiceReturns, StoreExternal,
       StoreExternalConflicts, auditVars
  <2>4. ASSUME NEW w \in Worker, ClaimRefused(w) PROVE UNCHANGED <<audit, recorded>>
    BY <2>4 DEF ClaimRefused, auditVars
  <2>5. ASSUME NEW w \in Worker, DecideAndStore(w) \/ StoreCommitUnheard(w)
        PROVE  Fetched(w) /\ StoreProcessingResults(w)
    BY <2>5 DEF DecideAndStore, StoreCommitUnheard
  <2>6. ASSUME NEW w \in Worker, WorkerFault(w), ~StoreCommitUnheard(w)
        PROVE  UNCHANGED <<audit, recorded>>
    BY <2>6 DEF WorkerFault, WorkerCrash, PoolChildKilled, ClaimRaises, FetchRaises, TaskTimeout,
       StoreRaises, MarkRaises, auditVars
  <2>7. ASSUME NEW b \in App, SubmitApplication(b) PROVE UNCHANGED <<audit, recorded>>
    BY <2>7 DEF SubmitApplication, auditVars
  <2>8. CASE UNCHANGED vars
    BY <2>8 DEF vars, auditVars
  <2> QED
    BY <2>1, <2>2, <2>3, <2>4, <2>5, <2>6, <2>7, <2>8 DEF Next, WorkerStep, Done
<1> QED
  BY <1>1, <1>2, <1>3, <1>4, <1>5

-----------------------------------------------------------------------------
(* The reader. *)

(* The request under way read a decided row: its record has not changed    *)
(* since, and the row has its decision or was sent to review.              *)
ReadingInv == reading # NotReading =>
  /\ reading \in [app : App, endpoint : Endpoint, decision : Decision,
                  confidenceOf : Decision \cup {NoDecision}]
  /\ status[reading.app] \in Terminal
  /\ recorded[reading.app] = reading.confidenceOf
  /\ decision[reading.app] \in {reading.decision, "NEEDS_REVIEW"}
  /\ recorded[reading.app] # reading.decision =>
       reading.decision = "NEEDS_REVIEW" /\ audit[reading.app]["SYSTEM_ERROR"] > 0
  /\ told[reading.app].decision # NoDecision =>
       reading.decision \in {told[reading.app].decision, "NEEDS_REVIEW"}

(* What was told is still true, but for a review.                          *)
ToldInv == \A a \in App :
  /\ told[a].phase = "undecided" => status[a] # "ABSENT"
  /\ told[a].phase = "decided" => status[a] \in Terminal
  /\ told[a].decision # NoDecision =>
       status[a] \in Terminal /\ decision[a] \in {told[a].decision, "NEEDS_REVIEW"}
  /\ told[a].factors # NoDecision => status[a] \in Terminal /\ told[a].factors = recorded[a]

ToldTyped == told \in [App -> [phase : {"nothing", "absent", "undecided", "decided"},
                               decision : Decision \cup {NoDecision},
                               factors : Decision \cup {NoDecision}]]

ReadInv == ReadingInv /\ ToldInv /\ ToldTyped

Beneath == TypeOK /\ LifecycleInv /\ EvidenceInv /\ ReviewInv

LEMMA ReadInvInit == ReadInit => ReadInv
BY Constants DEF ReadInit, Init, ReadInv, ReadingInv, ToldInv, ToldTyped, Untold

LEMMA UnderReader ==
  ASSUME Beneath, ReadInv, [Next]_vars, UNCHANGED readVars
  PROVE  ReadInv'
<1> USE DEF Beneath, ReadInv
<1>1. reading' = reading /\ told' = told
  BY DEF readVars
<1>2. ReadingInv'
  <2> SUFFICES ASSUME reading # NotReading
               PROVE  ReadingInv'
    BY <1>1 DEF ReadingInv
  <2> DEFINE a == reading.app
  <2>1. a \in App /\ status[a] \in Terminal
    BY DEF ReadingInv
  <2>2. status'[a] \in Terminal /\ decision'[a] \in {decision[a], "NEEDS_REVIEW"}
    BY <2>1, TerminalRow
  <2>3. /\ recorded'[a] = recorded[a]
        /\ audit[a]["SYSTEM_ERROR"] > 0 => audit'[a]["SYSTEM_ERROR"] > 0
    BY <2>1, TerminalLog
  <2> QED
    BY <1>1, <2>2, <2>3 DEF ReadingInv
<1>3. ToldInv'
  <2>1. \A a \in App : status[a] # "ABSENT" => status'[a] # "ABSENT"
    BY ExistingRow
  <2>2. \A a \in App : status[a] \in Terminal =>
          /\ status'[a] \in Terminal /\ decision'[a] \in {decision[a], "NEEDS_REVIEW"}
          /\ recorded'[a] = recorded[a]
    BY TerminalRow, TerminalLog
  <2> QED
    BY <1>1, <2>1, <2>2 DEF ToldInv
<1>4. ToldTyped'
  BY <1>1 DEF ToldTyped
<1> QED
  BY <1>2, <1>3, <1>4

(* What a step may do to the client's knowledge. *)
Kept(old, new) ==
  /\ Progress(new.phase) >= Progress(old.phase)
  /\ old.decision # NoDecision => new.decision \in {old.decision, "NEEDS_REVIEW"}
  /\ old.factors # NoDecision => new.factors = old.factors

(* An answer with a phase only. *)
LEMMA PhaseTold ==
  ASSUME Beneath, ReadInv, NEW a \in App, UNCHANGED vars, reading' = reading,
         reading = NotReading,
         NEW phase \in {"absent", "undecided", "decided"},
         told' = [told EXCEPT ![a].phase = phase],
         phase = "absent" => status[a] = "ABSENT",
         phase = "undecided" => status[a] \notin Terminal \cup {"ABSENT"},
         phase = "decided" => status[a] \in Terminal
  PROVE  ReadInv' /\ \A b \in App : Kept(told[b], told'[b])
<1> USE DEF ReadInv
<1>1. UNCHANGED <<status, decision, recorded, audit>>
  BY DEF vars, rowVars, auditVars
<1>2. \A b \in App : /\ told'[b].phase = IF b = a THEN phase ELSE told[b].phase
                     /\ told'[b].decision = told[b].decision
                     /\ told'[b].factors = told[b].factors
  BY DEF ToldTyped
<1>3. ToldTyped'
  BY DEF ToldTyped
<1>4. ToldInv'
  BY <1>1, <1>2 DEF ToldInv
<1>5. ReadingInv'
  BY DEF ReadingInv
<1>6. told[a].phase \in {"nothing", "absent", "undecided", "decided"}
  BY DEF ToldTyped
<1>7. Progress(phase) >= Progress(told[a].phase)
  BY <1>6, Constants DEF ToldInv, Progress
<1>8. \A b \in App : Progress(told[b].phase) \in 0..3
  BY DEF ToldTyped, Progress
<1>9. \A b \in App : Kept(told[b], told'[b])
  BY <1>2, <1>7, <1>8 DEF Kept
<1> QED
  BY <1>3, <1>4, <1>5, <1>9

LEMMA RowRead ==
  ASSUME Beneath, ReadInv, NEW a \in App, NEW e \in Endpoint, ReadRow(e, a), UNCHANGED vars
  PROVE  ReadInv' /\ \A b \in App : Kept(told[b], told'[b])
<1> USE DEF Beneath, ReadInv
<1>1. UNCHANGED <<status, decision, recorded, audit, told>>
  BY DEF vars, rowVars, auditVars, ReadRow
<1>2. reading' = [app |-> a, endpoint |-> e, decision |-> decision[a], confidenceOf |-> recorded[a]]
  BY DEF ReadRow
<1>3. status[a] \in Terminal /\ decision[a] \in Decision
  BY Constants DEF ReadRow, NotYetDecided, TypeOK, RowTypeOK
<1>4. recorded[a] \in Decision \cup {NoDecision}
  BY DEF TypeOK, AuditTypeOK
<1>5. recorded[a] # decision[a] =>
        decision[a] = "NEEDS_REVIEW" /\ audit[a]["SYSTEM_ERROR"] > 0
  BY <1>3, Constants DEF EvidenceInv, LogInv, ReviewInv
<1>6. told[a].decision # NoDecision => decision[a] \in {told[a].decision, "NEEDS_REVIEW"}
  BY DEF ToldInv
<1>7. ReadingInv'
  BY <1>1, <1>2, <1>3, <1>4, <1>5, <1>6 DEF ReadingInv
<1>8. ToldInv' /\ ToldTyped'
  BY <1>1 DEF ToldInv, ToldTyped
<1>9. \A b \in App : Kept(told[b], told'[b])
  <2>1. \A b \in App : Progress(told[b].phase) \in 0..3
    BY DEF ToldTyped, Progress
  <2> QED
    BY <1>1, <2>1 DEF Kept
<1> QED
  BY <1>7, <1>8, <1>9

LEMMA Answered ==
  ASSUME Beneath, ReadInv, AnswerDecision \/ AnswerExplanation, UNCHANGED vars
  PROVE  ReadInv' /\ \A b \in App : Kept(told[b], told'[b])
<1> DEFINE a == reading.app
<1> USE DEF Beneath, ReadInv
<1>1. UNCHANGED <<status, decision, recorded, audit>> /\ reading' = NotReading
  BY DEF vars, rowVars, auditVars, AnswerDecision, AnswerExplanation
<1>2. /\ a \in App /\ status[a] \in Terminal
      /\ reading.decision \in Decision
      /\ decision[a] \in {reading.decision, "NEEDS_REVIEW"}
      /\ told[a].decision # NoDecision => reading.decision \in {told[a].decision, "NEEDS_REVIEW"}
  BY DEF ReadingInv, AnswerDecision, AnswerExplanation
<1>3. PICK d : /\ d \in {told[a].decision, reading.decision}
               /\ told' = [told EXCEPT ![a] = [phase |-> "decided", decision |-> d,
                                               factors |-> recorded[a]]]
  <2>1. CASE AnswerDecision
    BY <2>1 DEF AnswerDecision, DecisionOutput
  <2>2. CASE AnswerExplanation
    BY <1>2, <2>2 DEF AnswerExplanation, DecisionOutput, ToldTyped
  <2> QED
    BY <2>1, <2>2
<1> HIDE DEF a
<1>4. \A b \in App : /\ told'[b].phase = IF b = a THEN "decided" ELSE told[b].phase
                     /\ told'[b].decision = IF b = a THEN d ELSE told[b].decision
                     /\ told'[b].factors = IF b = a THEN recorded[a] ELSE told[b].factors
  BY <1>2, <1>3 DEF ToldTyped
<1>5. d \in Decision \cup {NoDecision} /\ recorded[a] \in Decision \cup {NoDecision}
  BY <1>2, <1>3 DEF ToldTyped, TypeOK, AuditTypeOK
<1>6. ToldTyped'
  BY <1>2, <1>3, <1>5 DEF ToldTyped
<1>7. d # NoDecision => decision[a] \in {d, "NEEDS_REVIEW"}
  BY <1>2, <1>3 DEF ToldInv
<1>8. ToldInv'
  BY <1>1, <1>2, <1>4, <1>7, Constants DEF ToldInv
<1>9. ReadingInv'
  BY <1>1 DEF ReadingInv
<1>10. \A b \in App : Progress(told[b].phase) \in 0..3
  BY DEF ToldTyped, Progress
<1>11. Kept(told[a], told'[a])
  <2>1. Progress(told'[a].phase) = 3
    BY <1>2, <1>4 DEF Progress
  <2>2. Progress(told'[a].phase) >= Progress(told[a].phase)
    BY <1>2, <1>10, <2>1
  <2>3. told[a].decision # NoDecision => told'[a].decision \in {told[a].decision, "NEEDS_REVIEW"}
    BY <1>2, <1>3, <1>4
  <2>4. told[a].factors # NoDecision => told'[a].factors = told[a].factors
    BY <1>2, <1>4 DEF ToldInv
  <2> QED
    BY <2>2, <2>3, <2>4 DEF Kept
<1>12. \A b \in App : Kept(told[b], told'[b])
  BY <1>4, <1>10, <1>11 DEF Kept
<1> QED
  BY <1>6, <1>8, <1>9, <1>12

LEMMA ReadInvStep ==
  ASSUME Beneath, ReadInv, [ReadNext]_<<vars, readVars>>
  PROVE  ReadInv' /\ \A b \in App : Kept(told[b], told'[b])
<1> DEFINE Goal == ReadInv' /\ \A b \in App : Kept(told[b], told'[b])
<1>1. \A b \in App : Progress(told[b].phase) \in 0..3
  BY DEF ReadInv, ToldTyped, Progress
<1>2. CASE [Next]_vars /\ UNCHANGED readVars
  <2>1. told' = told
    BY <1>2 DEF readVars
  <2> QED
    BY <1>1, <1>2, <2>1, UnderReader DEF Kept
<1>3. ASSUME NEW a \in App, GetStatus(a), UNCHANGED vars PROVE Goal
  <2>1. Phase(a) \in {"absent", "undecided", "decided"}
    BY DEF Phase
  <2>2. /\ Phase(a) = "absent" => status[a] = "ABSENT"
        /\ Phase(a) = "undecided" => status[a] \notin Terminal \cup {"ABSENT"}
        /\ Phase(a) = "decided" => status[a] \in Terminal
    BY Constants DEF Phase
  <2>3. /\ reading = NotReading /\ reading' = reading
        /\ told' = [told EXCEPT ![a].phase = Phase(a)]
    BY <1>3 DEF GetStatus
  <2> HIDE DEF Goal
  <2> QED
    BY <1>3, <2>1, <2>2, <2>3, PhaseTold DEF Goal
<1>4. ASSUME NEW a \in App, NoAnswerYet(a), UNCHANGED vars PROVE Goal
  <2> DEFINE phase == IF status[a] = "ABSENT" THEN "absent" ELSE "undecided"
  <2>1. /\ reading = NotReading /\ reading' = reading
        /\ told' = [told EXCEPT ![a].phase = phase]
    BY <1>4 DEF NoAnswerYet
  <2>2. status[a] \in Terminal => decision[a] # NoDecision
    BY Constants DEF Beneath, EvidenceInv, LogInv, ReviewInv
  <2>3. /\ phase = "absent" => status[a] = "ABSENT"
        /\ phase = "undecided" => status[a] \notin Terminal \cup {"ABSENT"}
    BY <1>4, <2>2, Constants DEF NoAnswerYet, NotYetDecided
  <2>4. phase \in {"absent", "undecided"}
    OBVIOUS
  <2> HIDE DEF phase, Goal
  <2> QED
    BY <1>4, <2>1, <2>3, <2>4, PhaseTold DEF Goal
<1>5. ASSUME NEW a \in App, NEW e \in Endpoint, ReadRow(e, a), UNCHANGED vars PROVE Goal
  BY <1>5, RowRead
<1>6. CASE (AnswerDecision \/ AnswerExplanation) /\ UNCHANGED vars
  BY <1>6, Answered
<1> QED
  BY <1>2, <1>3, <1>4, <1>5, <1>6 DEF ReadNext, ReadStep

-----------------------------------------------------------------------------
(* The theorems. *)

LEMMA ReadingChangesNothing == ReadSpec => Spec
<1>1. ReadInit => Init
  BY DEF ReadInit
<1>2. [ReadNext]_<<vars, readVars>> => [Next]_vars
  BY DEF ReadNext
<1> QED
  BY <1>1, <1>2, PTL DEF ReadSpec, Spec

LEMMA BeneathHolds == ReadSpec => []Beneath
<1>1. Init => ReviewInv
  BY DEF Init, ReviewInv
<1>2. TypeOK /\ LifecycleInv /\ ReviewInv /\ [Next]_vars => ReviewInv'
  BY ReviewStep
<1>3. Spec => []ReviewInv
  BY <1>1, <1>2, TypeCorrect, LifecycleInvariant, PTL DEF Spec
<1> QED
  BY <1>3, ReadingChangesNothing, TypeCorrect, LifecycleInvariant, EvidenceInvariant, PTL
     DEF Beneath

LEMMA ReadInvHolds == ReadSpec => []ReadInv
<1>1. Beneath /\ ReadInv /\ [ReadNext]_<<vars, readVars>> => ReadInv'
  BY ReadInvStep
<1> QED
  BY <1>1, ReadInvInit, BeneathHolds, PTL DEF ReadSpec

(* Requests and answers stay within their ranges.                          *)
THEOREM ReadTypes == ReadSpec => []ReadTypeOK
<1>1. ReadInv => ReadTypeOK
  BY DEF ReadInv, ReadingInv, ToldTyped, ReadTypeOK
<1> QED
  BY <1>1, ReadInvHolds, PTL

(* get_decision: although the row and the entry are read in two            *)
(* statements, whatever commits in between, no answer mixes two decisions. *)
THEOREM DecisionsNeverMixed == ReadSpec => []DecisionAnswersAgree
<1>1. ReadInv => DecisionAnswersAgree
  BY DEF ReadInv, ReadingInv, DecisionAnswersAgree, DecisionOutput
<1> QED
  BY <1>1, ReadInvHolds, PTL

(* What the second statement sees. *)
LEMMA ExplanationFits ==
  ASSUME Beneath, ReadInv, reading # NotReading
  PROVE  LET a == reading.app
         IN  /\ DecisionOutput(a) # reading.decision =>
                  [step |-> "SYSTEM_ERROR", status |-> "SYSTEM_ERROR"] \in Explanation(a).causes
             /\ Explanation(a).kind = "verified" =>
                  /\ reading.decision = DecisionOutput(a)
                  /\ \A s \in Source : external[a][s] \in Clean
<1> DEFINE a == reading.app
           error == Entry("SYSTEM_ERROR", "SYSTEM_ERROR", TRUE)
<1>1. /\ a \in App /\ status[a] \in Terminal
      /\ recorded[a] # reading.decision => audit[a]["SYSTEM_ERROR"] > 0
  BY DEF ReadInv, ReadingInv
<1>2. Explanation(a).causes = Causes(LogOf(a))
  BY DEF Explanation, Summary
<1> HIDE DEF a
<1>3. audit[a]["SYSTEM_ERROR"] > 0 => error \in Degraded(LogOf(a))
  BY DEF ErrorEntries, LogOf, Degraded, Entry
<1>4. error \in Degraded(LogOf(a)) =>
        [step |-> "SYSTEM_ERROR", status |-> "SYSTEM_ERROR"] \in Causes(LogOf(a))
  <2>1. error.step = "SYSTEM_ERROR" /\ error.error = "SYSTEM_ERROR"
    BY DEF Entry
  <2> HIDE DEF error
  <2> QED
    BY <2>1 DEF Causes
<1>5. Explanation(a).kind = "verified" => Degraded(LogOf(a)) = {}
  BY DEF Explanation, Summary
<1>6. ASSUME Degraded(LogOf(a)) = {} PROVE reading.decision = recorded[a]
  BY <1>1, <1>3, <1>6
<1>7. ASSUME Degraded(LogOf(a)) = {}, NEW s \in Source PROVE external[a][s] \in Clean
  <2>1. recorded[a] # NoDecision
    BY <1>1, <1>6, <1>7, Constants DEF Beneath, EvidenceInv, LogInv, ReadInv, ReadingInv, a
  <2>2. Stored(a, s)
    BY <1>1, <2>1 DEF Beneath, EvidenceInv, RecordInv
  <2> DEFINE entry == Entry(s, IF external[a][s] \in Clean THEN "NONE" ELSE external[a][s], FALSE)
  <2>3. entry \in LogOf(a)
    BY <2>2 DEF LogOf, FetchEntries
  <2>4. entry.error = "NONE"
    BY <1>7, <2>3 DEF Degraded
  <2>5. external[a][s] \notin Clean => external[a][s] = "NONE"
    BY <2>4 DEF Entry
  <2> QED
    BY <1>1, <2>2, <2>5, StoredIsResult, ResultAssumption DEF Beneath, TypeOK
<1> QED
  BY <1>2, <1>3, <1>4, <1>5, <1>6, <1>7, <1>1 DEF DecisionOutput, a

(* get_explanation: whatever commits between its two statements, it fits   *)
(* the row, or names the system error that made the difference.            *)
THEOREM ExplanationsAlwaysFit == ReadSpec => []ExplanationsFitDecision
<1>1. Beneath /\ ReadInv => ExplanationsFitDecision
  BY ExplanationFits DEF ExplanationsFitDecision
<1> QED
  BY <1>1, BeneathHolds, ReadInvHolds, PTL

(* get_status, get_decision, get_explanation: no later answer takes back   *)
(* what an earlier one said, except for a review.                          *)
THEOREM AnswersStand == ReadSpec => NoAnswerIsTakenBack
<1>1. Beneath /\ ReadInv /\ [ReadNext]_<<vars, readVars>> =>
        \A a \in App :
          /\ Progress(told'[a].phase) >= Progress(told[a].phase)
          /\ told[a].decision # NoDecision => told'[a].decision \in {told[a].decision, "NEEDS_REVIEW"}
          /\ told[a].factors # NoDecision => told'[a].factors = told[a].factors
  BY ReadInvStep DEF Kept
<1> QED
  BY <1>1, BeneathHolds, ReadInvHolds, PTL DEF ReadSpec, NoAnswerIsTakenBack
=============================================================================
