------------------------- MODULE LoanPipelineProofs -------------------------
(* What TLAPS proves of LoanPipeline for every set of applications,        *)
(* workers, sources and results, every verdict and every fault budget.     *)
EXTENDS LoanPipeline, TLAPS

-----------------------------------------------------------------------------
(* Lemmas about the building blocks of the actions. *)

(* The sets the type invariant is stated with. *)
LEMMA Constants ==
  /\ Status = {"ABSENT", "PENDING", "PROCESSING", "COMPLETED", "MANUAL_REVIEW"}
  /\ Terminal = {"COMPLETED", "MANUAL_REVIEW"}
  /\ Decision = {"APPROVE", "DECLINE", "NEEDS_REVIEW"}
  /\ NoDecision = "NONE"
  /\ \A d : Lifecycle!StatusForDecision(d) =
              IF d = "NEEDS_REVIEW" THEN "MANUAL_REVIEW" ELSE "COMPLETED"
BY DEF Status, Terminal, Decision, NoDecision, Lifecycle!Status, Lifecycle!Terminal,
       Lifecycle!Decision, Lifecycle!NoDecision, Lifecycle!StatusForDecision

(* A worker that is not idle works on an application. *)
LEMMA BusyWorker ==
  ASSUME WorkerTypeOK, NEW w \in Worker, pc[w] # "idle"
  PROVE  job[w] \in App
BY DEF WorkerTypeOK

(* Acknowledging keeps the workers' types. *)
LEMMA AcknowledgeTyped ==
  ASSUME WorkerTypeOK, NEW w \in Worker, Acknowledge(w)
  PROVE  WorkerTypeOK'
<1>1. pc' \in [Worker -> {"idle", "claim", "fetch", "unwind", "failed"}]
      /\ job' \in [Worker -> App \cup {NoApp}]
      /\ \A v \in Worker : pc'[v] = "idle" <=> job'[v] = NoApp
  BY DEF WorkerTypeOK, Acknowledge
<1>2. task' \in [Worker -> [Source -> TaskState]]
  BY DEF WorkerTypeOK, Acknowledge, TaskState
<1>3. result' \in [Worker -> [Source -> Result \cup {NoResult}]]
  BY DEF WorkerTypeOK, Acknowledge
<1>4. \A v \in Worker, s \in Source :
        task'[v][s] \in {"storing", "done"} => result'[v][s] \in Result
  BY DEF WorkerTypeOK, Acknowledge
<1> QED
  BY <1>1, <1>2, <1>3, <1>4 DEF WorkerTypeOK

(* A fault stays within the budget. *)
LEMMA FaultTyped ==
  ASSUME faults \in 0..MaxFaults, NEW kind, Fault(kind)
  PROVE  faults' \in 0..MaxFaults
BY BoundsAssumption DEF Fault

(* So does a busy worker that moves on to another step. *)
LEMMA MoveTyped ==
  ASSUME WorkerTypeOK, NEW w \in Worker, pc[w] # "idle",
         NEW step \in {"claim", "fetch", "unwind", "failed"},
         pc' = [pc EXCEPT ![w] = step], UNCHANGED job
  PROVE  /\ pc' \in [Worker -> {"idle", "claim", "fetch", "unwind", "failed"}]
         /\ job' \in [Worker -> App \cup {NoApp}]
         /\ \A v \in Worker : pc'[v] = "idle" <=> job'[v] = NoApp
BY DEF WorkerTypeOK

LEMMA MoveOnTyped ==
  ASSUME WorkerTypeOK, NEW w \in Worker, pc[w] # "idle",
         NEW step \in {"claim", "fetch", "unwind", "failed"},
         pc' = [pc EXCEPT ![w] = step], UNCHANGED <<job, taskVars>>
  PROVE  WorkerTypeOK'
BY MoveTyped DEF WorkerTypeOK, taskVars

(* And a coroutine that goes on to another state. *)
LEMMA TaskGoesTyped ==
  ASSUME WorkerTypeOK, NEW w \in Worker, NEW s \in Source,
         NEW state \in TaskState, NEW r \in Result \cup {NoResult},
         state \in {"storing", "done"} => r \in Result,
         TaskGoes(w, s, state, r)
  PROVE  /\ task' \in [Worker -> [Source -> TaskState]]
         /\ result' \in [Worker -> [Source -> Result \cup {NoResult}]]
         /\ \A v \in Worker, t \in Source :
              task'[v][t] \in {"storing", "done"} => result'[v][t] \in Result
BY DEF WorkerTypeOK, TaskGoes

LEMMA TaskGoesOnTyped ==
  ASSUME WorkerTypeOK, NEW w \in Worker, NEW s \in Source,
         NEW state \in TaskState, NEW r \in Result \cup {NoResult},
         state \in {"storing", "done"} => r \in Result,
         TaskGoes(w, s, state, r), UNCHANGED <<pc, job>>
  PROVE  WorkerTypeOK'
BY TaskGoesTyped DEF WorkerTypeOK

(* A pinned row holds a result. *)
LEMMA StoredIsResult ==
  ASSUME RowTypeOK, NEW a \in App, NEW s \in Source, Stored(a, s)
  PROVE  external[a][s] \in Result
BY DEF RowTypeOK, Stored

(* One more audit entry. *)
LEMMA AuditTyped ==
  ASSUME AuditTypeOK, NEW a \in App, NEW k \in Step,
         audit' = [audit EXCEPT ![a][k] = @ + 1]
  PROVE  audit' \in [App -> [Step -> Nat]]
BY DEF AuditTypeOK

(* A worker that has fetched everything has a decision... *)
LEMMA FetchedDecides ==
  ASSUME WorkerTypeOK, NEW w \in Worker, Fetched(w)
  PROVE  result[w] \in [Source -> Result] /\ Verdict[result[w]] \in Decision
<1>1. result[w] \in [Source -> Result]
  <2>1. \A s \in Source : result[w][s] \in Result
    BY DEF Fetched, WorkerTypeOK
  <2>2. result[w] = [s \in Source |-> result[w][s]]
    BY DEF WorkerTypeOK
  <2> QED
    BY <2>1, <2>2
<1> QED
  BY <1>1, VerdictAssumption

(* ... and storing it keeps the types. *)
LEMMA StoreTyped ==
  ASSUME RowTypeOK, AuditTypeOK, NEW w \in Worker, job[w] \in App,
         Verdict[result[w]] \in Decision, StoreProcessingResults(w),
         UNCHANGED <<external, fetchAudit>>
  PROVE  RowTypeOK' /\ AuditTypeOK'
<1> USE Constants
<1>1. CASE AlreadyDecided(job[w])
  BY <1>1 DEF StoreProcessingResults, RowTypeOK, AuditTypeOK, rowVars
<1>2. CASE ~AlreadyDecided(job[w])
  <2>1. audit' \in [App -> [Step -> Nat]]
    BY <1>2, AuditTyped DEF StoreProcessingResults, Step
  <2> QED
    BY <1>2, <2>1, ZenonT(60) DEF StoreProcessingResults, RowTypeOK, AuditTypeOK
<1> QED
  BY <1>1, <1>2

-----------------------------------------------------------------------------
(* Every variable keeps its type, a worker has an application exactly      *)
(* while it is not idle, and a coroutine that is done has a result: each   *)
(* step of Next preserves TypeOK, whatever faults it meets.                *)
THEOREM TypeCorrect == Spec => []TypeOK
<1>1. Init => TypeOK
  BY Constants, BoundsAssumption
     DEF Init, TypeOK, RowTypeOK, DeliveryTypeOK, WorkerTypeOK, AuditTypeOK,
         Step, TaskState
<1>2. TypeOK /\ [Next]_vars => TypeOK'
  <2> SUFFICES ASSUME TypeOK, [Next]_vars PROVE TypeOK'
    OBVIOUS
  <2> USE Constants, BoundsAssumption
      DEF TypeOK, rowVars, relayVars, brokerVars, auditVars
  <2>1. ASSUME NEW a \in App, SubmitApplication(a) PROVE TypeOK'
    BY <2>1 DEF SubmitApplication, RowTypeOK, DeliveryTypeOK, WorkerTypeOK,
                AuditTypeOK, taskVars
  <2>2. CASE RelayStep
    <3>1. UNCHANGED <<rowVars, external, pc, job, taskVars, auditVars>>
      BY <2>2 DEF RelayStep, PollBegin, PollSend, PollSendFails, PollCommit,
         PollRollback
    <3>2. RowTypeOK' /\ WorkerTypeOK' /\ AuditTypeOK'
      BY <3>1 DEF RowTypeOK, WorkerTypeOK, AuditTypeOK, taskVars
    <3>3. DeliveryTypeOK'
      BY <2>2 DEF RelayStep, PollBegin, PollSend, PollSendFails, PollCommit,
         PollRollback, RowAfterPoll, DeliveryTypeOK
    <3>4. faults' \in 0..MaxFaults
      BY <2>2 DEF RelayStep, PollBegin, PollSend, PollSendFails, PollCommit,
         PollRollback, Fault
    <3> QED
      BY <3>2, <3>3, <3>4
  <2>3. ASSUME NEW a \in App,
               Redeliver(a) \/ RedeliverEarly(a) \/ LockExpires(a) \/ LockExpiresEarly(a)
        PROVE TypeOK'
    <3>1. WorkerTypeOK' /\ AuditTypeOK'
      BY <2>3 DEF Redeliver, RedeliverEarly, LockExpires, LockExpiresEarly,
         WorkerTypeOK, AuditTypeOK, taskVars
    <3>2. faults' \in 0..MaxFaults
      BY <2>3, FaultTyped DEF Redeliver, RedeliverEarly, LockExpires, LockExpiresEarly
    <3>3. CASE Redeliver(a) \/ RedeliverEarly(a)
      <4>1. unacked[a] - 1 \in Nat /\ queue[a] + 1 \in Nat
        BY <3>3 DEF Redeliver, RedeliverEarly, DeliveryTypeOK
      <4>2. queue' \in [App -> Nat] /\ unacked' \in [App -> Nat]
        BY <3>3, <4>1 DEF Redeliver, RedeliverEarly, DeliveryTypeOK
      <4>3. UNCHANGED <<rowVars, external, relayVars>> /\ lost' \in [App -> BOOLEAN]
        BY <3>3 DEF Redeliver, RedeliverEarly, RowTypeOK, DeliveryTypeOK
      <4> QED
        BY <3>1, <3>2, <4>2, <4>3 DEF RowTypeOK, DeliveryTypeOK
    <3>4. CASE LockExpires(a) \/ LockExpiresEarly(a)
      BY <3>1, <3>2, <3>4 DEF LockExpires, LockExpiresEarly, RowTypeOK, DeliveryTypeOK
    <3> QED
      BY <2>3, <3>3, <3>4
  <2>4. ASSUME NEW a \in App, NEW w \in Worker, Receive(w, a) PROVE TypeOK'
    <3>1. WorkerTypeOK'
      BY <2>4, NoAppAssumption DEF Receive, WorkerTypeOK, taskVars
    <3> QED
      BY <2>4, <3>1 DEF Receive, RowTypeOK, DeliveryTypeOK, AuditTypeOK
  <2>5. ASSUME NEW w \in Worker, ClaimApplication(w) PROVE TypeOK'
    <3>1. job[w] \in App
      BY <2>5, BusyWorker DEF ClaimApplication
    <3>2. WorkerTypeOK'
      BY <2>5, MoveOnTyped DEF ClaimApplication
    <3>3. AuditTypeOK'
      BY <2>5, <3>1, AuditTyped DEF ClaimApplication, AuditTypeOK, Step
    <3> QED
      BY <2>5, <3>1, <3>2, <3>3 DEF ClaimApplication, RowTypeOK, DeliveryTypeOK
  <2>6. ASSUME NEW w \in Worker, ClaimRefused(w) PROVE TypeOK'
    BY <2>6, AcknowledgeTyped
       DEF ClaimRefused, RowTypeOK, DeliveryTypeOK, AuditTypeOK
  <2>7. ASSUME NEW w \in Worker, FetchStep(w) PROVE TypeOK'
    <3> PICK s \in Source :
          \/ ReuseExternal(w, s) \/ CallService(w, s)
          \/ \E r \in Result : ServiceReturns(w, s, r)
          \/ StoreExternal(w, s) \/ StoreExternalConflicts(w, s)
      BY <2>7 DEF FetchStep
    <3> DEFINE a == job[w]
    <3>1. a \in App
      BY BusyWorker DEF ReuseExternal, CallService, ServiceReturns, StoreExternal,
             StoreExternalConflicts, Fetching, InPipeline
    <3>2. CASE ReuseExternal(w, s) \/ CallService(w, s)
      <4>1. WorkerTypeOK'
        BY <3>1, <3>2, StoredIsResult, TaskGoesOnTyped
           DEF ReuseExternal, CallService, TaskState
      <4> QED
        BY <3>2, <4>1 DEF ReuseExternal, CallService, RowTypeOK, DeliveryTypeOK,
           AuditTypeOK
    <3>3. ASSUME NEW r \in Result, ServiceReturns(w, s, r) PROVE TypeOK'
      <4>1. WorkerTypeOK'
        BY <3>1, <3>3, StoredIsResult, TaskGoesOnTyped DEF ServiceReturns, TaskState
      <4> QED
        BY <3>3, <4>1 DEF ServiceReturns, RowTypeOK, DeliveryTypeOK, AuditTypeOK
    <3>4. CASE StoreExternal(w, s)
      <4>1. result[w][s] \in Result
        BY <3>4 DEF StoreExternal, WorkerTypeOK
      <4>2. WorkerTypeOK'
        BY <3>4, <4>1, TaskGoesOnTyped DEF StoreExternal, TaskState
      <4>3. external' \in [App -> [Source -> Result \cup {NoResult}]]
        BY <3>4, <3>1, <4>1 DEF StoreExternal, RowTypeOK
      <4>4. fetchAudit' \in [App -> [Source -> Nat]]
        BY <3>4, <3>1 DEF StoreExternal, AuditTypeOK
      <4> QED
        BY <3>4, <4>2, <4>3, <4>4 DEF StoreExternal, RowTypeOK, DeliveryTypeOK,
           AuditTypeOK
    <3>5. CASE StoreExternalConflicts(w, s)
      <4>1. WorkerTypeOK'
        BY <3>5, MoveTyped, TaskGoesTyped
           DEF StoreExternalConflicts, InPipeline, TaskState, WorkerTypeOK
      <4> QED
        BY <3>5, <4>1 DEF StoreExternalConflicts, RowTypeOK, DeliveryTypeOK,
           AuditTypeOK
    <3> QED
      BY <3>2, <3>3, <3>4, <3>5
  <2>8. ASSUME NEW w \in Worker, DecideAndStore(w) PROVE TypeOK'
    <3>1. RowTypeOK' /\ AuditTypeOK'
      BY <2>8, BusyWorker, FetchedDecides, StoreTyped DEF DecideAndStore, Fetched
    <3>2. WorkerTypeOK'
      BY <2>8, AcknowledgeTyped DEF DecideAndStore
    <3> QED
      BY <2>8, <3>1, <3>2 DEF DecideAndStore, DeliveryTypeOK
  <2>9. ASSUME NEW w \in Worker, MarkManualReview(w) PROVE TypeOK'
    <3>1. job[w] \in App
      BY <2>9, BusyWorker DEF MarkManualReview, Handling
    <3>2. WorkerTypeOK'
      BY <2>9, AcknowledgeTyped DEF MarkManualReview
    <3>3. AuditTypeOK'
      BY <2>9, <3>1, AuditTyped DEF MarkManualReview, AuditTypeOK, Step
    <3> QED
      BY <2>9, <3>1, <3>2, <3>3 DEF MarkManualReview, RowTypeOK, DeliveryTypeOK
  <2>10. ASSUME NEW w \in Worker, WorkerCrash(w) PROVE TypeOK'
    <3>1. job[w] \in App /\ WorkerTypeOK' /\ faults' \in 0..MaxFaults
      BY <2>10, BusyWorker, AcknowledgeTyped, FaultTyped DEF WorkerCrash
    <3> QED
      BY <2>10, <3>1 DEF WorkerCrash, RowTypeOK, DeliveryTypeOK, AuditTypeOK
  <2>11. ASSUME NEW w \in Worker, PoolChildKilled(w) \/ MarkRaises(w) PROVE TypeOK'
    <3>1. job[w] \in App /\ WorkerTypeOK' /\ faults' \in 0..MaxFaults
      BY <2>11, BusyWorker, AcknowledgeTyped, FaultTyped
         DEF PoolChildKilled, MarkRaises, Handling
    <3> QED
      BY <2>11, <3>1, ZenonT(60)
         DEF PoolChildKilled, MarkRaises, RowTypeOK, DeliveryTypeOK, AuditTypeOK
  <2>12. ASSUME NEW w \in Worker,
                ClaimRaises(w) \/ TaskTimeout(w) \/ StoreRaises(w)
         PROVE TypeOK'
    <3>1. WorkerTypeOK'
      BY <2>12, MoveOnTyped
         DEF ClaimRaises, TaskTimeout, StoreRaises, Fetching, InPipeline, Fetched
    <3> QED
      BY <2>12, <3>1 DEF ClaimRaises, TaskTimeout, StoreRaises, Fault, RowTypeOK,
         DeliveryTypeOK, AuditTypeOK
  <2>13. ASSUME NEW w \in Worker, NEW s \in Source, FetchRaises(w, s) PROVE TypeOK'
    <3>1. WorkerTypeOK'
      BY <2>13, MoveTyped, TaskGoesTyped
         DEF FetchRaises, InPipeline, TaskState, WorkerTypeOK
    <3> QED
      BY <2>13, <3>1 DEF FetchRaises, Fault, RowTypeOK, DeliveryTypeOK, AuditTypeOK
  <2>14. ASSUME NEW w \in Worker, StoreCommitUnheard(w) PROVE TypeOK'
    <3>1. RowTypeOK' /\ AuditTypeOK'
      BY <2>14, BusyWorker, FetchedDecides, StoreTyped
         DEF StoreCommitUnheard, Fetched
    <3>2. WorkerTypeOK'
      BY <2>14, MoveOnTyped DEF StoreCommitUnheard, Fetched
    <3> QED
      BY <2>14, <3>1, <3>2 DEF StoreCommitUnheard, Fault, DeliveryTypeOK
  <2>15. CASE UNCHANGED vars
    BY <2>15 DEF vars, RowTypeOK, DeliveryTypeOK, WorkerTypeOK, AuditTypeOK, taskVars
  <2> QED
    BY <2>1, <2>2, <2>3, <2>4, <2>5, <2>6, <2>7, <2>8, <2>9, <2>10, <2>11, <2>12,
       <2>13, <2>14, <2>15
       DEF Next, BrokerStep, WorkerStep, WorkerFault, Done
<1> QED
  BY <1>1, <1>2, PTL DEF Spec

-----------------------------------------------------------------------------
(* The rows follow the lifecycle. *)

(* Nothing is in flight for an application that does not exist, and a      *)
(* worker past its claim has a row that is past PENDING.                   *)
LifecycleInv ==
  /\ \A a \in App : status[a] = "ABSENT" =>
       outbox[a] = "NONE" /\ batch[a] = "out" /\ queue[a] = 0 /\ unacked[a] = 0
  /\ \A w \in Worker : pc[w] # "idle" => status[job[w]] # "ABSENT"
  /\ \A w \in Worker : InPipeline(w) => status[job[w]] # "PENDING"

(* What a step does to a row: one of the lifecycle's transitions or none. *)
RowStep == \E a \in App :
  \/ Lifecycle!Submit(a) \/ Lifecycle!Start(a) \/ Lifecycle!Escalate(a)
  \/ \E d \in Decision : Lifecycle!Conclude(a, d)

LEMMA LifecycleInit == Init => LifecycleInv
BY DEF Init, LifecycleInv, InPipeline

(* Storing the results concludes a row that is PROCESSING, or does nothing. *)
LEMMA StoreConcludes ==
  ASSUME TypeOK, LifecycleInv, NEW w \in Worker, Fetched(w),
         StoreProcessingResults(w)
  PROVE  \/ UNCHANGED <<status, decision>>
         \/ Lifecycle!Conclude(job[w], Verdict[result[w]])
<1>1. job[w] \in App
  BY BusyWorker DEF TypeOK, Fetched
<1>2. status[job[w]] \in {"PROCESSING", "COMPLETED", "MANUAL_REVIEW"}
  BY <1>1, Constants DEF LifecycleInv, Fetched, InPipeline, TypeOK, RowTypeOK
<1>3. CASE AlreadyDecided(job[w])
  BY <1>3 DEF StoreProcessingResults, rowVars
<1>4. CASE ~AlreadyDecided(job[w])
  BY <1>2, <1>4, Constants
     DEF StoreProcessingResults, AlreadyDecided, Lifecycle!Conclude
<1> QED
  BY <1>3, <1>4

(* A step that keeps status and the workers' positions keeps LifecycleInv  *)
(* when it delivers nothing to an application that does not exist.         *)
LEMMA LifecycleFrame ==
  ASSUME LifecycleInv, UNCHANGED <<status, pc, job, outbox, batch, queue, unacked>>
  PROVE  LifecycleInv'
BY DEF LifecycleInv, InPipeline

LEMMA LifecycleStep ==
  ASSUME TypeOK, LifecycleInv, [Next]_vars
  PROVE  LifecycleInv' /\ (RowStep \/ UNCHANGED <<status, decision>>)
<1> USE Constants DEF TypeOK, rowVars, relayVars, brokerVars
<1>1. ASSUME NEW a \in App, SubmitApplication(a)
      PROVE  LifecycleInv' /\ RowStep
  <2>1. RowStep
    BY <1>1 DEF SubmitApplication, RowStep, Lifecycle!Submit
  <2>2. \A w \in Worker : pc[w] # "idle" => job[w] \in App /\ job[w] # a
    BY <1>1, BusyWorker DEF SubmitApplication, LifecycleInv
  <2>3. LifecycleInv'
    BY <1>1, <2>2 DEF SubmitApplication, LifecycleInv, InPipeline, RowTypeOK,
       DeliveryTypeOK
  <2> QED
    BY <2>1, <2>3
<1>2. CASE RelayStep
  <2>1. UNCHANGED <<status, decision, pc, job, unacked>>
    BY <1>2 DEF RelayStep, PollBegin, PollSend, PollSendFails, PollCommit,
       PollRollback
  <2>2. \A a \in App : status[a] = "ABSENT" =>
          outbox'[a] = "NONE" /\ batch'[a] = "out" /\ queue'[a] = 0
    BY <1>2 DEF RelayStep, PollBegin, PollSend, PollSendFails, PollCommit,
       PollRollback, RowAfterPoll, Outstanding, LifecycleInv, DeliveryTypeOK
  <2> QED
    BY <2>1, <2>2 DEF LifecycleInv, InPipeline
<1>3. ASSUME NEW a \in App, Redeliver(a) \/ RedeliverEarly(a)
      PROVE  LifecycleInv' /\ UNCHANGED <<status, decision>>
  BY <1>3 DEF Redeliver, RedeliverEarly, LifecycleInv, InPipeline, DeliveryTypeOK
<1>4. ASSUME NEW a \in App, LockExpires(a) \/ LockExpiresEarly(a)
      PROVE  LifecycleInv' /\ UNCHANGED <<status, decision>>
  BY <1>4, LifecycleFrame DEF LockExpires, LockExpiresEarly
<1>5. ASSUME NEW a \in App, NEW w \in Worker, Receive(w, a)
      PROVE  LifecycleInv' /\ UNCHANGED <<status, decision>>
  BY <1>5 DEF Receive, LifecycleInv, InPipeline, DeliveryTypeOK, WorkerTypeOK
<1>6. ASSUME NEW w \in Worker, ClaimApplication(w)
      PROVE  LifecycleInv' /\ (RowStep \/ UNCHANGED <<status, decision>>)
  <2>1. job[w] \in App
    BY <1>6, BusyWorker DEF ClaimApplication
  <2>2. LifecycleInv'
    BY <1>6, <2>1 DEF ClaimApplication, LifecycleInv, InPipeline, RowTypeOK,
       WorkerTypeOK
  <2>3. status[job[w]] = "PENDING" => RowStep
    BY <1>6, <2>1 DEF ClaimApplication, RowStep, Lifecycle!Start
  <2>4. status[job[w]] = "PROCESSING" => UNCHANGED <<status, decision>>
    BY <1>6, <2>1 DEF ClaimApplication, RowTypeOK
  <2> QED
    BY <1>6, <2>2, <2>3, <2>4 DEF ClaimApplication, Claimable
<1>7. ASSUME NEW w \in Worker, ClaimRefused(w) \/ PoolChildKilled(w) \/ MarkRaises(w)
      PROVE  LifecycleInv' /\ UNCHANGED <<status, decision>>
  BY <1>7, ZenonT(60) DEF ClaimRefused, PoolChildKilled, MarkRaises, Acknowledge, LifecycleInv,
     InPipeline, WorkerTypeOK
<1>8. ASSUME NEW w \in Worker, WorkerCrash(w)
      PROVE  LifecycleInv' /\ UNCHANGED <<status, decision>>
  BY <1>8, BusyWorker DEF WorkerCrash, Acknowledge, LifecycleInv, InPipeline,
     WorkerTypeOK, DeliveryTypeOK
<1>9. ASSUME NEW w \in Worker, NEW s \in Source,
             \/ ReuseExternal(w, s) \/ CallService(w, s)
             \/ \E r \in Result : ServiceReturns(w, s, r)
             \/ StoreExternal(w, s)
      PROVE  LifecycleInv' /\ UNCHANGED <<status, decision>>
  BY <1>9, LifecycleFrame
     DEF ReuseExternal, CallService, ServiceReturns, StoreExternal
<1>10. ASSUME NEW w \in Worker, NEW s \in Source,
              StoreExternalConflicts(w, s) \/ FetchRaises(w, s)
       PROVE  LifecycleInv' /\ UNCHANGED <<status, decision>>
  BY <1>10 DEF StoreExternalConflicts, FetchRaises, LifecycleInv, InPipeline,
     WorkerTypeOK
<1>11. ASSUME NEW w \in Worker, ClaimRaises(w) \/ TaskTimeout(w) \/ StoreRaises(w)
       PROVE  LifecycleInv' /\ UNCHANGED <<status, decision>>
  BY <1>11 DEF ClaimRaises, TaskTimeout, StoreRaises, Fetching, Fetched,
     LifecycleInv, InPipeline, WorkerTypeOK
<1>12. ASSUME NEW w \in Worker, DecideAndStore(w) \/ StoreCommitUnheard(w)
       PROVE  LifecycleInv' /\ (RowStep \/ UNCHANGED <<status, decision>>)
  <2>1. Fetched(w) /\ StoreProcessingResults(w) /\ UNCHANGED <<relayVars, brokerVars>>
    BY <1>12 DEF DecideAndStore, StoreCommitUnheard
  <2>2. job[w] \in App /\ Verdict[result[w]] \in Decision
    BY <2>1, BusyWorker, FetchedDecides DEF Fetched
  <2>3. \/ UNCHANGED <<status, decision>>
        \/ Lifecycle!Conclude(job[w], Verdict[result[w]])
    BY <2>1, StoreConcludes
  <2>4. \A a \in App : /\ status'[a] = "ABSENT" => status[a] = "ABSENT"
                       /\ status[a] # "ABSENT" => status'[a] # "ABSENT"
                       /\ status[a] # "PENDING" => status'[a] # "PENDING"
    BY <2>2, <2>3 DEF Lifecycle!Conclude, RowTypeOK
  <2>5. \A v \in Worker : v # w => pc'[v] = pc[v] /\ job'[v] = job[v]
    BY <1>12 DEF DecideAndStore, StoreCommitUnheard, Acknowledge, WorkerTypeOK
  <2>6. pc'[w] = "idle" \/ (pc'[w] = "failed" /\ job'[w] = job[w])
    BY <1>12 DEF DecideAndStore, StoreCommitUnheard, Acknowledge, WorkerTypeOK
  <2>7. pc[w] # "idle"
    BY <2>1 DEF Fetched
  <2>8. \A v \in Worker : pc[v] # "idle" => job[v] \in App
    BY BusyWorker
  <2>9. LifecycleInv'
    BY <2>1, <2>4, <2>5, <2>6, <2>7, <2>8 DEF LifecycleInv, InPipeline
  <2> QED
    BY <2>2, <2>3, <2>9 DEF RowStep
<1>13. ASSUME NEW w \in Worker, MarkManualReview(w)
       PROVE  LifecycleInv' /\ RowStep
  <2>1. job[w] \in App /\ status[job[w]] # "ABSENT"
    BY <1>13, BusyWorker DEF MarkManualReview, Handling, LifecycleInv
  <2>2. RowStep
    BY <1>13, <2>1 DEF MarkManualReview, RowStep, Lifecycle!Escalate
  <2>3. \A v \in Worker : pc'[v] # "idle" =>
          v # w /\ pc'[v] = pc[v] /\ job'[v] = job[v] /\ job[v] \in App
    BY <1>13, BusyWorker DEF MarkManualReview, Acknowledge, WorkerTypeOK
  <2>4. LifecycleInv'
    <3>1. \A a \in App : status'[a] = IF a = job[w] THEN "MANUAL_REVIEW" ELSE status[a]
      BY <1>13, <2>1 DEF MarkManualReview, RowTypeOK
    <3>2. UNCHANGED <<outbox, batch, queue, unacked>>
      BY <1>13 DEF MarkManualReview
    <3> QED
      BY <2>3, <3>1, <3>2 DEF LifecycleInv, InPipeline
  <2> QED
    BY <2>1, <2>2, <2>4
<1>14. CASE UNCHANGED vars
  BY <1>14, LifecycleFrame DEF vars
<1> QED
  BY <1>1, <1>2, <1>3, <1>4, <1>5, <1>6, <1>7, <1>8, <1>9, <1>10, <1>11, <1>12,
     <1>13, <1>14
     DEF Next, BrokerStep, WorkerStep, FetchStep, WorkerFault, Done

THEOREM LifecycleInvariant == Spec => []LifecycleInv
<1>1. TypeOK /\ LifecycleInv /\ [Next]_vars => LifecycleInv'
  BY LifecycleStep
<1> QED
  BY <1>1, LifecycleInit, TypeCorrect, PTL DEF Spec

(* The pipeline implements the application lifecycle: whatever the faults, *)
(* no step revives a terminal application or automates a manual review.    *)
THEOREM ImplementsLifecycle == Spec => FollowsLifecycle
<1>1. Init => Lifecycle!Init
  BY DEF Init, Lifecycle!Init, NoDecision
<1>2. TypeOK /\ LifecycleInv /\ [Next]_vars => [Lifecycle!Next]_<<status, decision>>
  BY LifecycleStep DEF RowStep, Lifecycle!Next, Decision
<1> QED
  BY <1>1, <1>2, TypeCorrect, LifecycleInvariant, PTL
     DEF Spec, FollowsLifecycle, Lifecycle!Spec

-----------------------------------------------------------------------------
(* Decisions rest on the pinned evidence. *)

(* A coroutine that is done holds the pinned row; what is recorded is the  *)
(* verdict on complete evidence; the row agrees with the log.              *)
CoroutineInv == \A w \in Worker, s \in Source :
  task[w][s] = "done" => /\ pc[w] # "idle"
                         /\ external[job[w]][s] = result[w][s]
                         /\ result[w][s] \in Result

RecordInv == \A a \in App : recorded[a] # NoDecision =>
  /\ status[a] \in Terminal
  /\ recorded[a] \in Decision
  /\ \A s \in Source : Stored(a, s)
  /\ recorded[a] = Verdict[external[a]]

LogInv == \A a \in App :
  /\ audit[a]["DECISION_CALCULATION"] = IF recorded[a] = NoDecision THEN 0 ELSE 1
  /\ status[a] # "MANUAL_REVIEW" => audit[a]["SYSTEM_ERROR"] = 0
  /\ status[a] = "COMPLETED" => recorded[a] = decision[a] /\ recorded[a] # NoDecision
  /\ status[a] = "MANUAL_REVIEW" => \/ recorded[a] = "NEEDS_REVIEW"
                                    \/ audit[a]["SYSTEM_ERROR"] > 0

EvidenceInv == CoroutineInv /\ RecordInv /\ LogInv /\ OneFetchPerSource

LEMMA EvidenceInit == Init => EvidenceInv
BY Constants DEF Init, EvidenceInv, CoroutineInv, RecordInv, LogInv,
   OneFetchPerSource, Stored, Step

(* The rows, the evidence and the log unchanged, and no coroutine done     *)
(* that was not.                                                           *)
LEMMA EvidenceFrame ==
  ASSUME EvidenceInv, UNCHANGED <<status, decision, external, auditVars>>,
         \A w \in Worker, s \in Source : task'[w][s] = "done" =>
           /\ task[w][s] = "done" /\ pc'[w] # "idle"
           /\ job'[w] = job[w] /\ result'[w][s] = result[w][s]
  PROVE  EvidenceInv'
<1>1. CoroutineInv'
  BY DEF EvidenceInv, CoroutineInv
<1>2. RecordInv' /\ LogInv' /\ OneFetchPerSource'
  BY DEF EvidenceInv, RecordInv, LogInv, OneFetchPerSource, Stored, auditVars
<1> QED
  BY <1>1, <1>2 DEF EvidenceInv

LEMMA AcknowledgeIdle ==
  ASSUME WorkerTypeOK, NEW w \in Worker, Acknowledge(w)
  PROVE  /\ pc'[w] = "idle" /\ \A s \in Source : task'[w][s] = "start"
         /\ \A v \in Worker \ {w} : /\ pc'[v] = pc[v] /\ job'[v] = job[v]
                                    /\ task'[v] = task[v] /\ result'[v] = result[v]
BY DEF WorkerTypeOK, Acknowledge

(* Every source done: the results are the pinned rows. *)
LEMMA FetchedIsPinned ==
  ASSUME RowTypeOK, WorkerTypeOK, CoroutineInv, NEW w \in Worker, Fetched(w)
  PROVE  /\ job[w] \in App /\ result[w] = external[job[w]]
         /\ \A s \in Source : Stored(job[w], s)
<1>1. job[w] \in App
  BY BusyWorker DEF Fetched
<1>2. \A s \in Source : external[job[w]][s] = result[w][s] /\ result[w][s] \in Result
  BY DEF Fetched, CoroutineInv
<1>3. result[w] = external[job[w]]
  BY <1>1, <1>2 DEF RowTypeOK, WorkerTypeOK
<1> QED
  BY <1>1, <1>2, <1>3, NoResultAssumption DEF Stored

LEMMA StoreEvidence ==
  ASSUME TypeOK, EvidenceInv, NEW w \in Worker, Fetched(w),
         StoreProcessingResults(w), UNCHANGED <<external, fetchAudit>>
  PROVE  RecordInv' /\ LogInv' /\ OneFetchPerSource'
<1> DEFINE a == job[w]
           d == Verdict[result[w]]
<1>1. a \in App /\ result[w] = external[a] /\ \A s \in Source : Stored(a, s)
  BY FetchedIsPinned DEF TypeOK, EvidenceInv
<1>2. d \in Decision
  BY FetchedDecides DEF TypeOK
<1>3. OneFetchPerSource'
  BY DEF EvidenceInv, OneFetchPerSource, Stored
<1>4. CASE AlreadyDecided(a)
  BY <1>3, <1>4 DEF StoreProcessingResults, EvidenceInv, RecordInv, LogInv, Stored,
     rowVars
<1>5. CASE ~AlreadyDecided(a)
  <2> DEFINE st == Lifecycle!StatusForDecision(d)
  <2>1. \A b \in App : /\ status'[b] = IF b = a THEN st ELSE status[b]
                       /\ decision'[b] = IF b = a THEN d ELSE decision[b]
                       /\ recorded'[b] = IF b = a THEN d ELSE recorded[b]
    BY <1>1, <1>5 DEF StoreProcessingResults, TypeOK, RowTypeOK, AuditTypeOK
  <2>2. \A b \in App : audit'[b] =
          IF b = a THEN [audit[a] EXCEPT !["DECISION_CALCULATION"] = @ + 1]
                   ELSE audit[b]
    BY <1>1, <1>5 DEF StoreProcessingResults, TypeOK, AuditTypeOK
  <2>3. recorded[a] = NoDecision /\ status[a] # "MANUAL_REVIEW"
    BY <1>1, <1>5, Constants DEF EvidenceInv, RecordInv, AlreadyDecided
  <2>4. /\ audit'[a]["DECISION_CALCULATION"] = 1
        /\ audit'[a]["SYSTEM_ERROR"] = 0
    BY <1>1, <2>2, <2>3 DEF EvidenceInv, LogInv, TypeOK, AuditTypeOK, Step
  <2>5. st \in Terminal /\ d # NoDecision /\ (st = "MANUAL_REVIEW" => d = "NEEDS_REVIEW")
    BY <1>2, Constants
  <2>6. RecordInv'
    BY <1>1, <1>2, <2>1, <2>5 DEF EvidenceInv, RecordInv, Stored
  <2>7. LogInv'
    BY <2>1, <2>2, <2>4, <2>5 DEF EvidenceInv, LogInv
  <2> QED
    BY <1>3, <2>6, <2>7
<1> QED
  BY <1>4, <1>5

LEMMA EvidenceStep ==
  ASSUME TypeOK, EvidenceInv, [Next]_vars
  PROVE  EvidenceInv'
<1> USE DEF TypeOK, rowVars, relayVars, brokerVars
<1>1. ASSUME NEW a \in App, SubmitApplication(a) PROVE EvidenceInv'
  <2>1. CoroutineInv' /\ RecordInv' /\ OneFetchPerSource'
    BY <1>1, Constants DEF SubmitApplication, EvidenceInv, CoroutineInv, RecordInv,
       OneFetchPerSource, Stored, RowTypeOK, taskVars, auditVars
  <2>2. LogInv'
    BY <1>1 DEF SubmitApplication, EvidenceInv, LogInv, RowTypeOK, auditVars
  <2> QED
    BY <2>1, <2>2 DEF EvidenceInv
<1>2. CASE RelayStep
  <2>1. UNCHANGED <<rowVars, external, pc, job, taskVars, auditVars>>
    BY <1>2 DEF RelayStep, PollBegin, PollSend, PollSendFails, PollCommit,
       PollRollback
  <2> QED
    BY <2>1, EvidenceFrame DEF taskVars, EvidenceInv, CoroutineInv
<1>3. ASSUME NEW a \in App, \/ Redeliver(a) \/ RedeliverEarly(a)
                            \/ LockExpires(a) \/ LockExpiresEarly(a)
      PROVE  EvidenceInv'
  <2>1. UNCHANGED <<status, decision, external, pc, job, taskVars, auditVars>>
    BY <1>3 DEF Redeliver, RedeliverEarly, LockExpires, LockExpiresEarly
  <2> QED
    BY <2>1, EvidenceFrame DEF taskVars, EvidenceInv, CoroutineInv
<1>4. ASSUME NEW a \in App, NEW w \in Worker, Receive(w, a) PROVE EvidenceInv'
  BY <1>4, EvidenceFrame DEF Receive, taskVars, EvidenceInv, CoroutineInv, WorkerTypeOK
<1>5. ASSUME NEW w \in Worker, ClaimApplication(w) PROVE EvidenceInv'
  <2>1. job[w] \in App
    BY <1>5, BusyWorker DEF ClaimApplication
  <2>2. CoroutineInv'
    BY <1>5 DEF ClaimApplication, EvidenceInv, CoroutineInv, WorkerTypeOK, taskVars
  <2>3. status[job[w]] \notin Terminal
    BY <1>5, Constants DEF ClaimApplication, Claimable
  <2>4. RecordInv' /\ OneFetchPerSource'
    BY <1>5, <2>1, <2>3 DEF ClaimApplication, EvidenceInv, RecordInv,
       OneFetchPerSource, Stored, RowTypeOK
  <2>5. \A b \in App : /\ audit'[b]["SYSTEM_ERROR"] = audit[b]["SYSTEM_ERROR"]
                       /\ audit'[b]["DECISION_CALCULATION"] = audit[b]["DECISION_CALCULATION"]
    BY <1>5, <2>1 DEF ClaimApplication, AuditTypeOK, Step
  <2>6. LogInv'
    BY <1>5, <2>1, <2>3, <2>5, Constants DEF ClaimApplication, EvidenceInv, LogInv,
       RowTypeOK
  <2> QED
    BY <2>2, <2>4, <2>6 DEF EvidenceInv
<1>6. ASSUME NEW w \in Worker, \/ ClaimRefused(w) \/ WorkerCrash(w)
                               \/ PoolChildKilled(w) \/ MarkRaises(w)
      PROVE  EvidenceInv'
  <2>1. Acknowledge(w) /\ UNCHANGED <<status, decision, external, auditVars>>
    BY <1>6 DEF ClaimRefused, WorkerCrash, PoolChildKilled, MarkRaises
  <2> QED
    BY <2>1, AcknowledgeIdle, EvidenceFrame DEF EvidenceInv, CoroutineInv
<1>7. ASSUME NEW w \in Worker, NEW s \in Source,
             \/ ReuseExternal(w, s) \/ CallService(w, s)
             \/ \E r \in Result : ServiceReturns(w, s, r)
      PROVE  EvidenceInv'
  <2>1. UNCHANGED <<status, decision, external, pc, job, auditVars>> /\ pc[w] # "idle"
    BY <1>7 DEF ReuseExternal, CallService, ServiceReturns, Fetching, InPipeline
  <2>2. job[w] \in App
    BY <2>1, BusyWorker
  <2>3. \A v \in Worker, t \in Source : v # w \/ t # s =>
          task'[v][t] = task[v][t] /\ result'[v][t] = result[v][t]
    BY <1>7 DEF ReuseExternal, CallService, ServiceReturns, TaskGoes, WorkerTypeOK
  <2>4. task'[w][s] = "done" =>
          result'[w][s] = external[job[w]][s] /\ Stored(job[w], s)
    BY <1>7 DEF ReuseExternal, CallService, ServiceReturns, TaskGoes, WorkerTypeOK
  <2>5. CoroutineInv'
    BY <2>1, <2>2, <2>3, <2>4, StoredIsResult DEF EvidenceInv, CoroutineInv
  <2>6. RecordInv' /\ LogInv' /\ OneFetchPerSource'
    BY <2>1 DEF EvidenceInv, RecordInv, LogInv, OneFetchPerSource, Stored, auditVars
  <2> QED
    BY <2>5, <2>6 DEF EvidenceInv
<1>8. ASSUME NEW w \in Worker, NEW s \in Source, StoreExternal(w, s)
      PROVE  EvidenceInv'
  <2> DEFINE a == job[w]
  <2>1. a \in App /\ ~Stored(a, s) /\ result[w][s] \in Result
    BY <1>8, BusyWorker DEF StoreExternal, InPipeline, WorkerTypeOK
  <2>2. \A b \in App, t \in Source : external'[b][t] =
          IF b = a /\ t = s THEN result[w][s] ELSE external[b][t]
    BY <1>8, <2>1 DEF StoreExternal, RowTypeOK
  <2>3. \A b \in App : recorded[b] # NoDecision => b # a
    BY <2>1 DEF EvidenceInv, RecordInv
  <2>4. \A b \in App : b # a => external'[b] = external[b]
    BY <1>8, <2>1 DEF StoreExternal, RowTypeOK
  <2>5. RecordInv' /\ LogInv'
    BY <1>8, <2>3, <2>4 DEF StoreExternal, EvidenceInv, RecordInv, LogInv, Stored
  <2>6. OneFetchPerSource'
    <3>1. \A b \in App, t \in Source : fetchAudit'[b][t] =
            IF b = a /\ t = s THEN fetchAudit[a][s] + 1 ELSE fetchAudit[b][t]
      BY <1>8, <2>1 DEF StoreExternal, AuditTypeOK
    <3>2. fetchAudit[a][s] = 0
      BY <2>1 DEF EvidenceInv, OneFetchPerSource
    <3> QED
      BY <2>1, <2>2, <3>1, <3>2, NoResultAssumption
         DEF EvidenceInv, OneFetchPerSource, Stored
  <2>7. \A v \in Worker, t \in Source : v # w \/ t # s =>
          task'[v][t] = task[v][t] /\ result'[v][t] = result[v][t]
    BY <1>8 DEF StoreExternal, TaskGoes, WorkerTypeOK
  <2>8. result'[w][s] = result[w][s] /\ pc' = pc /\ job' = job /\ pc[w] # "idle"
    BY <1>8 DEF StoreExternal, TaskGoes, WorkerTypeOK, InPipeline
  <2>9. \A v \in Worker, t \in Source : task[v][t] = "done" => Stored(job[v], t)
    BY NoResultAssumption DEF EvidenceInv, CoroutineInv, Stored
  <2>10. CoroutineInv'
    <3> SUFFICES ASSUME NEW v \in Worker, NEW t \in Source, task'[v][t] = "done"
                 PROVE  /\ pc[v] # "idle" /\ result'[v][t] \in Result
                        /\ external'[job[v]][t] = result'[v][t]
      BY <2>8 DEF CoroutineInv
    <3>1. CASE v = w /\ t = s
      BY <2>1, <2>2, <2>8, <3>1
    <3>2. CASE v # w \/ t # s
      <4>1. /\ task[v][t] = "done" /\ pc[v] # "idle" /\ result'[v][t] = result[v][t]
            /\ result[v][t] \in Result /\ external[job[v]][t] = result[v][t]
        BY <2>7, <3>2 DEF EvidenceInv, CoroutineInv
      <4>2. job[v] \in App /\ Stored(job[v], t)
        BY <2>9, <4>1, BusyWorker
      <4> QED
        BY <2>1, <2>2, <4>1, <4>2
    <3> QED
      BY <3>1, <3>2
  <2> QED
    BY <2>5, <2>6, <2>10 DEF EvidenceInv
<1>9. ASSUME NEW w \in Worker, NEW s \in Source,
             StoreExternalConflicts(w, s) \/ FetchRaises(w, s)
      PROVE  EvidenceInv'
  <2>1. /\ UNCHANGED <<status, decision, external, job, auditVars>>
        /\ TaskGoes(w, s, "failed", NoResult)
        /\ pc' = [pc EXCEPT ![w] = "unwind"]
    BY <1>9 DEF StoreExternalConflicts, FetchRaises
  <2>2. \A v \in Worker, t \in Source : task'[v][t] = "done" =>
          /\ task[v][t] = "done" /\ result'[v][t] = result[v][t] /\ pc'[v] # "idle"
    BY <2>1 DEF TaskGoes, WorkerTypeOK, EvidenceInv, CoroutineInv
  <2> QED
    BY <2>1, <2>2, EvidenceFrame
<1>10. ASSUME NEW w \in Worker, ClaimRaises(w) \/ TaskTimeout(w) \/ StoreRaises(w)
       PROVE  EvidenceInv'
  <2>1. /\ UNCHANGED <<status, decision, external, job, taskVars, auditVars>>
        /\ pc' = [pc EXCEPT ![w] = "failed"]
    BY <1>10 DEF ClaimRaises, TaskTimeout, StoreRaises
  <2>2. \A v \in Worker : pc[v] # "idle" => pc'[v] # "idle"
    BY <2>1 DEF WorkerTypeOK
  <2> QED
    BY <2>1, <2>2, EvidenceFrame DEF taskVars, EvidenceInv, CoroutineInv
<1>11. ASSUME NEW w \in Worker, DecideAndStore(w) PROVE EvidenceInv'
  <2>1. RecordInv' /\ LogInv' /\ OneFetchPerSource'
    BY <1>11, StoreEvidence DEF DecideAndStore
  <2>2. CoroutineInv'
    BY <1>11, AcknowledgeIdle DEF DecideAndStore, EvidenceInv, CoroutineInv
  <2> QED
    BY <2>1, <2>2 DEF EvidenceInv
<1>12. ASSUME NEW w \in Worker, StoreCommitUnheard(w) PROVE EvidenceInv'
  <2>1. RecordInv' /\ LogInv' /\ OneFetchPerSource'
    BY <1>12, StoreEvidence DEF StoreCommitUnheard
  <2>2. CoroutineInv'
    BY <1>12 DEF StoreCommitUnheard, EvidenceInv, CoroutineInv, WorkerTypeOK, taskVars
  <2> QED
    BY <2>1, <2>2 DEF EvidenceInv
<1>13. ASSUME NEW w \in Worker, MarkManualReview(w) PROVE EvidenceInv'
  <2> DEFINE a == job[w]
  <2>1. a \in App
    BY <1>13, BusyWorker DEF MarkManualReview, Handling
  <2>2. CoroutineInv'
    BY <1>13, AcknowledgeIdle DEF MarkManualReview, EvidenceInv, CoroutineInv
  <2>3. \A b \in App : status'[b] = IF b = a THEN "MANUAL_REVIEW" ELSE status[b]
    BY <1>13, <2>1 DEF MarkManualReview, RowTypeOK
  <2>4. RecordInv' /\ OneFetchPerSource'
    BY <1>13, <2>3, Constants
       DEF MarkManualReview, EvidenceInv, RecordInv, OneFetchPerSource, Stored
  <2>5. /\ audit'[a]["SYSTEM_ERROR"] = audit[a]["SYSTEM_ERROR"] + 1
        /\ audit[a]["SYSTEM_ERROR"] \in Nat
        /\ audit'[a]["DECISION_CALCULATION"] = audit[a]["DECISION_CALCULATION"]
        /\ \A b \in App \ {a} : audit'[b] = audit[b] /\ decision'[b] = decision[b]
    BY <1>13, <2>1 DEF MarkManualReview, AuditTypeOK, RowTypeOK, Step
  <2>6. LogInv'
    BY <1>13, <2>1, <2>3, <2>5 DEF MarkManualReview, EvidenceInv, LogInv
  <2> QED
    BY <2>2, <2>4, <2>6 DEF EvidenceInv
<1>14. CASE UNCHANGED vars
  BY <1>14, EvidenceFrame DEF vars, taskVars, EvidenceInv, CoroutineInv
<1> QED
  BY <1>1, <1>2, <1>3, <1>4, <1>5, <1>6, <1>7, <1>8, <1>9, <1>10, <1>11, <1>12,
     <1>13, <1>14
     DEF Next, BrokerStep, WorkerStep, FetchStep, WorkerFault, Done

THEOREM EvidenceInvariant == Spec => []EvidenceInv
<1>1. TypeOK /\ EvidenceInv /\ [Next]_vars => EvidenceInv'
  BY EvidenceStep
<1> QED
  BY <1>1, EvidenceInit, TypeCorrect, PTL DEF Spec

(* The decision on record is the verdict on the pinned rows. *)
THEOREM DecisionRestsOnEvidence == Spec => []DecisionMatchesEvidence
<1>1. EvidenceInv => DecisionMatchesEvidence
  BY DEF EvidenceInv, RecordInv, LogInv, DecisionMatchesEvidence
<1> QED
  BY <1>1, EvidenceInvariant, PTL

(* Each external_data row has its one audit entry. *)
THEOREM FetchedOnce == Spec => []OneFetchPerSource
<1>1. EvidenceInv => OneFetchPerSource
  BY DEF EvidenceInv
<1> QED
  BY <1>1, EvidenceInvariant, PTL

(* Each outcome is accounted for in the audit log. *)
THEOREM OutcomesAudited == Spec => []EveryOutcomeIsAudited
<1>1. EvidenceInv => EveryOutcomeIsAudited
  BY DEF EvidenceInv, LogInv, EveryOutcomeIsAudited
<1> QED
  BY <1>1, EvidenceInvariant, PTL

-----------------------------------------------------------------------------
(* No application is forgotten.  What keeps it true when a redelivered     *)
(* message is refused: a fresh claim has its claimant, or the claimant's   *)
(* delivery is orphaned and returns only when the claim is stale.          *)
DeliveryInv == \A a \in App :
  /\ status[a] = "PENDING" => outbox[a] # "NONE"
  /\ status[a] = "PENDING" /\ (outbox[a] = "PROCESSED" \/ batch[a] = "sent") =>
       InFlight(a) \/ lost[a]
  /\ status[a] = "PROCESSING" /\ ~stale[a] =>
       (\E w \in Worker : Claimant(w, a)) \/ unacked[a] > 0 \/ lost[a]
  /\ status[a] = "PROCESSING" /\ stale[a] => InFlight(a) \/ lost[a]

LEMMA DeliveryInit == Init => DeliveryInv
BY DEF Init, DeliveryInv

(* The row unchanged, nothing taken from the broker, the outbox or the     *)
(* workers.                                                                *)
LEMMA DeliveryFrame ==
  ASSUME DeliveryInv, UNCHANGED <<status, stale, relayVars, brokerVars, lost, job>>,
         \A w \in Worker : pc[w] \in {"fetch", "unwind", "failed"} =>
           pc'[w] \in {"fetch", "unwind", "failed"}
  PROVE  DeliveryInv'
BY DEF DeliveryInv, InFlight, Claimant, relayVars, brokerVars

(* A worker lets go of an application that is terminal, or leaves a trace. *)
LEMMA DeliveryRelease ==
  ASSUME TypeOK, DeliveryInv, NEW w \in Worker, pc[w] # "idle", Acknowledge(w),
         UNCHANGED <<relayVars, queue>>,
         \A a \in App : a # job[w] =>
           /\ status'[a] = status[a] /\ stale'[a] = stale[a]
           /\ lost'[a] = lost[a] /\ unacked'[a] = unacked[a],
         \/ status'[job[w]] \in Terminal
         \/ lost'[job[w]]
         \/ unacked'[job[w]] > 0
         \/ /\ pc[w] = "claim" /\ ~Claimable(job[w])
            /\ status' = status /\ stale' = stale /\ lost' = lost /\ unacked' = unacked,
         status[job[w]] = "PENDING" \/ status'[job[w]] # "PENDING"
  PROVE  DeliveryInv'
<1>1. \A v \in Worker \ {w} : pc'[v] = pc[v] /\ job'[v] = job[v]
  BY AcknowledgeIdle DEF TypeOK
<1>2. \A a \in App : a # job[w] =>
        /\ InFlight(a) => InFlight(a)'
        /\ (\E v \in Worker : Claimant(v, a)) => \E v \in Worker : Claimant(v, a)'
  BY <1>1 DEF InFlight, Claimant
<1>3. SUFFICES ASSUME NEW a \in App
      PROVE  /\ status'[a] = "PENDING" => outbox'[a] # "NONE"
             /\ status'[a] = "PENDING" /\ (outbox'[a] = "PROCESSED" \/ batch'[a] = "sent") =>
                  InFlight(a)' \/ lost'[a]
             /\ status'[a] = "PROCESSING" /\ ~stale'[a] =>
                  (\E v \in Worker : Claimant(v, a)') \/ unacked'[a] > 0 \/ lost'[a]
             /\ status'[a] = "PROCESSING" /\ stale'[a] => InFlight(a)' \/ lost'[a]
  BY DEF DeliveryInv
<1>4. CASE a # job[w]
  BY <1>2, <1>4 DEF DeliveryInv, relayVars
<1>5. CASE a = job[w] /\ (status'[a] \in Terminal \/ lost'[a] \/ unacked'[a] > 0)
  BY <1>5, Constants DEF DeliveryInv, InFlight, relayVars
<1>6. CASE a = job[w] /\ pc[w] = "claim" /\ ~Claimable(a)
           /\ status' = status /\ stale' = stale /\ lost' = lost /\ unacked' = unacked
  <2>1. status[a] # "PENDING" /\ ~(status[a] = "PROCESSING" /\ stale[a])
    BY <1>6 DEF Claimable
  <2>2. (\E v \in Worker : Claimant(v, a)) => \E v \in Worker : Claimant(v, a)'
    BY <1>1, <1>6 DEF Claimant
  <2> QED
    BY <1>6, <2>1, <2>2 DEF DeliveryInv
<1> QED
  BY <1>4, <1>5, <1>6

LEMMA StoreTerminates ==
  ASSUME TypeOK, NEW w \in Worker, job[w] \in App, StoreProcessingResults(w)
  PROVE  /\ status'[job[w]] \in Terminal
         /\ \A a \in App : a # job[w] => status'[a] = status[a] /\ stale'[a] = stale[a]
BY Constants DEF StoreProcessingResults, AlreadyDecided, TypeOK, RowTypeOK, rowVars

LEMMA DeliveryStep ==
  ASSUME TypeOK, LifecycleInv, DeliveryInv, [Next]_vars
  PROVE  DeliveryInv'
<1> USE DEF TypeOK, rowVars, relayVars, brokerVars
<1>1. ASSUME NEW a \in App, SubmitApplication(a) PROVE DeliveryInv'
  <2>1. \A b \in App : /\ status'[b] = IF b = a THEN "PENDING" ELSE status[b]
                       /\ outbox'[b] = IF b = a THEN "PENDING" ELSE outbox[b]
    BY <1>1 DEF SubmitApplication, RowTypeOK, DeliveryTypeOK
  <2>2. /\ UNCHANGED <<stale, batch, queue, unacked, pc, job, lost>>
        /\ status[a] = "ABSENT" /\ batch[a] = "out"
    BY <1>1 DEF SubmitApplication, LifecycleInv
  <2> QED
    BY <2>1, <2>2 DEF DeliveryInv, InFlight, Claimant
<1>2. CASE RelayStep
  <2>1. UNCHANGED <<status, stale, pc, job, unacked, lost>>
    BY <1>2 DEF RelayStep, PollBegin, PollSend, PollSendFails, PollCommit,
       PollRollback
  <2>2. \A a \in App : queue'[a] >= queue[a] /\ queue[a] \in Nat /\ queue'[a] \in Nat
    BY <1>2 DEF RelayStep, PollBegin, PollSend, PollSendFails, PollCommit,
       PollRollback, DeliveryTypeOK
  <2>3. \A a \in App : InFlight(a) => InFlight(a)'
    BY <2>1, <2>2 DEF InFlight
  <2>4. \A a \in App : batch'[a] = "sent" => batch[a] = "sent" \/ queue'[a] > 0
    BY <1>2 DEF RelayStep, PollBegin, PollSend, PollSendFails, PollCommit,
       PollRollback, DeliveryTypeOK
  <2>5. \A a \in App : outbox'[a] = "PROCESSED" => outbox[a] = "PROCESSED" \/ batch[a] = "sent"
    BY <1>2 DEF RelayStep, PollBegin, PollSend, PollSendFails, PollCommit,
       PollRollback, RowAfterPoll, DeliveryTypeOK
  <2>6. \A a \in App : outbox[a] # "NONE" => outbox'[a] # "NONE"
    BY <1>2 DEF RelayStep, PollBegin, PollSend, PollSendFails, PollCommit,
       PollRollback, RowAfterPoll, DeliveryTypeOK
  <2>7. \A a \in App : queue'[a] > 0 => InFlight(a)'
    BY DEF InFlight
  <2> QED
    BY <2>1, <2>3, <2>4, <2>5, <2>6, <2>7 DEF DeliveryInv, Claimant
<1>3. ASSUME NEW a \in App, Redeliver(a) PROVE DeliveryInv'
  <2>1. /\ UNCHANGED <<status, stale, relayVars, pc, job, lost>>
        /\ queue'[a] > 0 /\ (status[a] = "PROCESSING" => stale[a])
        /\ \A b \in App : b # a => queue'[b] = queue[b] /\ unacked'[b] = unacked[b]
    BY <1>3 DEF Redeliver, DeliveryTypeOK
  <2> QED
    BY <2>1 DEF DeliveryInv, InFlight, Claimant
<1>4. ASSUME NEW a \in App, RedeliverEarly(a) PROVE DeliveryInv'
  <2>1. /\ UNCHANGED <<status, stale, relayVars, pc, job>>
        /\ queue'[a] > 0
        /\ \A b \in App : b # a => queue'[b] = queue[b] /\ unacked'[b] = unacked[b]
    BY <1>4 DEF RedeliverEarly, DeliveryTypeOK
  <2>2. status[a] = "PROCESSING" /\ ~stale[a] => lost'[a]
    BY <1>4 DEF RedeliverEarly, DeliveryTypeOK
  <2>3. \A b \in App : lost[b] => lost'[b]
    BY <1>4 DEF RedeliverEarly, DeliveryTypeOK
  <2> QED
    BY <2>1, <2>2, <2>3 DEF DeliveryInv, InFlight, Claimant
<1>5. ASSUME NEW a \in App, LockExpires(a) \/ LockExpiresEarly(a) PROVE DeliveryInv'
  <2>1. /\ UNCHANGED <<status, relayVars, brokerVars, pc, job, lost>>
        /\ status[a] = "PROCESSING" /\ ~stale[a]
        /\ \A b \in App : b # a => stale'[b] = stale[b]
    BY <1>5 DEF LockExpires, LockExpiresEarly, RowTypeOK
  <2>2. InFlight(a) \/ lost[a]
    BY <2>1 DEF DeliveryInv, InFlight, Claimant
  <2> QED
    BY <2>1, <2>2 DEF DeliveryInv, InFlight, Claimant
<1>6. ASSUME NEW a \in App, NEW w \in Worker, Receive(w, a) PROVE DeliveryInv'
  <2>1. /\ UNCHANGED <<status, stale, relayVars, unacked, lost>>
        /\ \A b \in App : b # a => queue'[b] = queue[b]
        /\ pc[w] = "idle" /\ job[w] = NoApp /\ job'[w] = a
        /\ \A v \in Worker \ {w} : job'[v] = job[v] /\ pc'[v] = pc[v]
    BY <1>6 DEF Receive, DeliveryTypeOK, WorkerTypeOK
  <2>2. \A b \in App : /\ InFlight(b) => InFlight(b)'
                       /\ \A v \in Worker : Claimant(v, b) => Claimant(v, b)'
    BY <2>1, NoAppAssumption DEF InFlight, Claimant
  <2> QED
    BY <2>1, <2>2 DEF DeliveryInv
<1>7. ASSUME NEW w \in Worker, ClaimApplication(w) PROVE DeliveryInv'
  <2> DEFINE a == job[w]
  <2>1. a \in App
    BY <1>7, BusyWorker DEF ClaimApplication
  <2>2. /\ UNCHANGED <<relayVars, brokerVars, job, lost>>
        /\ status'[a] = "PROCESSING" /\ ~stale'[a] /\ pc'[w] = "fetch"
        /\ \A b \in App : b # a => status'[b] = status[b] /\ stale'[b] = stale[b]
        /\ \A v \in Worker \ {w} : pc'[v] = pc[v]
    BY <1>7, <2>1 DEF ClaimApplication, RowTypeOK, WorkerTypeOK
  <2>3. Claimant(w, a)'
    BY <2>2 DEF Claimant
  <2>4. \A b \in App : b # a =>
          /\ InFlight(b) => InFlight(b)'
          /\ \A v \in Worker : Claimant(v, b) => Claimant(v, b)'
    BY <2>2 DEF InFlight, Claimant
  <2> QED
    BY <2>2, <2>3, <2>4 DEF DeliveryInv
<1>8. ASSUME NEW w \in Worker, ClaimRefused(w) PROVE DeliveryInv'
  BY <1>8, DeliveryRelease DEF ClaimRefused
<1>9. ASSUME NEW w \in Worker, FetchStep(w) PROVE DeliveryInv'
  <2>1. UNCHANGED <<status, stale, relayVars, brokerVars, lost, job>>
    BY <1>9 DEF FetchStep, ReuseExternal, CallService, ServiceReturns, StoreExternal,
       StoreExternalConflicts
  <2>2. pc' = pc \/ pc' = [pc EXCEPT ![w] = "unwind"]
    BY <1>9 DEF FetchStep, ReuseExternal, CallService, ServiceReturns, StoreExternal,
       StoreExternalConflicts
  <2> QED
    BY <2>1, <2>2, DeliveryFrame DEF WorkerTypeOK
<1>10. ASSUME NEW w \in Worker, DecideAndStore(w) PROVE DeliveryInv'
  <2>1. pc[w] # "idle" /\ job[w] \in App
    BY <1>10, BusyWorker DEF DecideAndStore, Fetched
  <2>2. /\ status'[job[w]] \in Terminal
        /\ \A a \in App : a # job[w] => status'[a] = status[a] /\ stale'[a] = stale[a]
    BY <1>10, <2>1, StoreTerminates DEF DecideAndStore
  <2>3. Acknowledge(w) /\ UNCHANGED <<relayVars, brokerVars, lost>>
    BY <1>10 DEF DecideAndStore
  <2> QED
    BY <2>1, <2>2, <2>3, Constants, DeliveryRelease
<1>11. ASSUME NEW w \in Worker, MarkManualReview(w) PROVE DeliveryInv'
  <2>1. pc[w] # "idle" /\ job[w] \in App
    BY <1>11, BusyWorker DEF MarkManualReview, Handling
  <2>2. /\ status'[job[w]] = "MANUAL_REVIEW"
        /\ \A a \in App : a # job[w] => status'[a] = status[a] /\ stale'[a] = stale[a]
    BY <1>11, <2>1 DEF MarkManualReview, RowTypeOK
  <2>3. Acknowledge(w) /\ UNCHANGED <<relayVars, brokerVars, lost>>
    BY <1>11 DEF MarkManualReview
  <2> QED
    BY <2>1, <2>2, <2>3, Constants, DeliveryRelease
<1>12. ASSUME NEW w \in Worker, WorkerCrash(w) PROVE DeliveryInv'
  <2>1. pc[w] # "idle" /\ job[w] \in App
    BY <1>12, BusyWorker DEF WorkerCrash
  <2>2. /\ unacked'[job[w]] > 0
        /\ \A a \in App : a # job[w] => unacked'[a] = unacked[a]
    BY <1>12, <2>1 DEF WorkerCrash, DeliveryTypeOK
  <2>3. Acknowledge(w) /\ UNCHANGED <<rowVars, relayVars, queue, lost>>
    BY <1>12 DEF WorkerCrash
  <2> QED
    BY <2>1, <2>2, <2>3, DeliveryRelease
<1>13. ASSUME NEW w \in Worker, PoolChildKilled(w) \/ MarkRaises(w) PROVE DeliveryInv'
  <2>1. pc[w] # "idle" /\ job[w] \in App
    BY <1>13, BusyWorker DEF PoolChildKilled, MarkRaises, Handling
  <2>2. lost'[job[w]] /\ \A a \in App : a # job[w] => lost'[a] = lost[a]
    BY <1>13, <2>1 DEF PoolChildKilled, MarkRaises, DeliveryTypeOK
  <2>3. Acknowledge(w) /\ UNCHANGED <<rowVars, relayVars, brokerVars>>
    BY <1>13 DEF PoolChildKilled, MarkRaises
  <2> QED
    BY <2>1, <2>2, <2>3, DeliveryRelease
<1>14. ASSUME NEW w \in Worker, \/ ClaimRaises(w) \/ TaskTimeout(w) \/ StoreRaises(w)
                                \/ \E s \in Source : FetchRaises(w, s)
       PROVE  DeliveryInv'
  <2>1. /\ UNCHANGED <<status, stale, relayVars, brokerVars, lost, job>>
        /\ pc' = [pc EXCEPT ![w] = "failed"] \/ pc' = [pc EXCEPT ![w] = "unwind"]
    BY <1>14 DEF ClaimRaises, TaskTimeout, StoreRaises, FetchRaises
  <2> QED
    BY <2>1, DeliveryFrame DEF WorkerTypeOK
<1>15. ASSUME NEW w \in Worker, StoreCommitUnheard(w) PROVE DeliveryInv'
  <2>1. pc[w] # "idle" /\ job[w] \in App
    BY <1>15, BusyWorker DEF StoreCommitUnheard, Fetched
  <2>2. /\ status'[job[w]] \in Terminal
        /\ \A a \in App : a # job[w] => status'[a] = status[a] /\ stale'[a] = stale[a]
    BY <1>15, <2>1, StoreTerminates DEF StoreCommitUnheard
  <2>3. /\ UNCHANGED <<relayVars, brokerVars, lost, job>>
        /\ pc' = [pc EXCEPT ![w] = "failed"]
    BY <1>15 DEF StoreCommitUnheard
  <2>4. \A a \in App : /\ InFlight(a) => InFlight(a)'
                       /\ \A v \in Worker : Claimant(v, a) => Claimant(v, a)'
    BY <2>3 DEF InFlight, Claimant, WorkerTypeOK
  <2> QED
    BY <2>2, <2>3, <2>4, Constants DEF DeliveryInv
<1>16. CASE UNCHANGED vars
  BY <1>16, DeliveryFrame DEF vars
<1> QED
  BY <1>1, <1>2, <1>3, <1>4, <1>5, <1>6, <1>7, <1>8, <1>9, <1>10, <1>11, <1>12,
     <1>13, <1>14, <1>15, <1>16
     DEF Next, BrokerStep, WorkerStep, WorkerFault, Done

(* An undecided application always has someone left to act on it, or lost  *)
(* its message to a killed pool child, to an error handler that failed or  *)
(* to an early redelivery.                                                 *)
THEOREM NobodyForgotten == Spec => []NoApplicationForgotten
<1>1. TypeOK /\ LifecycleInv /\ DeliveryInv /\ [Next]_vars => DeliveryInv'
  BY DeliveryStep
<1>2. TypeOK /\ DeliveryInv => NoApplicationForgotten
  BY DEF DeliveryInv, NoApplicationForgotten, Outstanding, InFlight, Claimant,
         TypeOK, DeliveryTypeOK, RowTypeOK
<1> QED
  BY <1>1, <1>2, DeliveryInit, TypeCorrect, LifecycleInvariant, PTL DEF Spec

NothingLost == \A a \in App : ~lost[a]

(* "No lost tasks", without exception: where no pool child is killed alone, *)
(* no error handler's own transaction raises and no message comes back     *)
(* while its dead worker's claim is fresh, every undecided application has *)
(* its outbox row outstanding or its message in flight, whatever else      *)
(* fails: sends, commits, claims, calls, deadlines and whole workers.      *)
THEOREM NoTaskIsLost ==
  ASSUME {"poolKill", "mark", "earlyRedelivery"} \cap FaultKinds = {}
  PROVE  Spec => [](\A a \in App : status[a] \in {"PENDING", "PROCESSING"} =>
                                     Outstanding(a) \/ InFlight(a))
<1>1. Init => NothingLost
  BY DEF Init, NothingLost
<1>2. NothingLost /\ [Next]_vars => NothingLost'
  <2> SUFFICES ASSUME NothingLost, [Next]_vars PROVE lost' = lost
    BY DEF NothingLost
  <2>1. \A w \in Worker : ~PoolChildKilled(w) /\ ~MarkRaises(w)
    BY DEF PoolChildKilled, MarkRaises, Fault
  <2>2. \A a \in App : ~RedeliverEarly(a)
    BY DEF RedeliverEarly, Fault
  <2> QED
    BY <2>1, <2>2, ZenonT(60)
       DEF Next, SubmitApplication, RelayStep, PollBegin, PollSend, PollSendFails,
           PollCommit, PollRollback, BrokerStep, Redeliver, LockExpires,
           LockExpiresEarly, Receive, WorkerStep, ClaimApplication, ClaimRefused,
           FetchStep, ReuseExternal, CallService, ServiceReturns, StoreExternal,
           StoreExternalConflicts, DecideAndStore, MarkManualReview, WorkerFault,
           WorkerCrash, ClaimRaises, FetchRaises, TaskTimeout, StoreRaises,
           StoreCommitUnheard, Done, vars
<1>3. NothingLost /\ NoApplicationForgotten =>
        \A a \in App : status[a] \in {"PENDING", "PROCESSING"} => Outstanding(a) \/ InFlight(a)
  BY DEF NothingLost, NoApplicationForgotten
<1> QED
  BY <1>1, <1>2, <1>3, NobodyForgotten, PTL DEF Spec

-----------------------------------------------------------------------------
(* Mutual exclusion of the pipelines of one application. *)

(* A claim in use is never stale, so it cannot be taken over.              *)
ClaimInv == \A w \in Worker : InPipeline(w) =>
  /\ status[job[w]] \notin {"ABSENT", "PENDING"}
  /\ status[job[w]] = "PROCESSING" => ~stale[job[w]]

ExclusionInv == ClaimInv /\ OneWorkerPerApplication

LEMMA ExclusionInit == Init => ExclusionInv
BY DEF Init, ExclusionInv, ClaimInv, OneWorkerPerApplication, Working, InPipeline

(* No worker enters a pipeline, no claim in use turns stale.               *)
LEMMA ExclusionFrame ==
  ASSUME ExclusionInv,
         \A w \in Worker : InPipeline(w)' =>
           /\ InPipeline(w) /\ job'[w] = job[w]
           /\ \/ status'[job[w]] = status[job[w]] /\ stale'[job[w]] = stale[job[w]]
              \/ status'[job[w]] \in Terminal
  PROVE  ExclusionInv'
<1>1. ClaimInv'
  BY Constants DEF ExclusionInv, ClaimInv
<1>2. OneWorkerPerApplication'
  BY DEF ExclusionInv, OneWorkerPerApplication, Working
<1> QED
  BY <1>1, <1>2 DEF ExclusionInv

LEMMA ExclusionStep ==
  ASSUME "slowWorker" \notin FaultKinds, TypeOK, LifecycleInv, ExclusionInv,
         [Next]_vars
  PROVE  ExclusionInv'
<1> USE DEF TypeOK, rowVars, relayVars, brokerVars
<1>0. \A w \in Worker : InPipeline(w) => job[w] \in App /\ status[job[w]] # "ABSENT"
  BY BusyWorker DEF InPipeline, LifecycleInv
<1>1. ASSUME NEW a \in App, SubmitApplication(a) PROVE ExclusionInv'
  <2>1. /\ UNCHANGED <<pc, job, stale>> /\ status[a] = "ABSENT"
        /\ \A b \in App : b # a => status'[b] = status[b]
    BY <1>1 DEF SubmitApplication, RowTypeOK
  <2> QED
    BY <1>0, <2>1, ExclusionFrame DEF InPipeline
<1>2. CASE RelayStep
  <2>1. UNCHANGED <<status, stale, pc, job>>
    BY <1>2 DEF RelayStep, PollBegin, PollSend, PollSendFails, PollCommit,
       PollRollback
  <2> QED
    BY <2>1, ExclusionFrame DEF InPipeline
<1>3. ASSUME NEW a \in App, Redeliver(a) \/ RedeliverEarly(a) PROVE ExclusionInv'
  <2>1. UNCHANGED <<status, stale, pc, job>>
    BY <1>3 DEF Redeliver, RedeliverEarly
  <2> QED
    BY <2>1, ExclusionFrame DEF InPipeline
<1>4. ASSUME NEW a \in App, LockExpires(a) PROVE ExclusionInv'
  <2>1. /\ UNCHANGED <<status, pc, job>>
        /\ \A w \in Worker : InPipeline(w) => job[w] # a
        /\ \A b \in App : b # a => stale'[b] = stale[b]
    BY <1>4 DEF LockExpires, Claimant, InPipeline, RowTypeOK
  <2> QED
    BY <1>0, <2>1, ExclusionFrame DEF InPipeline
<1>5. ASSUME NEW a \in App, LockExpiresEarly(a) PROVE ExclusionInv'
  BY <1>5 DEF LockExpiresEarly, Fault
<1>6. ASSUME NEW a \in App, NEW w \in Worker, Receive(w, a) PROVE ExclusionInv'
  BY <1>6, ExclusionFrame DEF Receive, InPipeline, WorkerTypeOK
<1>7. ASSUME NEW w \in Worker, ClaimApplication(w) PROVE ExclusionInv'
  <2> DEFINE a == job[w]
  <2>1. a \in App /\ Claimable(a) /\ pc[w] = "claim"
    BY <1>7, BusyWorker DEF ClaimApplication
  <2>2. \A v \in Worker : InPipeline(v) => job[v] # a
    BY <1>0, <2>1 DEF Claimable, ExclusionInv, ClaimInv
  <2>3. /\ job' = job /\ status'[a] = "PROCESSING" /\ ~stale'[a]
        /\ \A b \in App : b # a => status'[b] = status[b] /\ stale'[b] = stale[b]
        /\ \A v \in Worker \ {w} : pc'[v] = pc[v]
    BY <1>7, <2>1 DEF ClaimApplication, RowTypeOK, WorkerTypeOK
  <2>4. ClaimInv'
    BY <1>0, <2>2, <2>3 DEF ExclusionInv, ClaimInv, InPipeline
  <2>5. OneWorkerPerApplication'
    BY <2>2, <2>3 DEF ExclusionInv, OneWorkerPerApplication, Working, InPipeline
  <2> QED
    BY <2>4, <2>5 DEF ExclusionInv
<1>8. ASSUME NEW w \in Worker, \/ ClaimRefused(w) \/ WorkerCrash(w)
                               \/ PoolChildKilled(w) \/ MarkRaises(w)
      PROVE  ExclusionInv'
  <2>1. Acknowledge(w) /\ UNCHANGED <<status, stale>>
    BY <1>8 DEF ClaimRefused, WorkerCrash, PoolChildKilled, MarkRaises
  <2> QED
    BY <2>1, AcknowledgeIdle, ExclusionFrame DEF InPipeline
<1>9. ASSUME NEW w \in Worker,
             \/ FetchStep(w) \/ ClaimRaises(w) \/ TaskTimeout(w) \/ StoreRaises(w)
             \/ \E s \in Source : FetchRaises(w, s)
      PROVE  ExclusionInv'
  <2>1. UNCHANGED <<status, stale, job>>
    BY <1>9 DEF FetchStep, ReuseExternal, CallService, ServiceReturns, StoreExternal,
       StoreExternalConflicts, ClaimRaises, TaskTimeout, StoreRaises, FetchRaises
  <2>2. \/ pc' = pc \/ pc' = [pc EXCEPT ![w] = "failed"]
        \/ InPipeline(w) /\ pc' = [pc EXCEPT ![w] = "unwind"]
    BY <1>9 DEF FetchStep, ReuseExternal, CallService, ServiceReturns, StoreExternal,
       StoreExternalConflicts, ClaimRaises, TaskTimeout, StoreRaises, FetchRaises
  <2> QED
    BY <2>1, <2>2, ExclusionFrame DEF InPipeline, WorkerTypeOK
<1>10. ASSUME NEW w \in Worker, DecideAndStore(w) \/ StoreCommitUnheard(w)
       PROVE  ExclusionInv'
  <2>1. /\ Fetched(w) /\ StoreProcessingResults(w)
        /\ \A v \in Worker : InPipeline(v)' => InPipeline(v) /\ job'[v] = job[v]
    BY <1>10, AcknowledgeIdle
       DEF DecideAndStore, StoreCommitUnheard, InPipeline, WorkerTypeOK
  <2>2. /\ status'[job[w]] \in Terminal
        /\ \A a \in App : a # job[w] => status'[a] = status[a] /\ stale'[a] = stale[a]
    BY <2>1, BusyWorker, StoreTerminates DEF Fetched
  <2> QED
    BY <1>0, <2>1, <2>2, ExclusionFrame
<1>11. ASSUME NEW w \in Worker, MarkManualReview(w) PROVE ExclusionInv'
  <2>1. \A v \in Worker : InPipeline(v)' => InPipeline(v) /\ job'[v] = job[v]
    BY <1>11, AcknowledgeIdle DEF MarkManualReview, InPipeline
  <2>2. /\ status'[job[w]] \in Terminal
        /\ \A a \in App : a # job[w] => status'[a] = status[a] /\ stale'[a] = stale[a]
    BY <1>11, BusyWorker, Constants DEF MarkManualReview, Handling, RowTypeOK
  <2> QED
    BY <1>0, <2>1, <2>2, ExclusionFrame
<1>12. CASE UNCHANGED vars
  BY <1>12, ExclusionFrame DEF vars, InPipeline
<1> QED
  BY <1>1, <1>2, <1>3, <1>4, <1>5, <1>6, <1>7, <1>8, <1>9, <1>10, <1>11, <1>12
     DEF Next, BrokerStep, WorkerStep, WorkerFault, Done

(* While no worker outlives its lock, at most one runs the pipeline of an  *)
(* application.                                                            *)
THEOREM ClaimsExclude ==
  ASSUME "slowWorker" \notin FaultKinds
  PROVE  Spec => []OneWorkerPerApplication
<1>1. TypeOK /\ LifecycleInv /\ ExclusionInv /\ [Next]_vars => ExclusionInv'
  BY ExclusionStep
<1>2. ExclusionInv => OneWorkerPerApplication
  BY DEF ExclusionInv
<1> QED
  BY <1>1, <1>2, ExclusionInit, TypeCorrect, LifecycleInvariant, PTL DEF Spec

-----------------------------------------------------------------------------
(* Finality of the terminal states. *)

(* The worker may still write the row, by the decision or by the handler.  *)
Holds(w) == pc[w] \in {"fetch", "unwind", "failed"}

(* Who may write a row is alone with it, its claim is fresh, and the row   *)
(* is not decided.                                                         *)
HeldInv == \A w \in Worker : Holds(w) =>
  /\ status[job[w]] = "PROCESSING" /\ ~stale[job[w]]
  /\ \A v \in Worker : Holds(v) /\ job[v] = job[w] => v = w

(* Who holds a row goes on to, and the row stays as it is.                 *)
LEMMA HeldFrame ==
  ASSUME HeldInv,
         \A w \in Worker : Holds(w)' =>
           /\ Holds(w) /\ job'[w] = job[w]
           /\ status'[job[w]] = status[job[w]] /\ stale'[job[w]] = stale[job[w]]
  PROVE  HeldInv'
BY DEF HeldInv

(* The holder lets go of its row, which it may have written.               *)
LEMMA HeldRelease ==
  ASSUME HeldInv, WorkerTypeOK, NEW w \in Worker, Holds(w), Acknowledge(w),
         \A a \in App : a # job[w] => status'[a] = status[a] /\ stale'[a] = stale[a]
  PROVE  HeldInv'
<1>1. \A v \in Worker : Holds(v)' => v # w /\ Holds(v) /\ job'[v] = job[v]
  BY DEF Holds, Acknowledge, WorkerTypeOK
<1>2. \A v \in Worker : Holds(v)' => job[v] # job[w] /\ job[v] \in App
  BY <1>1, BusyWorker DEF HeldInv, Holds
<1> QED
  BY <1>1, <1>2, HeldFrame

LEMMA HeldStep ==
  ASSUME {"claim", "commitUnheard", "slowWorker"} \cap FaultKinds = {},
         TypeOK, HeldInv, [Next]_vars
  PROVE  HeldInv'
<1> USE DEF TypeOK, rowVars, relayVars, brokerVars
<1>0. /\ \A w \in Worker : Holds(w) => job[w] \in App /\ status[job[w]] = "PROCESSING"
      /\ \A kind \in {"claim", "commitUnheard", "slowWorker"} : ~Fault(kind)
  BY BusyWorker DEF Holds, HeldInv, Fault
<1>1. ASSUME NEW a \in App, SubmitApplication(a) PROVE HeldInv'
  <2>1. /\ UNCHANGED <<pc, job, stale>> /\ status[a] = "ABSENT"
        /\ \A b \in App : b # a => status'[b] = status[b]
    BY <1>1 DEF SubmitApplication, RowTypeOK
  <2> QED
    BY <1>0, <2>1, HeldFrame DEF Holds
<1>2. CASE RelayStep
  <2>1. UNCHANGED <<status, stale, pc, job>>
    BY <1>2 DEF RelayStep, PollBegin, PollSend, PollSendFails, PollCommit,
       PollRollback
  <2> QED
    BY <2>1, HeldFrame DEF Holds
<1>3. ASSUME NEW a \in App, Redeliver(a) \/ RedeliverEarly(a) PROVE HeldInv'
  <2>1. UNCHANGED <<status, stale, pc, job>>
    BY <1>3 DEF Redeliver, RedeliverEarly
  <2> QED
    BY <2>1, HeldFrame DEF Holds
<1>4. ASSUME NEW a \in App, LockExpires(a) PROVE HeldInv'
  <2>1. /\ UNCHANGED <<status, pc, job>>
        /\ \A w \in Worker : Holds(w) => job[w] # a
        /\ \A b \in App : b # a => stale'[b] = stale[b]
    BY <1>4 DEF LockExpires, Claimant, Holds, RowTypeOK
  <2> QED
    BY <1>0, <2>1, HeldFrame DEF Holds
<1>5. ASSUME NEW a \in App, LockExpiresEarly(a) PROVE HeldInv'
  BY <1>0, <1>5 DEF LockExpiresEarly
<1>6. ASSUME NEW a \in App, NEW w \in Worker, Receive(w, a) PROVE HeldInv'
  BY <1>6, HeldFrame DEF Receive, Holds, WorkerTypeOK
<1>7. ASSUME NEW w \in Worker, ClaimApplication(w) PROVE HeldInv'
  <2> DEFINE a == job[w]
  <2>1. a \in App /\ Claimable(a) /\ pc[w] = "claim"
    BY <1>7, BusyWorker DEF ClaimApplication
  <2>2. \A v \in Worker : Holds(v) => job[v] # a
    BY <2>1 DEF Claimable, HeldInv
  <2>3. /\ job' = job /\ status'[a] = "PROCESSING" /\ ~stale'[a]
        /\ \A b \in App : b # a => status'[b] = status[b] /\ stale'[b] = stale[b]
        /\ \A v \in Worker \ {w} : pc'[v] = pc[v]
    BY <1>7, <2>1 DEF ClaimApplication, RowTypeOK, WorkerTypeOK
  <2>4. \A v \in Worker : Holds(v)' => v = w \/ Holds(v)
    BY <2>3 DEF Holds
  <2>5. ASSUME NEW v \in Worker, Holds(v)'
        PROVE  /\ status'[job'[v]] = "PROCESSING" /\ ~stale'[job'[v]]
               /\ \A u \in Worker : Holds(u)' /\ job'[u] = job'[v] => u = v
    <3>1. CASE v = w
      BY <2>2, <2>3, <2>4, <3>1
    <3>2. CASE v # w
      <4>1. Holds(v) /\ job[v] # a /\ job[v] \in App
        BY <1>0, <2>2, <2>4, <2>5, <3>2
      <4>2. status'[job[v]] = "PROCESSING" /\ ~stale'[job[v]]
        BY <2>3, <4>1 DEF HeldInv
      <4>3. \A u \in Worker : Holds(u)' /\ job[u] = job[v] => u = v
        BY <2>4, <4>1 DEF HeldInv
      <4> QED
        BY <2>3, <4>2, <4>3
    <3> QED
      BY <3>1, <3>2
  <2> QED
    BY <2>5 DEF HeldInv
<1>8. ASSUME NEW w \in Worker, \/ ClaimRefused(w) \/ WorkerCrash(w)
                               \/ PoolChildKilled(w) \/ MarkRaises(w)
      PROVE  HeldInv'
  <2>1. Acknowledge(w) /\ UNCHANGED <<status, stale>>
    BY <1>8 DEF ClaimRefused, WorkerCrash, PoolChildKilled, MarkRaises
  <2> QED
    BY <2>1, AcknowledgeIdle, HeldFrame DEF Holds
<1>9. ASSUME NEW w \in Worker,
             \/ FetchStep(w) \/ TaskTimeout(w) \/ StoreRaises(w)
             \/ \E s \in Source : FetchRaises(w, s)
      PROVE  HeldInv'
  <2>1. UNCHANGED <<status, stale, job>>
    BY <1>9 DEF FetchStep, ReuseExternal, CallService, ServiceReturns, StoreExternal,
       StoreExternalConflicts, TaskTimeout, StoreRaises, FetchRaises
  <2>2. \/ pc' = pc
        \/ InPipeline(w) /\ pc' = [pc EXCEPT ![w] = "failed"]
        \/ InPipeline(w) /\ pc' = [pc EXCEPT ![w] = "unwind"]
    BY <1>9 DEF FetchStep, ReuseExternal, CallService, ServiceReturns, StoreExternal,
       StoreExternalConflicts, TaskTimeout, StoreRaises, FetchRaises, Fetching,
       Fetched, InPipeline
  <2> QED
    BY <2>1, <2>2, HeldFrame DEF InPipeline, Holds, WorkerTypeOK
<1>10. ASSUME NEW w \in Worker, ClaimRaises(w) \/ StoreCommitUnheard(w)
       PROVE  HeldInv'
  BY <1>0, <1>10 DEF ClaimRaises, StoreCommitUnheard
<1>11. ASSUME NEW w \in Worker, DecideAndStore(w) PROVE HeldInv'
  <2>1. Fetched(w) /\ StoreProcessingResults(w) /\ Acknowledge(w) /\ Holds(w)
    BY <1>11 DEF DecideAndStore, Fetched, Holds
  <2>2. \A a \in App : a # job[w] => status'[a] = status[a] /\ stale'[a] = stale[a]
    BY <2>1, BusyWorker, StoreTerminates DEF Fetched
  <2> QED
    BY <2>1, <2>2, HeldRelease
<1>12. ASSUME NEW w \in Worker, MarkManualReview(w) PROVE HeldInv'
  <2>1. Acknowledge(w) /\ Holds(w)
    BY <1>12 DEF MarkManualReview, Handling, Holds
  <2>2. \A a \in App : a # job[w] => status'[a] = status[a] /\ stale'[a] = stale[a]
    BY <1>12 DEF MarkManualReview, RowTypeOK
  <2> QED
    BY <2>1, <2>2, HeldRelease
<1>13. CASE UNCHANGED vars
  BY <1>13, HeldFrame DEF vars, Holds
<1> QED
  BY <1>1, <1>2, <1>3, <1>4, <1>5, <1>6, <1>7, <1>8, <1>9, <1>10, <1>11, <1>12, <1>13
     DEF Next, BrokerStep, WorkerStep, WorkerFault, Done

(* The steps that write a row: none of them writes a decided one.          *)
LEMMA FinalStep ==
  ASSUME TypeOK, HeldInv, [Next]_vars, NEW b \in App, status[b] \in Terminal
  PROVE  UNCHANGED <<status[b], decision[b]>>
<1> USE DEF TypeOK, RowTypeOK, rowVars
<1>1. ASSUME NEW a \in App, SubmitApplication(a)
      PROVE  UNCHANGED <<status[b], decision[b]>>
  BY <1>1, Constants DEF SubmitApplication
<1>2. ASSUME NEW w \in Worker, ClaimApplication(w)
      PROVE  UNCHANGED <<status[b], decision[b]>>
  BY <1>2, Constants DEF ClaimApplication, Claimable
<1>3. ASSUME NEW w \in Worker, DecideAndStore(w) \/ StoreCommitUnheard(w)
      PROVE  UNCHANGED <<status[b], decision[b]>>
  <2>1. StoreProcessingResults(w)
    BY <1>3 DEF DecideAndStore, StoreCommitUnheard
  <2> QED
    BY <2>1 DEF StoreProcessingResults, AlreadyDecided
<1>4. ASSUME NEW w \in Worker, MarkManualReview(w)
      PROVE  UNCHANGED <<status[b], decision[b]>>
  <2>1. Holds(w)
    BY <1>4 DEF MarkManualReview, Handling, Holds
  <2>2. job[w] # b
    BY <2>1, Constants DEF HeldInv
  <2> QED
    BY <1>4, <2>2 DEF MarkManualReview
<1>5. ASSUME UNCHANGED <<status, decision>>
      PROVE  UNCHANGED <<status[b], decision[b]>>
  BY <1>5
<1>6. RelayStep => UNCHANGED <<status, decision>>
  BY DEF RelayStep, PollBegin, PollSend, PollSendFails, PollCommit, PollRollback
<1>7. BrokerStep => UNCHANGED <<status, decision>>
  BY DEF BrokerStep, Redeliver, RedeliverEarly, LockExpires, LockExpiresEarly, Receive
<1>8. ASSUME NEW w \in Worker, FetchStep(w) \/ ClaimRefused(w)
      PROVE  UNCHANGED <<status, decision>>
  BY <1>8 DEF FetchStep, ReuseExternal, CallService, ServiceReturns, StoreExternal,
         StoreExternalConflicts, ClaimRefused
<1>9. ASSUME NEW w \in Worker, WorkerFault(w), ~StoreCommitUnheard(w)
      PROVE  UNCHANGED <<status, decision>>
  BY <1>9 DEF WorkerFault, WorkerCrash, PoolChildKilled, ClaimRaises, FetchRaises,
         TaskTimeout, StoreRaises, MarkRaises
<1>10. Done \/ UNCHANGED vars => UNCHANGED <<status, decision>>
  BY DEF Done, vars
<1> QED
  BY <1>1, <1>2, <1>3, <1>4, <1>5, <1>6, <1>7, <1>8, <1>9, <1>10 DEF Next, WorkerStep

(* "Terminal states are final", which the error handler breaks, holds for  *)
(* as long as three of the faults stay away: a claim transaction that      *)
(* raises, a commit the worker does not hear of, and a worker that         *)
(* outlives its lock.  The other nine, crashes, duplicated messages and    *)
(* timeouts among them, cannot make the handler overwrite a decided row.   *)
THEOREM FinalUnlessHandlerMisled ==
  ASSUME {"claim", "commitUnheard", "slowWorker"} \cap FaultKinds = {}
  PROVE  Spec => TerminalStatesAreFinal
<1>1. Init => HeldInv
  BY DEF Init, HeldInv, Holds
<1>2. TypeOK /\ HeldInv /\ [Next]_vars => HeldInv'
  BY HeldStep
<1>3. ASSUME TypeOK, HeldInv, [Next]_vars
      PROVE  [\A a \in App : status[a] \in Terminal => UNCHANGED <<status[a], decision[a]>>]_vars
  BY <1>3, FinalStep
<1> QED
  BY <1>1, <1>2, <1>3, TypeCorrect, PTL DEF Spec, TerminalStatesAreFinal
=============================================================================
