---------------------------- MODULE LoanPipeline ----------------------------
(***************************************************************************)
(* The path of a loan application from the row the API commits to its      *)
(* decision: transactional outbox, Celery broker, worker tasks.            *)
(*                                                                         *)
(* One action is one database transaction, or one await of the asyncio     *)
(* pipeline.  Everything Python does between two awaits, inside one        *)
(* get_sync_session() block, is atomic: sync code is never interleaved     *)
(* with the other coroutines of the same worker, and the transaction makes *)
(* it atomic for the other workers.                                        *)
(*                                                                         *)
(* What goes wrong does so by a named kind of fault, MaxFaults times.      *)
(***************************************************************************)
EXTENDS Naturals, FiniteSets

CONSTANTS App,               \* applications
          Worker,            \* task slots of the Celery workers
          Source,            \* CREDIT_BUREAU, BANK_ANALYZER, GST_VERIFIER
          Result,            \* what a source's ServiceResult can be
          Verdict,           \* the decision engine: results -> decision
          OutboxLimit,       \* rows one poll takes
          FaultKinds,        \* the faults that may happen
          MaxFaults,         \* how many, in all
          NoApp, NoResult

VARIABLES
  status, decision,          \* columns of loan_applications
  stale,                     \* updated_at is older than the lock timeout
  external,                  \* external_data: the pinned result per source
  outbox,                    \* outbox_messages.status, "NONE" without a row
  batch,                     \* the poller's open transaction
  queue, unacked,            \* the broker: ready messages, orphaned deliveries
  pc, job, task, result,     \* per worker: step, application, coroutines
  audit, fetchAudit,         \* number of audit_log entries per step
  recorded,                  \* the decision of the DECISION_CALCULATION entry
  lost,                      \* a fault got a message acknowledged, work undone
  faults                     \* faults so far

rowVars    == <<status, decision, stale>>
relayVars  == <<outbox, batch>>
brokerVars == <<queue, unacked>>
taskVars   == <<task, result>>
auditVars  == <<audit, fetchAudit, recorded>>
vars == <<rowVars, external, relayVars, brokerVars, pc, job, taskVars,
          auditVars, lost, faults>>

Lifecycle == INSTANCE ApplicationLifecycle

Status   == Lifecycle!Status
Terminal == Lifecycle!Terminal
Decision == Lifecycle!Decision
NoDecision == Lifecycle!NoDecision

Step == {"PROCESSING_STARTED", "DECISION_CALCULATION", "SYSTEM_ERROR"}
TaskState == {"start", "calling", "storing", "done", "failed"}

ASSUME VerdictAssumption == Verdict \in [[Source -> Result] -> Decision]
ASSUME NoAppAssumption == NoApp \notin App
ASSUME NoResultAssumption == NoResult \notin Result
ASSUME BoundsAssumption == MaxFaults \in Nat /\ OutboxLimit \in Nat \ {0}

Fault(kind) == /\ kind \in FaultKinds
               /\ faults < MaxFaults
               /\ faults' = faults + 1

Init == /\ status = [a \in App |-> "ABSENT"]
        /\ decision = [a \in App |-> NoDecision]
        /\ stale = [a \in App |-> FALSE]
        /\ external = [a \in App |-> [s \in Source |-> NoResult]]
        /\ outbox = [a \in App |-> "NONE"]
        /\ batch = [a \in App |-> "out"]
        /\ queue = [a \in App |-> 0]
        /\ unacked = [a \in App |-> 0]
        /\ pc = [w \in Worker |-> "idle"]
        /\ job = [w \in Worker |-> NoApp]
        /\ task = [w \in Worker |-> [s \in Source |-> "start"]]
        /\ result = [w \in Worker |-> [s \in Source |-> NoResult]]
        /\ audit = [a \in App |-> [k \in Step |-> 0]]
        /\ fetchAudit = [a \in App |-> [s \in Source |-> 0]]
        /\ recorded = [a \in App |-> NoDecision]
        /\ lost = [a \in App |-> FALSE]
        /\ faults = 0

-----------------------------------------------------------------------------
(* The API commits the application and its outbox row in one transaction   *)
(* (the idempotency of that transaction is module Intake's subject).       *)

SubmitApplication(a) ==
  /\ status[a] = "ABSENT"
  /\ status' = [status EXCEPT ![a] = "PENDING"]
  /\ outbox' = [outbox EXCEPT ![a] = "PENDING"]
  /\ UNCHANGED <<decision, stale, external, batch, brokerVars, pc, job,
                 taskVars, auditVars, lost, faults>>

-----------------------------------------------------------------------------
(* The outbox poller: one transaction that selects at most OutboxLimit     *)
(* rows, sends a task for each, and commits the new row statuses together. *)

Outstanding(a) == outbox[a] \in {"PENDING", "FAILED"}

PollBegin(rows) ==
  /\ \A a \in App : batch[a] = "out"
  /\ rows # {} /\ Cardinality(rows) <= OutboxLimit
  /\ \A a \in rows : Outstanding(a)
  /\ batch' = [a \in App |-> IF a \in rows THEN "selected" ELSE "out"]
  /\ UNCHANGED <<rowVars, external, outbox, brokerVars, pc, job, taskVars,
                 auditVars, lost, faults>>

PollSend(a) ==
  /\ batch[a] = "selected"
  /\ batch' = [batch EXCEPT ![a] = "sent"]
  /\ queue' = [queue EXCEPT ![a] = @ + 1]
  /\ UNCHANGED <<rowVars, external, outbox, unacked, pc, job, taskVars,
                 auditVars, lost, faults>>

PollSendFails(a) ==
  /\ batch[a] = "selected"
  /\ Fault("send")
  /\ batch' = [batch EXCEPT ![a] = "failed"]
  /\ UNCHANGED <<rowVars, external, outbox, brokerVars, pc, job, taskVars,
                 auditVars, lost>>

(* Mutant: a row whose send raised is marked as sent. *)
RowAfterPollIgnoringErrors(a) == IF batch[a] = "out" THEN outbox[a] ELSE "PROCESSED"

(* What the commit makes of a row, by how its send went. *)
RowAfterPoll(a) == CASE batch[a] = "sent"   -> "PROCESSED"
                     [] batch[a] = "failed" -> "FAILED"
                     [] OTHER               -> outbox[a]

PollCommit ==
  /\ \E a \in App : batch[a] # "out"
  /\ \A a \in App : batch[a] # "selected"
  /\ outbox' = [a \in App |-> RowAfterPoll(a)]
  /\ batch' = [a \in App |-> "out"]
  /\ UNCHANGED <<rowVars, external, brokerVars, pc, job, taskVars, auditVars,
                 lost, faults>>

(* The poller's process dies, and a restarted one polls on (what follows   *)
(* when only its thread ends is module OutboxRelay's subject): the         *)
(* messages already sent stay sent, the rows stay outstanding.             *)
PollRollback ==
  /\ \E a \in App : batch[a] # "out"
  /\ Fault("rollback")
  /\ batch' = [a \in App |-> "out"]
  /\ UNCHANGED <<rowVars, external, outbox, brokerVars, pc, job, taskVars,
                 auditVars, lost>>

-----------------------------------------------------------------------------
(* The broker and the worker process (Celery, acks_late, prefetch 1).      *)

Receive(w, a) ==
  /\ pc[w] = "idle" /\ queue[a] > 0
  /\ queue' = [queue EXCEPT ![a] = @ - 1]
  /\ pc' = [pc EXCEPT ![w] = "claim"]
  /\ job' = [job EXCEPT ![w] = a]
  /\ UNCHANGED <<rowVars, external, relayVars, unacked, taskVars, auditVars,
                 lost, faults>>

(* The task returned or raised: its message is acknowledged. *)
Acknowledge(w) ==
  /\ pc' = [pc EXCEPT ![w] = "idle"]
  /\ job' = [job EXCEPT ![w] = NoApp]
  /\ task' = [task EXCEPT ![w] = [s \in Source |-> "start"]]
  /\ result' = [result EXCEPT ![w] = [s \in Source |-> NoResult]]

(* The whole worker process dies: its delivery is never acknowledged. *)
WorkerCrash(w) ==
  /\ pc[w] # "idle"
  /\ Fault("crash")
  /\ unacked' = [unacked EXCEPT ![job[w]] = @ + 1]
  /\ Acknowledge(w)
  /\ UNCHANGED <<rowVars, external, relayVars, queue, auditVars, lost>>

(* Only the pool child dies (OOM kill).  With task_reject_on_worker_lost   *)
(* unset the parent acknowledges the message of a task it lost.            *)
PoolChildKilled(w) ==
  /\ pc[w] # "idle"
  /\ Fault("poolKill")
  /\ lost' = [lost EXCEPT ![job[w]] = TRUE]
  /\ Acknowledge(w)
  /\ UNCHANGED <<rowVars, external, relayVars, brokerVars, auditVars>>

(* The broker redelivers an orphaned message after its visibility timeout  *)
(* (an hour): by then a claim its consumer made is past the lock timeout.  *)
Redeliver(a) ==
  /\ unacked[a] > 0
  /\ status[a] = "PROCESSING" => stale[a]
  /\ queue' = [queue EXCEPT ![a] = @ + 1]
  /\ unacked' = [unacked EXCEPT ![a] = @ - 1]
  /\ UNCHANGED <<rowVars, external, relayVars, pc, job, taskVars, auditVars,
                 lost, faults>>

(* A consumer that shuts down its channel gives its message back at once:  *)
(* whoever gets it while the dead worker's claim is fresh is refused the   *)
(* claim, and acknowledges the message.                                    *)
RedeliverEarly(a) ==
  /\ unacked[a] > 0
  /\ Fault("earlyRedelivery")
  /\ queue' = [queue EXCEPT ![a] = @ + 1]
  /\ unacked' = [unacked EXCEPT ![a] = @ - 1]
  /\ lost' = [lost EXCEPT ![a] = @ \/ (status[a] = "PROCESSING" /\ ~stale[a])]
  /\ UNCHANGED <<rowVars, external, relayVars, pc, job, taskVars, auditVars>>

-----------------------------------------------------------------------------
(* Claiming the application. *)

(* The worker is past its claim and has not finished with the row. *)
Claimant(w, a) == job[w] = a /\ pc[w] \in {"fetch", "unwind", "failed"}

(* Mutants: the claim ignores the processing lock, or never reclaims it. *)
ClaimableThoughLocked(a) == status[a] \in {"PENDING", "PROCESSING"}
ClaimableWhenPending(a) == status[a] = "PENDING"

Claimable(a) == \/ status[a] = "PENDING"
                \/ (status[a] = "PROCESSING" /\ stale[a])

ClaimApplication(w) ==
  /\ pc[w] = "claim" /\ Claimable(job[w])
  /\ status' = [status EXCEPT ![job[w]] = "PROCESSING"]
  /\ stale' = [stale EXCEPT ![job[w]] = FALSE]
  /\ audit' = [audit EXCEPT ![job[w]]["PROCESSING_STARTED"] = @ + 1]
  /\ pc' = [pc EXCEPT ![w] = "fetch"]
  /\ UNCHANGED <<decision, external, relayVars, brokerVars, job, taskVars,
                 fetchAudit, recorded, lost, faults>>

(* Terminal, or being processed by another worker: the stored state is the *)
(* task's return value.                                                    *)
ClaimRefused(w) ==
  /\ pc[w] = "claim" /\ ~Claimable(job[w])
  /\ Acknowledge(w)
  /\ UNCHANGED <<rowVars, external, relayVars, brokerVars, auditVars, lost,
                 faults>>

(* The claim transaction raises (database error, undecryptable user data)  *)
(* and is rolled back.                                                     *)
ClaimRaises(w) ==
  /\ pc[w] = "claim"
  /\ Fault("claim")
  /\ pc' = [pc EXCEPT ![w] = "failed"]
  /\ UNCHANGED <<rowVars, external, relayVars, brokerVars, job, taskVars,
                 auditVars, lost>>

(* PROCESSING_LOCK_TIMEOUT_SECONDS pass on a row nobody works on any more. *)
LockExpires(a) ==
  /\ status[a] = "PROCESSING" /\ ~stale[a]
  /\ \A w \in Worker : ~Claimant(w, a)
  /\ stale' = [stale EXCEPT ![a] = TRUE]
  /\ UNCHANGED <<status, decision, external, relayVars, brokerVars, pc, job,
                 taskVars, auditVars, lost, faults>>

(* They pass while its worker is still at it: TASK_TIMEOUT_SECONDS bounds  *)
(* the awaits only, not a blocked database call or a paused process.       *)
LockExpiresEarly(a) ==
  /\ status[a] = "PROCESSING" /\ ~stale[a]
  /\ \E w \in Worker : Claimant(w, a)
  /\ Fault("slowWorker")
  /\ stale' = [stale EXCEPT ![a] = TRUE]
  /\ UNCHANGED <<status, decision, external, relayVars, brokerVars, pc, job,
                 taskVars, auditVars, lost>>

-----------------------------------------------------------------------------
(* Fetching: one coroutine per source under asyncio.gather.  When one      *)
(* raises, the others run on ("unwind") until asyncio.run cancels them.    *)

InPipeline(w) == pc[w] \in {"fetch", "unwind"}
InTransaction(w) == \E s \in Source : task[w][s] = "storing"
Fetching(w) == InPipeline(w) /\ ~InTransaction(w)
Stored(a, s) == external[a][s] # NoResult

TaskGoes(w, s, state, r) ==
  /\ task' = [task EXCEPT ![w][s] = state]
  /\ result' = [result EXCEPT ![w][s] = r]

ReuseExternal(w, s) ==
  /\ Fetching(w) /\ task[w][s] = "start" /\ Stored(job[w], s)
  /\ TaskGoes(w, s, "done", external[job[w]][s])
  /\ UNCHANGED <<rowVars, external, relayVars, brokerVars, pc, job, auditVars,
                 lost, faults>>

CallService(w, s) ==
  /\ Fetching(w) /\ task[w][s] = "start" /\ ~Stored(job[w], s)
  /\ TaskGoes(w, s, "calling", NoResult)
  /\ UNCHANGED <<rowVars, external, relayVars, brokerVars, pc, job, auditVars,
                 lost, faults>>

(* The call is back.  The row is looked up again: another worker may have  *)
(* stored one meanwhile, which then replaces this worker's result.         *)
ServiceReturns(w, s, r) ==
  /\ Fetching(w) /\ task[w][s] = "calling"
  /\ IF Stored(job[w], s)
       THEN TaskGoes(w, s, "done", external[job[w]][s])
       ELSE TaskGoes(w, s, "storing", r)
  /\ UNCHANGED <<rowVars, external, relayVars, brokerVars, pc, job, auditVars,
                 lost, faults>>

(* Mutant: without the unique index, the row is written over. *)
StoreExternalAnyway(w, s) ==
  /\ InPipeline(w) /\ task[w][s] = "storing"
  /\ external' = [external EXCEPT ![job[w]][s] = result[w][s]]
  /\ fetchAudit' = [fetchAudit EXCEPT ![job[w]][s] = @ + 1]
  /\ TaskGoes(w, s, "done", result[w][s])
  /\ UNCHANGED <<rowVars, relayVars, brokerVars, pc, job, audit, recorded,
                 lost, faults>>

(* The insert of the row and of its audit entry commit together... *)
StoreExternal(w, s) ==
  /\ InPipeline(w) /\ task[w][s] = "storing" /\ ~Stored(job[w], s)
  /\ external' = [external EXCEPT ![job[w]][s] = result[w][s]]
  /\ fetchAudit' = [fetchAudit EXCEPT ![job[w]][s] = @ + 1]
  /\ TaskGoes(w, s, "done", result[w][s])
  /\ UNCHANGED <<rowVars, relayVars, brokerVars, pc, job, audit, recorded,
                 lost, faults>>

(* Mutant: the loser of the race goes on with the result it did not store. *)
StoreExternalIgnoresConflict(w, s) ==
  /\ InPipeline(w) /\ task[w][s] = "storing" /\ Stored(job[w], s)
  /\ TaskGoes(w, s, "done", result[w][s])
  /\ UNCHANGED <<rowVars, external, relayVars, brokerVars, pc, job, auditVars,
                 lost, faults>>

(* ... or violate the unique index on (application_id, source_type).       *)
StoreExternalConflicts(w, s) ==
  /\ InPipeline(w) /\ task[w][s] = "storing" /\ Stored(job[w], s)
  /\ TaskGoes(w, s, "failed", NoResult)
  /\ pc' = [pc EXCEPT ![w] = "unwind"]
  /\ UNCHANGED <<rowVars, external, relayVars, brokerVars, job, auditVars,
                 lost, faults>>

(* A Redis or database error escapes the coroutine. *)
FetchRaises(w, s) ==
  /\ InPipeline(w)
  /\ task[w][s] \in {"start", "calling", "storing"}
  /\ InTransaction(w) => task[w][s] = "storing"
  /\ Fault("fetch")
  /\ TaskGoes(w, s, "failed", NoResult)
  /\ pc' = [pc EXCEPT ![w] = "unwind"]
  /\ UNCHANGED <<rowVars, external, relayVars, brokerVars, job, auditVars,
                 lost>>

(* asyncio.wait_for cancels the pipeline, which it can at an await only.   *)
TaskTimeout(w) ==
  /\ Fetching(w)
  /\ Fault("timeout")
  /\ pc' = [pc EXCEPT ![w] = "failed"]
  /\ UNCHANGED <<rowVars, external, relayVars, brokerVars, job, taskVars,
                 auditVars, lost>>

-----------------------------------------------------------------------------
(* Deciding and storing: synchronous from the last await to the return. *)

Fetched(w) == pc[w] = "fetch" /\ \A s \in Source : task[w][s] = "done"
(* Mutants: no check for a terminal row, or for one terminal status only. *)
NeverDecided(a) == FALSE
AlreadyCompleted(a) == status[a] = "COMPLETED"

AlreadyDecided(a) == status[a] \in Terminal

(* The transaction of _store_processing_results: nothing on a row that is  *)
(* terminal already.                                                       *)
StoreProcessingResults(w) ==
  LET a == job[w]
      d == Verdict[result[w]]
  IN IF AlreadyDecided(a)
       THEN UNCHANGED <<rowVars, audit, recorded>>
       ELSE /\ status' = [status EXCEPT ![a] = Lifecycle!StatusForDecision(d)]
            /\ decision' = [decision EXCEPT ![a] = d]
            /\ stale' = [stale EXCEPT ![a] = FALSE]
            /\ audit' = [audit EXCEPT ![a]["DECISION_CALCULATION"] = @ + 1]
            /\ recorded' = [recorded EXCEPT ![a] = d]

DecideAndStore(w) ==
  /\ Fetched(w)
  /\ StoreProcessingResults(w)
  /\ Acknowledge(w)
  /\ UNCHANGED <<external, relayVars, brokerVars, fetchAudit, lost, faults>>

(* The engine raises, or the store transaction does and is rolled back... *)
StoreRaises(w) ==
  /\ Fetched(w)
  /\ Fault("store")
  /\ pc' = [pc EXCEPT ![w] = "failed"]
  /\ UNCHANGED <<rowVars, external, relayVars, brokerVars, job, taskVars,
                 auditVars, lost>>

(* ... or it commits and the connection drops before the driver hears it.  *)
StoreCommitUnheard(w) ==
  /\ Fetched(w)
  /\ Fault("commitUnheard")
  /\ StoreProcessingResults(w)
  /\ pc' = [pc EXCEPT ![w] = "failed"]
  /\ UNCHANGED <<external, relayVars, brokerVars, job, taskVars, fetchAudit,
                 lost>>

(* process_application's except clauses. *)
Handling(w) == pc[w] \in {"failed", "unwind"} /\ ~InTransaction(w)

MarkManualReview(w) ==
  /\ Handling(w)
  /\ status' = [status EXCEPT ![job[w]] = "MANUAL_REVIEW"]
  /\ decision' = [decision EXCEPT ![job[w]] = "NEEDS_REVIEW"]
  /\ stale' = [stale EXCEPT ![job[w]] = FALSE]
  /\ audit' = [audit EXCEPT ![job[w]]["SYSTEM_ERROR"] = @ + 1]
  /\ Acknowledge(w)
  /\ UNCHANGED <<external, relayVars, brokerVars, fetchAudit, recorded, lost,
                 faults>>

(* The handler's own transaction raises: the task fails, and a failed task *)
(* is acknowledged too.                                                    *)
MarkRaises(w) ==
  /\ Handling(w)
  /\ Fault("mark")
  /\ lost' = [lost EXCEPT ![job[w]] = TRUE]
  /\ Acknowledge(w)
  /\ UNCHANGED <<rowVars, external, relayVars, brokerVars, auditVars>>

-----------------------------------------------------------------------------
RelayStep == \/ \E rows \in SUBSET App : PollBegin(rows)
             \/ \E a \in App : PollSend(a) \/ PollSendFails(a)
             \/ PollCommit \/ PollRollback

BrokerStep == \E a \in App : \/ Redeliver(a) \/ RedeliverEarly(a)
                             \/ LockExpires(a) \/ LockExpiresEarly(a)
                             \/ \E w \in Worker : Receive(w, a)

FetchStep(w) == \E s \in Source :
  \/ ReuseExternal(w, s) \/ CallService(w, s)
  \/ \E r \in Result : ServiceReturns(w, s, r)
  \/ StoreExternal(w, s) \/ StoreExternalConflicts(w, s)

WorkerStep(w) == \/ ClaimApplication(w) \/ ClaimRefused(w) \/ FetchStep(w)
                 \/ DecideAndStore(w) \/ MarkManualReview(w)

WorkerFault(w) == \/ WorkerCrash(w) \/ PoolChildKilled(w) \/ ClaimRaises(w)
                  \/ \E s \in Source : FetchRaises(w, s)
                  \/ TaskTimeout(w) \/ StoreRaises(w) \/ StoreCommitUnheard(w)
                  \/ MarkRaises(w)

(* Nothing is left to deliver: every application is decided, or its        *)
(* message is lost.                                                        *)
Done == /\ \A a \in App : /\ status[a] \in Terminal \/ lost[a]
                          /\ status[a] # "ABSENT" /\ ~Outstanding(a)
                          /\ queue[a] = 0 /\ unacked[a] = 0
        /\ \A w \in Worker : pc[w] = "idle"
        /\ UNCHANGED vars

Next == \/ \E a \in App : SubmitApplication(a)
        \/ RelayStep \/ BrokerStep
        \/ \E w \in Worker : WorkerStep(w) \/ WorkerFault(w)
        \/ Done

Spec == Init /\ [][Next]_vars

(* The poller thread keeps polling, oldest rows first, so each row gets its *)
(* turn; the broker's queue is first in first out; time passes; a worker   *)
(* that is not hit by a fault runs its task on.                            *)
Fairness ==
  /\ \A a \in App : /\ SF_vars(\E rows \in SUBSET App : a \in rows /\ PollBegin(rows))
                    /\ WF_vars(PollSend(a))
                    /\ SF_vars(\E w \in Worker : Receive(w, a))
                    /\ WF_vars(Redeliver(a)) /\ WF_vars(LockExpires(a))
  /\ WF_vars(PollCommit)
  /\ \A w \in Worker : WF_vars(WorkerStep(w))

FairSpec == Spec /\ Fairness
-----------------------------------------------------------------------------
(* Properties. *)

RowTypeOK ==
  /\ status \in [App -> Status]
  /\ decision \in [App -> Decision \cup {NoDecision}]
  /\ stale \in [App -> BOOLEAN]
  /\ external \in [App -> [Source -> Result \cup {NoResult}]]

DeliveryTypeOK ==
  /\ outbox \in [App -> {"NONE", "PENDING", "FAILED", "PROCESSED"}]
  /\ batch \in [App -> {"out", "selected", "sent", "failed"}]
  /\ queue \in [App -> Nat] /\ unacked \in [App -> Nat]
  /\ lost \in [App -> BOOLEAN]

WorkerTypeOK ==
  /\ pc \in [Worker -> {"idle", "claim", "fetch", "unwind", "failed"}]
  /\ job \in [Worker -> App \cup {NoApp}]
  /\ \A w \in Worker : pc[w] = "idle" <=> job[w] = NoApp
  /\ task \in [Worker -> [Source -> TaskState]]
  /\ result \in [Worker -> [Source -> Result \cup {NoResult}]]
  /\ \A w \in Worker, s \in Source :
       task[w][s] \in {"storing", "done"} => result[w][s] \in Result

AuditTypeOK ==
  /\ audit \in [App -> [Step -> Nat]]
  /\ fetchAudit \in [App -> [Source -> Nat]]
  /\ recorded \in [App -> Decision \cup {NoDecision}]

TypeOK == /\ RowTypeOK /\ DeliveryTypeOK /\ WorkerTypeOK /\ AuditTypeOK
          /\ faults \in 0..MaxFaults

(* The decision that is stored and audited is the engine's verdict on the  *)
(* three external_data rows, whichever worker fetched which of them and    *)
(* whatever other answers a second worker's calls got: each run decides on *)
(* the pinned rows, never on a result it could not store.                  *)
DecisionMatchesEvidence == \A a \in App :
  /\ recorded[a] # NoDecision =>
       /\ \A s \in Source : Stored(a, s)
       /\ recorded[a] = Verdict[external[a]]
  /\ status[a] = "COMPLETED" => decision[a] = recorded[a]

(* One <source>_FETCH entry for each external_data row, none without one:  *)
(* a call repeated by a second worker leaves no second trace.              *)
OneFetchPerSource == \A a \in App, s \in Source :
  fetchAudit[a][s] = IF Stored(a, s) THEN 1 ELSE 0

(* Every outcome can be explained from the log: an application is decided  *)
(* at most once, an automated outcome is that decision and no error was    *)
(* logged, and a manual review has either as its cause.                    *)
EveryOutcomeIsAudited == \A a \in App :
  /\ audit[a]["DECISION_CALCULATION"] = IF recorded[a] = NoDecision THEN 0 ELSE 1
  /\ status[a] = "COMPLETED" => /\ recorded[a] = decision[a]
                                /\ audit[a]["SYSTEM_ERROR"] = 0
  /\ status[a] = "MANUAL_REVIEW" => \/ recorded[a] = "NEEDS_REVIEW"
                                    \/ audit[a]["SYSTEM_ERROR"] > 0

InFlight(a) == \/ queue[a] > 0 \/ unacked[a] > 0
               \/ \E w \in Worker : job[w] = a

(* "No lost tasks": something will still act on an application that is not *)
(* decided, the poller or a message, unless a killed pool child, a failing *)
(* error handler or an early redelivery had its message acknowledged.      *)
NoApplicationForgotten == \A a \in App :
  status[a] \in {"PENDING", "PROCESSING"} =>
    Outstanding(a) \/ InFlight(a) \/ lost[a]

Working(w, a) == job[w] = a /\ InPipeline(w)

(* Claims exclude each other: as long as no worker outlives its lock, at   *)
(* most one runs the pipeline of an application, duplicated messages,      *)
(* crashes and reclaims of stale locks notwithstanding.                    *)
OneWorkerPerApplication == \A a \in App : \A v, w \in Worker :
  Working(v, a) /\ Working(w, a) => v = w

(* The rows follow the lifecycle: no step revives a terminal application,  *)
(* skips the claim, or turns a manual review into an automated decision.   *)
FollowsLifecycle == Lifecycle!Spec

(* Every submitted application is decided or handed to a human, however    *)
(* often its worker crashes, unless its message is lost.                   *)
EveryApplicationConcludes == \A a \in App :
  status[a] = "PENDING" ~> (status[a] \in Terminal \/ lost[a])

(* The study guide's edge cases: "Worker crashes mid-processing |          *)
(* Application stuck in PROCESSING; recovered by stale lock detection".    *)
(* The lock is only looked at when a message arrives, and a message can be *)
(* acknowledged before the lock is stale, so this does not hold.           *)
StuckIsRecovered == \A a \in App :
  status[a] = "PROCESSING" ~> status[a] # "PROCESSING"

(* The study guide's business rule 3: "Terminal states (COMPLETED,         *)
(* MANUAL_REVIEW) are final; re-processing returns stored result".  The    *)
(* error handler overwrites a COMPLETED row, so this does not hold.        *)
TerminalStatesAreFinal == [][\A a \in App :
  status[a] \in Terminal => UNCHANGED <<status[a], decision[a]>>]_vars
=============================================================================
