# AuditLend in TLA+

AuditLend takes loan applications over HTTP, enriches each from three external services,
scores it, and keeps an audit log that must explain every outcome. This directory holds
a model of the parts where that can go wrong: the transactional outbox and its pollers,
the Celery workers, the idempotent intake, the circuit breaker in Redis, the path from
an external answer to a decision, and what clients read of all this meanwhile.  TLC
checks the modules on small instances; TLAPS proves the main safety properties for every
value of the constants.  Paths below are relative to the repository.

## Parts of the system

| part | state it keeps | operations | talks to |
|---|---|---|---|
| Intake API (`api/routes/applications.py`) | rows of `loan_applications`, `outbox`, `idempotency_records`; `idempotent:<key>` in Redis | `POST /apply-loan`, `GET /status` | PostgreSQL, Redis |
| Outbox relay (`worker/outbox_poller.py`) | `outbox.status`; one open transaction per poll | `poll_outbox_once`, every second on a thread of each worker process | PostgreSQL, broker |
| Broker and worker processes (`worker/celery_app.py`) | queue, unacknowledged deliveries | receive, acknowledge late, redeliver | task |
| Processing task (`worker/tasks/process_application.py`) | `status`, `decision`, `updated_at` (the processing lock), `external_data`, `audit_logs` | claim, fetch (three coroutines), decide and store, mark for manual review | PostgreSQL, services, engine |
| Service adapters (`services/credit_bureau.py`, `bank_analyzer.py`, `gst_verifier.py`) | none | one call each, fallback data | `BaseExternalService` |
| Circuit breaker (`services/base.py`) | four Redis keys per service, shared by all workers | `call`, with retries; `_record_success`, `_record_service_down`, `_record_half_open_failure` | Redis, providers |
| Decision engine (`engine/`) | none (pure) | `compute_decision` | task |
| Audit log (`services/audit.py`) | append-only `audit_logs` | `write_audit_entry` inside the caller's transaction | PostgreSQL |
| Read endpoints (`api/routes/decisions.py`, `explanations.py`) | none | read the row, then the `DECISION_CALCULATION` entry or the whole log | PostgreSQL |
| Authentication, encryption, metrics, logging, migrations, mock providers | none that the others depend on | | |

A request commits three rows at once (application, outbox message, idempotency record).
Some worker's poller turns the outbox row into a Celery message.  A worker claims the
application by setting its status to PROCESSING, fetches three sources concurrently,
storing each answer in `external_data` with an audit entry, decides, and stores decision
and audit entry in one transaction.  Anything that raises ends in MANUAL_REVIEW.

What is hard about it:

* **Delivery is at least once, and sometimes less.**  A rollback between send and commit
  duplicates a message; a dead worker's message comes back after the broker's visibility
  timeout; a killed pool child's message is acknowledged. Two workers may hold the same
  application.
* **The lock is a timestamp.**  A worker that outlives `PROCESSING_LOCK_TIMEOUT_SECONDS`
  shares its application with its successor.
* **Coroutines outlive a failure.**  When one of the gathered fetches raises, the others
  go on until the event loop is torn down.
* **Commits can be ambiguous**, in the API and in the worker.
* **Redis commands interleave.**  The breaker's transitions are several commands each,
  from any number of workers, with expiries running under them.
* **Pollers share a table and die quietly.**  Only row locks keep two polls apart; a
  database error ends the thread while its process lives on.
* **Readers take two looks.**  The row and the log are read in two statements, and an
  error handler may write between them.
* **Defaults stand in for data**, and are reconstructed from what was stored.

`PROJECT.json` lists these hazards at their lines, with the properties that cover each
or the reason why none does yet.

What makes each part correct:

| part | correctness |
|---|---|
| application row | it only moves along its lifecycle; an automated decision is never made from, or over, a terminal status |
| task and evidence | the decision is the verdict on the pinned answers, whoever fetched them; each answer and each outcome has its audit entry |
| relay | every committed row is sent, as long as a poller lives; no race sends it twice; nothing is settled unsent |
| broker and workers | no application is forgotten, and every one concludes unless a fault loses its message |
| intake | each key is a register written once, whatever cache, races and lost connections do: one application, one answer, nothing promised that is not durable, no false conflict |
| circuit breaker | its states follow each other, it recovers when the service does, it is probed again, old failures expire |
| engine and adapters | GST gate, review in a meltdown, defaults that never approve, recovery that changes nothing |
| read endpoints and explanations | no answer mixes two decisions unnoticed, none is taken back, an explanation names every failure and no other |

## Modules

| module | models |
|---|---|
| `ApplicationLifecycle` | the abstract specification: one (status, decision) pair per application |
| `LoanPipeline` | outbox relay, broker, workers, processing task, audit entries; implements `ApplicationLifecycle` through `Lifecycle == INSTANCE ApplicationLifecycle` (the two share the variables `status` and `decision`, so the refinement mapping is the identity) |
| `AtLeastOnce` | the abstract specification of the outbox: accepted messages are delivered once or more, and settled only then |
| `OutboxRelay` | the poller threads and the table `outbox`; implements `AtLeastOnce` |
| `Submission` | the abstract specification of the intake: a write-once register per key, and answers read from it |
| `Intake` | `apply_loan`, with Redis and PostgreSQL; implements `Submission` |
| `CircuitBreaker` | `BaseExternalService.call` |
| `DecisionEngine` | the pure functions of `engine/` |
| `ExplanationBuilder` | the summary of an audit log |
| `Evidence` | adapters, `external_data`, reconstruction, one decision, the task's deadline, the log and its explanation; extends `DecisionEngine` and `ExplanationBuilder` |
| `ReadApi` | a client of the read endpoints beside the running pipeline; extends `LoanPipeline` and `ExplanationBuilder` |
| `MC*` | values of the constants for TLC |
| `*Proofs` | theorems and proofs about the module of that name |

The operators whose comment begins with "Mutant" are what a plausible slip in the code
would make of the operator that follows them.  No specification uses them; putting one
in the place of the definition it varies breaks the property named beside it in
`PROJECT.json`, which shows that the property depends on that line.

### LoanPipeline and the code

One action is one database transaction, or one step between two awaits.  The task uses
synchronous sessions inside coroutines, so between two awaits nothing else of that
worker runs, and the transaction isolates it from the other workers.

| state | code |
|---|---|
| `status`, `decision` | columns of `loan_applications` |
| `stale[a]` | `updated_at` lies before `now - PROCESSING_LOCK_TIMEOUT_SECONDS` |
| `external[a][s]` | the row of `external_data`, unique per application and source |
| `outbox[a]`, `batch[a]` | row status; what the open poll transaction did with the row |
| `queue`, `unacked` | messages in the broker, deliveries whose consumer died |
| `pc`, `job`, `task`, `result` | per worker: position in the task, application, state and result of the three coroutines |
| `audit`, `fetchAudit`, `recorded` | number of audit entries by step; decision of the `DECISION_CALCULATION` entry |
| `lost[a]` | history: a fault has a message acknowledged without its work done |
| `faults` | number of faults so far, bounded by `MaxFaults` |

`pc` is `claim` (before the claim transaction), `fetch` (coroutines running), `unwind`
(one raised, the others still run) and `failed` (an exception on its way to
`process_application`'s handlers).  A coroutine goes from `start` to `calling`, to
`storing` (inside the block from the second look-up to the commit, which no await
interrupts; `StoreExternal` and `StoreExternalConflicts` are its two ends) and `done`.
Faults are named kinds, so that a run can choose them: `send`, `rollback`, `crash`,
`poolKill`, `earlyRedelivery`, `claim`, `slowWorker`, `fetch`, `timeout`, `store`,
`commitUnheard`, `mark`.

Celery and Redis as a broker are not in the repository.  Their behaviour is taken from
the configuration (`task_acks_late`, prefetch 1, no `task_reject_on_worker_lost`, the
default visibility timeout of an hour) and marked external.

### OutboxRelay and the code

Each poller is the thread of one worker process; a poll is one transaction.

| state | code |
|---|---|
| `row[m]` | `outbox.status`; rows are numbered in the order of the select |
| `thread[p]` | between two polls, inside one, or ended by an exception |
| `batch[p][m]` | what the open transaction of `p` did with row `m`; anything but `"out"` is locked |
| `sent[m]` | how often the broker got the message |

`Select` takes the oldest outstanding rows no other transaction has locked, and
`Sending` keeps the order of the loop.  A send fails, is done, or is done without the
poller hearing of it.  `ThreadDies` is the missing `try` of `poll_outbox`: the row locks
go, the process does not, and `_poller_started` keeps anybody from starting another
thread; only `ProcessRestarts` does.  `LoanPipeline` has a coarser relay, with one
poller that always comes back, because there the subject is what the workers make of
duplicates.

The refinement maps a row that is not `"ABSENT"` to `accepted`, a `"PROCESSED"` one to
`settled`.  A commit settles a batch at once; everything else but `Insert` and the sends
is a stutter.

### Intake and the code

A handler runs from await to await: `cacheGet`, `dbGet`, `insert`, `commit`, `reread`
(after a lost race), `cacheSet`.  The rows become visible at the commit.  `KeyLocked` is
PostgreSQL's rule that an insert waits for another uncommitted insert of the same key
(external).  Redis may miss, fail or evict at any moment; the commit may raise with or
without effect; a handler may die anywhere.  A client's retry is one more request.  The
payload hash is the pair of key and payload, since the hash is taken of a canonical form
in which the key in force replaces the body's.

The refinement maps the committed records to `accepted` and the answers to `reply`.
`Submission` has no steps between: a commit is `Accept`, an answer is `Tell`, a commit
whose connection drops is `Fail` with or without `Accept`, all else a stutter. That the
answer of a cache hit is a `Tell` is what makes it a real promise.

### CircuitBreaker and the code

Every Redis command is one action, named for what it does.  Time is counted in ticks,
and the four durations keep the order of their defaults: probe lock 10 s, request 30 s,
window 60 s, cooldown 120 s.  `lease` is the remaining TTL of the failure count,
`failedAt` the age of `last_failure`.  `Abort` is a call cut short between any two
steps: by the task timeout, by a death, or because a Redis command raised.  `Retry`
stands for the backoff and the next attempt.  `AttemptFails` with NO_RECORD stands for
every answer that is not retried: a healthy service gives it too, for an applicant it
does not know, and a probe that gets it opens the circuit again.

Two history variables carry the properties.  `overlapped` says that some call began
while another was under way: `OpenHasFailureTime`, `StatesInOrder` and `CircuitRecovers`
speak of the time before that, when several workers may call in turn, be cut short and
leave their keys behind for each other.  `orphans` counts the calls cut short between
INCR and EXPIRE, the only ones whose count `CountIsLeased` forgives: one failure each.

### Evidence and the code

One application, its three answers fixed in advance and its debt-to-income ratio.  A
worker fetches or reuses the sources in any order; it may die, and its successor
reconstructs results from the rows.  All numbers are hundredths, the rounding of the
engine included.  The answers a service may give are those of its mock provider, the
only contract the repository has: error statuses 408 and 503 from the bureau, 400 and
503 from the bank analyzer, 404 and 503 from the GST verifier, time-outs and refused
connections from all; a mismatch body carries no `gst_compliant`.  A provider that
answered otherwise (404 from the bank analyzer, say) could break `DefaultsNeverApprove`:
the adapters have no fallback for it.

`Duration` is the time a call keeps the task: an attempt without a response lasts the
client's 30 s, the three delays between four attempts add up to 15 s (2, 4 and 8 s and
their deterministic jitter).  `TaskTimesOut` is `asyncio.wait_for`: the shorter calls
have returned by then, as the three run side by side.  A half-open probe is not retried
and is in time, so both continuations of an unanswered call exist.  Time before the
fetches and between them is not counted.  `log` holds what
each transaction appended to `audit_logs`, reduced to step, error type and fallback
flag.

### ReadApi and the code

The client sends `GET /status`, `/decision` and `/explanation` in any order, for any
application.  The last two are `ReadRow` and, as PostgreSQL gives each statement of a
transaction its own snapshot (read committed), any steps of the pipeline before
`AnswerDecision` or `AnswerExplanation`.  `reading` is the row in the handler's hands,
`told` what the client has heard.  `LogOf` derives the log from the pipeline's state: a
fetch entry per stored row, the `DECISION_CALCULATION` entry of `recorded`, an error
entry when `audit` counts one.  The confidence column is written with the decision only,
so it belongs to `recorded`.

## Runs

| run | instance | question |
|---|---|---|
| `LoanPipeline_safety` | 1 application, 2 workers, 3 sources, 2 results, 4 faults of all kinds | evidence, audit, lifecycle, delivery |
| `LoanPipeline_delivery` | 2 applications, 2 workers, 1 source, 2 faults of all kinds but `slowWorker`, `fetch`, `store`; fairness | mutual exclusion, conclusion |
| `LoanPipeline_final` (violation) | 1 application, 2 workers, 2 faults | are terminal states final? |
| `LoanPipeline_stuck` (violation) | 1 application, 2 workers, 2 faults; fairness | is a stale lock always found? |
| `OutboxRelay_all` | 2 pollers, 3 rows, batches of 2, 2 faults, the first row may fail for ever; fairness | exclusion, order, delivery; refinement of `AtLeastOnce` |
| `Intake_all` | 3 requests, 2 keys, 2 payloads; fairness | idempotency, durability, progress; refinement of `Submission` |
| `CircuitBreaker_all` | 2 callers, 1 retry, 1 abort; fairness | leases and probes with overlap; order of the states and recovery without |
| `CircuitBreaker_oneprobe` (violation) | 2 callers | is there one probe? |
| `CircuitBreaker_stuck` (violation) | 2 callers; fairness | does OPEN time out? |
| `Evidence_engine` | 19 credit scores, 4 stabilities, 9 ratios, all answers, 1 crash, the durations of `docker-compose.yml` | decisions, their recovery, their explanation |
| `Evidence_timeout` (violation) | the same without crashes | does a time-out lead to the fallback? |
| `ReadApi_all` | 1 application, 2 workers, 2 sources, 3 faults of ten kinds | what a client may be told |

Why the bounds suffice for what they are asked.  *Pipeline*: interference is between two
holders of one application, so two workers; four faults allow a duplicate, a slow first
worker, its failure and the failure of its handler in one behaviour; three sources are
needed for one coroutine to fail while one stores and one calls.  `OutboxLimit = 1`
makes two applications wait for each other in the relay; the order within a batch is the
subject of `OutboxRelay`.  Two results make a verdict on the wrong evidence a different
verdict.  `LoanPipeline_safety` and `ReadApi_all` use symmetry, which is sound there
because they check no liveness.  *Relay*: three rows and batches of two let a failing row stand before a newer
one and two polls hold disjoint batches; one row that never gets sent is one less than a
batch, the most that `EveryRowIsSent` allows (with as many as a batch, TLC finds newer
rows starved, as the code would have it); two faults allow a duplicate and a dead thread
in one behaviour, or both threads dead.  *Intake*: a creator, a racer and a late retry,
on the same key or not, with the same payload or not. *Circuit breaker*: two callers
suffice for each pair of transitions to interleave, and to take turns without; two
failures trip the circuit, so that a count below the threshold exists; one retry lets a
call go on after it has opened the circuit; one abort leaves any half-written state.  *Evidence*: the scores are 2.2 points of risk
apart and the ratios lie on both sides of every threshold; beyond these values the
engine is piecewise linear.  *Readers*: a single client, since no endpoint writes; three
faults allow a duplicate, the failure of its claim and a second escalation, all between
the two statements of one request.

Every run checks for deadlock.  A pipeline with nothing left to deliver stops in `Done`,
answered requests and a decided application in `Finished`; the circuit breaker always
has a step; the relay stops in `Quiet`, with every row sent or every thread dead.

### Fairness

* Pipeline: a poll that includes a given row is taken infinitely often if it is possible
  infinitely often (strong), because the select is ordered by age and commits make
  progress; the same for the receipt of a message, because the queue is first in first
  out.  Weak fairness for the sends, the commit, the redelivery, the expiry of locks
  (time passes) and for each worker's next step. No fault is fair.  Its poller dies with
  its process and comes back; a thread that dies for good is `OutboxRelay`'s subject.
* Relay: for each poller weak fairness of its steps, since the thread polls on, and
  strong fairness of its sends of rows outside `Rejected`: the broker may be away as
  often as it likes but not for every attempt.  Nothing is assumed of the rows in
  `Rejected`: each of their sends may fail. Nothing is assumed of `ThreadDies` or `ProcessRestarts`, so
  `EveryRowIsSent` has to except that all threads are dead: then the outbox stands still
  while every worker process looks healthy, until one is restarted.
* Intake: weak fairness of each handler's steps.  Nothing is assumed of eviction or of
  death.
* Circuit breaker: weak fairness of each caller's steps, since applications keep coming,
  and of time.  Strong fairness of success, for all callers together: a service that
  answers, and is asked again and again, is asked about applicants it knows again and
  again.  Without it every probe could be for an unknown applicant, whose NO_RECORD
  opens the circuit each time (`base.py:103-113`), and the circuit would never close.
  Any number of such probes may come first.  An unhealthy service can only fail, so for
  it nothing is assumed.

### What does not hold

Five statements of the repository's documents are checked and violated.

* "Terminal states are final" (`AUDITLEND_STUDY_GUIDE.md:395`): the system-error handler
  writes MANUAL_REVIEW without looking at the row (`process_application.py:413-419`), so
  a duplicate delivery that fails before its claim is refused overwrites COMPLETED.
  `FollowsLifecycle` says what remains true: nothing leaves MANUAL_REVIEW, and only
  escalation leaves COMPLETED.  `FinalUnlessHandlerMisled` says which faults it takes.
* "Application stuck in PROCESSING; recovered by stale lock detection" (`:692`): the lock
  is only looked at when a message arrives.  A killed pool child's message is
  acknowledged by its parent, and a message that comes back before the lock is stale is
  refused and acknowledged (`process_application.py:169-170`); no message is left to
  find the stale lock.  `NoApplicationForgotten` and `EveryApplicationConcludes` say what
  remains true, with `lost` for these two ways and for an error handler that fails, and
  `NoTaskIsLost` that there is no fourth.
* "Single-probe guarantee" (`:573`): the probe lock is shorter than a request, and any
  success deletes it.
* "Timeout transitions OPEN to HALF_OPEN" (`:572`): a success under way deletes
  `last_failure` after another call has opened the circuit, and OPEN without a failure
  time never times out.
* "Credit provider retries and falls back to conservative credit score `600`"
  (`README.md:344`): four attempts of 30 s with their delays do not fit into the task's
  60 s, so a bureau that does not answer ends in `PIPELINE_TIMEOUT`, without a
  `CREDIT_BUREAU_FETCH` entry.  The fallback is reached by a 408 that comes at once, by
  a refused connection, and by a half-open probe.  `RoomForRetriesSuffices` says which
  configurations keep the promise: (retries + 1) · 30 s + 15 s must not exceed the
  task's time, so one retry would do with 75 s, and three need 135 s.

Further disagreements met while reading, without a run of their own: a probe answered
NO_RECORD reopens the circuit (`base.py:103-105`) although non-retryable failures are
said not to count (`AUDITLEND_STUDY_GUIDE.md:574`); a Redis error escapes
`_circuit_state` although a Redis outage is said to mean CLOSED (`:123`, `:690`), which
`Abort` covers; "fallback data should reduce
confidence and route ambiguous cases to review" (`README.md:658`) fails for partial bank
data and a debt ratio above 0.60, where the data quality penalty moves an application
across the decline line with a confidence just at the threshold (`DefaultsNeverApprove`
says that the other direction is safe); after an overwrite by the error handler
`/explanation` explains the older decision (`README.md:659`), naming the error, while
`/decision` answers NEEDS_REVIEW; without an older decision it says "Decision None"; an
automatic review on perfect data near a threshold is explained as "insufficient reliable
data"; `idempotency_key` has no unique constraint on `loan_applications` (`:434` of the
guide), uniqueness comes from `idempotency_records`; `last_failure` is a `monotonic()`
value that other hosts compare with their own clock; each failure renews the window;
a call that opens the circuit goes on with its retries (`base.py:84`), and one that
succeeds closes it without cooldown or probe, although the states are said to follow
each other as CLOSED, OPEN, HALF_OPEN (`AUDITLEND_STUDY_GUIDE.md:568`; `StatesInOrder`
excepts that one move).

## Proofs

Every theorem is for all sets of applications, workers, sources, requests, keys and
callers, all bounds and parameters that satisfy the named assumptions of the modules
(TLC evaluates these on every run).

**Pipeline** (`LoanPipelineProofs`).  `TypeCorrect` comes first, with one step per
action.  The other invariants are not inductive alone:

* `LifecycleInv` adds that nothing is in flight for an application that does not exist
  and that a worker inside its pipeline has a row past PENDING.  With it each step is a
  step of `ApplicationLifecycle` or leaves the pair alone: `ImplementsLifecycle`.
* `EvidenceInv` is `CoroutineInv` (a finished coroutine holds exactly the pinned row),
  `RecordInv` (a recorded decision is terminal and is the verdict on complete evidence),
  `LogInv` (row and log agree) and the fetch count.  `CoroutineInv` is the heart: a
  worker that lost the race for a row either took the winner's answer or failed.
  `DecisionRestsOnEvidence`, `FetchedOnce` and `OutcomesAudited` follow.
* `DeliveryInv` says where an undecided application's next step comes from.  A fresh
  claim has its claimant or an orphaned delivery that only returns when the claim is
  stale; that is why a refused duplicate may be acknowledged.  It yields
  `NobodyForgotten`.
* `ClaimInv`: a claim in use is not stale.  It yields `ClaimsExclude`, under the
  assumption that `"slowWorker" \notin FaultKinds`.  Without it two workers do share an
  application, and the other theorems, which do not assume it, say that this is
  harmless.
* `HeldInv`: whoever may still write a row is alone with it, under a fresh claim, and
  the row is PROCESSING.  It yields `FinalUnlessHandlerMisled`: terminal states are
  final when `FaultKinds` contains none of `claim`, `commitUnheard` and `slowWorker`.
  These are the three ways to make the error handler believe that a decided row is
  still its own; crashes, duplicates, killed children and time-outs are not among them.
* `NoTaskIsLost` empties the exception of `NobodyForgotten`: without `poolKill`, `mark`
  and `earlyRedelivery` the history variable `lost` is never set, so an undecided
  application is in the outbox or in flight.

**Relay** (`OutboxRelayProofs`).  `RelayTypes`; `FewDuplicates` strengthens the bound: a
message that neither the row (`"PROCESSED"`) nor an open batch (`"sent"`) knows of as
delivered was sent at most `faults` times (`CountInv`), since only a fault makes the
system forget a delivery; and no row is in two open batches (`LockInv`).
`RelayImplements` needs the other half of `CountInv`: what is known as delivered has
reached the broker.

**Intake** (`IntakeProofs`).  `IntakeInv` is types, `RecordsInv` (records and
applications name each other), `LockInv` (one open transaction per key, on a free key)
and `KnowledgeInv` (whatever a handler, the cache or a client knows of a key is its
record).  All five safety properties follow, and `ImplementsPromise`: each step is a
step of `Submission` or a stutter, because an answer is only ever what `KnowledgeInv`
says it is.

**Circuit breaker** (`CircuitBreakerProofs`).  `Typed` adds to the types that a call
only sleeps with a retry left.  The rest is about the time before two calls overlap, for
any number of callers.  Then at most one call is under way (`OneUnderWay`), an idle
caller holds no probe flag (`IdleHoldNothing`), and it is enough to follow the one call
that moves: `KnowsCooldown` ties the state to the step it is at, which yields
`SequentialCallsRecover`; `KnowsState` says that what it has read of the circuit is still
so when it acts on it, and that a call going on under an OPEN circuit is at a retry,
which yields `SequentialCallsInOrder`.  `CircuitBreaker_stuck` shows why overlap has to be
excepted.  `CountsExpire` excepts nothing: each INCR without its EXPIRE is a call at that
step or one counted in `orphans`.

**Decision engine** (`DecisionEngineProofs`).  `GateHolds`, for any rule set whose high
approval threshold is not below the moderate one.  `RiskMonotone`: the points of an
applicant grow with each feature, and clamping and rounding keep the order.
`BetterApplicantsFareNoWorse` goes on to the decision, for any rule set with
non-negative weights and any threshold: at equal reliability an approval's boundary
factor does not fall, and a decline's does not rise, with the score, so the rounded
confidence cannot send a better applicant to review where a worse one was approved.
`DefaultsAreConservative` is a case analysis with the numbers of `RULE_SET_V1`: a
missing source costs so much reliability that only a score far above the approval line
clears the threshold, and the gain of reliability when the source answers outweighs
what its points may lose.  It holds for thresholds from 0.57 to 0.70; at 0.56 and at 0.71
TLC finds `DefaultsNeverApprove` violated.

**Evidence** (`EvidenceProofs`).  `RecoveryKeepsDecision`: the row keeps everything the
extractors read (`CreditSurvives`, `StabilitySurvives`, `GstSurvives`), so any mixture of live and
reconstructed results decides alike (`HoldsEvidence` is the invariant).  `GstGateHolds`
rests on `GateHolds`.  `ReviewsAreOverrides`: the boundary factor of a review is 0.50, which bounds its
confidence.  `MeltdownAlwaysReviewed` (threshold above 0.40): two outages leave a
reliability of 0.40 at most.  `EvidenceTypes` bounds score and confidence.
`ExplanationIsHonest` (threshold above 0.50): the log holds one entry per stored row
(`LogMatchesRows`), with the failure the live answer has, whoever wrote it.
`BetterCreditHolds` and `DefaultsHold` carry the engine's theorems over to answers,
reconstructions and crashes: the live results of any answers are an applicant
(`LiveIsApplicant`), and the full data complete it (`FullDataCompletes`).
The assumptions on the threshold all admit the default of 0.60.
`RoomForRetriesSuffices` bounds every call by the attempts and delays it may take.

**Readers** (`ReadApiProofs`).  `ReadingInv` says that the row in the handler's hands is
still the row, or was sent to review since, and that its record has not changed;
`ToldInv` the same of what the client was told.  They rest on the pipeline's
`LifecycleInv` and `EvidenceInv` and on what its steps do to a decided row: it stays
decided (`TerminalRow`), its record is closed and errors in its log stay
(`TerminalLog`). `ReadingChangesNothing` carries the pipeline's theorems over to
`ReadSpec`.  All four properties of the run follow, for any number of applications,
workers, sources and faults.

Only model-checked: liveness (`EveryApplicationConcludes`, `EveryRequestEnds`,
`EveryRowIsSent`, `CircuitRecovers`, `HalfOpenGetsProbed`), which depends on fairness
and is out of the prover's reach.  Every invariant, action property and refinement of
the passing runs is proved.

## Not modelled

* A delivery that returns while its consumer is still alive after an hour: duplicates
  come from the relay and from dead workers instead, and the safety properties do not
  depend on where one comes from.
* Clocks of several hosts: `failedAt` and `stale` are ages all agree on.  `last_failure`
  is a `monotonic()` value in the code (`base.py:230`).
* The replayed `status` field of a cached answer, which is PENDING from the moment the
  record is written.
* Sanitizing and banding of audit snapshots (`services/audit.py`), and the timeline and
  factor objects of an explanation: formatting of values that no code reads back.
* Authentication, encryption, metrics, logging, the API process and its middleware, and
  the migrations: stateless, or state the other parts never read.  A decryption failure
  appears as `ClaimRaises`.
* The health server and the result backend of the workers.

## Where to go on

A composition of `Intake`, `OutboxRelay` and `LoanPipeline` would state one end-to-end
promise: an application a client was told of concludes.  Its links are here:
`AcceptedIsDurable` (application and outbox row commit together), `EveryRowIsSent`,
`EveryApplicationConcludes`.  The product of the three state spaces is beyond TLC at
bounds where anything happens in each, so it would have to compose the abstract
specifications `Submission`, `AtLeastOnce` and `ApplicationLifecycle`, the last of which
needs a liveness clause first.
