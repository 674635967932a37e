--------------------------- MODULE CircuitBreaker ---------------------------
(***************************************************************************)
(* BaseExternalService.call: retries behind a circuit breaker whose state  *)
(* is four Redis keys of one service, shared by every worker.              *)
(*                                                                         *)
(* A caller is one worker's sequence of calls to the service.  Every Redis *)
(* command is one step, since the code awaits each of them, so calls       *)
(* interleave between commands.  Time passes in ticks; the four constants  *)
(* below stand for 60 s, 120 s, 10 s and 30 s, and only their order        *)
(* matters to the properties.                                              *)
(***************************************************************************)
EXTENDS Naturals, FiniteSets

CONSTANTS Caller,
          Threshold,        \* CIRCUIT_BREAKER_THRESHOLD
          Window,           \* CIRCUIT_BREAKER_WINDOW_SECONDS
          Cooldown,         \* CIRCUIT_BREAKER_TIMEOUT_SECONDS
          ProbeTTL,         \* CIRCUIT_BREAKER_PROBE_LOCK_SECONDS
          CallTime,         \* EXTERNAL_API_TIMEOUT_SECONDS
          MaxRetries,       \* MAX_RETRIES
          MaxAborts         \* bound: calls cut short

ASSUME ParametersAssumption ==
  /\ {Threshold, Window, Cooldown, ProbeTTL, CallTime} \subseteq Nat \ {0}
  /\ {MaxRetries, MaxAborts} \subseteq Nat
  /\ IsFiniteSet(Caller)

VARIABLES
  state,        \* circuit:<service>:state, "CLOSED" also when the key is absent
  failures,     \* :failure_count, 0 when absent
  lease,        \* ticks until :failure_count expires, NoLease when it never does
  failedAt,     \* ticks since :last_failure, capped; Never when it is absent
  lock,         \* ticks until :probe_lock expires, 0 when it is free
  pc,           \* the step each call is at
  probe,        \* half_open_probe
  retries,      \* retry_count
  count,        \* what INCR returned
  busy,         \* ticks the attempt under way has taken
  healthy,      \* whether the service answers
  aborts,       \* calls cut short so far
  orphans,      \* those of them cut short between INCR and EXPIRE
  overlapped    \* history: two calls have been under way at once

redis == <<state, failures, lease, failedAt, lock>>
local == <<probe, retries, count>>
vars == <<redis, pc, local, busy, healthy, aborts, orphans, overlapped>>

Never == Cooldown + 1
NoLease == Window + 1
Failure == {"TIMEOUT", "SERVICE_DOWN", "NO_RECORD"}
Retryable == {"TIMEOUT", "SERVICE_DOWN"}

(* Where a call is: at a Redis command, named by what it does, at a        *)
(* request, or between two requests.                                       *)
Step == {"getLastFailure", "setHalfOpen", "acquireProbe", "setClosed", "dropCount",
         "dropFailure", "dropLock", "incr", "expire", "noteFailure", "trip", "reopen",
         "noteReopen", "releaseProbe", "idle", "attempt", "sleep"}

Init == /\ state = "CLOSED" /\ failures = 0 /\ lease = NoLease
        /\ failedAt = Never /\ lock = 0
        /\ pc = [c \in Caller |-> "idle"]
        /\ probe = [c \in Caller |-> FALSE]
        /\ retries = [c \in Caller |-> 0]
        /\ count = [c \in Caller |-> 0]
        /\ busy = [c \in Caller |-> 0]
        /\ healthy \in BOOLEAN
        /\ aborts = 0 /\ orphans = 0
        /\ overlapped = FALSE

Goto(c, step) == pc' = [pc EXCEPT ![c] = step]

(* The call is over; a later call starts afresh. *)
Return(c) ==
  /\ Goto(c, "idle")
  /\ probe' = [probe EXCEPT ![c] = FALSE]
  /\ retries' = [retries EXCEPT ![c] = 0]
  /\ count' = [count EXCEPT ![c] = 0]

Env == <<healthy, aborts, orphans, overlapped>>

-----------------------------------------------------------------------------
(* The check before the first attempt: _circuit_state and the probe lock.  *)
GetState(c) ==
  /\ pc[c] = "idle"
  /\ Goto(c, CASE state = "CLOSED"    -> "attempt"
               [] state = "OPEN"      -> "getLastFailure"
               [] state = "HALF_OPEN" -> "acquireProbe")
  /\ overlapped' = (overlapped \/ \E d \in Caller : pc[d] # "idle")
  /\ UNCHANGED <<redis, local, busy, healthy, aborts, orphans>>

(* Mutant: any failure time will do, however recent. *)
GetLastFailureAtOnce(c) ==
  /\ pc[c] = "getLastFailure"
  /\ IF failedAt # Never
       THEN Goto(c, "setHalfOpen") /\ UNCHANGED local
       ELSE Return(c)
  /\ UNCHANGED <<redis, busy, Env>>

(* OPEN turns away every call until the cooldown has passed; an absent     *)
(* failure time counts as not passed.                                      *)
GetLastFailure(c) ==
  /\ pc[c] = "getLastFailure"
  /\ IF failedAt = Cooldown
       THEN Goto(c, "setHalfOpen") /\ UNCHANGED local
       ELSE Return(c)
  /\ UNCHANGED <<redis, busy, Env>>

SetHalfOpen(c) ==
  /\ pc[c] = "setHalfOpen"
  /\ state' = "HALF_OPEN"
  /\ Goto(c, "acquireProbe")
  /\ UNCHANGED <<failures, lease, failedAt, lock, local, busy, Env>>

(* SET NX EX; whoever does not get the lock is turned away. *)
AcquireProbe(c) ==
  /\ pc[c] = "acquireProbe"
  /\ IF lock = 0
       THEN /\ lock' = ProbeTTL
            /\ probe' = [probe EXCEPT ![c] = TRUE]
            /\ Goto(c, "attempt")
            /\ UNCHANGED <<retries, count>>
       ELSE Return(c) /\ UNCHANGED lock
  /\ UNCHANGED <<state, failures, lease, failedAt, busy, Env>>

-----------------------------------------------------------------------------
(* Mutant: one retry too many. *)
MayRetryOnceMore(c) == ~probe[c] /\ retries[c] <= MaxRetries

(* One request, and what call does with its outcome. *)
MayRetry(c) == ~probe[c] /\ retries[c] < MaxRetries

AttemptSucceeds(c) ==
  /\ pc[c] = "attempt" /\ healthy
  /\ busy' = [busy EXCEPT ![c] = 0]
  /\ Goto(c, "setClosed")
  /\ UNCHANGED <<redis, local, Env>>

(* NO_RECORD stands for every failure that is not retryable: an answer     *)
(* about the applicant, which a healthy service gives too.                 *)
AttemptFails(c, failure) ==
  /\ pc[c] = "attempt" /\ (healthy => failure = "NO_RECORD")
  /\ busy' = [busy EXCEPT ![c] = 0]
  /\ IF probe[c] \/ failure = "SERVICE_DOWN" \/ (failure \in Retryable /\ MayRetry(c))
       THEN /\ Goto(c, IF probe[c] THEN "reopen"
                       ELSE IF failure = "SERVICE_DOWN" THEN "incr" ELSE "sleep")
            /\ UNCHANGED local
       ELSE Return(c)
  /\ UNCHANGED <<redis, Env>>

Retry(c) ==
  /\ pc[c] = "sleep"
  /\ retries' = [retries EXCEPT ![c] = @ + 1]
  /\ Goto(c, "attempt")
  /\ UNCHANGED <<redis, probe, count, busy, Env>>

-----------------------------------------------------------------------------
(* _record_success, four commands. *)
SetClosed(c) ==
  /\ pc[c] = "setClosed" /\ state' = "CLOSED" /\ Goto(c, "dropCount")
  /\ UNCHANGED <<failures, lease, failedAt, lock, local, busy, Env>>

DropCount(c) ==
  /\ pc[c] = "dropCount" /\ failures' = 0 /\ lease' = NoLease /\ Goto(c, "dropFailure")
  /\ UNCHANGED <<state, failedAt, lock, local, busy, Env>>

DropFailure(c) ==
  /\ pc[c] = "dropFailure" /\ failedAt' = Never /\ Goto(c, "dropLock")
  /\ UNCHANGED <<state, failures, lease, lock, local, busy, Env>>

(* The lock goes whether or not this call was the probe that took it. *)
DropLock(c) ==
  /\ pc[c] = "dropLock" /\ lock' = 0 /\ Return(c)
  /\ UNCHANGED <<state, failures, lease, failedAt, busy, Env>>

(* _record_service_down; the count read by INCR decides at the end.  Counts *)
(* above the threshold are all alike.                                       *)
Incr(c) ==
  /\ pc[c] = "incr"
  /\ failures' = IF failures < Threshold THEN failures + 1 ELSE failures
  /\ count' = [count EXCEPT ![c] = failures']
  /\ Goto(c, "expire")
  /\ UNCHANGED <<state, lease, failedAt, lock, probe, retries, busy, Env>>

(* Mutant: only the failure that trips the circuit sets the expiry. *)
ExpireAtThreshold(c) ==
  /\ pc[c] = "expire"
  /\ lease' = IF count[c] >= Threshold /\ failures > 0 THEN Window ELSE lease
  /\ Goto(c, "noteFailure")
  /\ UNCHANGED <<state, failures, failedAt, lock, local, busy, Env>>

Expire(c) ==
  /\ pc[c] = "expire"
  /\ lease' = IF failures = 0 THEN lease ELSE Window
  /\ Goto(c, "noteFailure")
  /\ UNCHANGED <<state, failures, failedAt, lock, local, busy, Env>>

AfterFailure(c) ==
  IF MayRetry(c)
    THEN Goto(c, "sleep") /\ count' = [count EXCEPT ![c] = 0] /\ UNCHANGED <<probe, retries>>
    ELSE Return(c)

(* Mutant: only a failed probe notes its time. *)
NoteFailureOnReopenOnly(c) ==
  /\ pc[c] = "noteFailure"
  /\ IF count[c] >= Threshold THEN Goto(c, "trip") /\ UNCHANGED local ELSE AfterFailure(c)
  /\ UNCHANGED <<redis, busy, Env>>

NoteFailure(c) ==
  /\ pc[c] = "noteFailure" /\ failedAt' = 0
  /\ IF count[c] >= Threshold THEN Goto(c, "trip") /\ UNCHANGED local ELSE AfterFailure(c)
  /\ UNCHANGED <<state, failures, lease, lock, busy, Env>>

Trip(c) ==
  /\ pc[c] = "trip" /\ state' = "OPEN" /\ AfterFailure(c)
  /\ UNCHANGED <<failures, lease, failedAt, lock, busy, Env>>

(* _record_half_open_failure, whatever the failure was. *)
Reopen(c) ==
  /\ pc[c] = "reopen" /\ state' = "OPEN" /\ Goto(c, "noteReopen")
  /\ UNCHANGED <<failures, lease, failedAt, lock, local, busy, Env>>

NoteReopen(c) ==
  /\ pc[c] = "noteReopen" /\ failedAt' = 0 /\ Goto(c, "releaseProbe")
  /\ UNCHANGED <<state, failures, lease, lock, local, busy, Env>>

ReleaseProbe(c) ==
  /\ pc[c] = "releaseProbe" /\ lock' = 0 /\ Return(c)
  /\ UNCHANGED <<state, failures, lease, failedAt, busy, Env>>

-----------------------------------------------------------------------------
(* The call is cut short: TASK_TIMEOUT_SECONDS cancels it, its worker dies, *)
(* or a Redis command raises, which nothing up to the task catches.        *)
Abort(c) ==
  /\ pc[c] # "idle" /\ aborts < MaxAborts
  /\ aborts' = aborts + 1
  /\ orphans' = IF pc[c] = "expire" THEN orphans + 1 ELSE orphans
  /\ busy' = [busy EXCEPT ![c] = 0]
  /\ Return(c)
  /\ UNCHANGED <<redis, healthy, overlapped>>

ServiceChanges ==
  healthy' = ~healthy /\ UNCHANGED <<redis, pc, local, busy, aborts, orphans, overlapped>>

(* Mutant: the probe lock is taken without an expiry. *)
TickKeepingLock ==
  /\ \A c \in Caller : pc[c] = "attempt" => busy[c] < CallTime
  /\ lease' = IF lease \in {1, NoLease} THEN NoLease ELSE lease - 1
  /\ failures' = IF lease = 1 THEN 0 ELSE failures
  /\ failedAt' = IF failedAt < Cooldown THEN failedAt + 1 ELSE failedAt
  /\ busy' = [c \in Caller |-> IF pc[c] = "attempt" THEN busy[c] + 1 ELSE 0]
  /\ UNCHANGED <<state, lock, pc, local, Env>>

(* A request lasts at most CallTime. *)
Tick ==
  /\ \A c \in Caller : pc[c] = "attempt" => busy[c] < CallTime
  /\ lease' = IF lease \in {1, NoLease} THEN NoLease ELSE lease - 1
  /\ failures' = IF lease = 1 THEN 0 ELSE failures
  /\ failedAt' = IF failedAt < Cooldown THEN failedAt + 1 ELSE failedAt
  /\ lock' = IF lock > 0 THEN lock - 1 ELSE 0
  /\ busy' = [c \in Caller |-> IF pc[c] = "attempt" THEN busy[c] + 1 ELSE 0]
  /\ UNCHANGED <<state, pc, local, Env>>

CallStep(c) ==
  \/ GetState(c) \/ GetLastFailure(c) \/ SetHalfOpen(c) \/ AcquireProbe(c)
  \/ AttemptSucceeds(c) \/ (\E failure \in Failure : AttemptFails(c, failure)) \/ Retry(c)
  \/ SetClosed(c) \/ DropCount(c) \/ DropFailure(c) \/ DropLock(c)
  \/ Incr(c) \/ Expire(c) \/ NoteFailure(c) \/ Trip(c)
  \/ Reopen(c) \/ NoteReopen(c) \/ ReleaseProbe(c)

Next == \/ \E c \in Caller : CallStep(c) \/ Abort(c)
        \/ ServiceChanges
        \/ Tick

Spec == Init /\ [][Next]_vars

(* Applications keep coming, so every worker calls again; a healthy        *)
(* service that is asked again and again is asked about applicants it      *)
(* knows; time passes.                                                     *)
FairSpec == /\ Spec
            /\ \A c \in Caller : WF_vars(CallStep(c))
            /\ SF_vars(\E c \in Caller : AttemptSucceeds(c))
            /\ WF_vars(Tick)

-----------------------------------------------------------------------------
(* Properties. *)

TypeOK ==
  /\ state \in {"CLOSED", "OPEN", "HALF_OPEN"}
  /\ failures \in 0..Threshold
  /\ lease \in 1..NoLease
  /\ failedAt \in 0..Never
  /\ lock \in 0..ProbeTTL
  /\ pc \in [Caller -> Step]
  /\ probe \in [Caller -> BOOLEAN]
  /\ retries \in [Caller -> 0..MaxRetries]
  /\ count \in [Caller -> 0..Threshold]
  /\ busy \in [Caller -> 0..CallTime]
  /\ healthy \in BOOLEAN
  /\ aborts \in 0..MaxAborts
  /\ orphans \in 0..aborts
  /\ overlapped \in BOOLEAN

(* An OPEN circuit carries the failure time its cooldown is measured from, *)
(* as long as the calls of the workers to this service have not overlapped: *)
(* without one, _circuit_state turns every call away for ever.             *)
OpenHasFailureTime == state = "OPEN" /\ ~overlapped => failedAt # Never

(* As long as calls have not overlapped: CLOSED opens at the threshold,    *)
(* OPEN becomes HALF_OPEN only when the cooldown is over, and only a probe *)
(* leaves HALF_OPEN.  One call may close an OPEN circuit at once: the one  *)
(* that opened it, since its retries do not look at the circuit again.     *)
ProperMove ==
  state' # state =>
    \/ /\ state = "CLOSED" /\ state' = "OPEN"
       /\ \E c \in Caller : count[c] = Threshold
    \/ state = "OPEN" /\ state' = "HALF_OPEN" /\ failedAt = Cooldown
    \/ state = "OPEN" /\ state' = "CLOSED" /\ \E c \in Caller : retries[c] > 0
    \/ state = "HALF_OPEN" /\ \E c \in Caller : probe[c]
StatesInOrder == [][~overlapped => ProperMove]_vars

(* Half-open lets one probe through at a time. *)
OneProbe == Cardinality({c \in Caller : probe[c]}) <= 1

(* A circuit that opened is tried again. *)
OpenTimesOut == state = "OPEN" ~> state # "OPEN"

(* Once the service answers for good, the circuit closes for good, unless  *)
(* calls overlapped: no cancelled call, no probe that died and no probe    *)
(* made for an unknown applicant keeps the service shut out.               *)
CircuitRecovers == <>[]healthy => <>[](state = "CLOSED") \/ <>overlapped

(* A half-open circuit is probed, even if a probe died holding the lock.   *)
HalfOpenGetsProbed == state = "HALF_OPEN" ~> (state # "HALF_OPEN" \/ \E c \in Caller : probe[c])

(* A failure count without an expiry is made of failures alone whose calls *)
(* are about to set one, or were cut short just before they could: no      *)
(* success that deletes the count between another call's INCR and EXPIRE,  *)
(* no two calls that count together and no call cut short elsewhere leave  *)
(* a count that stays for ever.                                            *)
CountIsLeased ==
  lease = NoLease => failures <= orphans + Cardinality({c \in Caller : pc[c] = "expire"})
=============================================================================
