------------------------ MODULE CircuitBreakerProofs ------------------------
(* The circuit breaker, for every set of callers and every parameter.      *)
EXTENDS CircuitBreaker, FiniteSetTheorems, TLAPS

(* The variables of the calls; a call only sleeps when a retry is left, so *)
(* retry_count never passes MAX_RETRIES.                                   *)
CallsTyped ==
  /\ pc \in [Caller -> Step]
  /\ probe \in [Caller -> BOOLEAN]
  /\ retries \in [Caller -> 0..MaxRetries]
  /\ count \in [Caller -> 0..Threshold]
  /\ \A c \in Caller : pc[c] = "sleep" => ~probe[c] /\ retries[c] < MaxRetries

(* The Redis keys. *)
KeysTyped ==
  /\ state \in {"CLOSED", "OPEN", "HALF_OPEN"}
  /\ failures \in 0..Threshold
  /\ lease \in 1..NoLease
  /\ failedAt \in 0..Never
  /\ lock \in 0..ProbeTTL

(* Time, the service and the bounds. *)
RestTyped ==
  /\ busy \in [Caller -> 0..CallTime]
  /\ healthy \in BOOLEAN
  /\ aborts \in 0..MaxAborts
  /\ orphans \in 0..aborts
  /\ overlapped \in BOOLEAN

Typed == KeysTyped /\ CallsTyped /\ RestTyped

LEMMA TypedInit == Init => Typed
<1> SUFFICES ASSUME Init PROVE Typed
  OBVIOUS
<1>1. KeysTyped /\ CallsTyped
  BY ParametersAssumption DEF Init, KeysTyped, CallsTyped, NoLease, Never, Step
<1>2. busy \in [Caller -> 0..CallTime] /\ aborts \in 0..MaxAborts /\ orphans \in 0..aborts
  BY ParametersAssumption DEF Init
<1>3. healthy \in BOOLEAN /\ overlapped \in BOOLEAN
  BY DEF Init
<1> QED
  BY <1>1, <1>2, <1>3 DEF Typed, RestTyped

(* Ending a call, and moving on within it. *)
LEMMA ReturnTyped ==
  ASSUME CallsTyped, NEW c \in Caller, Return(c)
  PROVE  CallsTyped'
BY ParametersAssumption DEF Return, CallsTyped, Goto, Step

LEMMA GotoTyped ==
  ASSUME CallsTyped, NEW c \in Caller, NEW step \in Step, Goto(c, step), UNCHANGED local,
         step = "sleep" => MayRetry(c)
  PROVE  CallsTyped'
BY DEF Goto, CallsTyped, local, MayRetry

LEMMA AfterFailureTyped ==
  ASSUME CallsTyped, NEW c \in Caller, AfterFailure(c)
  PROVE  CallsTyped'
<1>1. CASE MayRetry(c)
  BY <1>1, ParametersAssumption DEF AfterFailure, MayRetry, CallsTyped, Goto, Step
<1> QED
  BY <1>1, ReturnTyped DEF AfterFailure

(* The check before the first attempt. *)
LEMMA CheckTyped ==
  ASSUME Typed, NEW c \in Caller,
         GetState(c) \/ GetLastFailure(c) \/ SetHalfOpen(c) \/ AcquireProbe(c)
  PROVE  Typed'
<1> USE DEF Typed, Step, Env
<1>1. CASE GetState(c)
  <2>1. /\ UNCHANGED <<redis, local, busy, healthy, aborts, orphans>>
        /\ \E step \in {"attempt", "getLastFailure", "acquireProbe"} : Goto(c, step)
    BY <1>1 DEF GetState, KeysTyped
  <2>2. CallsTyped'
    BY <2>1, GotoTyped
  <2>3. overlapped' \in BOOLEAN
    BY <1>1 DEF GetState, RestTyped
  <2> QED
    BY <2>1, <2>2, <2>3 DEF KeysTyped, RestTyped, redis
<1>2. CASE GetLastFailure(c)
  <2>1. CallsTyped'
    BY <1>2, GotoTyped, ReturnTyped DEF GetLastFailure
  <2>2. UNCHANGED <<redis, busy, Env>>
    BY <1>2 DEF GetLastFailure
  <2> QED
    BY <2>1, <2>2 DEF KeysTyped, RestTyped, redis
<1>3. CASE SetHalfOpen(c)
  <2>1. CallsTyped'
    BY <1>3, GotoTyped DEF SetHalfOpen
  <2> QED
    BY <1>3, <2>1 DEF SetHalfOpen, KeysTyped, RestTyped
<1>4. CASE AcquireProbe(c)
  <2>1. CASE lock = 0
    <3>1. KeysTyped' /\ RestTyped'
      BY <1>4, <2>1, ParametersAssumption DEF AcquireProbe, KeysTyped, RestTyped
    <3>2. CallsTyped'
      BY <1>4, <2>1 DEF AcquireProbe, CallsTyped, Goto
    <3> QED
      BY <3>1, <3>2
  <2>2. CASE lock # 0
    BY <1>4, <2>2, ReturnTyped DEF AcquireProbe, KeysTyped, RestTyped
  <2> QED
    BY <2>1, <2>2
<1> QED
  BY <1>1, <1>2, <1>3, <1>4

(* An attempt and its retry. *)
LEMMA AttemptTyped ==
  ASSUME Typed, NEW c \in Caller,
         AttemptSucceeds(c) \/ (\E failure \in Failure : AttemptFails(c, failure)) \/ Retry(c)
  PROVE  Typed'
<1> USE DEF Typed, Step, Env
<1>1. CASE AttemptSucceeds(c)
  <2>1. CallsTyped'
    BY <1>1, GotoTyped DEF AttemptSucceeds
  <2>2. KeysTyped' /\ RestTyped'
    BY <1>1, ParametersAssumption DEF AttemptSucceeds, KeysTyped, RestTyped, redis
  <2> QED
    BY <2>1, <2>2
<1>2. ASSUME NEW failure \in Failure, AttemptFails(c, failure) PROVE Typed'
  <2>1. KeysTyped' /\ RestTyped'
    BY <1>2, ParametersAssumption DEF AttemptFails, KeysTyped, RestTyped, redis
  <2>2. CASE Return(c)
    BY <2>1, <2>2, ReturnTyped
  <2>3. CASE ~Return(c)
    <3>1. /\ UNCHANGED local
          /\ \E step \in {"reopen", "incr", "sleep"} :
               Goto(c, step) /\ (step = "sleep" => MayRetry(c))
      BY <1>2, <2>3 DEF AttemptFails
    <3>2. CallsTyped'
      BY <3>1, GotoTyped
    <3> QED
      BY <2>1, <3>2
  <2> QED
    BY <2>2, <2>3
<1>3. CASE Retry(c)
  BY <1>3, ParametersAssumption DEF Retry, CallsTyped, Goto, KeysTyped, RestTyped, redis
<1> QED
  BY <1>1, <1>2, <1>3

(* _record_success. *)
LEMMA SuccessTyped ==
  ASSUME Typed, NEW c \in Caller,
         SetClosed(c) \/ DropCount(c) \/ DropFailure(c) \/ DropLock(c)
  PROVE  Typed'
<1> USE ParametersAssumption DEF Typed, Step, Env
<1>1. CallsTyped'
  BY GotoTyped, ReturnTyped DEF SetClosed, DropCount, DropFailure, DropLock
<1>2. KeysTyped'
  BY DEF SetClosed, DropCount, DropFailure, DropLock, KeysTyped, NoLease, Never
<1>3. RestTyped'
  BY DEF SetClosed, DropCount, DropFailure, DropLock, RestTyped
<1> QED
  BY <1>1, <1>2, <1>3

(* _record_service_down. *)
LEMMA DownTyped ==
  ASSUME Typed, NEW c \in Caller,
         Incr(c) \/ Expire(c) \/ NoteFailure(c) \/ Trip(c)
  PROVE  Typed'
<1> USE ParametersAssumption DEF Typed, Step, Env
<1>1. KeysTyped'
  BY DEF Incr, Expire, NoteFailure, Trip, KeysTyped, NoLease, Never
<1>2. RestTyped'
  BY DEF Incr, Expire, NoteFailure, Trip, RestTyped
<1>3. CASE Incr(c)
  <2>1. failures' \in 0..Threshold
    BY <1>1 DEF KeysTyped
  <2>2. CallsTyped'
    BY <1>3, <2>1 DEF Incr, CallsTyped, Goto
  <2> QED
    BY <1>1, <1>2, <2>2
<1>4. CASE ~Incr(c)
  <2>1. CallsTyped'
    BY <1>4, GotoTyped, AfterFailureTyped DEF Expire, NoteFailure, Trip
  <2> QED
    BY <1>1, <1>2, <2>1
<1> QED
  BY <1>3, <1>4

(* _record_half_open_failure, and calls cut short. *)
LEMMA ReopenTyped ==
  ASSUME Typed, NEW c \in Caller,
         \/ Reopen(c) \/ NoteReopen(c) \/ ReleaseProbe(c)
         \/ Abort(c)
  PROVE  Typed'
<1> USE ParametersAssumption DEF Typed, Step, Env
<1>1. CallsTyped'
  BY GotoTyped, ReturnTyped DEF Reopen, NoteReopen, ReleaseProbe, Abort
<1>2. KeysTyped'
  BY DEF Reopen, NoteReopen, ReleaseProbe, Abort, KeysTyped, Never, redis
<1>3. RestTyped'
  BY DEF Reopen, NoteReopen, ReleaseProbe, Abort, RestTyped
<1> QED
  BY <1>1, <1>2, <1>3

LEMMA TickTyped ==
  ASSUME Typed, Tick
  PROVE  Typed'
<1> USE ParametersAssumption DEF Typed, Env
<1>1. KeysTyped'
  BY DEF Tick, KeysTyped, NoLease, Never
<1>2. busy' \in [Caller -> 0..CallTime]
  BY DEF Tick, RestTyped
<1>3. CallsTyped' /\ RestTyped'
  BY <1>2 DEF Tick, CallsTyped, RestTyped, local
<1> QED
  BY <1>1, <1>3

LEMMA TypedStep ==
  ASSUME Typed, [Next]_vars
  PROVE  Typed'
<1>1. CASE ServiceChanges \/ UNCHANGED vars
  BY <1>1 DEF ServiceChanges, vars, redis, local, Env, Typed, KeysTyped, CallsTyped, RestTyped
<1> QED
  BY <1>1, TickTyped, CheckTyped, AttemptTyped, SuccessTyped, DownTyped, ReopenTyped
  DEF Next, CallStep

(* BaseExternalService.call: keys, retry counts, probe flags and timers    *)
(* keep their ranges; in particular no call retries past MAX_RETRIES.      *)
THEOREM TypeCorrect == Spec => []TypeOK
<1>1. Typed => TypeOK
  BY DEF Typed, KeysTyped, CallsTyped, RestTyped, TypeOK
<1> QED
  BY <1>1, TypedInit, TypedStep, PTL DEF Spec

(* ----------------------------------------------------------------------- *)
(* A step of a call leaves the other calls alone, and an idle caller holds *)
(* no probe flag; while calls have not overlapped, the others are idle.    *)
LEMMA OthersKeep ==
  ASSUME Typed, NEW c \in Caller, CallStep(c) \/ Abort(c), NEW d \in Caller, d # c
  PROVE  pc'[d] = pc[d] /\ probe'[d] = probe[d]
<1> USE DEF Typed, CallsTyped, Goto, Return, local
<1>1. CASE GetState(c) \/ GetLastFailure(c) \/ SetHalfOpen(c) \/ AcquireProbe(c)
  BY <1>1 DEF GetState, GetLastFailure, SetHalfOpen, AcquireProbe
<1>2. CASE AttemptSucceeds(c) \/ (\E failure \in Failure : AttemptFails(c, failure)) \/ Retry(c)
  BY <1>2 DEF AttemptSucceeds, AttemptFails, Retry
<1>3. CASE SetClosed(c) \/ DropCount(c) \/ DropFailure(c) \/ DropLock(c)
  BY <1>3 DEF SetClosed, DropCount, DropFailure, DropLock
<1>4. CASE Incr(c) \/ Expire(c) \/ NoteFailure(c) \/ Trip(c)
  BY <1>4 DEF Incr, Expire, NoteFailure, Trip, AfterFailure
<1>5. CASE Reopen(c) \/ NoteReopen(c) \/ ReleaseProbe(c) \/ Abort(c)
  BY <1>5 DEF Reopen, NoteReopen, ReleaseProbe, Abort
<1> QED
  BY <1>1, <1>2, <1>3, <1>4, <1>5 DEF CallStep

Alone(c) == \A d \in Caller : d # c => pc[d] = "idle"

IdleHoldNothing == \A c \in Caller : pc[c] = "idle" => ~probe[c]

OneUnderWay == ~overlapped => \A c \in Caller : pc[c] # "idle" => Alone(c)

LEMMA IdleStep ==
  ASSUME Typed, IdleHoldNothing, [Next]_vars
  PROVE  IdleHoldNothing'
<1> USE DEF Typed, IdleHoldNothing
<1>1. ASSUME NEW c \in Caller, CallStep(c) \/ Abort(c), pc'[c] = "idle" PROVE ~probe'[c]
  <2>1. Return(c)
    BY <1>1 DEF CallStep, GetState, GetLastFailure, SetHalfOpen, AcquireProbe, AttemptSucceeds,
       AttemptFails, Retry, SetClosed, DropCount, DropFailure, DropLock, Incr, Expire,
       NoteFailure, Trip, AfterFailure, Reopen, NoteReopen, ReleaseProbe, Abort, Goto,
       CallsTyped, KeysTyped
  <2> QED
    BY <2>1 DEF Return, CallsTyped
<1>2. ASSUME NEW c \in Caller, CallStep(c) \/ Abort(c) PROVE IdleHoldNothing'
  BY <1>1, <1>2, OthersKeep
<1>3. CASE Tick \/ ServiceChanges \/ UNCHANGED vars
  BY <1>3 DEF Tick, ServiceChanges, vars, local
<1> QED
  BY <1>2, <1>3 DEF Next

(* Overlapping is for good, and seen when a call begins during another. *)
LEMMA AloneFact ==
  ASSUME Typed, OneUnderWay, NEW c \in Caller, CallStep(c), ~overlapped'
  PROVE  ~overlapped /\ Alone(c)
<1>1. CASE GetState(c)
  BY <1>1 DEF GetState, Alone
<1>2. CASE ~GetState(c)
  <2>1. pc[c] # "idle" /\ overlapped' = overlapped
    BY <1>2 DEF CallStep, GetLastFailure, SetHalfOpen, AcquireProbe, AttemptSucceeds,
       AttemptFails, Retry, SetClosed, DropCount, DropFailure, DropLock, Incr, Expire,
       NoteFailure, Trip, Reopen, NoteReopen, ReleaseProbe, Env
  <2> QED
    BY <2>1 DEF OneUnderWay
<1> QED
  BY <1>1, <1>2

LEMMA UnderWayStep ==
  ASSUME Typed, OneUnderWay, [Next]_vars
  PROVE  OneUnderWay'
<1>1. ASSUME NEW c \in Caller, CallStep(c) PROVE OneUnderWay'
  BY <1>1, AloneFact, OthersKeep DEF OneUnderWay, Alone
<1>2. ASSUME NEW c \in Caller, Abort(c) PROVE OneUnderWay'
  <2>1. overlapped' = overlapped /\ pc'[c] = "idle"
    BY <1>2 DEF Abort, Return, Goto, Typed, CallsTyped
  <2> QED
    BY <1>2, <2>1, OthersKeep DEF OneUnderWay, Alone
<1>3. CASE Tick \/ ServiceChanges \/ UNCHANGED vars
  BY <1>3 DEF Tick, ServiceChanges, vars, Env, OneUnderWay, Alone
<1> QED
  BY <1>1, <1>2, <1>3 DEF Next

(* ----------------------------------------------------------------------- *)
(* While calls have not overlapped, OPEN is only left by the cooldown and  *)
(* only entered with a failure time.                                       *)
KnowsCooldown(c) ==
  /\ pc[c] \in {"getLastFailure", "setHalfOpen"} => state = "OPEN"
  /\ pc[c] = "acquireProbe" => state = "HALF_OPEN"
  /\ probe[c] /\ pc[c] \in {"attempt", "reopen"} => state = "HALF_OPEN"
  /\ pc[c] = "reopen" => probe[c]
  /\ pc[c] \in {"dropCount", "dropFailure", "dropLock"} => state = "CLOSED"
  /\ pc[c] = "trip" => failedAt # Never

CooldownRuns ==
  ~overlapped => /\ state # "CLOSED" => failedAt # Never
                 /\ \A c \in Caller : KnowsCooldown(c)

LEMMA CooldownInit == Init => CooldownRuns
BY DEF Init, CooldownRuns, KnowsCooldown

(* An idle caller knows nothing that could become wrong. *)
LEMMA IdleKnows ==
  ASSUME IdleHoldNothing, NEW d \in Caller, pc[d] = "idle"
  PROVE  KnowsCooldown(d)
BY DEF IdleHoldNothing, KnowsCooldown

(* The call that moves keeps what it knows of the circuit. *)
LEMMA CooldownOwn ==
  ASSUME Typed, IdleHoldNothing, NEW c \in Caller, CallStep(c),
         KnowsCooldown(c), state # "CLOSED" => failedAt # Never
  PROVE  KnowsCooldown(c)' /\ (state' # "CLOSED" => failedAt' # Never)
<1> USE ParametersAssumption DEF Typed, Never
<1>2. CASE GetState(c)
  <2>1. UNCHANGED redis /\ UNCHANGED probe
    BY <1>2 DEF GetState, local
  <2>2. /\ pc'[c] \in {"attempt", "getLastFailure", "acquireProbe"}
        /\ pc'[c] = "getLastFailure" => state = "OPEN"
        /\ pc'[c] = "acquireProbe" => state = "HALF_OPEN"
    BY <1>2 DEF GetState, Goto, CallsTyped, KeysTyped
  <2>3. ~probe[c]
    BY <1>2 DEF GetState, IdleHoldNothing
  <2> QED
    BY <2>1, <2>2, <2>3 DEF KnowsCooldown, redis
<1>3. CASE GetLastFailure(c)
  <2>1. UNCHANGED redis /\ state = "OPEN"
    BY <1>3 DEF GetLastFailure, KnowsCooldown
  <2>2. pc'[c] \in {"setHalfOpen", "idle"}
    BY <1>3 DEF GetLastFailure, Return, Goto, CallsTyped
  <2> QED
    BY <2>1, <2>2 DEF KnowsCooldown, redis
<1>4. CASE SetHalfOpen(c)
  BY <1>4 DEF KnowsCooldown, SetHalfOpen, Goto, CallsTyped, local
<1>5. CASE AcquireProbe(c)
  <2>1. UNCHANGED <<state, failedAt>> /\ state = "HALF_OPEN"
    BY <1>5 DEF AcquireProbe, KnowsCooldown
  <2>2. pc'[c] \in {"attempt", "idle"}
    BY <1>5 DEF AcquireProbe, Return, Goto, CallsTyped
  <2> QED
    BY <2>1, <2>2 DEF KnowsCooldown
<1>6. CASE AttemptSucceeds(c) \/ (\E failure \in Failure : AttemptFails(c, failure)) \/ Retry(c)
  BY <1>6 DEF KnowsCooldown, AttemptSucceeds, AttemptFails, Retry,
     Return, Goto, CallsTyped, KeysTyped, redis, local
<1>7. CASE SetClosed(c) \/ DropCount(c) \/ DropFailure(c) \/ DropLock(c)
  BY <1>7 DEF KnowsCooldown, SetClosed, DropCount, DropFailure, DropLock,
     Return, Goto, CallsTyped, KeysTyped, local
<1>8. CASE Incr(c) \/ Expire(c) \/ NoteFailure(c) \/ Trip(c)
  BY <1>8 DEF KnowsCooldown, Incr, Expire, NoteFailure, Trip, AfterFailure,
     Return, Goto, CallsTyped, KeysTyped, local
<1>9. CASE Reopen(c) \/ NoteReopen(c) \/ ReleaseProbe(c)
  BY <1>9 DEF KnowsCooldown, Reopen, NoteReopen, ReleaseProbe,
     Return, Goto, CallsTyped, KeysTyped, local
<1> QED
  BY <1>2, <1>3, <1>4, <1>5, <1>6, <1>7, <1>8, <1>9 DEF CallStep

LEMMA CooldownStep ==
  ASSUME Typed, IdleHoldNothing, OneUnderWay, CooldownRuns, [Next]_vars
  PROVE  CooldownRuns'
<1>1. ASSUME NEW c \in Caller, CallStep(c), ~overlapped'
      PROVE  /\ state' # "CLOSED" => failedAt' # Never'
             /\ \A d \in Caller : KnowsCooldown(d)'
  <2>1. ~overlapped /\ Alone(c)
    BY <1>1, AloneFact
  <2>2. KnowsCooldown(c)' /\ (state' # "CLOSED" => failedAt' # Never)
    BY <1>1, <2>1, CooldownOwn DEF CooldownRuns
  <2>3. \A d \in Caller : d # c => pc'[d] = "idle" /\ ~probe'[d]
    BY <1>1, <2>1, OthersKeep DEF Alone, IdleHoldNothing
  <2>4. \A d \in Caller : d # c => KnowsCooldown(d)'
    BY <2>3 DEF KnowsCooldown
  <2> QED
    BY <2>2, <2>4 DEF Never
<1>2. ASSUME NEW c \in Caller, Abort(c), ~overlapped'
      PROVE  /\ state' # "CLOSED" => failedAt' # Never'
             /\ \A d \in Caller : KnowsCooldown(d)'
  <2>1. UNCHANGED redis /\ ~overlapped /\ pc'[c] = "idle" /\ ~probe'[c]
    BY <1>2 DEF Abort, Return, Goto, Typed, CallsTyped
  <2>2. \A d \in Caller : d # c => pc'[d] = pc[d] /\ probe'[d] = probe[d]
    BY <1>2, OthersKeep
  <2> QED
    BY <2>1, <2>2 DEF CooldownRuns, KnowsCooldown, redis, Never
<1>3. CASE Tick
  BY <1>3, ParametersAssumption DEF Tick, CooldownRuns, KnowsCooldown, Typed, KeysTyped, local, Env, Never
<1>4. CASE ServiceChanges \/ UNCHANGED vars
  BY <1>4 DEF ServiceChanges, vars, CooldownRuns, KnowsCooldown, redis, local, Env, Never
<1> QED
  BY <1>1, <1>2, <1>3, <1>4 DEF Next, CooldownRuns

(* _circuit_state and the _record functions: as long as the calls of a     *)
(* service have not overlapped, an OPEN circuit has the failure time it    *)
(* needs to become HALF_OPEN, whichever workers call and wherever between  *)
(* two commands calls are cut short.                                       *)
THEOREM SequentialCallsRecover == Spec => []OpenHasFailureTime
<1>1. Init => IdleHoldNothing /\ OneUnderWay
  BY DEF Init, IdleHoldNothing, OneUnderWay
<1>2. CooldownRuns => OpenHasFailureTime
  BY DEF CooldownRuns, OpenHasFailureTime
<1> QED
  BY <1>1, <1>2, TypedInit, TypedStep, IdleStep, UnderWayStep, CooldownInit, CooldownStep, PTL
  DEF Spec

(* ----------------------------------------------------------------------- *)
(* While calls have not overlapped, what a call knows of the circuit stays *)
(* true until it acts on it, but for the retries of a call that opened it. *)
KnowsState(c) ==
  /\ pc[c] = "setHalfOpen" => failedAt = Cooldown
  /\ pc[c] \in {"incr", "expire", "noteFailure", "trip"} => ~probe[c]
  /\ pc[c] = "trip" => count[c] = Threshold
  /\ state = "HALF_OPEN" /\ pc[c] # "idle" => probe[c] \/ pc[c] = "acquireProbe"
  /\ state = "OPEN" /\ pc[c] \in {"attempt", "setClosed"} => retries[c] > 0

CallsKnowState == ~overlapped => \A c \in Caller : KnowsState(c)

LEMMA KnowledgeInit == Init => CallsKnowState
BY DEF Init, CallsKnowState, KnowsState

LEMMA KnowledgeOwn ==
  ASSUME Typed, IdleHoldNothing, NEW c \in Caller, CallStep(c), KnowsCooldown(c), KnowsState(c)
  PROVE  KnowsState(c)'
<1> USE ParametersAssumption DEF Typed
<1>2. CASE GetState(c)
  BY <1>2 DEF GetState, KnowsState, Goto, CallsTyped, KeysTyped, redis, local
<1>3. CASE GetLastFailure(c)
  BY <1>3 DEF GetLastFailure, KnowsState, KnowsCooldown, Return, Goto, CallsTyped, redis, local
<1>4. CASE SetHalfOpen(c) \/ AcquireProbe(c)
  BY <1>4 DEF SetHalfOpen, AcquireProbe, KnowsState, KnowsCooldown, Return, Goto,
     CallsTyped, local
<1>5. CASE AttemptSucceeds(c) \/ Retry(c)
  BY <1>5 DEF AttemptSucceeds, Retry, KnowsState, KnowsCooldown, Goto, CallsTyped,
     KeysTyped, redis, local
<1>6. ASSUME NEW failure \in Failure, AttemptFails(c, failure) PROVE KnowsState(c)'
  BY <1>6 DEF AttemptFails, KnowsState, Return, Goto, CallsTyped, redis, local
<1>7. CASE SetClosed(c) \/ DropCount(c) \/ DropFailure(c) \/ DropLock(c)
  BY <1>7 DEF SetClosed, DropCount, DropFailure, DropLock, KnowsState, KnowsCooldown,
     Return, Goto, CallsTyped, local
<1>8. CASE Incr(c) \/ Expire(c) \/ NoteFailure(c) \/ Trip(c)
  BY <1>8 DEF Incr, Expire, NoteFailure, Trip, AfterFailure, KnowsState, KnowsCooldown,
     Return, Goto, CallsTyped, KeysTyped, local
<1>9. CASE Reopen(c) \/ NoteReopen(c) \/ ReleaseProbe(c)
  BY <1>9 DEF Reopen, NoteReopen, ReleaseProbe, KnowsState, KnowsCooldown,
     Return, Goto, CallsTyped, local
<1> QED
  BY <1>2, <1>3, <1>4, <1>5, <1>6, <1>7, <1>8, <1>9 DEF CallStep

LEMMA KnowledgeStep ==
  ASSUME Typed, IdleHoldNothing, OneUnderWay, CooldownRuns, CallsKnowState, [Next]_vars
  PROVE  CallsKnowState'
<1>1. ASSUME NEW c \in Caller, CallStep(c), ~overlapped'
      PROVE  \A d \in Caller : KnowsState(d)'
  <2>1. ~overlapped /\ Alone(c)
    BY <1>1, AloneFact
  <2>2. KnowsState(c)'
    BY <1>1, <2>1, KnowledgeOwn DEF CooldownRuns, CallsKnowState
  <2>3. \A d \in Caller : d # c => pc'[d] = "idle"
    BY <1>1, <2>1, OthersKeep DEF Alone
  <2>4. \A d \in Caller : d # c => KnowsState(d)'
    BY <2>3 DEF KnowsState
  <2> QED
    BY <2>2, <2>4
<1>2. ASSUME NEW c \in Caller, Abort(c), ~overlapped'
      PROVE  \A d \in Caller : KnowsState(d)'
  <2>1. UNCHANGED redis /\ ~overlapped /\ pc'[c] = "idle" /\ pc[c] # "idle"
    BY <1>2 DEF Abort, Return, Goto, Typed, CallsTyped
  <2>2. \A d \in Caller : d # c => pc'[d] = "idle"
    BY <1>2, <2>1, OthersKeep DEF OneUnderWay, Alone
  <2> QED
    BY <2>1, <2>2 DEF KnowsState
<1>3. CASE Tick
  BY <1>3, ParametersAssumption DEF Tick, CallsKnowState, KnowsState, Typed, KeysTyped, local, Env
<1>4. CASE ServiceChanges \/ UNCHANGED vars
  BY <1>4 DEF ServiceChanges, vars, CallsKnowState, KnowsState, redis, local, Env
<1> QED
  BY <1>1, <1>2, <1>3, <1>4 DEF Next, CallsKnowState

(* Four kinds of step write the state; each belongs to a call that knows. *)
LEMMA MoveStep ==
  ASSUME Typed, CooldownRuns, CallsKnowState, ~overlapped, [Next]_vars
  PROVE  ProperMove
<1> USE DEF Typed
<1>0. ASSUME NEW c \in Caller PROVE KnowsCooldown(c) /\ KnowsState(c)
  BY DEF CooldownRuns, CallsKnowState
<1>1. ASSUME NEW c \in Caller, SetHalfOpen(c) PROVE ProperMove
  BY <1>0, <1>1 DEF SetHalfOpen, ProperMove, KnowsCooldown, KnowsState
<1>2. ASSUME NEW c \in Caller, SetClosed(c) PROVE ProperMove
  BY <1>0, <1>2 DEF SetClosed, ProperMove, KnowsState, KeysTyped
<1>3. ASSUME NEW c \in Caller, Trip(c) PROVE ProperMove
  BY <1>0, <1>3 DEF Trip, ProperMove, KnowsState, KeysTyped
<1>4. ASSUME NEW c \in Caller, Reopen(c) PROVE ProperMove
  BY <1>0, <1>4 DEF Reopen, ProperMove, KnowsCooldown, KnowsState
<1>5. ASSUME NEW c \in Caller, CallStep(c) \/ Abort(c),
             ~SetHalfOpen(c), ~SetClosed(c), ~Trip(c), ~Reopen(c)
      PROVE  state' = state
  BY <1>5 DEF CallStep, GetState, GetLastFailure, AcquireProbe, AttemptSucceeds, AttemptFails,
     Retry, DropCount, DropFailure, DropLock, Incr, Expire, NoteFailure, NoteReopen,
     ReleaseProbe, Abort, redis
<1>6. CASE Tick \/ ServiceChanges \/ UNCHANGED vars
  BY <1>6 DEF Tick, ServiceChanges, vars, redis, ProperMove
<1> QED
  BY <1>1, <1>2, <1>3, <1>4, <1>5, <1>6 DEF Next, ProperMove

(* call: as long as the calls of a service have not overlapped, its        *)
(* circuit opens only at the threshold, becomes HALF_OPEN only after the   *)
(* cooldown and is closed only by a probe or by a retry of the call that   *)
(* opened it, whichever workers call, wherever calls are cut short and     *)
(* however much time passes between any two commands.                      *)
THEOREM SequentialCallsInOrder == Spec => StatesInOrder
<1>1. Init => IdleHoldNothing /\ OneUnderWay
  BY DEF Init, IdleHoldNothing, OneUnderWay
<1>2. Typed /\ CooldownRuns /\ CallsKnowState /\ [Next]_vars => (~overlapped => ProperMove)
  BY MoveStep
<1>3. UNCHANGED vars => (~overlapped => ProperMove)
  BY DEF ProperMove, vars, redis
<1> QED
  BY <1>1, <1>2, <1>3, TypedInit, TypedStep, IdleStep, UnderWayStep, CooldownInit, CooldownStep,
     KnowledgeInit, KnowledgeStep, PTL
  DEF Spec, StatesInOrder

(* ----------------------------------------------------------------------- *)
(* The calls between INCR and EXPIRE. *)
Expiring == {c \in Caller : pc[c] = "expire"}

LEMMA ExpiringFinite == IsFiniteSet(Expiring) /\ Cardinality(Expiring) \in Nat
BY ParametersAssumption, FS_Subset, FS_CardinalityType DEF Expiring

LEMMA LeaseStep ==
  ASSUME Typed, CountIsLeased, [Next]_vars
  PROVE  CountIsLeased'
<1> USE ParametersAssumption DEF Typed
<1>a. CountIsLeased = (lease = NoLease => failures <= orphans + Cardinality(Expiring))
  BY DEF CountIsLeased, Expiring
<1>b. CountIsLeased' = (lease' = NoLease => failures' <= orphans' + Cardinality(Expiring'))
  BY DEF CountIsLeased, Expiring
<1>c. orphans \in Nat /\ Cardinality(Expiring) \in Nat /\ IsFiniteSet(Expiring)
  BY ExpiringFinite DEF RestTyped
<1>1. ASSUME NEW c \in Caller, CallStep(c), ~Incr(c), ~Expire(c), ~DropCount(c)
      PROVE  CountIsLeased'
  <2>1. failures' = failures /\ lease' = lease /\ orphans' = orphans
    BY <1>1 DEF CallStep, GetState, GetLastFailure, SetHalfOpen, AcquireProbe,
       AttemptSucceeds, AttemptFails, Retry, SetClosed, DropFailure, DropLock,
       NoteFailure, Trip, Reopen, NoteReopen, ReleaseProbe, redis, Env
  <2>2. pc[c] # "expire" /\ pc'[c] # "expire"
    BY <1>1 DEF CallStep, GetState, GetLastFailure, SetHalfOpen, AcquireProbe,
       AttemptSucceeds, AttemptFails, Retry, SetClosed, DropFailure, DropLock,
       NoteFailure, Trip, Reopen, NoteReopen, ReleaseProbe, AfterFailure, Return, Goto,
       CallsTyped, KeysTyped
  <2>3. Expiring' = Expiring
    BY <1>1, <2>2, OthersKeep DEF Expiring
  <2> QED
    BY <1>a, <1>b, <2>1, <2>3
<1>2. ASSUME NEW c \in Caller, Incr(c) PROVE CountIsLeased'
  <2>1. pc[c] = "incr" /\ pc'[c] = "expire" /\ \A d \in Caller : d # c => pc'[d] = pc[d]
    BY <1>2, OthersKeep DEF CallStep, Incr, Goto, CallsTyped
  <2>2. c \notin Expiring /\ Expiring' = Expiring \cup {c}
    BY <2>1 DEF Expiring
  <2>3. Cardinality(Expiring') = Cardinality(Expiring) + 1
    BY <2>2, <1>c, FS_AddElement
  <2>4. lease' = lease /\ orphans' = orphans /\ failures' <= failures + 1 /\ failures \in Nat
        /\ failures' \in Nat
    BY <1>2 DEF Incr, Env, KeysTyped
  <2>5. failures <= orphans + Cardinality(Expiring)
        => failures' <= orphans' + Cardinality(Expiring')
    BY <1>c, <2>3, <2>4
  <2> QED
    BY <1>a, <1>b, <2>4, <2>5
<1>3. ASSUME NEW c \in Caller, Expire(c) PROVE CountIsLeased'
  <2>1. lease' = NoLease => failures' = 0
    BY <1>3 DEF Expire, KeysTyped, NoLease
  <2>2. orphans' \in Nat /\ Cardinality(Expiring') \in Nat
    <3>1. Typed'
      BY <1>3, DownTyped
    <3>2. IsFiniteSet(Expiring')
      BY FS_Subset DEF Expiring
    <3> QED
      BY <3>1, <3>2, FS_CardinalityType DEF RestTyped
  <2>3. 0 <= orphans' + Cardinality(Expiring')
    BY <2>2
  <2> QED
    BY <1>b, <2>1, <2>3
<1>4. ASSUME NEW c \in Caller, DropCount(c) PROVE CountIsLeased'
  <2>1. failures' = 0
    BY <1>4 DEF DropCount
  <2>2. orphans' \in Nat /\ Cardinality(Expiring') \in Nat
    <3>1. Typed'
      BY <1>4, SuccessTyped
    <3>2. IsFiniteSet(Expiring')
      BY FS_Subset DEF Expiring
    <3> QED
      BY <3>1, <3>2, FS_CardinalityType DEF RestTyped
  <2>3. 0 <= orphans' + Cardinality(Expiring')
    BY <2>2
  <2> QED
    BY <1>b, <2>1, <2>3
<1>5. CASE Tick
  <2>1. orphans' = orphans /\ Expiring' = Expiring
    BY <1>5 DEF Tick, Env, Expiring
  <2>2. lease' = NoLease => failures' = 0 \/ (lease = NoLease /\ failures' = failures)
    BY <1>5 DEF Tick, KeysTyped, NoLease
  <2>3. 0 <= orphans' + Cardinality(Expiring')
    BY <1>c, <2>1
  <2> QED
    BY <1>a, <1>b, <2>1, <2>2, <2>3
<1>6. CASE ServiceChanges \/ UNCHANGED vars
  BY <1>a, <1>b, <1>6 DEF ServiceChanges, vars, redis, Env, Expiring
<1>7. ASSUME NEW c \in Caller, Abort(c) PROVE CountIsLeased'
  <2>1. failures' = failures /\ lease' = lease /\ pc'[c] = "idle"
    BY <1>7 DEF Abort, Return, Goto, CallsTyped, redis
  <2>2. \A d \in Caller : d # c => pc'[d] = pc[d]
    BY <1>7, OthersKeep
  <2>3. Expiring' = Expiring \ {c}
    BY <2>1, <2>2 DEF Expiring
  <2>4. orphans' + Cardinality(Expiring') = orphans + Cardinality(Expiring)
    <3>1. CASE pc[c] = "expire"
      <4>1. c \in Expiring /\ orphans' = orphans + 1
        BY <1>7, <3>1 DEF Expiring, Abort
      <4>2. Cardinality(Expiring') = Cardinality(Expiring) - 1
        BY <1>c, <2>3, <4>1, FS_RemoveElement
      <4> QED
        BY <1>c, <4>1, <4>2
    <3>2. CASE pc[c] # "expire"
      <4>1. Expiring' = Expiring /\ orphans' = orphans
        BY <1>7, <2>3, <3>2 DEF Expiring, Abort
      <4> QED
        BY <4>1
    <3> QED
      BY <3>1, <3>2
  <2> QED
    BY <1>a, <1>b, <2>1, <2>4
<1> QED
  BY <1>1, <1>2, <1>3, <1>4, <1>5, <1>6, <1>7 DEF Next

(* _record_service_down: however calls interleave and wherever they are    *)
(* cut short, a failure count without an expiry holds no failures but      *)
(* those of calls that are about to set one or died before they could.     *)
THEOREM CountsExpire == Spec => []CountIsLeased
<1>1. Init => CountIsLeased
  <2> SUFFICES ASSUME Init PROVE CountIsLeased
    OBVIOUS
  <2>1. Cardinality({c \in Caller : pc[c] = "expire"}) \in Nat
    BY ExpiringFinite DEF Expiring
  <2> QED
    BY <2>1 DEF Init, CountIsLeased
<1> QED
  BY <1>1, TypedInit, TypedStep, LeaseStep, PTL DEF Spec
=============================================================================
