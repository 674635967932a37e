------------------------------- MODULE Intake -------------------------------
(***************************************************************************)
(* POST /apply-loan: idempotent submission over a Redis cache and the      *)
(* idempotency_records table.                                              *)
(*                                                                         *)
(* Each request is one run of the handler apply_loan, cut at its awaits:   *)
(* a cache read, a database read, the transaction that inserts the rows,   *)
(* its commit, a cache write.  Requests run concurrently, in one API       *)
(* process or several.  A client's retry is another request.  Redis may be *)
(* unreachable or evict at any moment; a handler may die between any two   *)
(* awaits.                                                                 *)
(*                                                                         *)
(* An application's id is the request that created it (a fresh UUID).      *)
(***************************************************************************)
CONSTANTS Request,           \* runs of the handler
          Key,               \* idempotency keys
          Payload,           \* request bodies, apart from their key
          Nothing

VARIABLES
  input,                     \* what each request sends
  pc,                        \* where each handler is
  found,                     \* the idempotency response a handler will return
  reply,                     \* the HTTP answer
  applications,              \* committed loan_applications
  outbox,                    \* committed outbox_messages
  records,                   \* committed idempotency_records, by key
  cache                      \* Redis: idempotent:<key>

vars == <<input, pc, found, reply, applications, outbox, records, cache>>
dbVars == <<applications, outbox, records>>

(* The key is the one in force: the Idempotency-Key header, or else the    *)
(* body's field.  Nothing depends on a body's field that is overridden.    *)
Input == [key : Key, payload : Payload]

KeyOf(r) == input[r].key

(* SHA-256 of the canonical body, in which the key in force replaces the   *)
(* body's: equal exactly when key and payload are.                         *)
HashOf(r) == <<KeyOf(r), input[r].payload>>

Hash == Key \X Payload
IdempotencyResponse == [application : Request, hash : Hash]

(* 200 and 201 carry an application id, 409 and 500 do not. *)
Reply == [code : {200, 201}, application : Request]
           \cup [code : {409, 500}, application : {Nothing}]

ASSUME NothingAssumption ==
  /\ Nothing \notin Request
  /\ Nothing \notin IdempotencyResponse /\ Nothing \notin Reply

Init == /\ input \in [Request -> Input]
        /\ pc = [r \in Request |-> "cacheGet"]
        /\ found = [r \in Request |-> Nothing]
        /\ reply = [r \in Request |-> Nothing]
        /\ applications = {}
        /\ outbox = {}
        /\ records = [k \in Key |-> Nothing]
        /\ cache = [k \in Key |-> Nothing]

Goto(r, step) == pc' = [pc EXCEPT ![r] = step]

(* Mutant: an error answer names the request's own application. *)
AnswerNamingAnyway(r, code, application) ==
  /\ reply' = [reply EXCEPT ![r] = [code |-> code, application |-> r]]
  /\ Goto(r, "answered")

Answer(r, code, application) ==
  /\ reply' = [reply EXCEPT ![r] = [code |-> code, application |-> application]]
  /\ Goto(r, "answered")

(* Mutant: the payload hash is not compared. *)
MismatchIgnored(r, stored) == FALSE

(* The stored response is for another payload. *)
Mismatch(r, stored) == stored.hash # HashOf(r)

-----------------------------------------------------------------------------
(* _redis_idempotency_get: a hit answers at once. *)
CacheHit(r) ==
  /\ pc[r] = "cacheGet" /\ cache[KeyOf(r)] # Nothing
  /\ IF Mismatch(r, cache[KeyOf(r)])
       THEN Answer(r, 409, Nothing)
       ELSE Answer(r, 200, cache[KeyOf(r)].application)
  /\ UNCHANGED <<input, found, dbVars, cache>>

(* A miss; or Redis cannot be reached, which is taken for one. *)
CacheMiss(r) ==
  /\ pc[r] = "cacheGet"
  /\ Goto(r, "dbGet")
  /\ UNCHANGED <<input, found, reply, dbVars, cache>>

(* Answer from a stored record, but refill the cache first. *)
UseRecord(r, stored) ==
  IF Mismatch(r, stored)
    THEN Answer(r, 409, Nothing) /\ UNCHANGED found
    ELSE /\ found' = [found EXCEPT ![r] = stored]
         /\ Goto(r, "cacheSet")
         /\ UNCHANGED reply

RecordGet(r) ==
  /\ pc[r] = "dbGet"
  /\ IF records[KeyOf(r)] # Nothing
       THEN UseRecord(r, records[KeyOf(r)])
       ELSE Goto(r, "insert") /\ UNCHANGED <<found, reply>>
  /\ UNCHANGED <<input, dbVars, cache>>

(* Mutants: the key is checked without a lock, or its lock outlives the    *)
(* transaction.                                                            *)
KeyUnlocked(r) == FALSE
KeyLockedForGood(r) ==
  \E q \in Request : q # r /\ pc[q] \in {"commit", "cacheSet", "answered"} /\ KeyOf(q) = KeyOf(r)

(* Another open transaction has inserted the key: PostgreSQL makes the     *)
(* INSERT ... ON CONFLICT wait for that transaction to end.                *)
KeyLocked(r) == \E q \in Request : pc[q] = "commit" /\ KeyOf(q) = KeyOf(r)

(* Mutants: an uncommitted insertion of the key counts as a conflict (DO   *)
(* NOTHING without waiting), or the cache is written before the commit.    *)
InsertRowsWithoutWaiting(r) ==
  /\ pc[r] = "insert"
  /\ Goto(r, IF records[KeyOf(r)] = Nothing /\ ~KeyLocked(r) THEN "commit" ELSE "reread")
  /\ UNCHANGED <<input, found, reply, dbVars, cache>>
InsertRowsCachingEarly(r) ==
  /\ pc[r] = "insert" /\ ~KeyLocked(r)
  /\ IF records[KeyOf(r)] = Nothing
       THEN /\ Goto(r, "commit")
            /\ cache' = [cache EXCEPT ![KeyOf(r)] = [application |-> r, hash |-> HashOf(r)]]
       ELSE Goto(r, "reread") /\ UNCHANGED cache
  /\ UNCHANGED <<input, found, reply, dbVars>>

(* The handler's transaction inserts the application and its outbox row,   *)
(* then the idempotency record; when the key is taken, it rolls back.      *)
InsertRows(r) ==
  /\ pc[r] = "insert" /\ ~KeyLocked(r)
  /\ Goto(r, IF records[KeyOf(r)] = Nothing THEN "commit" ELSE "reread")
  /\ UNCHANGED <<input, found, reply, dbVars, cache>>

RecordGetAfterRace(r) ==
  /\ pc[r] = "reread"
  /\ IF records[KeyOf(r)] = Nothing
       THEN Answer(r, 409, Nothing) /\ UNCHANGED found
       ELSE UseRecord(r, records[KeyOf(r)])
  /\ UNCHANGED <<input, dbVars, cache>>

(* Mutant: the outbox row is left out of the transaction. *)
PublishRowsWithoutOutbox(r) ==
  /\ applications' = applications \cup {r}
  /\ records' = [records EXCEPT ![KeyOf(r)] = [application |-> r, hash |-> HashOf(r)]]
  /\ UNCHANGED outbox

(* The three rows become visible together. *)
PublishRows(r) ==
  /\ applications' = applications \cup {r}
  /\ outbox' = outbox \cup {r}
  /\ records' = [records EXCEPT ![KeyOf(r)] = [application |-> r, hash |-> HashOf(r)]]

Commit(r) ==
  /\ pc[r] = "commit"
  /\ PublishRows(r)
  /\ found' = [found EXCEPT ![r] = [application |-> r, hash |-> HashOf(r)]]
  /\ Goto(r, "cacheSet")
  /\ UNCHANGED <<input, reply, cache>>

(* The commit raises: nothing is stored, or all of it is and the           *)
(* confirmation is lost.                                                   *)
CommitRaises(r) ==
  /\ pc[r] = "commit"
  /\ PublishRows(r) \/ UNCHANGED dbVars
  /\ Answer(r, 500, Nothing)
  /\ UNCHANGED <<input, found, cache>>

(* Mutant: whoever finds its key in the database is told it is the creator. *)
CacheSetAndAnswerCreated(r) ==
  /\ pc[r] = "cacheSet"
  /\ \/ cache' = [cache EXCEPT ![KeyOf(r)] = found[r]]
     \/ UNCHANGED cache
  /\ Answer(r, 201, found[r].application)
  /\ UNCHANGED <<input, found, dbVars>>

(* _redis_idempotency_set, whose failure is swallowed, and the answer:     *)
(* 201 for the creator, 200 for a repetition.                              *)
CacheSetAndAnswer(r) ==
  /\ pc[r] = "cacheSet"
  /\ \/ cache' = [cache EXCEPT ![KeyOf(r)] = found[r]]
     \/ UNCHANGED cache
  /\ Answer(r, IF found[r].application = r THEN 201 ELSE 200, found[r].application)
  /\ UNCHANGED <<input, found, dbVars>>

(* The API process dies under the handler; an open transaction rolls back. *)
HandlerDies(r) ==
  /\ pc[r] \notin {"answered", "dead"}
  /\ Goto(r, "dead")
  /\ UNCHANGED <<input, found, reply, dbVars, cache>>

(* The entry's TTL runs out, or Redis evicts it or restarts. *)
CacheEvict(k) ==
  /\ cache[k] # Nothing
  /\ cache' = [cache EXCEPT ![k] = Nothing]
  /\ UNCHANGED <<input, pc, found, reply, dbVars>>

HandlerStep(r) == \/ CacheHit(r) \/ CacheMiss(r) \/ RecordGet(r) \/ InsertRows(r)
                  \/ RecordGetAfterRace(r) \/ Commit(r) \/ CommitRaises(r)
                  \/ CacheSetAndAnswer(r)

Finished == /\ \A r \in Request : pc[r] \in {"answered", "dead"}
            /\ UNCHANGED vars

Next == \/ \E r \in Request : HandlerStep(r) \/ HandlerDies(r)
        \/ \E k \in Key : CacheEvict(k)
        \/ Finished

Spec == Init /\ [][Next]_vars

(* A handler that does not die runs on: each await returns. *)
FairSpec == Spec /\ \A r \in Request : WF_vars(HandlerStep(r))

-----------------------------------------------------------------------------
(* Properties. *)

Stored == IdempotencyResponse \cup {Nothing}

TypeOK ==
  /\ input \in [Request -> Input]
  /\ pc \in [Request -> {"cacheGet", "dbGet", "insert", "commit", "reread",
                         "cacheSet", "answered", "dead"}]
  /\ found \in [Request -> Stored]
  /\ reply \in [Request -> Reply \cup {Nothing}]
  /\ applications \subseteq Request /\ outbox \subseteq Request
  /\ records \in [Key -> Stored]
  /\ cache \in [Key -> Stored]

Answered(r) == reply[r] # Nothing
Accepted(r) == Answered(r) /\ reply[r].code \in {200, 201}

(* However many requests race under a key, with whatever Redis does, at    *)
(* most one application of that key is committed.                          *)
OneApplicationPerKey == \A q, r \in applications : KeyOf(q) = KeyOf(r) => q = r

(* All accepted requests of a key are told of the same application, and    *)
(* they all sent the payload it was created from.                          *)
AnswersAgree == \A q, r \in Request :
  Accepted(q) /\ Accepted(r) /\ KeyOf(q) = KeyOf(r) =>
    reply[q].application = reply[r].application /\ HashOf(q) = HashOf(r)

(* An application the client was told of is committed and has a message in *)
(* the outbox: neither the cache nor a lost race hands out an id that a    *)
(* rollback took away.                                                     *)
AcceptedIsDurable == \A r \in Request :
  Accepted(r) => reply[r].application \in applications \cap outbox

(* 409 is only said to a client that reused the key of another payload:    *)
(* "conflict could not be resolved" never happens.                         *)
ConflictsAreReal == \A r \in Request :
  Answered(r) /\ reply[r].code = 409 =>
    \E q \in applications : KeyOf(q) = KeyOf(r) /\ HashOf(q) # HashOf(r)

(* The two stores agree: Redis never holds what PostgreSQL does not.       *)
CacheAgreesWithRecords == \A k \in Key : cache[k] # Nothing => cache[k] = records[k]

(* The handlers, caches, races and retries together implement a register   *)
(* per key that is written once and read by every answer: all that a       *)
(* client can tell of the cache is how fast the answer comes.              *)
Promise == INSTANCE Submission WITH accepted <- records
ImplementsSubmission == Promise!Spec

(* Every request is answered, unless its handler dies: waiting for another *)
(* transaction's key always ends.                                          *)
EveryRequestEnds == \A r \in Request : <>(pc[r] \in {"answered", "dead"})
=============================================================================
