---------------------------- MODULE IntakeProofs ----------------------------
(* Idempotent submission, for every set of requests, keys and payloads.    *)
EXTENDS Intake, TLAPS

(* What the handlers do not forget: the record of a key is written once,   *)
(* by the only transaction that holds the key, and everything a handler,   *)
(* the cache or a client knows of a key is that record.                    *)
RecordsInv ==
  /\ applications = outbox
  /\ \A r \in applications : /\ records[KeyOf(r)] # Nothing
                             /\ records[KeyOf(r)].application = r
  /\ \A k \in Key : records[k] # Nothing =>
       /\ records[k].application \in applications
       /\ KeyOf(records[k].application) = k
       /\ records[k].hash = HashOf(records[k].application)

LockInv ==
  /\ \A r \in Request : pc[r] = "commit" => records[KeyOf(r)] = Nothing
  /\ \A r \in Request : pc[r] = "reread" => records[KeyOf(r)] # Nothing
  /\ \A q, r \in Request :
       pc[q] = "commit" /\ pc[r] = "commit" /\ KeyOf(q) = KeyOf(r) => q = r

KnowledgeInv ==
  /\ CacheAgreesWithRecords
  /\ \A r \in Request : pc[r] = "cacheSet" => found[r] # Nothing
  /\ \A r \in Request : found[r] # Nothing =>
       found[r] = records[KeyOf(r)] /\ found[r].hash = HashOf(r)
  /\ \A r \in Request : Accepted(r) =>
       /\ records[KeyOf(r)] # Nothing
       /\ reply[r].application = records[KeyOf(r)].application
       /\ records[KeyOf(r)].hash = HashOf(r)
  /\ \A r \in Request : Answered(r) /\ reply[r].code = 409 =>
       records[KeyOf(r)] # Nothing /\ records[KeyOf(r)].hash # HashOf(r)

IntakeInv == TypeOK /\ RecordsInv /\ LockInv /\ KnowledgeInv

LEMMA KeyTyped ==
  ASSUME TypeOK, NEW r \in Request
  PROVE  KeyOf(r) \in Key /\ HashOf(r) \in Hash
BY DEF TypeOK, Input, KeyOf, HashOf, Hash

LEMMA IntakeInit == Init => IntakeInv
BY DEF Init, IntakeInv, TypeOK, Stored, RecordsInv, LockInv, KnowledgeInv,
   CacheAgreesWithRecords, Accepted, Answered

(* Keys and hashes are inputs: no step changes them. *)
LEMMA InputFixed ==
  ASSUME input' = input, NEW r
  PROVE  KeyOf(r)' = KeyOf(r) /\ HashOf(r)' = HashOf(r)
BY DEF KeyOf, HashOf

(* A step of handler r that stores nothing in the database. *)
LEMMA HandlerFrame ==
  ASSUME IntakeInv, NEW r \in Request, UNCHANGED <<input, dbVars>>,
         NEW step \in {"dbGet", "insert", "reread", "commit", "cacheSet", "answered", "dead"},
         Goto(r, step),
         step = "commit" => records[KeyOf(r)] = Nothing /\ ~KeyLocked(r),
         step = "reread" => records[KeyOf(r)] # Nothing
  PROVE  RecordsInv' /\ LockInv' /\ pc' \in [Request -> {"cacheGet", "dbGet", "insert",
            "commit", "reread", "cacheSet", "answered", "dead"}]
<1> USE InputFixed DEF IntakeInv, dbVars
<1>1. RecordsInv'
  BY DEF RecordsInv
<1>2. \A q \in Request : pc'[q] = IF q = r THEN step ELSE pc[q]
  BY DEF Goto, TypeOK
<1>3. LockInv'
  BY <1>2 DEF LockInv, KeyLocked
<1>4. pc' \in [Request -> {"cacheGet", "dbGet", "insert", "commit", "reread",
                           "cacheSet", "answered", "dead"}]
  BY DEF Goto, TypeOK
<1> QED
  BY <1>1, <1>3, <1>4

(* An answer that the record of the key justifies. *)
LEMMA AnswerKnown ==
  ASSUME IntakeInv, NEW r \in Request, UNCHANGED <<input, dbVars, found>>,
         NEW code \in {200, 201, 409, 500}, NEW a \in Request \cup {Nothing},
         Answer(r, code, a),
         code \in {200, 201} =>
           /\ records[KeyOf(r)] # Nothing /\ a = records[KeyOf(r)].application
           /\ records[KeyOf(r)].hash = HashOf(r) /\ a \in Request,
         code \in {409, 500} => a = Nothing,
         code = 409 => records[KeyOf(r)] # Nothing /\ records[KeyOf(r)].hash # HashOf(r),
         \A k \in Key : cache'[k] # Nothing => cache'[k] = records[k],
         cache' \in [Key -> Stored]
  PROVE  IntakeInv'
<1> USE InputFixed DEF dbVars
<1>1. RecordsInv' /\ LockInv'
  BY HandlerFrame DEF Answer
<1>2. TypeOK'
  BY HandlerFrame DEF IntakeInv, TypeOK, Answer, Reply
<1>3. \A q \in Request : /\ q # r => reply'[q] = reply[q] /\ pc'[q] = pc[q]
                         /\ pc'[r] = "answered"
                         /\ reply'[r] = [code |-> code, application |-> a]
  BY DEF IntakeInv, TypeOK, Answer, Goto
<1>4. KnowledgeInv'
  BY <1>3 DEF IntakeInv, KnowledgeInv, CacheAgreesWithRecords, Accepted, Answered
<1> QED
  BY <1>1, <1>2, <1>4 DEF IntakeInv

(* A handler that goes on without learning anything. *)
LEMMA StepKnown ==
  ASSUME IntakeInv, NEW r \in Request, UNCHANGED <<input, dbVars, found, reply, cache>>,
         NEW step \in {"dbGet", "insert", "reread", "commit", "dead"}, Goto(r, step),
         step = "commit" => records[KeyOf(r)] = Nothing /\ ~KeyLocked(r),
         step = "reread" => records[KeyOf(r)] # Nothing
  PROVE  IntakeInv'
<1> USE InputFixed DEF dbVars
<1>1. RecordsInv' /\ LockInv' /\ TypeOK'
  BY HandlerFrame DEF IntakeInv, TypeOK
<1>2. \A q \in Request : pc'[q] = "cacheSet" => pc[q] = "cacheSet"
  BY DEF IntakeInv, TypeOK, Goto
<1>3. KnowledgeInv'
  BY <1>2 DEF IntakeInv, KnowledgeInv, CacheAgreesWithRecords, Accepted, Answered
<1> QED
  BY <1>1, <1>3 DEF IntakeInv

(* Using the record of the key. *)
LEMMA UseRecordKnown ==
  ASSUME IntakeInv, NEW r \in Request, UNCHANGED <<input, dbVars, cache>>,
         records[KeyOf(r)] # Nothing, UseRecord(r, records[KeyOf(r)])
  PROVE  IntakeInv'
<1> USE InputFixed DEF dbVars
<1>1. CASE Mismatch(r, records[KeyOf(r)])
  BY <1>1, AnswerKnown DEF UseRecord, Mismatch, IntakeInv, KnowledgeInv, TypeOK,
     CacheAgreesWithRecords
<1>2. CASE ~Mismatch(r, records[KeyOf(r)])
  <2>1. /\ found' = [found EXCEPT ![r] = records[KeyOf(r)]]
        /\ Goto(r, "cacheSet") /\ UNCHANGED reply
    BY <1>2 DEF UseRecord
  <2>2. RecordsInv' /\ LockInv' /\ TypeOK'
    BY <2>1, HandlerFrame, KeyTyped DEF IntakeInv, TypeOK
  <2>3. /\ \A q \in Request : found'[q] = IF q = r THEN records[KeyOf(r)] ELSE found[q]
        /\ \A q \in Request : pc'[q] = IF q = r THEN "cacheSet" ELSE pc[q]
    BY <2>1 DEF IntakeInv, TypeOK, Goto
  <2>4. KnowledgeInv'
    BY <1>2, <2>1, <2>3 DEF IntakeInv, KnowledgeInv, CacheAgreesWithRecords, Accepted,
       Answered, Mismatch
  <2> QED
    BY <2>2, <2>4 DEF IntakeInv
<1> QED
  BY <1>1, <1>2

(* Publishing the rows of the transaction that holds the key. *)
LEMMA PublishKnown ==
  ASSUME IntakeInv, NEW r \in Request, pc[r] = "commit", PublishRows(r),
         UNCHANGED <<input, cache>>
  PROVE  /\ RecordsInv' /\ records' \in [Key -> Stored]
         /\ applications' \subseteq Request /\ outbox' \subseteq Request
         /\ records[KeyOf(r)] = Nothing
         /\ records'[KeyOf(r)] = [application |-> r, hash |-> HashOf(r)]
         /\ \A k \in Key : k # KeyOf(r) => records'[k] = records[k]
         /\ \A q \in Request : pc[q] = "commit" /\ q # r => KeyOf(q) # KeyOf(r)
<1> USE InputFixed DEF IntakeInv
<1>1. KeyOf(r) \in Key /\ HashOf(r) \in Hash
  BY KeyTyped
<1>2. records[KeyOf(r)] = Nothing
  BY DEF LockInv
<1>3. /\ records' \in [Key -> Stored]
      /\ records'[KeyOf(r)] = [application |-> r, hash |-> HashOf(r)]
      /\ \A k \in Key : k # KeyOf(r) => records'[k] = records[k]
  BY <1>1 DEF PublishRows, TypeOK, Stored, IdempotencyResponse
<1>4. [application |-> r, hash |-> HashOf(r)] # Nothing
  BY <1>1, NothingAssumption DEF IdempotencyResponse
<1>5. applications' = applications \cup {r} /\ outbox' = applications'
  BY DEF PublishRows, RecordsInv
<1>6. \A q \in applications' :
        records'[KeyOf(q)] # Nothing /\ records'[KeyOf(q)].application = q
  <2> SUFFICES ASSUME NEW q \in applications'
               PROVE  records'[KeyOf(q)] # Nothing /\ records'[KeyOf(q)].application = q
    OBVIOUS
  <2>1. CASE q = r
    BY <2>1, <1>3, <1>4
  <2>2. CASE q # r
    <3>1. q \in applications /\ q \in Request
      BY <2>2, <1>5 DEF TypeOK
    <3>2. KeyOf(q) \in Key /\ records[KeyOf(q)] # Nothing
      BY <3>1, KeyTyped DEF RecordsInv
    <3> QED
      BY <3>1, <3>2, <1>2, <1>3 DEF RecordsInv
  <2> QED
    BY <2>1, <2>2
<1>7. \A k \in Key : records'[k] # Nothing =>
        /\ records'[k].application \in applications'
        /\ KeyOf(records'[k].application) = k
        /\ records'[k].hash = HashOf(records'[k].application)
  <2> SUFFICES ASSUME NEW k \in Key, records'[k] # Nothing
               PROVE  /\ records'[k].application \in applications'
                      /\ KeyOf(records'[k].application) = k
                      /\ records'[k].hash = HashOf(records'[k].application)
    OBVIOUS
  <2>1. CASE k = KeyOf(r)
    BY <2>1, <1>3, <1>5
  <2>2. CASE k # KeyOf(r)
    BY <2>2, <1>3, <1>5 DEF RecordsInv
  <2> QED
    BY <2>1, <2>2
<1>8. RecordsInv'
  BY <1>5, <1>6, <1>7 DEF RecordsInv, KeyOf, HashOf
<1> QED
  BY <1>1, <1>2, <1>3, <1>8 DEF PublishRows, TypeOK, LockInv

(* A record once written stands, so what is known of it stays true. *)
LEMMA PublishKeepsKnowledge ==
  ASSUME IntakeInv, NEW r \in Request, pc[r] = "commit", PublishRows(r),
         UNCHANGED <<input, cache>>,
         NEW step \in {"cacheSet", "answered"}, Goto(r, step)
  PROVE  /\ LockInv' /\ CacheAgreesWithRecords'
         /\ \A q \in Request : records[KeyOf(q)] # Nothing =>
              records'[KeyOf(q)] = records[KeyOf(q)]
         /\ \A q \in Request : pc'[q] = IF q = r THEN step ELSE pc[q]
         /\ pc' \in [Request -> {"cacheGet", "dbGet", "insert", "commit", "reread",
                                 "cacheSet", "answered", "dead"}]
<1>1. \A k \in Key : records[k] # Nothing => records'[k] = records[k]
  BY PublishKnown
<1>2. \A q \in Request : pc'[q] = IF q = r THEN step ELSE pc[q]
  BY DEF Goto, IntakeInv, TypeOK
<1>3. \A q \in Request : pc'[q] = "commit" => records'[KeyOf(q)] = Nothing
  <2> SUFFICES ASSUME NEW q \in Request, pc'[q] = "commit" PROVE records'[KeyOf(q)] = Nothing
    OBVIOUS
  <2>1. pc[q] = "commit" /\ q # r
    BY <1>2
  <2>2. KeyOf(q) \in Key /\ KeyOf(q) # KeyOf(r) /\ records[KeyOf(q)] = Nothing
    BY <2>1, KeyTyped, PublishKnown DEF IntakeInv, LockInv
  <2> QED
    BY <2>2, PublishKnown
<1>4. \A q \in Request : pc'[q] = "reread" => records'[KeyOf(q)] # Nothing
  BY <1>1, <1>2, KeyTyped DEF IntakeInv, LockInv
<1>5. \A p, q \in Request :
        pc'[p] = "commit" /\ pc'[q] = "commit" /\ KeyOf(p) = KeyOf(q) => p = q
  BY <1>2 DEF IntakeInv, LockInv
<1>6. LockInv'
  BY <1>3, <1>4, <1>5 DEF LockInv, KeyOf
<1>7. CacheAgreesWithRecords'
  BY <1>1 DEF IntakeInv, KnowledgeInv, CacheAgreesWithRecords
<1>8. pc' \in [Request -> {"cacheGet", "dbGet", "insert", "commit", "reread",
                           "cacheSet", "answered", "dead"}]
  BY DEF Goto, IntakeInv, TypeOK
<1> QED
  BY <1>1, <1>2, <1>6, <1>7, <1>8, KeyTyped DEF IntakeInv

LEMMA CommitKnown ==
  ASSUME IntakeInv, NEW r \in Request, Commit(r)
  PROVE  IntakeInv'
<1> USE DEF IntakeInv
<1>1. pc[r] = "commit" /\ PublishRows(r) /\ UNCHANGED <<input, cache>> /\ Goto(r, "cacheSet")
  BY DEF Commit
<1>2. RecordsInv' /\ LockInv' /\ CacheAgreesWithRecords'
  BY <1>1, PublishKnown, PublishKeepsKnowledge
<1>3. /\ \A q \in Request : records[KeyOf(q)] # Nothing =>
           records'[KeyOf(q)] = records[KeyOf(q)]
      /\ \A q \in Request : pc'[q] = IF q = r THEN "cacheSet" ELSE pc[q]
      /\ pc' \in [Request -> {"cacheGet", "dbGet", "insert", "commit", "reread",
                              "cacheSet", "answered", "dead"}]
  BY <1>1, PublishKeepsKnowledge
<1>4. /\ records'[KeyOf(r)] = [application |-> r, hash |-> HashOf(r)]
      /\ records' \in [Key -> Stored]
      /\ applications' \subseteq Request /\ outbox' \subseteq Request
  BY <1>1, PublishKnown
<1>5. \A q \in Request : found'[q] =
        IF q = r THEN [application |-> r, hash |-> HashOf(r)] ELSE found[q]
  BY DEF Commit, TypeOK
<1>6. [application |-> r, hash |-> HashOf(r)] \in IdempotencyResponse
  BY KeyTyped DEF IdempotencyResponse
<1>7. TypeOK'
  BY <1>1, <1>3, <1>4, <1>6 DEF Commit, TypeOK, Stored
<1>8. UNCHANGED <<input, reply, cache>>
  BY DEF Commit
<1>9. /\ \A q \in Request : pc'[q] = "cacheSet" => found'[q] # Nothing
      /\ \A q \in Request : found'[q] # Nothing =>
           found'[q] = records'[KeyOf(q)] /\ found'[q].hash = HashOf(q)
  BY <1>3, <1>4, <1>5, <1>6, NothingAssumption DEF KnowledgeInv
<1>10. /\ \A q \in Request : Accepted(q) =>
            /\ records'[KeyOf(q)] # Nothing
            /\ reply[q].application = records'[KeyOf(q)].application
            /\ records'[KeyOf(q)].hash = HashOf(q)
       /\ \A q \in Request : Answered(q) /\ reply[q].code = 409 =>
            records'[KeyOf(q)] # Nothing /\ records'[KeyOf(q)].hash # HashOf(q)
  BY <1>3 DEF KnowledgeInv
<1>11. KnowledgeInv'
  BY <1>2, <1>8, <1>9, <1>10 DEF KnowledgeInv, KeyOf, HashOf, Accepted, Answered
<1> QED
  BY <1>2, <1>7, <1>11

(* A commit whose confirmation is lost. *)
LEMMA CommitRaisesKnown ==
  ASSUME IntakeInv, NEW r \in Request, CommitRaises(r)
  PROVE  IntakeInv'
<1> USE DEF IntakeInv
<1>1. CASE UNCHANGED dbVars
  <2>1. /\ Answer(r, 500, Nothing) /\ UNCHANGED <<input, found, cache, dbVars>>
    BY <1>1 DEF CommitRaises
  <2>2. \A k \in Key : cache'[k] # Nothing => cache'[k] = records[k]
    BY <2>1 DEF KnowledgeInv, CacheAgreesWithRecords
  <2> QED
    BY <2>1, <2>2, AnswerKnown DEF TypeOK
<1>2. CASE PublishRows(r)
  <2>1. /\ pc[r] = "commit" /\ PublishRows(r) /\ UNCHANGED <<input, cache>>
        /\ Goto(r, "answered") /\ UNCHANGED found
        /\ reply' = [reply EXCEPT ![r] = [code |-> 500, application |-> Nothing]]
    BY <1>2 DEF CommitRaises, Answer
  <2>2. RecordsInv' /\ LockInv' /\ CacheAgreesWithRecords'
    BY <2>1, PublishKnown, PublishKeepsKnowledge
  <2>3. /\ \A q \in Request : records[KeyOf(q)] # Nothing =>
             records'[KeyOf(q)] = records[KeyOf(q)]
        /\ \A q \in Request : pc'[q] = IF q = r THEN "answered" ELSE pc[q]
        /\ pc' \in [Request -> {"cacheGet", "dbGet", "insert", "commit", "reread",
                                "cacheSet", "answered", "dead"}]
    BY <2>1, PublishKeepsKnowledge
  <2>4. /\ records' \in [Key -> Stored]
        /\ applications' \subseteq Request /\ outbox' \subseteq Request
    BY <2>1, PublishKnown
  <2>5. TypeOK'
    <3>1. [code |-> 500, application |-> Nothing] \in Reply
      BY DEF Reply
    <3>2. reply' \in [Request -> Reply \cup {Nothing}]
      BY <2>1, <3>1 DEF TypeOK
    <3> QED
      BY <2>1, <2>3, <2>4, <3>2 DEF TypeOK
  <2>6. \A q \in Request : reply'[q] =
          IF q = r THEN [code |-> 500, application |-> Nothing] ELSE reply[q]
    BY <2>1 DEF TypeOK
  <2>7. \A q \in Request : pc'[q] = "cacheSet" => found'[q] # Nothing
    BY <2>1, <2>3 DEF KnowledgeInv
  <2>8. \A q \in Request : found'[q] # Nothing =>
             found'[q] = records'[KeyOf(q)] /\ found'[q].hash = HashOf(q)
    BY <2>1, <2>3 DEF KnowledgeInv
  <2>9. \A q \in Request : reply'[q] # Nothing /\ reply'[q].code \in {200, 201} =>
              /\ records'[KeyOf(q)] # Nothing
              /\ reply'[q].application = records'[KeyOf(q)].application
              /\ records'[KeyOf(q)].hash = HashOf(q)
    BY <2>3, <2>6 DEF KnowledgeInv, Accepted, Answered
  <2>10. \A q \in Request : reply'[q] # Nothing /\ reply'[q].code = 409 =>
              records'[KeyOf(q)] # Nothing /\ records'[KeyOf(q)].hash # HashOf(q)
    BY <2>3, <2>6 DEF KnowledgeInv, Answered
  <2>11. KnowledgeInv'
    <3>1. \A q \in Request : KeyOf(q)' = KeyOf(q) /\ HashOf(q)' = HashOf(q)
      BY <2>1, InputFixed
    <3> QED
      BY <2>2, <2>7, <2>8, <2>9, <2>10, <3>1 DEF KnowledgeInv, Accepted, Answered
  <2> QED
    BY <2>2, <2>5, <2>11
<1> QED
  BY <1>1, <1>2 DEF CommitRaises

LEMMA CacheSetKnown ==
  ASSUME IntakeInv, NEW r \in Request, CacheSetAndAnswer(r)
  PROVE  IntakeInv'
<1> USE DEF IntakeInv
<1>1. found[r] # Nothing /\ found[r] \in IdempotencyResponse /\ KeyOf(r) \in Key
  BY KeyTyped DEF CacheSetAndAnswer, KnowledgeInv, TypeOK, Stored
<1>2. found[r] = records[KeyOf(r)] /\ found[r].hash = HashOf(r)
  BY <1>1 DEF KnowledgeInv
<1>3. found[r].application \in Request
  BY <1>1 DEF IdempotencyResponse
<1>4. \A k \in Key : cache'[k] # Nothing => cache'[k] = records[k]
  BY <1>1, <1>2 DEF CacheSetAndAnswer, KnowledgeInv, CacheAgreesWithRecords, TypeOK
<1>5. cache' \in [Key -> Stored]
  BY <1>1 DEF CacheSetAndAnswer, TypeOK, Stored
<1>6. /\ UNCHANGED <<input, dbVars, found>>
      /\ Answer(r, IF found[r].application = r THEN 201 ELSE 200, found[r].application)
  BY DEF CacheSetAndAnswer
<1> QED
  BY <1>1, <1>2, <1>3, <1>4, <1>5, <1>6, AnswerKnown

LEMMA CacheHitKnown ==
  ASSUME IntakeInv, NEW r \in Request, CacheHit(r)
  PROVE  IntakeInv'
<1> USE DEF IntakeInv
<1>1. KeyOf(r) \in Key /\ cache[KeyOf(r)] # Nothing
  BY KeyTyped DEF CacheHit
<1>2. cache[KeyOf(r)] = records[KeyOf(r)] /\ cache[KeyOf(r)] \in IdempotencyResponse
  BY <1>1 DEF KnowledgeInv, CacheAgreesWithRecords, TypeOK, Stored
<1>3. \A k \in Key : cache'[k] # Nothing => cache'[k] = records[k]
  BY DEF CacheHit, KnowledgeInv, CacheAgreesWithRecords
<1>4. cache' \in [Key -> Stored] /\ UNCHANGED <<input, dbVars, found>>
  BY DEF CacheHit, TypeOK
<1>5. CASE Mismatch(r, cache[KeyOf(r)])
  BY <1>1, <1>2, <1>3, <1>4, <1>5, AnswerKnown DEF CacheHit, Mismatch
<1>6. CASE ~Mismatch(r, cache[KeyOf(r)])
  <2>1. cache[KeyOf(r)].application \in Request
    BY <1>2 DEF IdempotencyResponse
  <2> QED
    BY <1>1, <1>2, <1>3, <1>4, <1>6, <2>1, AnswerKnown DEF CacheHit, Mismatch
<1> QED
  BY <1>5, <1>6

LEMMA IntakeStep ==
  ASSUME IntakeInv, [Next]_vars
  PROVE  IntakeInv'
<1> USE DEF IntakeInv
<1>1. ASSUME NEW r \in Request, CacheMiss(r) PROVE IntakeInv'
  BY <1>1, StepKnown DEF CacheMiss
<1>2. ASSUME NEW r \in Request, RecordGet(r) PROVE IntakeInv'
  <2>1. CASE records[KeyOf(r)] # Nothing
    BY <1>2, <2>1, UseRecordKnown DEF RecordGet
  <2>2. CASE records[KeyOf(r)] = Nothing
    BY <1>2, <2>2, StepKnown DEF RecordGet
  <2> QED
    BY <2>1, <2>2
<1>3. ASSUME NEW r \in Request, InsertRows(r) PROVE IntakeInv'
  BY <1>3, StepKnown DEF InsertRows
<1>4. ASSUME NEW r \in Request, RecordGetAfterRace(r) PROVE IntakeInv'
  <2>1. records[KeyOf(r)] # Nothing
    BY <1>4 DEF RecordGetAfterRace, LockInv
  <2> QED
    BY <1>4, <2>1, UseRecordKnown DEF RecordGetAfterRace
<1>5. ASSUME NEW r \in Request, HandlerDies(r) PROVE IntakeInv'
  BY <1>5, StepKnown DEF HandlerDies
<1>6. ASSUME NEW k \in Key, CacheEvict(k) PROVE IntakeInv'
  <2>1. /\ UNCHANGED <<input, pc, found, reply, dbVars>>
        /\ \A l \in Key : cache'[l] = IF l = k THEN Nothing ELSE cache[l]
        /\ cache' \in [Key -> Stored]
    BY <1>6 DEF CacheEvict, TypeOK, Stored
  <2>2. TypeOK'
    BY <2>1 DEF TypeOK, dbVars
  <2>3. RecordsInv'
    BY <2>1 DEF RecordsInv, KeyOf, HashOf, dbVars
  <2>4. LockInv'
    BY <2>1 DEF LockInv, KeyOf, dbVars
  <2>5. KnowledgeInv'
    <3>1. \A q \in Request : KeyOf(q)' = KeyOf(q) /\ HashOf(q)' = HashOf(q)
      BY <2>1, InputFixed
    <3>2. CacheAgreesWithRecords'
      BY <2>1 DEF KnowledgeInv, CacheAgreesWithRecords, dbVars
    <3> QED
      BY <2>1, <3>1, <3>2 DEF KnowledgeInv, Accepted, Answered, dbVars
  <2> QED
    BY <2>2, <2>3, <2>4, <2>5
<1>7. CASE UNCHANGED vars
  BY <1>7 DEF vars, TypeOK, RecordsInv, LockInv, KnowledgeInv, CacheAgreesWithRecords,
     Accepted, Answered, KeyOf, HashOf
<1> QED
  BY <1>1, <1>2, <1>3, <1>4, <1>5, <1>6, <1>7, CacheHitKnown, CommitKnown,
     CommitRaisesKnown, CacheSetKnown DEF Next, HandlerStep, Finished

THEOREM IntakeInvariant == Spec => []IntakeInv
BY IntakeInit, IntakeStep, PTL DEF Spec

(* apply_loan: however requests race under one idempotency key, at most    *)
(* one application of the key is committed.                                *)
THEOREM AtMostOneApplication == Spec => []OneApplicationPerKey
<1>1. IntakeInv => OneApplicationPerKey
  BY DEF IntakeInv, RecordsInv, OneApplicationPerKey
<1> QED
  BY <1>1, IntakeInvariant, PTL

(* apply_loan: all accepted answers for a key name the same application    *)
(* and answer the same payload.                                            *)
THEOREM OneAnswerPerKey == Spec => []AnswersAgree
<1>1. IntakeInv => AnswersAgree
  BY DEF IntakeInv, KnowledgeInv, AnswersAgree
<1> QED
  BY <1>1, IntakeInvariant, PTL

(* apply_loan: an application id that was ever handed out is committed     *)
(* and has its outbox message.                                             *)
THEOREM AcceptedSurvives == Spec => []AcceptedIsDurable
<1>1. ASSUME IntakeInv, NEW r \in Request, Accepted(r)
      PROVE  reply[r].application \in applications \cap outbox
  <2>1. KeyOf(r) \in Key
    BY <1>1, KeyTyped DEF IntakeInv
  <2> QED
    BY <1>1, <2>1 DEF IntakeInv, KnowledgeInv, RecordsInv
<1>2. IntakeInv => AcceptedIsDurable
  BY <1>1 DEF AcceptedIsDurable
<1> QED
  BY <1>2, IntakeInvariant, PTL

(* apply_loan: 409 is said only when the key belongs to another payload.   *)
THEOREM ConflictsReal == Spec => []ConflictsAreReal
<1>1. ASSUME IntakeInv, NEW r \in Request, Answered(r), reply[r].code = 409
      PROVE  \E q \in applications : KeyOf(q) = KeyOf(r) /\ HashOf(q) # HashOf(r)
  <2>1. KeyOf(r) \in Key
    BY <1>1, KeyTyped DEF IntakeInv
  <2>2. records[KeyOf(r)] # Nothing /\ records[KeyOf(r)].hash # HashOf(r)
    BY <1>1 DEF IntakeInv, KnowledgeInv
  <2>3. LET q == records[KeyOf(r)].application
        IN  q \in applications /\ KeyOf(q) = KeyOf(r) /\ HashOf(q) # HashOf(r)
    BY <1>1, <2>1, <2>2 DEF IntakeInv, RecordsInv
  <2> QED
    BY <2>3
<1>2. IntakeInv => ConflictsAreReal
  BY <1>1 DEF ConflictsAreReal
<1> QED
  BY <1>2, IntakeInvariant, PTL

(* apply_loan: whatever order cache writes land in, Redis holds only what  *)
(* PostgreSQL has committed under the key.                                 *)
THEOREM CacheSound == Spec => []CacheAgreesWithRecords
<1>1. IntakeInv => CacheAgreesWithRecords
  BY DEF IntakeInv, KnowledgeInv
<1> QED
  BY <1>1, IntakeInvariant, PTL
-----------------------------------------------------------------------------
(* The refinement of Submission.                                           *)

Asking == {"cacheGet", "dbGet", "insert", "reread", "commit"}

(* A handler answers once, and one that has not committed is nobody's      *)
(* creator: whatever record it finds is another request's.                 *)
SubmissionInv ==
  /\ \A r \in Request : reply[r] # Nothing => pc[r] = "answered"
  /\ \A r \in Request : pc[r] \in Asking =>
       records[KeyOf(r)] = Nothing \/ records[KeyOf(r)].application # r

(* What every step of handler r leaves of the others. *)
HandlerMoves(r) ==
  /\ input' = input
  /\ pc[r] # "answered"
  /\ \A q \in Request : q # r => pc'[q] = pc[q] /\ reply'[q] = reply[q]
  /\ reply'[r] = reply[r] \/ pc'[r] = "answered"
  /\ pc'[r] \in Asking => pc[r] \in Asking
  /\ \A q \in Request :
       \/ records'[KeyOf(q)] = records[KeyOf(q)]
       \/ records'[KeyOf(q)].application = r /\ pc'[r] \notin Asking

LEMMA HandlerMovesKeep ==
  ASSUME IntakeInv, SubmissionInv, NEW r \in Request, HandlerMoves(r)
  PROVE  SubmissionInv'
<1>1. \A q \in Request : KeyOf(q)' = KeyOf(q)
  BY InputFixed DEF HandlerMoves
<1>2. \A q \in Request : reply'[q] # Nothing => pc'[q] = "answered"
  BY DEF SubmissionInv, HandlerMoves
<1>3. ASSUME NEW q \in Request, pc'[q] \in Asking
      PROVE  records'[KeyOf(q)] = Nothing \/ records'[KeyOf(q)].application # q
  BY <1>3 DEF SubmissionInv, HandlerMoves
<1> QED
  BY <1>1, <1>2, <1>3 DEF SubmissionInv

(* Answering and moving on, as HandlerMoves sees them. *)
LEMMA GotoMoves ==
  ASSUME IntakeInv, NEW r \in Request, UNCHANGED <<input, dbVars, reply>>, NEW step,
         Goto(r, step), pc[r] # "answered", step \in Asking => pc[r] \in Asking
  PROVE  HandlerMoves(r)
BY DEF IntakeInv, TypeOK, Goto, HandlerMoves, dbVars

LEMMA AnswerMoves ==
  ASSUME IntakeInv, NEW r \in Request, UNCHANGED <<input, dbVars>>, NEW code, NEW a,
         Answer(r, code, a), pc[r] # "answered"
  PROVE  HandlerMoves(r) /\ reply'[r] = [code |-> code, application |-> a]
BY DEF IntakeInv, TypeOK, Goto, Answer, HandlerMoves, dbVars, Asking

LEMMA ConflictMoves ==
  ASSUME IntakeInv, NEW r \in Request, UNCHANGED <<input, dbVars>>,
         Answer(r, 409, Nothing), pc[r] # "answered"
  PROVE  HandlerMoves(r)
BY DEF IntakeInv, TypeOK, Goto, Answer, HandlerMoves, dbVars, Asking

LEMMA UseRecordMoves ==
  ASSUME IntakeInv, NEW r \in Request, UNCHANGED <<input, dbVars>>, NEW stored,
         UseRecord(r, stored), pc[r] \in Asking
  PROVE  HandlerMoves(r)
<1>1. CASE Mismatch(r, stored)
  <2>1. Answer(r, 409, Nothing) /\ pc[r] # "answered"
    BY <1>1 DEF UseRecord, Asking
  <2> QED
    BY <2>1, ConflictMoves
<1>2. CASE ~Mismatch(r, stored)
  BY <1>2, GotoMoves DEF UseRecord, Asking
<1> QED
  BY <1>1, <1>2

LEMMA PublishMoves ==
  ASSUME IntakeInv, NEW r \in Request, pc[r] = "commit", PublishRows(r),
         UNCHANGED <<input, cache>>, NEW step \in {"cacheSet", "answered"},
         Goto(r, step),
         \A q \in Request : q # r => reply'[q] = reply[q],
         reply'[r] = reply[r] \/ step = "answered"
  PROVE  HandlerMoves(r)
<1>1. \A q \in Request : pc'[q] = IF q = r THEN step ELSE pc[q]
  BY DEF IntakeInv, TypeOK, Goto
<1>2. \A q \in Request : KeyOf(q) \in Key
  BY KeyTyped DEF IntakeInv
<1>3. /\ records'[KeyOf(r)] = [application |-> r, hash |-> HashOf(r)]
      /\ \A k \in Key : k # KeyOf(r) => records'[k] = records[k]
  BY PublishKnown
<1>4. \A q \in Request : \/ records'[KeyOf(q)] = records[KeyOf(q)]
                         \/ records'[KeyOf(q)].application = r
  BY <1>2, <1>3
<1>5. pc'[r] \notin Asking /\ (reply'[r] = reply[r] \/ pc'[r] = "answered")
  BY <1>1 DEF Asking
<1>6. \A q \in Request : q # r => pc'[q] = pc[q]
  BY <1>1
<1> QED
  BY <1>4, <1>5, <1>6 DEF HandlerMoves

LEMMA EveryHandlerMoves ==
  ASSUME IntakeInv, NEW r \in Request, HandlerStep(r) \/ HandlerDies(r)
  PROVE  HandlerMoves(r)
<1>1. CASE CacheHit(r)
  <2>1. UNCHANGED <<input, dbVars>> /\ pc[r] # "answered"
    BY <1>1 DEF CacheHit
  <2>2. CASE Mismatch(r, cache[KeyOf(r)])
    <3>1. Answer(r, 409, Nothing)
      BY <1>1, <2>2 DEF CacheHit
    <3> QED
      BY <2>1, <3>1, ConflictMoves
  <2>3. CASE ~Mismatch(r, cache[KeyOf(r)])
    <3>1. Answer(r, 200, cache[KeyOf(r)].application)
      BY <1>1, <2>3 DEF CacheHit
    <3> QED
      BY <2>1, <3>1, AnswerMoves
  <2> QED
    BY <2>2, <2>3
<1>2. CASE CacheMiss(r)
  BY <1>2, GotoMoves DEF CacheMiss, Asking
<1>3. CASE RecordGet(r)
  <2>1. pc[r] = "dbGet" /\ UNCHANGED <<input, dbVars>>
    BY <1>3 DEF RecordGet
  <2>2. CASE records[KeyOf(r)] # Nothing
    BY <1>3, <2>1, <2>2, UseRecordMoves DEF RecordGet, Asking
  <2>3. CASE records[KeyOf(r)] = Nothing
    BY <1>3, <2>1, <2>3, GotoMoves DEF RecordGet, Asking
  <2> QED
    BY <2>2, <2>3
<1>4. CASE InsertRows(r)
  BY <1>4, GotoMoves DEF InsertRows, Asking
<1>5. CASE RecordGetAfterRace(r)
  <2>1. pc[r] = "reread" /\ UNCHANGED <<input, dbVars>>
    BY <1>5 DEF RecordGetAfterRace
  <2>2. CASE records[KeyOf(r)] # Nothing
    BY <1>5, <2>1, <2>2, UseRecordMoves DEF RecordGetAfterRace, Asking
  <2>3. CASE records[KeyOf(r)] = Nothing
    BY <1>5, <2>1, <2>3, AnswerMoves, ZenonT(60) DEF RecordGetAfterRace
  <2> QED
    BY <2>2, <2>3
<1>6. CASE Commit(r)
  BY <1>6, PublishMoves DEF Commit
<1>7. CASE CommitRaises(r)
  <2>1. pc[r] = "commit" /\ UNCHANGED <<input, cache>> /\ Answer(r, 500, Nothing)
    BY <1>7 DEF CommitRaises
  <2>2. CASE PublishRows(r)
    <3>1. \A q \in Request : q # r => reply'[q] = reply[q]
      BY <2>1 DEF Answer, IntakeInv, TypeOK
    <3> QED
      BY <2>1, <2>2, <3>1, PublishMoves DEF Answer
  <2>3. CASE UNCHANGED dbVars
    BY <2>1, <2>3, AnswerMoves, ZenonT(60)
  <2> QED
    BY <1>7, <2>2, <2>3 DEF CommitRaises
<1>8. CASE CacheSetAndAnswer(r)
  BY <1>8, AnswerMoves, ZenonT(60) DEF CacheSetAndAnswer
<1>9. CASE HandlerDies(r)
  BY <1>9, GotoMoves DEF HandlerDies, Asking
<1> QED
  BY <1>1, <1>2, <1>3, <1>4, <1>5, <1>6, <1>7, <1>8, <1>9 DEF HandlerStep

LEMMA SubmissionStep ==
  ASSUME IntakeInv, SubmissionInv, [Next]_vars
  PROVE  SubmissionInv'
<1>1. ASSUME NEW k \in Key, CacheEvict(k) PROVE SubmissionInv'
  BY <1>1, InputFixed DEF CacheEvict, SubmissionInv, dbVars
<1>2. CASE UNCHANGED vars
  BY <1>2, InputFixed DEF vars, SubmissionInv
<1> QED
  BY <1>1, <1>2, EveryHandlerMoves, HandlerMovesKeep DEF Next, Finished

(* An answer given from the record of the key is the register's verdict. *)
LEMMA AnswerTells ==
  ASSUME IntakeInv, SubmissionInv, NEW r \in Request, UNCHANGED <<input, dbVars>>,
         pc[r] # "answered", records[KeyOf(r)] # Nothing,
         NEW code, NEW a, Answer(r, code, a),
         [code |-> code, application |-> a] = Promise!Verdict(r, records[KeyOf(r)])
  PROVE  Promise!Next
<1>1. reply[r] = Nothing
  BY DEF SubmissionInv
<1>2. reply' = [reply EXCEPT ![r] = Promise!Verdict(r, records[KeyOf(r)])]
  BY DEF Answer
<1>3. Promise!Tell(r)
  BY <1>1, <1>2 DEF Promise!Tell, Promise!KeyOf, KeyOf
<1> QED
  BY <1>3 DEF Promise!Next, dbVars

(* Using a record either is the verdict 409 or changes nothing promised. *)
LEMMA UseRecordTells ==
  ASSUME IntakeInv, SubmissionInv, NEW r \in Request, UNCHANGED <<input, dbVars>>,
         pc[r] # "answered", records[KeyOf(r)] # Nothing,
         UseRecord(r, records[KeyOf(r)])
  PROVE  [Promise!Next]_(Promise!vars)
<1>1. CASE Mismatch(r, records[KeyOf(r)])
  <2>1. Answer(r, 409, Nothing)
    BY <1>1 DEF UseRecord
  <2>2. [code |-> 409, application |-> Nothing] = Promise!Verdict(r, records[KeyOf(r)])
    BY <1>1 DEF Mismatch, Promise!Verdict, Promise!HashOf, Promise!KeyOf, HashOf, KeyOf
  <2> QED
    BY <2>1, <2>2, AnswerTells
<1>2. CASE ~Mismatch(r, records[KeyOf(r)])
  BY <1>2 DEF UseRecord, Promise!vars, dbVars
<1> QED
  BY <1>1, <1>2

(* A server error fails the request, and publishing accepts it. *)
LEMMA PublishAccepts ==
  ASSUME IntakeInv, NEW r \in Request, pc[r] = "commit", PublishRows(r),
         UNCHANGED <<input, cache>>
  PROVE  Promise!Accept(r)
<1>1. records[KeyOf(r)] = Nothing
  BY PublishKnown
<1> QED
  BY <1>1 DEF Promise!Accept, Promise!KeyOf, Promise!HashOf, KeyOf, HashOf, PublishRows

LEMMA PromiseStep ==
  ASSUME IntakeInv, SubmissionInv, [Next]_vars
  PROVE  [Promise!Next]_(Promise!vars)
<1>1. ASSUME NEW r \in Request, CacheHit(r) PROVE [Promise!Next]_(Promise!vars)
  <2>1. /\ KeyOf(r) \in Key /\ cache[KeyOf(r)] = records[KeyOf(r)]
        /\ records[KeyOf(r)] # Nothing /\ pc[r] = "cacheGet"
        /\ UNCHANGED <<input, dbVars>>
    BY <1>1, KeyTyped DEF CacheHit, IntakeInv, KnowledgeInv, CacheAgreesWithRecords
  <2>2. CASE Mismatch(r, records[KeyOf(r)])
    <3>1. Answer(r, 409, Nothing)
      BY <1>1, <2>1, <2>2 DEF CacheHit
    <3>2. [code |-> 409, application |-> Nothing] = Promise!Verdict(r, records[KeyOf(r)])
      BY <2>2 DEF Mismatch, Promise!Verdict, Promise!HashOf, Promise!KeyOf, HashOf, KeyOf
    <3> QED
      BY <2>1, <3>1, <3>2, AnswerTells
  <2>3. CASE ~Mismatch(r, records[KeyOf(r)])
    <3>1. Answer(r, 200, records[KeyOf(r)].application)
      BY <1>1, <2>1, <2>3 DEF CacheHit
    <3>2. records[KeyOf(r)].application # r
      BY <2>1 DEF SubmissionInv, Asking
    <3>3. [code |-> 200, application |-> records[KeyOf(r)].application]
            = Promise!Verdict(r, records[KeyOf(r)])
      BY <2>3, <3>2 DEF Mismatch, Promise!Verdict, Promise!HashOf, Promise!KeyOf, HashOf, KeyOf
    <3> QED
      BY <2>1, <3>1, <3>3, AnswerTells
  <2> QED
    BY <2>2, <2>3
<1>2. ASSUME NEW r \in Request, RecordGet(r) PROVE [Promise!Next]_(Promise!vars)
  <2>1. CASE records[KeyOf(r)] # Nothing
    BY <1>2, <2>1, UseRecordTells DEF RecordGet
  <2>2. CASE records[KeyOf(r)] = Nothing
    BY <1>2, <2>2 DEF RecordGet, Promise!vars, dbVars
  <2> QED
    BY <2>1, <2>2
<1>3. ASSUME NEW r \in Request, RecordGetAfterRace(r) PROVE [Promise!Next]_(Promise!vars)
  <2>1. records[KeyOf(r)] # Nothing
    BY <1>3 DEF RecordGetAfterRace, IntakeInv, LockInv
  <2> QED
    BY <1>3, <2>1, UseRecordTells DEF RecordGetAfterRace
<1>4. ASSUME NEW r \in Request, Commit(r) PROVE [Promise!Next]_(Promise!vars)
  <2>1. Promise!Accept(r)
    BY <1>4, PublishAccepts DEF Commit
  <2> QED
    BY <1>4, <2>1 DEF Commit, Promise!Next
<1>5. ASSUME NEW r \in Request, CommitRaises(r) PROVE [Promise!Next]_(Promise!vars)
  <2>1. Promise!Fail(r)
    BY <1>5 DEF CommitRaises, Answer, Promise!Fail, SubmissionInv
  <2>2. Promise!Accept(r) \/ UNCHANGED records
    BY <1>5, PublishAccepts DEF CommitRaises, dbVars
  <2> QED
    BY <1>5, <2>1, <2>2 DEF CommitRaises, Promise!Next
<1>6. ASSUME NEW r \in Request, CacheSetAndAnswer(r) PROVE [Promise!Next]_(Promise!vars)
  <2>1. /\ pc[r] = "cacheSet" /\ UNCHANGED <<input, dbVars>>
        /\ Answer(r, IF found[r].application = r THEN 201 ELSE 200, found[r].application)
    BY <1>6 DEF CacheSetAndAnswer
  <2>2. found[r] # Nothing /\ found[r] = records[KeyOf(r)] /\ found[r].hash = HashOf(r)
    BY <2>1 DEF IntakeInv, KnowledgeInv
  <2>3. [code |-> IF found[r].application = r THEN 201 ELSE 200,
         application |-> found[r].application] = Promise!Verdict(r, records[KeyOf(r)])
    BY <2>2 DEF Promise!Verdict, Promise!HashOf, Promise!KeyOf, HashOf, KeyOf
  <2> QED
    BY <2>1, <2>2, <2>3, AnswerTells
<1>7. ASSUME UNCHANGED <<input, records, reply>> PROVE [Promise!Next]_(Promise!vars)
  BY <1>7 DEF Promise!vars
<1> QED
  BY <1>1, <1>2, <1>3, <1>4, <1>5, <1>6, <1>7 DEF Next, HandlerStep, HandlerDies,
     CacheMiss, InsertRows, CacheEvict, Finished, vars, dbVars

(* apply_loan: the racing, retried, cached and dying handlers implement a  *)
(* register per key that is written once and that every answer quotes.     *)
THEOREM ImplementsPromise == Spec => ImplementsSubmission
<1>1. Init => SubmissionInv
  BY IntakeInit, KeyTyped DEF Init, SubmissionInv, IntakeInv
<1>2. Init => Promise!Init
  BY DEF Init, Promise!Init, Input
<1> QED
  BY <1>1, <1>2, SubmissionStep, PromiseStep, IntakeInvariant, PTL
     DEF Spec, ImplementsSubmission, Promise!Spec

(* apply_loan: every handler, cache entry, record and answer keeps its     *)
(* form; in particular no answer but 200 and 201 names an application.     *)
THEOREM IntakeTypes == Spec => []TypeOK
BY IntakeInvariant, PTL DEF IntakeInv
=============================================================================
