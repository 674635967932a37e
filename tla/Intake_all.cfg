CONSTANTS
  Request = {r1, r2, r3}
  Key = {k1, k2}
  Payload = {p1, p2}
  Nothing = Nothing
SPECIFICATION FairSpec
INVARIANTS TypeOK OneApplicationPerKey AnswersAgree AcceptedIsDurable ConflictsAreReal CacheAgreesWithRecords
PROPERTIES ImplementsSubmission EveryRequestEnds
