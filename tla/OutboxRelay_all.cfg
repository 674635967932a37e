CONSTANTS
  Poller = {p1, p2}
  Rows = 3
  Limit = 2
  Rejected = {1}
  MaxFaults = 2
SPECIFICATION FairSpec
INVARIANTS TypeOK DuplicatesAreBounded
PROPERTIES ImplementsAtLeastOnce EveryRowIsSent
