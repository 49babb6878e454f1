SPECIFICATION FairSpec
CONSTANTS
  Quarantine = {q1}
  Protected = {p1}
  Requests = {r1}
  Worker = worker
  None = None
  Limit = 1
  MaxCrashes = 1
INVARIANTS NoVersionLosesItsObject AuthorizedFirst EvidenceIsTrue
PROPERTIES AuthorizedIsClosed
CHECK_DEADLOCK FALSE
