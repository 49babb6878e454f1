SPECIFICATION Spec
CONSTANTS
  Uploads = {u1, u2}
  MaxCrashes = 2
  LostReplies = TRUE
INVARIANTS PartialNeverInspected  PlaintextRemoved
CHECK_DEADLOCK FALSE
