SPECIFICATION FairSpec
CONSTANTS
  Uploads = {u1, u2}
  MaxCrashes = 2
  LostReplies = FALSE
INVARIANTS StoredIsComplete
PROPERTIES RecordFollowsLifecycle ReceivedSettles
CHECK_DEADLOCK FALSE
