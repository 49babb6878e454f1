SPECIFICATION FairSpec
CONSTANTS
  Files = {f1, f2}
  Recipients = {}
  OwnerKeys = {k1}
  RestoreKeys = {}
  Workers = {w1}
  Scheduler = w1
  Grace = 1
  MaxTime = 2
  Limit = 2
  LostReplies = TRUE
INVARIANTS OneDeletionEvent
 
