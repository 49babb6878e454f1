SPECIFICATION FairSpec
CONSTANTS
  Files = {f1}
  Recipients = {}
  OwnerKeys = {}
  RestoreKeys = {}
  Workers = {w1}
  Scheduler = w1
  Grace = 1
  MaxTime = 2
  Limit = 1
  LostReplies = FALSE
PROPERTY FailedDeletionIsRetried
