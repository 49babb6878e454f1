SPECIFICATION FairSpec
CONSTANTS
  Genesis = Genesis
  Intents = {1, 2}
  Requests = {r1}
  Flushers = {ticker, f1}
  Ticker = ticker
  Limit = 1
  Consecutive = FALSE
  LostReplies = TRUE
  MaxCrashes = 1
INVARIANTS ChainVerifies ExactlyOnce
PROPERTIES PromiseKept EvidenceDelivered 
CHECK_DEADLOCK FALSE
