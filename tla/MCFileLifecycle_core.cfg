SPECIFICATION Spec
CONSTANTS
  Files = {f1}
  Recipients = {r1}
  OwnerKeys = {k1}
  RestoreKeys = {v1, v2}
  Workers = {w1, w2}
  Scheduler = w1
  Grace = 1
  MaxTime = 2
  Limit = 1
  LostReplies = FALSE
INVARIANTS KeysGoWithTheFile PurgedIsSealed CatalogReadable
PROPERTIES GatesHold PromiseKept
