SPECIFICATION FairSpec
CONSTANTS
  Copies = 2
  MaxKey = 2
  MaxOutages = 1
  Limit = 1
  Batches = {b1, b2}
  Readers = {r1}
INVARIANTS LiveVersionsUnwrap OpenFailsForCause PurgedIsUnreadable ContentNeedsDownload
PROPERTIES DestroyedStaysDestroyed RotationFinishes
CHECK_DEADLOCK FALSE
