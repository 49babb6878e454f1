SPECIFICATION Spec
CONSTANTS
  Users = {ada, ulf}
  Admins = {ada}
  Auditors = {}
  Requests = {r1, r2}
  Tokens = {t1, t2, t3}
  Challenges = {c1}
  Codes = {x1}
  Threshold = 1
  Window = 1
  LockDuration = 1
  SessionTTL = 1
  ChallengeTTL = 1
  StepUpTTL = 1
  RequirePrivilegedMFA = TRUE
  RequireAdminStepUp = TRUE
  None = None
  MaxTime = 1
SYMMETRY Symmetry
INVARIANTS SuspensionEndsSessions ProofBound SessionEarned
CHECK_DEADLOCK FALSE
