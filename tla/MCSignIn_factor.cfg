SPECIFICATION Spec
CONSTANTS
  Users = {ada}
  Admins = {ada}
  Auditors = {}
  Requests = {r1, r2}
  Tokens = {t1, t2}
  Challenges = {c1, c2}
  Codes = {x1}
  Threshold = 2
  Window = 1
  LockDuration = 1
  SessionTTL = 1
  ChallengeTTL = 1
  StepUpTTL = 1
  RequirePrivilegedMFA = TRUE
  RequireAdminStepUp = FALSE
  None = None
  MaxTime = 2
SYMMETRY Symmetry
INVARIANTS FactorSpentOnce EnrolmentWins
CHECK_DEADLOCK FALSE
