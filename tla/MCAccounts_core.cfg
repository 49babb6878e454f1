SPECIFICATION Spec
CONSTANTS
  Emails = {ada, ulf}
  Founders = {ada}
  Requests = {r1, r2, r3}
  Links = {l1, l2, l3, l4}
  Invitations = {i1, i2}
  VerificationTTL = 2
  MinResend = 2
  None = None
  MaxTime = 5
SYMMETRY Symmetry
INVARIANTS OneLiveLink VerifiedByOneLink AccountsAsInvited
CHECK_DEADLOCK FALSE
