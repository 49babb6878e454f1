SPECIFICATION Spec
CONSTANTS
  ada = ada
  ben = ben
  u1 = u1
  u2 = u2
  u3 = u3
  Servers = {s1, s2}
  Owners = {ada, ben}
  Uploads = {u1, u2, u3}
  OwnerOf <- MCOwnerOf
  Bytes <- MCBytes
  DefaultQuota = 2
  Overrides = {3}
  Usable = 3
  MaxCrashes = 1
  MaxUploads = 2
  MaxChanges = 1
  None = None
SYMMETRY Symmetry
INVARIANTS ChargedThroughout   QuotaOnRecord
CHECK_DEADLOCK FALSE
