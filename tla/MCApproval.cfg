CONSTANTS
  Tasks = {t1, t2}
  Requests = {r1, r2}
  ReplayIds = {i1, i2}
  Dirs = {d1, d2}
  MaxLifetime = 2
  MaxSkew = 1
  MaxDrift = 2
  MaxTime = 2
  MaxSigned = 2
  Disturbed = TRUE
  NoApproval = NoApproval
  NoDir = NoDir
SYMMETRY Symmetric
SPECIFICATION Spec
INVARIANT TypeOK
INVARIANT OneMutationPerApproval
INVARIANT MutationWasAuthorized
