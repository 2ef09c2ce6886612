CONSTANTS
  Tasks = {t1, t2, t3}
  Requests = {r1}
  ReplayIds = {i1, i2}
  Dirs = {d1}
  MaxLifetime = 1
  MaxSkew = 0
  MaxDrift = 0
  MaxTime = 1
  MaxSigned = 2
  Disturbed = FALSE
  NoApproval = NoApproval
  NoDir = NoDir
SPECIFICATION FairSpec
PROPERTY SomeContenderWins
PROPERTY GrantSpec
