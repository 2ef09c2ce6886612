\* Two overlapping runs and one exchange.  Every task of the first run may fail.
CONSTANTS
  Runs = {r1, r2}
  Desktop = Desktop
  Exchanges = {e1}
  MaxLifetime = 1
  MaxSkew = 0
  MaxTime = 1
  MaxSent = 1
  MaxEdits = 0
  Faulty = {r1}
  None = None
SPECIFICATION FairSpec
INVARIANT NativeBeforeVault
INVARIANT VerifiedIsTrue
PROPERTY RerunCompletes
