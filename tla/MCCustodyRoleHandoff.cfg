\* One run, two exchanges: stale, repeated and foreign responses, and an
\* operator who deletes custody.
CONSTANTS
  Runs = {r1}
  Desktop = Desktop
  Exchanges = {e1, e2}
  MaxLifetime = 1
  MaxSkew = 1
  MaxTime = 2
  MaxSent = 1
  MaxEdits = 1
  Faulty = {r1}
  None = None
SYMMETRY Symmetric
SPECIFICATION Spec
INVARIANT TypeOK
INVARIANT ReceiptIsRecent
