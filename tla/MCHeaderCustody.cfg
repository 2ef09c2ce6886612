\* A faulty network, stale requests, and an operator who damages the store twice.
CONSTANTS
  Publishers = {p1, p2}
  Readers = {r1}
  Chunks = 1
  Faults = TRUE
  MaxEdits = 2
SPECIFICATION Spec
INVARIANT TypeOK
INVARIANT ManifestCommits
INVARIANT NoTornRetrieval
PROPERTY DamageIsNoticed
