CONSTANTS
  Publishers = {p1, p2}
  Readers = {r1}
  Chunks = 2
  Faults = FALSE
  MaxEdits = 0
SPECIFICATION FairSpec
PROPERTY SomeoneCommits
PROPERTY CustodySpec
