\* Writers, losers and readers of one path, and processes that are killed.
CONSTANTS
  Tasks = {t1, t2}
  Docs = {d1, d2}
  Retries = 2
  NoFile = NoFile
  Kills = TRUE
  PowerFails = FALSE
  Removals = FALSE
SPECIFICATION FairSpec
PROPERTY ConsensusSpec
PROPERTY RetriesEnd
