\* The controller loses power at any step, and processes are killed; the directory
\* exists before the tasks.
CONSTANTS
  Tasks = {t1, t2, t3}
  Docs = {d1, d2}
  Retries = 2
  NoFile = NoFile
  Kills = TRUE
  PowerFails = TRUE
  Removals = FALSE
SYMMETRY Symmetric
SPECIFICATION EstablishedSpec
INVARIANT LeftoversAreFailures
PROPERTY DurableConsensusSpec
