\* The controller loses power at any step; an operator deletes the document, and
\* others publish theirs.
CONSTANTS
  Tasks = {t1, t2, t3}
  Docs = {d1, d2}
  Retries = 2
  NoFile = NoFile
  Kills = FALSE
  PowerFails = TRUE
  Removals = TRUE
SYMMETRY Symmetric
SPECIFICATION Spec
INVARIANT TypeOK
INVARIANT ReturnedIsValid
INVARIANT TargetIsComplete
INVARIANT LeftoversAreFailures
PROPERTY ReportedSurvives
PROPERTY WorkIsBounded
