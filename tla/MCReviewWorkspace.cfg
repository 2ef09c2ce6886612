CONSTANTS
  p1 = p1
  p2 = p2
  p3 = p3
  Runs = {p1, p2, p3}
  r1 = r1
  r2 = r2
  Revisions = {r1, r2}
  Usable = {r1, r2}
  Change = Change
  Other = Other
  Patches = {Change, Other}
  DiffOf <- Diffs
  a1 = a1
  a2 = a2
  Assets = {a1, a2}
  c1 = c1
  c2 = c2
  Contents = {c1, c2}
  Nothing = Nothing
  MaxEdits = 2
  MaxRemovals = 1
SYMMETRY Symmetric
SPECIFICATION Spec
INVARIANTS
  TypeOK
  PublishedWhileCurrent
  BindingsCoexisted
  ReportedWorkspaceStays
  MetadataComesLast
  CleanupIsThorough
CHECK_DEADLOCK FALSE
