SPECIFICATION Spec
CONSTANTS
  Pair = Pair
  Again = Again
  Dry = Dry
  Fresh = Fresh
  Kept = Kept
  Moved = Moved
  Known = Known
  One = One
  Two = Two
  External = External
  Default = Default
  Operator = Operator
  Nothing = Nothing
  Requests = {Fresh, Kept, Moved, Known}
  Keys = {One, Two}
  Runs = {Pair, Again, Dry}
  CheckRuns = {Dry}
  Plan <- Plans
  KeyOf <- RequestKeys
  Order <- Orders
  FallbackOn <- WideFallback
  WriteBack = {Fresh, Kept}
  Migrate = {Moved}
  Overwrite = {Fresh, Moved}
  MustPersist = {Kept}
  Required = {Fresh, Kept}
  WithDefault = {Known}
  MaxEdits = 0
CHECK_DEADLOCK FALSE
INVARIANT GenerationFollowsAbsence
