SPECIFICATION Spec
CONSTANTS
  Bundles <- MCBundles
  Owner <- MCOwner
  Conflicts <- MCConflicts
  OldTags = 2
  PageSize = 1
  MaxTroubles = 0
  MaxSeries = 2
INVARIANT MainIsMeasured
CHECK_DEADLOCK FALSE
