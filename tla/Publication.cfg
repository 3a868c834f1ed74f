SPECIFICATION Spec
CONSTANTS
  Bundles <- MCBundles
  Owner <- MCOwner
  Conflicts <- MCConflicts
  OldTags = 2
  PageSize = 1
  MaxTroubles = 2
  MaxSeries = 2
INVARIANTS MainFollowsReigns TagsFollowMain OnlyOvertakenRejected NothingLeftOpen
CHECK_DEADLOCK FALSE
