SPECIFICATION Spec
CONSTANTS
  h1 = h1
  h2 = h2
  Hotkeys = {h1, h2}
  NoHotkey = NoHotkey
  Margin = 1
  BenchCrown = TRUE
  CostGate = TRUE
  MinorPool = 2
  Bundles = {1, 2, 3}
  NoBundle = 0
  Owner <- MCOwner
  Metric <- MCBenchMetric
  Sound = {1, 2, 3}
  Informative = {1, 2, 3}
  Sampled = {2}
  Fraudulent = {2}
  Tenure = 1
  RateLimit = 1
  RequireMergedKingPr = TRUE
  OneInFlight = TRUE
  BurnFallback = TRUE
  LiveHandshake = FALSE
  Faults = {"rpc", "tear", "deregister", "score"}
  MaxCrashes = 1
INVARIANTS LineImproves OnlyTheKingIsPaidAsKing
PROPERTIES SavedCreditKept ClaimHolds
