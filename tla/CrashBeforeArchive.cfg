SPECIFICATION Spec
CONSTANTS
  h1 = h1
  h2 = h2
  Hotkeys = {h1, h2}
  NoHotkey = NoHotkey
  Margin = 1
  BenchCrown = FALSE
  CostGate = TRUE
  MinorPool = 2
  Bundles = {1, 2, 3}
  NoBundle = 0
  Owner <- MCOwner
  Metric <- MCMetric
  Sound = {1, 2, 3}
  Informative = {1, 2, 3}
  Sampled = {2}
  Fraudulent = {}
  Tenure = 1
  RateLimit = 2
  RequireMergedKingPr = FALSE
  OneInFlight = FALSE
  BurnFallback = TRUE
  LiveHandshake = FALSE
  Faults = {}
  MaxCrashes = 1
INVARIANTS CrownedNeverClosed
