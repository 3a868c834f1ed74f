SPECIFICATION Spec
CONSTANTS
  h1 = h1
  h2 = h2
  Hotkeys = {h1, h2}
  NoHotkey = NoHotkey
  Margin = 1
  BenchCrown = FALSE
  CostGate = TRUE
  MinorPool = 2
  Bundles = {1, 2, 3, 4}
  NoBundle = 0
  Owner <- MCOwner
  Metric <- MCMetric
  Sound = {1, 2, 3, 4}
  Informative = {1, 2, 3, 4}
  Sampled = {2}
  Fraudulent = {2}
  Tenure = 1
  RateLimit = 1
  RequireMergedKingPr = TRUE
  OneInFlight = TRUE
  BurnFallback = TRUE
  LiveHandshake = TRUE
  Faults = {"merge", "github", "extrinsic"}
  MaxCrashes = 0
INVARIANTS TypeOK GenesisOnlyOnce CrownedNeverClosed OutsidersCreditAccounted UnmergedKingUnpaid
PROPERTIES ImplementsLedger
