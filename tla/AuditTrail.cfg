SPECIFICATION Spec
CONSTANTS
  Hotkeys <- MCHotkeys
  NoHotkey = 0
  Margin = 1
  BenchCrown = FALSE
  CostGate = TRUE
  MinorPool = 2
  MergeGate = TRUE
  PinnedSigner = TRUE
  FirstKings = {0, 2}
  LastBlock = 5
  MaxEpochs = 2
  MaxScored = 2
  MaxTroubles = 1
INVARIANTS ServedIsAnchored IndexedIsServed DivergenceExplained
  NoneSkipped CleanEpochCurrent
  
CHECK_DEADLOCK FALSE
