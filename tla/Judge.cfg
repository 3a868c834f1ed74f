SPECIFICATION Spec
CONSTANTS
  Gpus <- MCGpus
  Peak <- MCPeak
  BudgetH = 5
  MaxParams = 4
  SlackH = 1
  L = 3
  Windows = 2
  Submissions <- MCSubmissions
  Boxes <- MCBoxes
  Measurement = "m0"
  Size <- MCSize
  LastShard = 2
  LastWindow = 2
  FirstAge = 1
  MaxAge = 2
  MaxEpochs = 2
  MaxFaults = 2
  MaxChanges = 1
  MaxCrashes = 1
  HonestWork <- MCHonestWork
INVARIANTS ServedScoreIsCurrent ScoreOfConfiguredMode HonestNeverRejected
  AcceptedIsBound CapacityBounded AnswersHidden NothingLeftBehind
PROPERTIES VerdictStable JudgementEnds
CHECK_DEADLOCK FALSE
