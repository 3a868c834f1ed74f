SPECIFICATION Spec
CONSTANTS
  Gpus <- MCGpus
  Peak <- MCPeak
  BudgetH = 5
  MaxParams = 4
  SlackH = 1
  L = 3
  Windows = 2
  Submissions <- MCSubmissions
  Boxes <- MCBoxes
  Measurement = "m0"
  Size <- MCSize
  LastShard = 2
  LastWindow = 2
  FirstAge = 1
  MaxAge = 2
  MaxEpochs = 2
  MaxFaults = 2
  MaxChanges = 1
  MaxCrashes = 0
  HonestWork <- MCHonestWork
PROPERTY NoEntropyNoScore
CHECK_DEADLOCK FALSE
