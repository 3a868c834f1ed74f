SPECIFICATION HubFairSpec
CONSTANTS
  Bundles = {1, 2}
  Sealed = {2}
  WrongKey = {}
  Unfetchable = {1}
  Limit = 1
  MaxStalls = 2
  LastVersion = 2
  HubFaults = {"list", "fetch", "timeout", "close", "tear"}
  MaxCrashes = 1
INVARIANTS HubTypeOK JudgementsBounded StallsBounded
PROPERTIES SubmissionsSettle
