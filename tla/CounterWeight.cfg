SPECIFICATION Spec
CONSTANTS
  Tempo = 8
  Leads <- MCLeads
  RateLimits <- MCRateLimits
  Interval = 5
  Lag = 1
  MaxPause = 2
  MaxDelay = 2
  MaxAge = 22
  MaxFaults = 1
INVARIANTS WeightsStayFresh BoundaryServed SetsApart
