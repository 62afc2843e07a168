SPECIFICATION FairSpec
CONSTANTS
  Clients = {c1, c2}
  Server = srv
  MaxReq = 2
  MaxFaults = 1
  MaxStops = 1
INVARIANTS TypeOK WaitsForOne MeasuresOwnRequest
PROPERTIES AnswerComes StopReturns
CHECK_DEADLOCK FALSE
