SPECIFICATION FairSpec
CONSTANTS
  None = None  Operator = op  Shutdown = sd
  r1 = r1  op = op  sd = sd  a1 = a1  k1 = k1  k2 = k2
  Requests = {r1}
  Callers = {r1, op}
  Stoppers = {op, sd}
  Attempts = {a1}
  Stops = {k1, k2}
  HasBuild = FALSE  HasStop = FALSE  HasIdle = TRUE
  MaxFaults = 1
  OpActions = {"stop"}
  MaxOps = 1  WithShutdown = TRUE
CHECK_DEADLOCK FALSE
PROPERTY StopReturns
PROPERTY IdleReclaims
