SPECIFICATION FairSpec
CONSTANTS
  None = None  Operator = op  Shutdown = sd
  r1 = r1  r2 = r2  op = op  sd = sd  a1 = a1  a2 = a2  a3 = a3  k1 = k1
  Requests = {r1, r2}
  Callers = {r1, r2, op}
  Stoppers = {op, sd}
  Attempts = {a1, a2, a3}
  Stops = {k1}
  HasBuild = TRUE  HasStop = FALSE  HasIdle = FALSE
  MaxFaults = 2
  OpActions = {}
  MaxOps = 0  WithShutdown = FALSE
CHECK_DEADLOCK FALSE
PROPERTY AcquireReturns
PROPERTY CrashNoticed
