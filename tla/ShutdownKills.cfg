SPECIFICATION Spec
CONSTANTS
  None = None  Operator = op  Shutdown = sd
  r1 = r1  op = op  sd = sd  a1 = a1  k1 = k1
  Requests = {r1}
  Callers = {r1, op}
  Stoppers = {op, sd}
  Attempts = {a1}
  Stops = {k1}
  HasBuild = FALSE  HasStop = FALSE  HasIdle = FALSE
  MaxFaults = 0
  OpActions = {}
  MaxOps = 0  WithShutdown = TRUE
SYMMETRY Symmetry
CHECK_DEADLOCK FALSE
PROPERTY GracefulFirst
