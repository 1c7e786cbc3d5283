SPECIFICATION Spec
CONSTANTS
  None = None  Operator = op  Shutdown = sd
  r1 = r1  op = op  sd = sd  a1 = a1  a2 = a2  a3 = a3  k1 = k1  k2 = k2
  Requests = {r1}
  Callers = {r1, op}
  Stoppers = {op, sd}
  Attempts = {a1, a2, a3}
  Stops = {k1, k2}
  HasBuild = FALSE  HasStop = FALSE  HasIdle = FALSE
  MaxFaults = 1
  OpActions = {"kill", "restart", "start"}
  MaxOps = 2  WithShutdown = FALSE
SYMMETRY Symmetry
CHECK_DEADLOCK FALSE
INVARIANT IInv
INVARIANT ProcessSafe
INVARIANT ManualStopHolds
