SPECIFICATION Spec
CONSTANTS
  None = None  Operator = op  Shutdown = sd
  r1 = r1  op = op  sd = sd  a1 = a1  a2 = a2  k1 = k1  k2 = k2
  Requests = {r1}
  Callers = {r1, op}
  Stoppers = {op, sd}
  Attempts = {a1, a2}
  Stops = {k1, k2}
  HasBuild = FALSE  HasStop = TRUE  HasIdle = TRUE
  MaxFaults = 2
  OpActions = {"restart"}
  MaxOps = 1  WithShutdown = TRUE
SYMMETRY Symmetry
CHECK_DEADLOCK FALSE
INVARIANT ChannelsSafe
INVARIANT ShutdownHolds
PROPERTY FreshError
