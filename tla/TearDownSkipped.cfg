SPECIFICATION ServerSpec
CONSTANTS
  r1 = r1  t1 = t1  a1 = a1
  Requests = {r1}
  TCPServers = {t1}
  Apps = {a1}
  StartUp = 1
  TearDown = 2
CHECK_DEADLOCK FALSE
INVARIANT EveryTearDownRuns
