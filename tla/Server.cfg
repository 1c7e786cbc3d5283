SPECIFICATION FairServerSpec
CONSTANTS
  r1 = r1  r2 = r2  t1 = t1  t2 = t2  a1 = a1  a2 = a2
  Requests = {r1, r2}
  TCPServers = {t1, t2}
  Apps = {a1, a2}
  StartUp = 2
  TearDown = 3
CHECK_DEADLOCK FALSE
INVARIANT ServerInv
INVARIANT TornDown
INVARIANT CleanExit
PROPERTY SignalExits
