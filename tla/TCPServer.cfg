SPECIFICATION FairTCPSpec
CONSTANTS
  c1 = c1  c2 = c2  c3 = c3
  Clients = {c1, c2, c3}
CHECK_DEADLOCK FALSE
INVARIANT BackendLeased
INVARIANT ShutdownComplete
PROPERTY ShutdownEnds
