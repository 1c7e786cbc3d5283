SPECIFICATION ConfigSpec
CONSTANTS
  Root = "root"
  Canonical <- MCCanonical
  Disks <- MCServiceDisks
  Inherited <- MCInherited
  EnvFile <- MCEnvFile
  WrapperPort = 3000
  Lower <- MCLower
  Unescape <- MCUnescape
  Requests <- MCRequests
CHECK_DEADLOCK FALSE
INVARIANT ForwardedRooted
