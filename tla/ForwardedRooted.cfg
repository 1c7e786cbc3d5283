SPECIFICATION ConfigSpec
CONSTANTS
  Root = "root"
  Canonical <- MCCanonical
  Disks <- MCDisks
  Inherited <- MCInherited
  EnvFile <- MCEnvFile
  WrapperPort = 3000
  Lower <- MCLower
  Unescape <- MCUnescape
  Requests <- MCPlainRequests
CHECK_DEADLOCK FALSE
INVARIANT ForwardedRooted
