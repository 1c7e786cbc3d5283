SPECIFICATION ConfigSpec
CONSTANTS
  Root = "root"
  Canonical <- MCCanonical
  Disks <- MCDisks
  Inherited <- MCInherited
  EnvFile <- MCEnvFile
  WrapperPort = 3000
  Lower <- MCLower
  Unescape <- MCUnescape
  Requests <- MCRequests
CHECK_DEADLOCK FALSE
INVARIANT ConfigInv
INVARIANT LoadedExactly
INVARIANT EnvironmentLayered
INVARIANT MostSpecific
INVARIANT ForwardedFits
