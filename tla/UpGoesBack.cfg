SPECIFICATION TuiSpec
CONSTANTS
  Services <- MCServices
  Targets <- MCTargets
  Texts = {"a", "c"}
  Matches <- MCMatches
  Code <- MCCode
  Inputs <- MCInputs
  Limit = 6
  FilterRoom = 1
  KeyRoom = 1
  Capacity = 4
  Height = 2
  Page = 2
  MaxOffset = 3
  Written <- MCWritten
CHECK_DEADLOCK FALSE
PROPERTY UpGoesBack
