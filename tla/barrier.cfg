SPECIFICATION Spec
CONSTANTS
  k1 = k1
  Members <- MCMembers
  Paths <- MCPaths
  MaximumAge = 2
  Lifetimes = {2}
  MaxTime = 3
  MaxReports = 2
  MaxPolicies = 2
  MaxReboots = 1
  MaxRestarts = 1
  MaxRegressions = 1
INVARIANTS UsableMeansQuiet UsableWasQuiet NegativeRevokes
CHECK_DEADLOCK FALSE
