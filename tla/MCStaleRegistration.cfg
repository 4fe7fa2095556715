SPECIFICATION Spec
CONSTANTS
  ControlServersCount = 1
  Servers = {s1, s2}
  Forgetful = {}
  RetryCounts <- MCRetryCounts
INVARIANT RegisteredMeansHeld
