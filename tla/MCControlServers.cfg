SPECIFICATION Spec
CONSTANTS
  ControlServersCount = 2
  Servers = {s1}
  Forgetful = {s1}
  RetryCounts <- MCRetryCounts
INVARIANTS TypeOK AskedInTurn
PROPERTY ImplementsMonitor
