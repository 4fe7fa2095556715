SPECIFICATION Spec
CONSTANTS
  SecondsPerMinute = 1
  MinutesPerHour = 2
  ControlServersCount = 1
  Servers = {s1}
  Forgetful = {}
  RetryCounts <- MCRetryCounts
  Networks = {n1}
  NoNetwork = NoNetwork
  ConnectTries = 2
  Configs <- MCConfigs
  ControlServerStep = 2
  RetryMinutes <- MCRetryMinutes
  Requests = {"configLoad", "sysRestart", "power"}
INVARIANTS TypeOK NobodyRegisteredInWindow HandlerHoldsFlag
PROPERTIES KeepsStation DisabledUntilWindow
