SPECIFICATION HSpec
CONSTANTS
  SecondsPerMinute = 1
  MinutesPerHour = 3
  ControlServersCount = 1
  Servers = {s1}
  Forgetful = {}
  RetryCounts <- MCRetryCounts
  Networks = {n1}
  NoNetwork = NoNetwork
  ConnectTries = 1
  Configs <- MCConfigs
  ControlServerStep = 1
  RetryMinutes <- MCRetryMinutes
  Requests = {"configLoad", "sysRestart", "power"}
INVARIANTS HTypeOK NoStaleRegistration RetriedEveryHour RetriedOnSchedule ZeroPeriodRestarts
