SPECIFICATION FairSpec
CONSTANTS
  SecondsPerMinute = 1
  MinutesPerHour = 2
  ControlServersCount = 1
  Servers = {s1}
  Forgetful = {s1}
  RetryCounts <- MCRetryCounts
  Networks = {n1}
  NoNetwork = NoNetwork
  ConnectTries = 2
  Configs <- MCConfigs
  ControlServerStep = 2
  RetryMinutes <- MCRetryMinutes
  Requests = {"setGPIO"}
PROPERTIES ServerReturns DeadServerNoticed LedGoesOut
