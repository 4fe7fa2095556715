SPECIFICATION FairSpec
CONSTANTS
  Networks = {n1, n2}
  NoNetwork = NoNetwork
  ConnectTries = 2
  Configs <- MCConfigs
INVARIANTS TypeOK OldSettingsEndWithScan
PROPERTY Reconnects
