SPECIFICATION FairSpec
CONSTANTS
  Outputs <- MCNothing
  Fields <- MCNothing
  Values <- MCValues
  Options <- MCOptions
  Shown <- MCNothing
  Unknown = Unknown
  StaleTimeout = 0
  KeepaliveInterval = 4
  WatchdogTimeout = 5
  SettingsIntervals <- MCLongIntervals
  DeviceNameEnabled = TRUE
  QueryDelay = 1
  QueryRetry = 1
  MaxAttempts = 3
INVARIANTS
  TypeOK
  NoOrphanSession
  ServingCanWrite
  ConnectedIsHonest
  WatchdogRecyclesSilentLink
PROPERTIES
  NoBackToBackWrites
  ReconnectEndsSession
  SilentSessionEnds
