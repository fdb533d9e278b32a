SPECIFICATION Spec
CONSTANTS
  Outputs <- MCOutputs
  Fields <- MCFields
  Values <- MCValues
  Options <- MCOptions
  Shown <- MCShown
  Unknown = Unknown
  StaleTimeout = 1
  KeepaliveInterval = 2
  WatchdogTimeout = 3
  SettingsIntervals <- MCSettingsIntervals
  DeviceNameEnabled = FALSE
  QueryDelay = 0
  QueryRetry = 0
  MaxAttempts = 1
INVARIANTS
  SettingsFramesPreserveUntouched
  CommandsNeedFreshReports
  SettingsAvailableIsHonest
PROPERTY
  ImplementsWriter
