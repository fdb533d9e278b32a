SPECIFICATION Spec
CONSTANTS
  Half = 8
  MaxLag = 2
  StaleTimeout = 2
  KeepaliveInterval = 3
  WatchdogTimeout = 5
  SettingsInterval = 4
  QueryDelay = 1
  QueryRetry = 3
  MaxAttempts = 2
VIEW View
INVARIANT FreshIsAlwaysRecent
