SPECIFICATION Spec
CONSTANTS
  None = None
  MaxDeviceNameLength = 3
  Placeholders <- MCPlaceholders
  StatusReports <- MCStatusReports
  SettingsReports <- MCSettingsReports
  StationNames <- MCStationNames
  Alphabet <- MCAlphabet
  MaxText <- MCMaxText
CHECK_DEADLOCK FALSE
INVARIANTS
  DamageIsDetected
  ReportsAreUnderstood
  Utf8IsUnicode
  NamesAreClean
  CommandsAreFrames
  NamesSurviveTheAir
  OutputsKeepTheirMeaning
PROPERTY RequestsChangeTheirField
