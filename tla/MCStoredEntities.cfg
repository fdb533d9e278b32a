SPECIFICATION Spec
CONSTANTS
  a = a
  b = b
  n = n
  m = m
  NoAddress = NoAddress
  Empty = Empty
  Unusable = Unusable
  None = None
  ConfigEnabled = FALSE
  ConfigMinutes = 9
  Addresses <- MCAddresses
  Names <- MCNames
  Choices <- MCChoices
  Configurations <- MCConfigurations
SYMMETRY Symmetry
INVARIANTS
  TypeOK
  NamesComeFromThisStation
PROPERTIES
  RestartKeepsValues
  RepeatsAreNotSaved
  UnusableNamesAreHarmless
