SPECIFICATION Spec
CONSTANTS
  f1 = f1
  f2 = f2
  none = none
  Failures <- MCFailures
  NoFailure = none
  MaxCount = 3
  MaxLog = 6
INVARIANTS
  CountsAreExact
  LatchIsOfSession
  LastErrorIsLatest
  SensorsAgree
