SPECIFICATION FairSpec
CONSTANTS
  ConnectAtBoot <- MCConnectAtBoot
  BootstrapDelay = 3
  NameWait = 2
INVARIANTS
  TypeOK
  OffStopsEverything
  ClaimsAwaitName
  StateFollowsPolicy
PROPERTIES
  KeepsSearching
  OffEndsConnection
