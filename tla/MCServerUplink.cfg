SPECIFICATION Spec
CONSTANTS
  Servers <- MCServers
  Tors <- MCTors
  Names <- MCNames
  Ports <- MCPorts
  Views <- MCViews
  KnownServers <- MCKnownServers
  GraphOwner <- MCGraphOwner
  PageSize = 1
  None = "none"
  MayFault = TRUE
  MayLapse = TRUE
INVARIANTS TypeOK SucceedsWithItsLease
PROPERTIES PublishedUplinks RunsFollowLifecycle
