SPECIFICATION FairSpec
CONSTANTS
  Servers <- MCServers
  Tors <- MCTors
  Names <- MCNames
  Ports <- MCPorts
  Views <- MCTwoViews
  KnownServers <- MCKnownServers
  GraphOwner <- MCGraphOwner
  PageSize = 2
  None = "none"
  MayFault = FALSE
  MayLapse = TRUE
PROPERTIES UplinkRunEnds
