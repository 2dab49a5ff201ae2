SPECIFICATION FairSpec
CONSTANTS
  Runs <- MCRuns1
  Records <- MCRecords3
  PageSize = 1
  FullSource <- MCRuns1
  MayFault = FALSE
  MayLapse = TRUE
PROPERTIES CleanupSparesListed RunsFollowLifecycle 
