SPECIFICATION Spec
CONSTANTS
  Runs <- MCRuns2
  Records <- MCRecords2
  PageSize = 2
  FullSource <- MCFull2
  MayFault = TRUE
  MayLapse = FALSE
INVARIANTS WorkerInvariant
 
