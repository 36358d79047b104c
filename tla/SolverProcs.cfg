SPECIFICATION FairSpec
CONSTANTS
  Batches <- MCBatches
  NChecks = 2
  Tasks <- MCTasks
  MaxCrashes = 1
  Interrupted = {"b1"}
  TaskkillWorks = TRUE
  HoldsPipe = {"sby"}
INVARIANTS
  VerdictSound
  OnlyOwnSolvers
PROPERTIES
  EveryCheckReturns
