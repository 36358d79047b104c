SPECIFICATION FairSpec
CONSTANTS
  Tasks <- MCTasks
  ArmLists <- MCArmLists
  Keys = {m1, m2}
  Settings = {s1}
  Verdicts = {"PLAUSIBLE", "ERROR"}
  MaxLaunches = 3
  Corpora <- MCCorpora
  DesignOrder <- MCDesignOrder
  HomeOf <- MCHomeOf
  FormalK <- MCFormalK
  Generates <- MCGenerates
  MaxForges = 1
  MaxScripts = 2
  MaxCommits = 1
  KeepLists <- MCKeepLists
  OldGolden <- MCOldGolden
  DesignsByName <- MCDesignsByName
  Example = "s1"
  PerDesign = 2
  Checks = {"fsm_005", "C2"}
  Measured = {"REFUTED", "INDETERMINATE"}
  MaxHarnessRuns = 2
INVARIANTS
  SummaryAgrees
  PageCountsAgree
  PageOfCommit
  RatesOrdered
  ReportsTrue
  PassedIsReproduced
PROPERTIES
  KeepsCompleted
  LaunchEnds
