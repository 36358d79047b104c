SPECIFICATION Spec
CONSTANTS
  NDesigns = 2
  Mutants = {"m1", "m2", "m3"}
  Sources = {"s1", "s2"}
  Candidates <- MCCandidates
  Natures <- MCNatures
  MaxRuns = 3
  NoFile = NoFile
INVARIANTS
  AssertionHolds
  TasksWhole
  DecisionsTrue
  RecordsMatchFiles
  PromotionsTrue
