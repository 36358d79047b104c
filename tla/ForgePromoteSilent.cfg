SPECIFICATION Spec
CONSTANTS
  NDesigns = 2
  Mutants = {"m1", "m2", "m3"}
  Sources = {"s1"}
  Candidates <- MCCandidates
  Natures <- MCNatures
  MaxRuns = 2
  NoFile = NoFile
INVARIANT
  PromotedAreCaught
