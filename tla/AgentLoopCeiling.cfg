SPECIFICATION Spec
CONSTANTS
  Patches <- MCPatches
  NoPatch = NoPatch
  Replies <- MCReplies
  Durations <- MCDurations
  MaxIterations = 4
  MaxTotalTokens = 5
  MaxWallTime = 7
  RequestCap = 2
  Second = 2
INVARIANT
  HardTokenCeiling
