SPECIFICATION Spec
CONSTANTS
  Scopes = {"dut", "all", "tb"}
  Divergences <- MCDivergences
  NoDivergence = NoDivergence
  AgentSignals = {"busy", "state"}
  MaxRuns = 3
  Paths <- MCPaths
  Base <- MCBase
  BaseNames <- MCBaseNames
  Bits = {"1"}
  MaxTime = 2
  MaxLines <- MCMaxLines
  Period = 2
  Signals <- MCSignals
  Lines <- MCLines
  Sources <- MCSources
  DEPTH = 8
  Words = {0, 1}
  BITS = 8
  Bytes <- MCBytes
  LAST = 4
  Codes <- MCCodes
  Declared <- MCDeclared
  Groups <- MCGroups
INVARIANT
  RankUsesLastCall
