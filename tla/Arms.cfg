SPECIFICATION Spec
CONSTANTS
  Targets = {"chainmaker", "fisco", "geth", "aptos"}
  Nodes = {0, 1}
  Arms = {"fixed", "baseline", "varied"}
  Converge = 2
  MaxLimit = 2
  Leftovers = {FALSE, TRUE}
  SameBuild = TRUE
INVARIANTS
  TypeOK
  CoverageIsExplained
  SnapshotsAreKept
  BootIsNotCovered
  NodesEndWithTheRound
PROPERTIES
  CoverageNeverFalls
  OthersAreLeftAlone
CHECK_DEADLOCK FALSE
