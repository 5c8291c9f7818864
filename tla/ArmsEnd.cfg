SPECIFICATION FairSpec
CONSTANTS
  Targets = {"chainmaker", "fisco", "geth", "aptos"}
  Nodes = {0, 1}
  Arms = {"baseline", "varied"}
  Converge = 2
  MaxLimit = 1
  Leftovers = {FALSE}
  SameBuild = TRUE
PROPERTIES
  ArmsEnd
CHECK_DEADLOCK FALSE
