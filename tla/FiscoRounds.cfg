SPECIFICATION FairSpec
CONSTANTS
  Targets = {"fisco"}
  Nodes = {0, 1}
  Arms = {"varied"}
  Converge = 2
  MaxLimit = 2
  Leftovers = {FALSE}
  SameBuild = FALSE
PROPERTIES
  LimitedArmsEnd
CHECK_DEADLOCK FALSE
