CONSTANTS
  Mutable = {0, 1}
  Producer = 0
  Followers = {2, 3}
  Successor = 2
  HandoverEvery = 2
  CycleEvery = 3
  Persistence = 2
  MaxHeight = 3
  MaxEpochs = 3
  MaxDeaths = 0
SPECIFICATION GethSpec
INVARIANT ConvergedAgree
CHECK_DEADLOCK FALSE
