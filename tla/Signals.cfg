CONSTANTS
  Normal = {4, 5}
  Threshold = 2
  RestartEvery = 3
  MaxEvents = 4
  MaxRounds = 4
  Controlled = {0, 1}
  stall_windows = 3
  MaxLedger = 2
  Mutable = {0, 1}
  Producer = 0
  Followers = {2}
  Successor = 2
  HandoverEvery = 2
  CycleEvery = 3
  Persistence = 2
  MaxHeight = 2
  MaxEpochs = 3
  MaxDeaths = 1
SPECIFICATION Spec
INVARIANT StormInv
INVARIANT ControlledInv
INVARIANT GethInv
INVARIANT CollapseIsReal
PROPERTY BurstIsCaught
\* Fisco and geth campaigns end after their last round.
CHECK_DEADLOCK FALSE
