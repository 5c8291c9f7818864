CONSTANTS
  Normal = {0, 1}
  stall_windows = 3
  FailedReads <- RpcError
  ShortRounds = FALSE
  MaxHeight = 2
SPECIFICATION FairSpec
INVARIANT StallInv
PROPERTY StallIsReal
PROPERTY StopIsReported
