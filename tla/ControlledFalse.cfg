CONSTANTS
  Controlled = {0}
  stall_windows = 3
  MaxLedger = 5
SPECIFICATION ControlledSpec
PROPERTY ControlledStallIsReal
