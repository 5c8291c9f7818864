CONSTANTS
  Normal = {4, 5}
  Threshold = 2
  RestartEvery = 3
  MaxEvents = 4
  MaxRounds = 4
SPECIFICATION StormSpec
INVARIANT BenignRoundsDoNotFire
CHECK_DEADLOCK FALSE
