CONSTANTS
  Items = {"flag", "ptype"}
  Pairs <- FeedbackPairs
  CONSISTENT_THRESHOLD = 2
  Controlled = {0, 1}
  First = 0
  exploration_rounds = 1
  MaxRounds = 3
  Draws <- FeedbackDraws
  PathRank <- ItemRank
  Seeds = {"bad_signature", "transfer", "truncated"}
  Unconditional = {"transfer", "truncated"}
  SeedRank <- SeedRanks
  Requires <- SeedRequires
  MaxScan = 2
SPECIFICATION LoopSpec
INVARIANT LoopInv
INVARIANT MeiInv
INVARIANT BalancedSeeds
INVARIANT EveryNodeIsServed
PROPERTY StatusLadder
\* The campaign ends after MaxRounds rounds.
CHECK_DEADLOCK FALSE
