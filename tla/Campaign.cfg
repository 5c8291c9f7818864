CONSTANTS
  Items = {"pool_type", "ratelimit"}
  Pairs = {"p"}
  CONSISTENT_THRESHOLD = 2
  Controlled = {0}
  First = 0
  exploration_rounds = 1
  Draws <- OneEach
  PathRank <- ItemRank
  Seeds = {"cert_race", "invoke", "txcount"}
  SeedRank <- ByName
  Unconditional = {"cert_race", "invoke", "txcount"}
  Requires <- NoRequirement
  MaxScan = 8
  Targets <- AllTargets
  Stock = Stock
  Arming = {"txcount"}
  Disarming = {"cert_race"}
  MaxRounds = 3
  MaxEnds = 1
SPECIFICATION Spec
INVARIANT CampaignInv
INVARIANT PlannedIdsAreNew
INVARIANT SavedPoolIsJudged
PROPERTY VerdictsAreEvidence
\* The campaign ends after MaxRounds rounds; a saved baseline cannot be read.
CHECK_DEADLOCK FALSE
