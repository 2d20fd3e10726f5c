\* One entity is enough for the backoff to raise a counter.
SPECIFICATION RepSpec
CONSTANTS
  Spelling = {1}
  Lower <- MCLower
  Absent = Absent
  WhiteList = {}
  BlackList = {}
  Staked = {}
  MinInclusionDenominator = 2
  ThrottlingSlack = 1
  BanSlack = 2
  BanOpsSeenPenalty = 6
  SameSenderMempoolCount = 2
  SameUnstakedEntityMempoolCount = 2
  InclusionRateFactor = 2
  MaxInclusionBonus = 2
  DebugRpc = FALSE
  MaxOps = 14
PROPERTY BackoffRaisesNothing
