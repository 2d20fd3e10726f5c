\* One scan at a time, with the live listener of runBundler.
SPECIFICATION EventsFairSpec
CONSTANTS
  Spelling = {1, 2, 3, 4}
  Lower <- MCLower
  Absent = Absent
  WhiteList = {}
  BlackList = {}
  Staked = {2}
  MinInclusionDenominator = 10
  ThrottlingSlack = 10
  BanSlack = 50
  BanOpsSeenPenalty = 10000
  SameSenderMempoolCount = 4
  SameUnstakedEntityMempoolCount = 10
  InclusionRateFactor = 10
  MaxInclusionBonus = 10000
  DebugRpc = FALSE
  MaxOps = 4
  UserOp <- MCUserOp
  ThrottledEntityMempoolCount = 4
  SkipValidation = {FALSE}
  Scanner = {s1}
  ScanWindow = 1
  MaxBlock = 3
\* Each of the three is violated; IncludedLeaves is what holds of the last.
INVARIANTS NoInclusionMissed NoInclusionCountedTwice
PROPERTIES EveryIncludedLeaves
CHECK_DEADLOCK FALSE
