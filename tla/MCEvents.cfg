\* Scans that overlap, beside the live listener, while operations come and go.
SPECIFICATION EventsFairSpec
CONSTANTS
  Spelling = {1, 2, 3, 4}
  Lower <- MCLower
  Absent = Absent
  WhiteList = {}
  BlackList = {}
  Staked = {2}
  MinInclusionDenominator = 10
  ThrottlingSlack = 10
  BanSlack = 50
  BanOpsSeenPenalty = 10000
  SameSenderMempoolCount = 4
  SameUnstakedEntityMempoolCount = 10
  InclusionRateFactor = 10
  MaxInclusionBonus = 10000
  DebugRpc = FALSE
  MaxOps = 4
  UserOp <- MCUserOp
  ThrottledEntityMempoolCount = 4
  SkipValidation = {FALSE}
  Scanner = {s1, s2}
  ScanWindow = 0
  MaxBlock = 2
INVARIANTS DeliveredAreCounted
PROPERTIES IncludedLeaves
CHECK_DEADLOCK FALSE
