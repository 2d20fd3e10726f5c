\* A replacement may bring in another paymaster, or one that is an account.
SPECIFICATION MempoolSpec
CONSTANTS
  Spelling = {1, 2, 3}
  Lower <- MCLower
  Absent = Absent
  WhiteList = {}
  BlackList = {}
  Staked = {2}
  MinInclusionDenominator = 1
  ThrottlingSlack = 0
  BanSlack = 1
  BanOpsSeenPenalty = 2
  SameSenderMempoolCount = 1
  SameUnstakedEntityMempoolCount = 1
  InclusionRateFactor = 1
  MaxInclusionBonus = 1
  DebugRpc = FALSE
  MaxOps = 3
  UserOp <- MCSwapOps
  ThrottledEntityMempoolCount = 0
  SkipValidation = {FALSE}
INVARIANTS CountsExact SenderLimit
PROPERTY BannedNotAdmitted
