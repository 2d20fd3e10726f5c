\* Replacements keep their entities; one account in two spellings.
SPECIFICATION MempoolSpec
CONSTANTS
  Spelling = {1, 101, 2, 3}
  Lower <- MCLower
  Absent = Absent
  WhiteList = {}
  BlackList = {}
  Staked = {2}
  MinInclusionDenominator = 1
  ThrottlingSlack = 0
  BanSlack = 1
  BanOpsSeenPenalty = 2
  SameSenderMempoolCount = 2
  SameUnstakedEntityMempoolCount = 1
  InclusionRateFactor = 1
  MaxInclusionBonus = 1
  DebugRpc = TRUE
  MaxOps = 3
  UserOp <- MCStableOps
  ThrottledEntityMempoolCount = 0
  SkipValidation = {FALSE}
INVARIANTS PoolTypeOK UniqueKeys CountsExact RoleSeparation SenderLimit
PROPERTIES UnstakedEntityLimit MempoolImplementsPool CrashBansEntity
