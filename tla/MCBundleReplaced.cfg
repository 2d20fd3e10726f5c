\* A replacement, with another paymaster, arrives while the operation fails.
SPECIFICATION BundleSpec
CONSTANTS
  Spelling = {1, 2, 3, 4}
  Lower <- MCLower
  Absent = Absent
  WhiteList = {}
  BlackList = {}
  Staked = {1, 4}
  MinInclusionDenominator = 1
  ThrottlingSlack = 3
  BanSlack = 4
  BanOpsSeenPenalty = 100
  SameSenderMempoolCount = 2
  SameUnstakedEntityMempoolCount = 2
  InclusionRateFactor = 1
  MaxInclusionBonus = 10
  DebugRpc = FALSE
  MaxOps = 300
  UserOp <- MCSwapping
  ThrottledEntityMempoolCount = 4
  SkipValidation = {FALSE}
  MaxBundleGas = 10
  MinBaseFee = 0
  RequestMaxBundleGas = 0
  RequestMaxBundleSize = 0
  ThrottledEntityBundleCount = 0
  ConditionalRpc = FALSE
  ConcurrentSubmit = TRUE
  Reasons = {"AA1", "AA2", "AA3", "other"}
  Balances = {1}
  Authorization <- MCAuth
INVARIANT SeenCoversPool
PROPERTY OnlyTheFailedLeaves
