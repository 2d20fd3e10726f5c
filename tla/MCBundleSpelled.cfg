\* One account and one paymaster in two spellings.
SPECIFICATION BundleSpec
CONSTANTS
  Spelling = {1, 101, 2, 3, 103}
  Lower <- MCLower
  Absent = Absent
  WhiteList = {}
  BlackList = {}
  Staked = {1}
  MinInclusionDenominator = 1
  ThrottlingSlack = 2
  BanSlack = 3
  BanOpsSeenPenalty = 100
  SameSenderMempoolCount = 2
  SameUnstakedEntityMempoolCount = 2
  InclusionRateFactor = 1
  MaxInclusionBonus = 10
  DebugRpc = FALSE
  MaxOps = 300
  UserOp <- MCSpelled
  ThrottledEntityMempoolCount = 4
  SkipValidation = {FALSE}
  MaxBundleGas = 10
  MinBaseFee = 0
  RequestMaxBundleGas = 0
  RequestMaxBundleSize = 0
  ThrottledEntityBundleCount = 0
  ConditionalRpc = FALSE
  ConcurrentSubmit = FALSE
  Reasons = {"AA1", "AA2", "AA3", "other"}
  Balances = {1}
  Authorization <- MCAuth
INVARIANTS OnePerSender PaymasterSolvent CrashedStayOut
