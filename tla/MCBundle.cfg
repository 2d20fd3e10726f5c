\* One bundle at a time; clients wait for the mutex it holds.
SPECIFICATION BundleSpec
CONSTANTS
  Spelling = {1, 2, 3, 4}
  Lower <- MCLower
  Absent = Absent
  WhiteList = {}
  BlackList = {}
  Staked = {1, 4}
  MinInclusionDenominator = 1
  ThrottlingSlack = 2
  BanSlack = 3
  BanOpsSeenPenalty = 100
  SameSenderMempoolCount = 2
  SameUnstakedEntityMempoolCount = 2
  InclusionRateFactor = 1
  MaxInclusionBonus = 10
  DebugRpc = FALSE
  MaxOps = 300
  UserOp <- MCSponsored
  ThrottledEntityMempoolCount = 4
  SkipValidation = {FALSE}
  MaxBundleGas = 10
  MinBaseFee = 0
  RequestMaxBundleGas = 0
  RequestMaxBundleSize = 3
  ThrottledEntityBundleCount = 0
  ConditionalRpc = FALSE
  ConcurrentSubmit = FALSE
  Reasons = {"AA1", "AA2", "AA3", "other"}
  Balances = {4, 6}
  Authorization <- MCAuth
INVARIANTS BundleTypeOK OnePerSender StorageIsolation PaymasterSolvent AuthConsistent NotBundledAgain
