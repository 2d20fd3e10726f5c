\* The limits of a request for a bundle, and the end of each bundle.  With equal
\* slacks an entity is banned without having been throttled; with a throttled
\* paymaster no two operations of it share a bundle.
SPECIFICATION BundleFairSpec
CONSTANTS
  Spelling = {1, 2, 3, 4}
  Lower <- MCLower
  Absent = Absent
  WhiteList = {}
  BlackList = {}
  Staked = {2, 4}
  MinInclusionDenominator = 1
  ThrottlingSlack = 2
  BanSlack = 2
  BanOpsSeenPenalty = 100
  SameSenderMempoolCount = 2
  SameUnstakedEntityMempoolCount = 2
  InclusionRateFactor = 1
  MaxInclusionBonus = 10
  DebugRpc = FALSE
  MaxOps = 300
  UserOp <- MCSized
  ThrottledEntityMempoolCount = 4
  SkipValidation = {FALSE}
  MaxBundleGas = 3
  MinBaseFee = 11
  RequestMaxBundleGas = 3
  RequestMaxBundleSize = 0
  ThrottledEntityBundleCount = 0
  ConditionalRpc = FALSE
  ConcurrentSubmit = TRUE
  Reasons = {"AA3"}
  Balances = {2}
  Authorization <- MCAuth
INVARIANTS GasBounded CrashedStayOut SeenCoversPool
PROPERTY BundlingEnds
