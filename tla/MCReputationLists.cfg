\* The config lists checksummed addresses.
SPECIFICATION RepSpec
CONSTANTS
  Spelling = {1, 101, 2, 102}
  Lower <- MCLower
  Absent = Absent
  WhiteList = {101}
  BlackList = {102}
  Staked = {}
  MinInclusionDenominator = 2
  ThrottlingSlack = 1
  BanSlack = 2
  BanOpsSeenPenalty = 6
  SameSenderMempoolCount = 2
  SameUnstakedEntityMempoolCount = 2
  InclusionRateFactor = 2
  MaxInclusionBonus = 2
  DebugRpc = FALSE
  MaxOps = 8
INVARIANTS WhiteListedAlwaysOK BlackListedAlwaysBanned
