\* Operations of one cost: the cache is stale after an inclusion.
SPECIFICATION ExecSpec
CONSTANTS
  UserOp <- MCOps
  Client = {c1}
  Timer = {t1}
  Paymaster = {9}
  Factory = {8}
  Absent = Absent
  Unread = Unread
  Deposit <- MCDeposit
  PoolSizes = {0, 2}
  OtherBundlers = FALSE
  DebugRpc = TRUE
PROPERTY PaymasterCovered
