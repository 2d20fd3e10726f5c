\* Operations that the walk passes over, items that are null.
SPECIFICATION ServerFairSpec
CONSTANTS
  UserOp <- MCOps
  Client = {c1, c2}
  Timer = {t1}
  Paymaster = {}
  Factory = {}
  Absent = Absent
  Unread = Unread
  Deposit <- MCDeposit
  PoolSizes = {0, 1}
  OtherBundlers = TRUE
  DebugRpc = TRUE
  Batch <- MCBatch
  Null = Null
  Rip7560 = FALSE
  Receipt <- MCReceipt
PROPERTIES StaleLeaves EveryBatchAnswered
CHECK_DEADLOCK FALSE
