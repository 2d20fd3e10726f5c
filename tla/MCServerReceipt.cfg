\* The receipt of the second operation of a bundle.
SPECIFICATION ServerSpec
CONSTANTS
  UserOp <- MCOps
  Client = {c1}
  Timer = {t1}
  Paymaster = {}
  Factory = {}
  Absent = Absent
  Unread = Unread
  Deposit <- MCDeposit
  PoolSizes = {0, 1}
  OtherBundlers = TRUE
  DebugRpc = TRUE
  Batch <- MCBatch
  Null = Null
  Rip7560 = FALSE
  Receipt <- MCReceipt
PROPERTY OnlyOwnLogs
