\* Two connections, of which one only sends, a timer, batches of every kind of item.
SPECIFICATION ServerFairSpec
CONSTANTS
  UserOp <- MCOps
  Client = {c1, c2}
  Timer = {t1}
  Paymaster = {}
  Factory = {}
  Absent = Absent
  Unread = Unread
  Deposit <- MCDeposit
  PoolSizes = {0, 1}
  OtherBundlers = TRUE
  DebugRpc = TRUE
  Batch <- MCBatch
  Null = Null
  Rip7560 = FALSE
  Receipt <- MCReceipt
PROPERTIES BatchAnswered CheapestStaleLeaves OwnLogsKept
\* An item that is null ends the process.
CHECK_DEADLOCK FALSE
