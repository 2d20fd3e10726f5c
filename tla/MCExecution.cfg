\* Two clients and a timer; the deposit pays for one operation.
SPECIFICATION ExecSpec
CONSTANTS
  UserOp <- MCOps
  Client = {c1, c2}
  Timer = {t1}
  Paymaster = {9}
  Factory = {8}
  Absent = Absent
  Unread = Unread
  Deposit <- MCDeposit
  PoolSizes = {0, 2}
  OtherBundlers = TRUE
  DebugRpc = TRUE
PROPERTY AdmissionCovered
