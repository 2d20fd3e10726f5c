SPECIFICATION ValidationSpec
CONSTANTS
  Unit = 320
  Config <- MCConfig
  UseEip7623 = TRUE
  Contracts = {k1}
  Ops <- MCOps
  Modes = {"native", "unsafe"}
  Windows <- MCWindows
  Verifications = {20000, 90000, 300000, 800000}
  MaxVerification = 500000
  Future = 1
  Forever = 99
  MaxTime = 2
  MaxVersion = 1
INVARIANTS AcceptedInTime ModifiedCodeNoticed RefusedWithReason EarlyRefusalIsFinal
CHECK_DEADLOCK FALSE
