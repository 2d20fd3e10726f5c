SPECIFICATION SdkFairSpec
CONSTANTS
  Tx = {t1, t2}
  Polled = {t1}
  ChainIdOk = TRUE
  MaxBlock = 3
  MaxPolls = 1
INVARIANTS NothingIsMissed CreatorIsFirst
CHECK_DEADLOCK FALSE
