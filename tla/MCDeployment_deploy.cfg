SPECIFICATION FairSpec
CONSTANTS
  Msgs = {m1, m2}
  MaxFaults = 3
  MaxOutside = 2
INVARIANTS NothingLost ReceiptIsHonest
PROPERTIES DrainIsReal Reopens
CHECK_DEADLOCK FALSE
