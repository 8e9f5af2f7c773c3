SPECIFICATION Spec
CONSTANTS
  Jobs = {j1}
  Flushers = {f1, f2}
  Files = 1
  Images = 1
  Pages = 2
  Capacity = 2
  Limit = 1
  TTL = 2
  MaxNow = 3
  MaxNotices = 2
  MaxFaults = 1
SYMMETRY Symmetry
INVARIANTS OutcomeIsHonest NoticeKept NoticeSeenOnce
