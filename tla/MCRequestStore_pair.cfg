SPECIFICATION Spec
CONSTANTS
  Ids = {i1, i2}
  Sources = {s1, s2}
  Targets = {g1}
  Threads = {t1}
  Turns = {}
  Pendings = {FALSE}
  Ops = {}
  SendOutcomes = {"succeeded"}
  Damageable = {}
  None = None
  MaxTime = 2
  PayloadRetention = 1
  ResultRetention = 1
  HistoryRetention = 1
  MaxRecords = 2
  MaxTaskBytes = 1
  MaxReplyBytes = 1
  MaxResultBytes = 3
  MaxAttempts = 2
SYMMETRY Symmetry
INVARIANTS TypeOK OneActivePerSession RetryOnlyUnfinished QuotaKept MemoryFollowsDisk
