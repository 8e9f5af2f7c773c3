SPECIFICATION Spec
CONSTANTS
  Ids = {i1, i2}
  Sources = {s1}
  Targets = {g1}
  Threads = {}
  Turns = {u1}
  Pendings = {TRUE, FALSE}
  Ops = {o1, o2}
  SendOutcomes = {"succeeded", "explicit_failure", "ambiguous"}
  Damageable = {i2}
  None = None
  MaxTime = 4
  PayloadRetention = 1
  ResultRetention = 2
  HistoryRetention = 3
  MaxRecords = 2
  MaxTaskBytes = 1
  MaxReplyBytes = 0
  MaxResultBytes = 3
  MaxAttempts = 2
INVARIANTS SentAtMostOnce OneFatePerSource RestartSafe
PROPERTIES ImplementsLifecycle RestartSettlesDelivery
