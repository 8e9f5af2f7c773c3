SPECIFICATION Spec
CONSTANTS
  Callers = {menu, web}
  Runners = {run, run2}
  Workspaces = {w1, w2}
  Default = w1
  Threads = {t1, t2}
  Intents = {i1, i2, i3}
  None = None
  MaxCalls = 3
  MaxFaults = 1
  MaxCrashes = 1
SYMMETRY Symmetry
CHECK_DEADLOCK FALSE
INVARIANTS TypeOK NoOrphan CacheFollowsChanges NoRevival WorkKeepsItsConversation
PROPERTY NoStaleSelection
