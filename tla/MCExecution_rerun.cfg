SPECIFICATION Spec
CONSTANTS
  m1 = m1
  m2 = m2
  r1 = r1
  r2 = r2
  s1 = s1
  s2 = s2
  Messages = {m1}
  Retries = {r1}
  Source <- OneRetry
  Targets = {g1}
  Threads = {t1}
  None = None
  MaxFaults = 0
  MaxRestarts = 0
INVARIANT UnknownNotRerun
