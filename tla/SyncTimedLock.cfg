SPECIFICATION FairSpec
CONSTANTS
  Threads = {t1, t2}
  Idle = IDLE
  NULL = NULL
  Mutexes = {m1}
  Conds = {}
  Sems = {}
  Ops = {"lock", "tlock", "yield"}
  Timeouts = {1, 3}
  MaxSem = 2
  MaxCount = 2
  CSFirst = FALSE
  CVFirst = FALSE
  m1 = m1
  t1 = t1
  t2 = t2
PROPERTY TimedLockReturns
