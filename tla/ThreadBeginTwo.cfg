SPECIFICATION Spec
CONSTANTS
  Main = m
  Thread = {m, t1, t2, t3}
  Creator = {m, t1}
  Ender = {}
  NULL = NULL
INVARIANTS BeginFindsTid
CHECK_DEADLOCK FALSE
