SPECIFICATION MCSpec
CONSTANTS
  Main = m
  Thread = {m, t1, t2, t3}
  Creator = {m, t1}
  Ender = {t1, t2}
  NULL = NULL
INVARIANTS
  
  QueuesSound

  
