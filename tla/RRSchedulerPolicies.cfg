SPECIFICATION Spec
CONSTANTS
  NTHREAD = 4
  Chan = {c1}
  MaxTimeout = 1
  Networked = {}
  Strategy = {"DEFAULT", "CURRENT_THREAD", "CURRENT_ROLE"}
  CriticalSectionFirst = FALSE
  Role <- RoleOf
  SpuriousWakeup = TRUE
  NULL = NULL
  IdleCond = IdleCond
  IdleMutex = IdleMutex
INVARIANTS
  SchedulerInv
PROPERTIES FirstComeFirstServed
CHECK_DEADLOCK FALSE
