SPECIFICATION FairSpec
CONSTANTS
  NTHREAD = 2
  Chan = {c1}
  MaxTimeout = 0
  Networked = {0}
  Strategy = {"DEFAULT"}
  CriticalSectionFirst = FALSE
  Role <- RoleOf
  SpuriousWakeup = TRUE
  NULL = NULL
  IdleCond = IdleCond
  IdleMutex = IdleMutex
PROPERTIES NextRunnableFinishes
CHECK_DEADLOCK FALSE
