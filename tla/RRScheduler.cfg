SPECIFICATION FairSpec
CONSTANTS
  NTHREAD = 3
  Chan = {c1}
  MaxTimeout = 1
  Networked = {0, 2}
  Strategy = {"DEFAULT"}
  CriticalSectionFirst = FALSE
  Role <- RoleOf
  SpuriousWakeup = FALSE
  NULL = NULL
  IdleCond = IdleCond
  IdleMutex = IdleMutex
INVARIANTS TypeOK OneTurn HeadHoldsTurn NoLostThread NoMissedJoin IdleThreadServes
PROPERTIES ImplementsToken NoOvertaking ThreadsGoOn ProgEndTerminates
