SPECIFICATION Spec
CONSTANTS
  Idle = IDLE
  NULL = NULL
INVARIANTS
  NoWakeupLost
  PolicyCountsExact
  
  RoundsComplete
  LineupReleases
  
  
  RegionsTracked
  
