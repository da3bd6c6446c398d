SPECIFICATION Spec
INVARIANTS
  
  SpacesNest
  
CHECK_DEADLOCK FALSE
