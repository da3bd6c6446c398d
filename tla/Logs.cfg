SPECIFICATION Spec
CONSTANTS
  Clients = {t1, t2, t3}
  Nobody = Nobody
SYMMETRY Symmetry
INVARIANTS
  
  
  SerialOrder
  ProfileExact
CHECK_DEADLOCK FALSE
