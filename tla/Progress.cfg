SPECIFICATION Spec
CONSTANTS
  NULL = NULL
PROPERTIES
  RoundsEnd
  RegionsGoOn
  ChildGoesOn
