CONSTANTS
  numCPU = 1
  QUEUESIZE = 1
  Blocks <- TwoOne
  Decompress = FALSE
  Backlog = 20
  Faults = {}
SPECIFICATION Spec
INVARIANT OutputInOrder
