SPECIFICATION Spec
CONSTANTS
  Networks <- OneWay
  Inf = 1000000
  Wrap = 1008000
  MaxNh = 16
  StackLimit = 8
  NewMetrics = {}
  MaxCmds = 2
INVARIANTS
  PostResultsPruned
CHECK_DEADLOCK FALSE
