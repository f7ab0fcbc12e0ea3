SPECIFICATION Spec
CONSTANTS
  Networks <- Checked
  Inf = 1000000
  Wrap = 1008000
  MaxNh = 16
  StackLimit = 8
  NewMetrics = {2}
  MaxCmds = 4
INVARIANTS
  TypeOK
  DetoursProtect
  DetoursArePostConvergence
  Covered
  LinkStacksFit
CHECK_DEADLOCK FALSE
