SPECIFICATION Spec
CONSTANTS
  root = root
  ha = ha
  hb = hb
  ka = ka
  kb = kb
  zero = zero
  x = x
  y = y
  z = z
  Freed = Freed
  Root = root
  Key <- Keys
  Default = zero
  Prefix <- LinkOnly
  InitPrefixes <- OwnOnly
  Results <- Near
  AttachedNodes = {hb}
  OtherArea = {ha}
  Inf = 20
  MaxNh = 2
  MaxCmds = 5
INVARIANT
  InstalledAreCurrent
CHECK_DEADLOCK FALSE
