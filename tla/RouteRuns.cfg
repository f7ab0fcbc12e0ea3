SPECIFICATION Spec
CONSTANTS
  root = root
  ha = ha
  hb = hb
  ka = ka
  kb = kb
  zero = zero
  x = x
  y = y
  z = z
  Freed = Freed
  Root = root
  Key <- Keys
  Default = zero
  Prefix <- Mixed
  InitPrefixes <- MixedInit
  Results <- Reaches
  AttachedNodes = {hb}
  OtherArea = {ha}
  Inf = 20
  MaxNh = 2
  MaxCmds = 5
INVARIANTS
  TypeOK
  RoutesExact
  RibFollowsRoutes
  StopsExplained
PROPERTY
  OtherLevelKept
CHECK_DEADLOCK FALSE
