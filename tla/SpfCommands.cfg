SPECIFICATION Spec
CONSTANTS
  ra = ra
  rb = rb
  rc = rc
  rd = rd
  rf = rf
  rg = rg
  lan = lan
  NoNh = NoNh
  Node <- SquareNodes
  Edge <- SquareEdges
  Src <- SquareSrc
  Dst <- SquareDst
  Pseudo <- None
  Lsp <- None
  Phys <- NoPhys
  Inf = 20
  MaxNh = 3
  QSize = 4
  Networks <- SquareAll
  LinkMetrics = {20}
  MaxCmds = 3
INVARIANTS
  Inv
  TablesExact
  NextHopsExact
PROPERTY
  SettledFinal
CHECK_DEADLOCK FALSE
