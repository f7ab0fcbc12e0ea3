SPECIFICATION Spec
CONSTANTS
  ra = ra
  rb = rb
  rc = rc
  rd = rd
  rf = rf
  rg = rg
  lan = lan
  NoNh = NoNh
  Node <- LadderNodes
  Edge <- LadderEdges
  Src <- LadderSrc
  Dst <- LadderDst
  Pseudo <- None
  Lsp <- None
  Phys <- NoPhys
  Inf = 20
  MaxNh = 3
  QSize = 5
  Networks <- LadderUnit
  LinkMetrics = {}
  MaxCmds = 1
INVARIANT
  NextHopsExact
CHECK_DEADLOCK FALSE
