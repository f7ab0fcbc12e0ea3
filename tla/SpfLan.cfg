SPECIFICATION FairSpec
CONSTANTS
  ra = ra
  rb = rb
  rc = rc
  rd = rd
  rf = rf
  rg = rg
  lan = lan
  NoNh = NoNh
  Node <- LanNodes
  Edge <- LanEdges
  Src <- LanSrc
  Dst <- LanDst
  Pseudo <- LanPseudo
  Lsp <- LanLsp
  Phys <- LanPhys
  Inf = 20
  MaxNh = 3
  QSize = 2
  Networks <- LanAll
  LinkMetrics = {}
  MaxCmds = 1
INVARIANTS
  Inv
  ShortestPaths
  NextHopsSound
PROPERTY
  RunTerminates
CHECK_DEADLOCK FALSE
