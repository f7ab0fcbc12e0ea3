SPECIFICATION FairSpec
CONSTANTS
  ra = ra
  rb = rb
  rc = rc
  rd = rd
  rf = rf
  lan = lan
  NoItem = NoItem
  Item <- Nodes
  QSize = 2
  Edge <- Edges
  Src <- EdgeSrc
  Dst <- EdgeDst
  Pseudo <- Pseudonodes
  Lsp <- Lsps
  MaxCmds = 3
INVARIANTS
  TypeOK
  ToldExactly
  ToldAreCurrent
  Synchronised
PROPERTIES
  ImplementsFifo
  FloodEnds
CHECK_DEADLOCK FALSE
