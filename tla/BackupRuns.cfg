SPECIFICATION Spec
CONSTANTS
  ra = ra
  rb = rb
  rc = rc
  rd = rd
  re = re
  NoNode = NoNode
  Node <- RingNodes
  Edge <- RingEdges
  Src <- RingSrc
  Dst <- RingDst
  Twin <- RingTwin
  Lsp <- NoLsp
  Phys <- NoPhys
  Inf = 100
  Wrap = 130
  Networks <- RingAll
  ConfEdges <- RingConf
  LinkMetrics = {2}
  MaxCmds = 3
INVARIANTS
  TypeOK
  BackupsProtect
  BackupsOfEachDestination
CHECK_DEADLOCK FALSE
