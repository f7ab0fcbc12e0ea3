SPECIFICATION SrSpec
CONSTANTS
  Node <- Nodes
  Metric <- Links
  Egress <- Egresses
  Flaky <- Changing
  Toggled <- Switched
  Name <- Names
  Address <- Addresses
  Index <- Indices
  Starts <- Blocks
  Ranges <- Sizes
  Renumbered <- Moved
  DefaultStart = 100
  DefaultRange = 1000
  Inf = 20
  None = None
  Local = Local
  Pop = Pop
  MaxCommands = 6
  SrHeadStart = 2
  MaxSrCommands = 2
INVARIANTS
  SrTypeOK
  BuiltTunnelsDeliver
  StopsExplained
  PingsDeliver
  ConflictsResolved
CHECK_DEADLOCK FALSE
