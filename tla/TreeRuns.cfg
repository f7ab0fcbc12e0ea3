SPECIFICATION Spec
CONSTANTS
  Node <- Nodes
  KeysOf <- Distances
  Null = Null
  Nil = Nil
  Inf = 9
INVARIANTS
  TypeOK
  Balanced
  FlagsExact
  QueriesExact
PROPERTIES
  ImplementsQueue
CHECK_DEADLOCK FALSE
