SPECIFICATION Spec
CONSTANTS
  fa = fa
  fb = fb
  p1 = p1
  p2 = p2
  p3 = p3
  Family = {fa, fb}
  Struct <- Structs
  Page = {p1, p2, p3}
  Meta = 2
  PageEnd = 16
  None = None
SYMMETRY Symmetry
INVARIANTS
  TypeOK
  LayoutExact
PROPERTY
  PageOnlyWhenNeeded
