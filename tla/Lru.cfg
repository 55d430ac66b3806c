SPECIFICATION Spec
CONSTANTS
  None = None
  Key = {k1, k2, k3}
  Value = {v1, v2}
  Thread = {t1, t2}
  Elem = {e1, e2, e3, e4, e5}
  Size = 2
  Buffer = 1
  MaxTtl = 1
SYMMETRY Symmetry
INVARIANTS
  TypeOK
  Coherent
  Bounded
PROPERTIES
  FreshLeaves
  ImplementsMap
