SPECIFICATION MCSpec
CONSTANTS
  Chosen = {"arc", "cs"}
  e1 = e1
  e2 = e2
  e3 = e3
  Entry = {e1, e2, e3, e4, e5, e6, e7}
  C = 3
  Bulk = 2
  Scale = 1
SYMMETRY Alike
INVARIANTS
  ListsAgree
  CsSound
PROPERTY CacheSpec
