CONSTANTS
  m1 = m1
  p1 = p1
  r1 = r1
  na = na
  nb = nb
  sa = sa
  sb = sb
  x1 = x1
  None = None
  Masters = {m1}
  Files = {p1}
  Devices = {r1}
  PartNames = {na, nb}
  SegNames = {sa, sb}
  Rows = {x1}
  FirstPages = {1, 3, 5}
  Allocs = {"sound"}
  MaxPartID = 3
  MaxSegID = 4
SPECIFICATION Spec
SYMMETRY Alike
INVARIANTS TypeOK CatalogAgrees NeverHalfway SegmentsHavePages ObjectsCurrent
PROPERTIES ImplementsDatabase
CHECK_DEADLOCK FALSE
