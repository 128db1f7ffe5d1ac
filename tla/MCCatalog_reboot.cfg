CONSTANTS
  m1 = m1
  sa = sa
  None = None
  Masters = {m1}
  Files = {}
  Devices = {}
  PartNames = {}
  SegNames = {sa}
  Rows = {}
  FirstPages = {1, 3, 5}
  Allocs = {"sound", "torn"}
  MaxPartID = 3
  MaxSegID = 4
SPECIFICATION Spec
INVARIANT SegmentsHavePages
CHECK_DEADLOCK FALSE
