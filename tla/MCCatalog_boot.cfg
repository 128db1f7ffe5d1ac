CONSTANTS
  m1 = m1
  m2 = m2
  None = None
  Masters = {m1, m2}
  Files = {}
  Devices = {}
  PartNames = {}
  SegNames = {}
  Rows = {}
  FirstPages = {1, 3}
  Allocs = {"sound"}
  MaxPartID = 3
  MaxSegID = 4
SPECIFICATION Spec
INVARIANT MasterInUse
CHECK_DEADLOCK FALSE
