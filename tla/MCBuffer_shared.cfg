CONSTANTS
  c1 = c1
  c2 = c2
  Clients = {c1, c2}
  Pages = {0, 1}
  Versions = {0}
  Blank = 0
  NoFrames = 1
  NoBCBs = 2
  Kinds = {"fix", "emptyfix", "reset", "flushAll"}
  PagesOf <- AllPages
  MaxHeld = 1
SPECIFICATION Spec
SYMMETRY Symmetry
INVARIANTS TypeOK LatchInv
PROPERTIES HandleStable
