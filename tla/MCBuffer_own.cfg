CONSTANTS
  c1 = c1
  c2 = c2
  Clients = {c1, c2}
  Pages = {0, 2}
  Versions = {0, 1}
  Blank = 0
  NoFrames = 2
  NoBCBs = 4
  Kinds = {"fix", "emptyfix", "reset"}
  PagesOf <- OwnPages
  MaxHeld = 1
SPECIFICATION Spec
INVARIANTS OneBCBPerPage FramesOwnedOnce BCBsConserved NoAbort
PROPERTIES ImplementsStore
