CONSTANTS
  w = w
  Worker = w
  Clients = {w}
  Pages = {0, 1, 2, 3}
  Versions <- PageContents
  Blank <- NoSlots
  NoFrames = 2
  NoBCBs = 5
  Kinds = {"fix", "emptyfix", "flushAll"}
  PagesOf <- AllPages
  MaxHeld = 3
  Rows = {1, 2, 3}
  Gone = 0
  Capacity = 2
  FSMPage = 0
  DataPages <- TwoPages
  OtherPages = {3}
  Menu <- AllOrFill
  Extent <- OneOrTwo
  Births = {1, 2}
SPECIFICATION FairHSpec
CHECK_DEADLOCK FALSE
INVARIANTS GetPageReturnsPage LatchesLeft CleanIsOnDisk
PROPERTIES ImplementsRows CommandsAnswered FlushAllPersists
