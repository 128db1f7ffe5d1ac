CONSTANTS
  PageSize = 4096
  FsmEntries = 3
  Leftovers <- SomeLeftovers
  Sizes = {1200, 2900}
  Stores = {"fits"}
  Layouts <- SmallLayouts
  MaxDeletes = 1
SPECIFICATION Spec
CHECK_DEADLOCK FALSE
INVARIANTS TypeOK PagesAccounted FsmsLinked RecordsApart
PROPERTIES ImplementsStore
