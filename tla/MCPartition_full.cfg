CONSTANTS
  M = 16
  W = 8
  Growths = {8}
  Devices = {}
  Releases = {"open", "full"}
  MaxSize = 40
  MaxReleases = 2
SPECIFICATION Spec
INVARIANTS HandedOutOnce
